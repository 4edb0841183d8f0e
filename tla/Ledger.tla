-------------------------------- MODULE Ledger --------------------------------
(***************************************************************************)
(* What a rollup promises of its accounts: balances change by deposits and *)
(* by transfers that their sender can pay for, and each transfer uses one  *)
(* nonce.  Numbers are unbounded here.                                     *)
(***************************************************************************)
EXTENDS Naturals

CONSTANTS Addresses

VARIABLES account       \* [balance, nonce] of each address

Account == [balance : Nat, nonce : Nat]

LedgerInit == account \in [Addresses -> Account]

\* A deposit. How much comes in is for the deposits to say.
Credit(a) ==
    /\ account'[a].balance \in Nat
    /\ account'[a].balance >= account[a].balance
    /\ account' = [account EXCEPT ![a].balance = account'[a].balance]

\* A transfer to oneself costs a nonce and nothing else.
Pay(from, to) ==
    \E amount \in 0 .. account[from].balance :
       LET sent == [account EXCEPT ![from].balance = @ - amount, ![from].nonce = @ + 1]
       IN  account' = [sent EXCEPT ![to].balance = @ + amount]

LedgerNext == \E a \in Addresses : Credit(a) \/ \E b \in Addresses : Pay(a, b)

LedgerSpec == LedgerInit /\ [][LedgerNext]_account
=============================================================================
