---------------------------- MODULE DepositManager ----------------------------
(***************************************************************************)
(* The contract DepositManager (solidity/contracts/Deposit.sol): deposits, *)
(* their processing by the rollup contract, and forced withdrawal after a  *)
(* timeout.                                                                *)
(*                                                                         *)
(* A call that fails a require changes nothing and is no step.  A forced   *)
(* withdrawal calls its user back before it returns: until it returns or   *)
(* reverts, that user's code may call the contract again.  calls is the    *)
(* stack of the withdrawals that are waiting for their user; each entry is *)
(* the storage as it was before, which a revert brings back.               *)
(***************************************************************************)
EXTENDS Integers, Sequences, FiniteSets, Functions

CONSTANTS
    Users,          \* addresses that deposit
    Deployer,       \* the account that deployed the contract
    Contracts,      \* addresses that rollupContract may be set to
    NoContract,     \* address(0), which calls nothing
    Amounts,        \* values sent with a deposit
    Timeout,        \* FORCE_WITHDRAWAL_TIMEOUT
    MaxDeposits, MaxBlock, MaxDepth         \* bounds

ASSUME ManagerAssumption ==
    /\ Amounts \subseteq Nat \ {0}
    /\ Timeout \in Nat
    /\ NoContract \in Contracts
    /\ Deployer \notin Contracts
ASSUME ManagerBounds == MaxDeposits \in Nat /\ MaxBlock \in Nat /\ MaxDepth \in Nat

VARIABLES
    store,          \* storage, balance and payments of the contract
    calls,          \* storages to return to, one for each waiting withdrawal
    block           \* block.number

managerVars == <<store, calls, block>>

DepositInfo == [user : Users, amount : Nat, blockNumber : Nat, withdrawn : BOOLEAN]

Storage ==
    [deposits : Seq(DepositInfo),       \* deposits[1 .. depositCount]
     depositProcessed : SUBSET Nat,
     rollupContract : Contracts,
     balance : Int,
     paid : Seq(Nat)]                   \* history: the deposits paid back

Ids(s) == DOMAIN s.deposits

\* constructor, with the placeholder address of Deploy.s.sol
ManagerInit ==
    /\ store = [deposits |-> <<>>, depositProcessed |-> {}, rollupContract |-> NoContract,
                balance |-> 0, paid |-> <<>>]
    /\ calls = <<>>
    /\ block = 0

---------------------------------------------------------------------------
(* Seeded defects, which the properties must reject.                       *)

MarkableAlsoWithdrawn(s, id) == id \in Ids(s) /\ id \notin s.depositProcessed
PayWithoutMark(s, id) ==
    [s EXCEPT !.balance = @ - s.deposits[id].amount, !.paid = Append(@, id)]

---------------------------------------------------------------------------
(* The calls.                                                              *)

\* The code of a user runs between transactions and while it is being paid.
Deposit(u, amount) ==
    /\ Len(store.deposits) < MaxDeposits
    /\ store' = [store EXCEPT
         !.deposits = Append(@, [user |-> u, amount |-> amount, blockNumber |-> block,
                                 withdrawn |-> FALSE]),
         !.balance = @ + amount]
    /\ UNCHANGED <<calls, block>>

\* What markDepositsProcessed requires of each id.
Markable(s, id) ==
    /\ id \in Ids(s)
    /\ id \notin s.depositProcessed
    /\ ~ s.deposits[id].withdrawn

\* markDepositsProcessed: all ids or none; a list that names one id twice is
\* refused, so it is a set.
MarkDepositsProcessed(caller, ids) ==
    /\ caller = store.rollupContract
    /\ caller # NoContract
    /\ \A id \in ids : Markable(store, id)
    /\ store' = [store EXCEPT !.depositProcessed = @ \cup ids]
    /\ UNCHANGED <<calls, block>>

\* What forceWithdraw requires of the deposit; canForceWithdraw.
Forceable(s, id) ==
    /\ id \in Ids(s)
    /\ ~ s.deposits[id].withdrawn
    /\ id \notin s.depositProcessed
    /\ block >= s.deposits[id].blockNumber + Timeout

\* Mark as withdrawn, then send.
PayBack(s, id) ==
    [s EXCEPT !.deposits[id].withdrawn = TRUE,
              !.balance = @ - s.deposits[id].amount,
              !.paid = Append(@, id)]

\* forceWithdraw up to the transfer, which the user's code receives.
ForceWithdraw(u, id) ==
    /\ Len(calls) < MaxDepth
    /\ Forceable(store, id)
    /\ store.deposits[id].user = u
    /\ store' = PayBack(store, id)
    /\ calls' = Append(calls, store)
    /\ UNCHANGED block

\* The user's code returns: forceWithdraw is over.
TransferSucceeds ==
    /\ calls # <<>>
    /\ calls' = SubSeq(calls, 1, Len(calls) - 1)
    /\ UNCHANGED <<store, block>>

\* The storage that a revert brings back.
Restored(s) == s

\* The user's code reverts: "Transfer failed" reverts forceWithdraw, and with it
\* every call made since it began.
TransferFails ==
    /\ calls # <<>>
    /\ store' = Restored(calls[Len(calls)])
    /\ calls' = SubSeq(calls, 1, Len(calls) - 1)
    /\ UNCHANGED block

UpdateRollupContract(caller, c) ==
    /\ caller \in {Deployer, store.rollupContract}
    /\ caller # NoContract
    /\ store' = [store EXCEPT !.rollupContract = c]
    /\ UNCHANGED <<calls, block>>

\* A block ends between transactions.
NewBlock ==
    /\ block < MaxBlock
    /\ calls = <<>>
    /\ block' = block + 1
    /\ UNCHANGED <<store, calls>>

UserStep ==
    \/ \E u \in Users :
          \/ \E amount \in Amounts : Deposit(u, amount)
          \/ \E id \in Ids(store) : ForceWithdraw(u, id)
    \/ TransferSucceeds
    \/ TransferFails

RollupStep == \E c \in Contracts, ids \in (SUBSET Ids(store)) \ {{}} : MarkDepositsProcessed(c, ids)

\* The deployer's account is no contract, so its calls are transactions of their
\* own; Rollup.sol, the other account that may, never calls updateRollupContract.
OwnerStep == calls = <<>> /\ \E c \in Contracts : UpdateRollupContract(Deployer, c)

ManagerNext == UserStep \/ RollupStep \/ OwnerStep \/ NewBlock

ManagerSpec == ManagerInit /\ [][ManagerNext]_managerVars

---------------------------------------------------------------------------
(* Properties.                                                             *)

Typed ==
    /\ store \in Storage
    /\ calls \in Seq(Storage)
    /\ block \in Nat

\* The variables have their types, and no payment overdraws the contract.
ManagerTypeOK == Typed /\ store.balance >= 0

\* No deposit is both credited by the rollup and paid back.
OneOutcome(s) == \A id \in Ids(s) : ~ (id \in s.depositProcessed /\ s.deposits[id].withdrawn)

\* No deposit is paid back twice, and those paid are exactly those withdrawn.
PaidOnce(s) ==
    /\ \A j, k \in DOMAIN s.paid : s.paid[j] = s.paid[k] => j = k
    /\ \A j \in DOMAIN s.paid : s.paid[j] \in Ids(s) /\ s.deposits[s.paid[j]].withdrawn
    /\ \A id \in Ids(s) : s.deposits[id].withdrawn => \E j \in DOMAIN s.paid : s.paid[j] = id

\* forceWithdraw and markDepositsProcessed exclude each other, also when a user
\* calls the contract while it is being paid, and when such a call reverts.
NoDoubleOutcome == OneOutcome(store)
NoDoublePayment == PaidOnce(store)

Unpaid(s) == {id \in Ids(s) : ~ s.deposits[id].withdrawn}

AmountOf(s) == [id \in Ids(s) |-> s.deposits[id].amount]

\* The balance is the sum of what was deposited and not paid back.
Covered(s) == s.balance = SumFunctionOnSet(AmountOf(s), Unpaid(s))

\* The contract holds what was deposited and not paid back: a withdrawal that
\* passes the checks never fails for want of funds.
Solvent == Covered(store)
=============================================================================
