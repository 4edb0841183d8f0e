----------------------------- MODULE MCAccounts -----------------------------
(* Instances of Accounts for TLC. *)
EXTENDS Accounts, TLC

CONSTANTS a1, a2, a3, zero

ThreeAccounts == {a1, a2, a3}
TwoFunded == a1 :> 2 @@ a2 :> 1
ThreeFunded == a1 :> 2 @@ a2 :> 1 @@ a3 :> 3
Ask(from, to, amount, nonce) == [from |-> from, to |-> to, amount |-> amount, nonce |-> nonce]

\* Anybody sends to anybody, itself included, or withdraws; also less than nothing.
Anything == {Ask(f, t, m, n) : f \in ThreeAccounts, t \in ThreeAccounts \cup {zero},
                               m \in {-2, 2}, n \in {0, 1}}

\* Only transfers of one account to one other.
OneToAnother == {Ask(a1, a2, m, n) : m \in {1, 2}, n \in {0, 1}}
NoDeposits == {}
FreshAndKnown == {[account |-> a3, amount |-> 3], [account |-> a1, amount |-> 1]}
=============================================================================
