-------------------------------- MODULE MCNode --------------------------------
(* Instances of Node for TLC. *)
EXTENDS Node, TLC

CONSTANTS t1, t2, t3, d1, a1, a2, a3, zero

SomeTransfers == {t1, t2, t3}
OneDeposit == {d1}

ThreeAddresses == {a1, a2, a3}
TwoFunded == a1 :> 2 @@ a2 :> 1
Ask(from, to, amount) == [from |-> from, to |-> to, amount |-> amount]

\* Each of the transfers of a1 can be paid for alone, both of them cannot; a3 is
\* known once the deposit has landed. A transfer of less than nothing passes the
\* account checks, but cannot be hashed.
SpendTwice == t1 :> Ask(a1, a2, 1) @@ t2 :> Ask(a1, a3, 2) @@ t3 :> Ask(a3, a1, -1)
Negative == {t3}
ToNew == d1 :> [account |-> a3, amount |-> 1]
=============================================================================
