--------------------------- MODULE MCDepositManager ---------------------------
(* Instances of DepositManager for TLC. *)
EXTENDS DepositManager, TLC

CONSTANTS u1, u2, rollup, address0

TwoUsers == {u1, u2}
RollupOnly == {rollup, address0}
OneOrTwo == {1, 2}
One == {1}
UsersAlike == Permutations(TwoUsers)
=============================================================================
