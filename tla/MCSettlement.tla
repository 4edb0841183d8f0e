----------------------------- MODULE MCSettlement -----------------------------
(* Instances of Settlement for TLC. *)
EXTENDS Settlement, TLC

CONSTANTS u1, rollup, address0, r1, r2, r3

OneUser == {u1}
RollupOnly == {rollup, address0}
One == {1}
ThreeRuns == {r1, r2, r3}
TwoRuns == {r1, r2}
RunsAlike == Permutations(ThreeRuns)

J(id, old, new, deposits) ==
    [success |-> TRUE, badgeId |-> id, oldRoot |-> old, newRoot |-> new, deposits |-> deposits]

\* Two batches, of which the first credits a deposit, and the second batch again
\* as a sequencer makes it that was restarted and lost its tree.
TwoBatches == {J(1, 0, 1, {1}), J(2, 1, 2, {})}
Restarted == TwoBatches \cup {J(2, 0, 3, {})}

\* With a batch that the guest found bad.
AnyProved == Restarted \cup {[J(2, 1, 2, {}) EXCEPT !.success = FALSE]}
=============================================================================
