---------------------------- MODULE MCSequencer ----------------------------
(* Instances of Sequencer for TLC. *)
EXTENDS Sequencer, TLC

CONSTANTS t1, t2, d1

TwoTransfers == {t1, t2}
OneDeposit == {d1}
Nothing == {}

\* Transfers that are alike may be exchanged.
Alike == Permutations({t1, t2})
=============================================================================
