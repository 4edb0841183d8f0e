-------------------------------- MODULE Rollup --------------------------------
(***************************************************************************)
(* The contract Rollup (solidity/contracts/Rollup.sol): it accepts the     *)
(* proved batches one after the other and keeps a root for each.           *)
(*                                                                         *)
(* A journal is what the guest program commits: whether the batch was      *)
(* found good, the badge id, the state roots before and after, and the     *)
(* deposits it credited.  The verifier accepts the journals that were      *)
(* proved, good or not, and only those.  submitBatch is open to everyone   *)
(* and sees the hash of a journal only: the batch id is an argument of its *)
(* own, which nothing compares with the badge id.  keccak256 does not      *)
(* collide: a root is the triple that is hashed.                           *)
(***************************************************************************)
EXTENDS DepositManager

CONSTANTS
    Journals,       \* journals that the guest program commits, and proofs of them exist
    RollupAddress,  \* address(this)
    ZeroRoot        \* bytes32(0)

ASSUME RollupAssumption ==
    /\ RollupAddress \in Contracts \ {NoContract}
    /\ \A j \in Journals : j.success \in BOOLEAN /\ j.badgeId \in Nat /\ j.deposits \subseteq Nat

VARIABLES
    batchCount,
    currentRoot,
    roots,                      \* roots[1 .. batchCount]
    batchProcessedDepositIds,   \* one set for each batch
    accepted,                   \* history: the journal of each batch
    credited                    \* history: the deposits it credited that were there to credit

rollupVars == <<batchCount, currentRoot, roots, batchProcessedDepositIds, accepted, credited>>

Hash(oldRoot, journal, batchId) == <<oldRoot, journal, batchId>>

RollupInit ==
    /\ batchCount = 0
    /\ currentRoot = ZeroRoot
    /\ roots = <<>>
    /\ batchProcessedDepositIds = <<>>
    /\ accepted = <<>>
    /\ credited = <<>>

---------------------------------------------------------------------------
(* Seeded defects, which the properties must reject.                       *)

SequentialOrRepeated(batchId) == batchId \in {batchCount, batchCount + 1}
OldRootOfFirst(batchId) == ZeroRoot

---------------------------------------------------------------------------
(* submitBatch                                                             *)

SequentialId(batchId) == batchId = batchCount + 1

ExpectedOldRoot(batchId) == IF batchId = 1 THEN ZeroRoot ELSE roots[batchId - 1]

\* The deposits that submitBatch takes from a journal: a placeholder.
ProcessedDepositIds(j) == {}

\* Does submitBatch return, or revert. Whether the journal is one of success is
\* not looked at.
Acceptable(batchId, j) ==
    /\ SequentialId(batchId)
    /\ ProcessedDepositIds(j) # {} =>
          /\ store.rollupContract = RollupAddress
          /\ \A id \in ProcessedDepositIds(j) : Markable(store, id)

\* The deposits of a journal that the manager has and has not paid back.
Outstanding(j) == {id \in j.deposits \cap Ids(store) : ~ store.deposits[id].withdrawn}

\* A transaction of its own.
SubmitBatch(batchId, j) ==
    /\ calls = <<>>
    /\ Acceptable(batchId, j)
    /\ LET ids == ProcessedDepositIds(j)
           newRoot == Hash(ExpectedOldRoot(batchId), j, batchId)
       IN  /\ IF ids = {} THEN UNCHANGED managerVars
                          ELSE MarkDepositsProcessed(RollupAddress, ids)
           /\ currentRoot' = newRoot
           /\ roots' = Append(roots, newRoot)
           /\ batchCount' = batchId
           /\ batchProcessedDepositIds' = Append(batchProcessedDepositIds, ids)
           /\ accepted' = Append(accepted, j)
           /\ credited' = Append(credited, Outstanding(j))

---------------------------------------------------------------------------
(* Properties.                                                             *)

\* The root of a batch commits to that batch and to all before it.
RootsChain ==
    /\ Len(roots) = batchCount /\ Len(accepted) = batchCount
    /\ currentRoot = IF roots = <<>> THEN ZeroRoot ELSE roots[batchCount]
    /\ \A n \in DOMAIN roots :
          roots[n] = Hash(IF n = 1 THEN ZeroRoot ELSE roots[n - 1], accepted[n], n)
=============================================================================
