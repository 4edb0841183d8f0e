-------------------------- MODULE SequencerProofs --------------------------
(***************************************************************************)
(* Proofs about Sequencer: its types; that no transaction is in two        *)
(* blocks, that statuses agree with blocks and only move forward; that the *)
(* badges form one chain while nothing fails; that FILLEDUP triggers are   *)
(* earned.                                                                 *)
(***************************************************************************)
EXTENDS Sequencer, FiniteSetTheorems, TLAPS

---------------------------------------------------------------------------
(* Type correctness.                                                       *)

LEMMA QueryType ==
    ASSUME TypeOK, FindBatch
    PROVE  batch' \in Seq(Docs)
  BY DEF TypeOK, FindBatch, Candidates

\* Every reachable state gives every variable its type: in particular the
\* counter stays below BATCH_SIZE and a badge pointer never dangles.
LEMMA TypeInit == Init => TypeOK
  BY SizesAssumption DEF Init, TypeOK, Genesis, Badge, BadgeRecord, Statuses, Phases, Steps, Causes

LEMMA GenesisType == Genesis \in BadgeRecord
  BY DEF Genesis, Badge, BadgeRecord, Causes

LEMMA BadgeType ==
    ASSUME NEW n \in Nat, NEW p \in Nat, NEW txs \in Seq(Docs), NEW w \in Causes
    PROVE  Badge(n, p, txs, w) \in BadgeRecord
  BY DEF Badge, BadgeRecord

LEMMA BadgeFields ==
    ASSUME NEW b \in BadgeRecord
    PROVE  b.number \in Nat /\ b.prev \in Nat /\ b.txs \in Seq(Docs)
  BY DEF BadgeRecord

\* Appending a badge keeps the collection and every reference into it typed.
LEMMA AppendBadge ==
    ASSUME TypeOK, NEW b \in BadgeRecord, badges' = Append(badges, b)
    PROVE  /\ badges' \in Seq(BadgeRecord)
           /\ Len(badges') = Len(badges) + 1
           /\ DOMAIN badges' = 1 .. Len(badges) + 1
           /\ DOMAIN badges \subseteq DOMAIN badges'
           /\ Len(badges) + 1 \in DOMAIN badges'
           /\ badges'[Len(badges) + 1] = b
           /\ \A i \in DOMAIN badges : badges'[i] = badges[i]
  BY DEF TypeOK

LEMMA TypeNext == TypeOK /\ [Next]_vars => TypeOK'
<1> SUFFICES ASSUME TypeOK, [Next]_vars PROVE TypeOK'
  OBVIOUS
<1> USE SizesAssumption DEF TypeOK, Statuses, Phases, Steps, Causes, dbVars, webVars,
          timerVars, blockVars, envVars
<1>1. CASE Boot
  BY <1>1, GenesisType, AppendBadge DEF Boot
<1>2. CASE PointerLands
  BY <1>2 DEF PointerLands
<1>3. CASE Crash
  BY <1>3, GenesisType DEF Crash, DropBatch
<1>4. CASE Tick
  BY <1>4 DEF Tick
<1>5. ASSUME NEW t \in Transfers, ClientStep(t) PROVE TypeOK'
  <2>1. t \in Docs
    BY DEF Docs
  <2>2. CASE ReceiveSubmission(t)
    BY <2>1, <2>2 DEF ReceiveSubmission
  <2>3. CASE InsertTransaction(t)
    BY <2>1, <2>3 DEF InsertTransaction, VerdictOf
  <2>4. CASE InsertTransactionFails(t)
    <3>1. status' \in [Docs -> Statuses]
      BY <2>1, <2>4 DEF InsertTransactionFails, VerdictOf
    <3>2. phase' \in [Docs -> Phases]
      BY <2>1, <2>4 DEF InsertTransactionFails
    <3>3. faults' \in Nat
      BY <2>4 DEF InsertTransactionFails, Fault
    <3>4. UNCHANGED <<receivedAt, badges, curr, counter, queue, timerVars, pointer, pc, blockVars,
                      clock, crashes>>
      BY <2>4 DEF InsertTransactionFails
    <3> QED
      BY <3>1, <3>2, <3>3, <3>4
  <2>5. CASE CountSubmission(t)
    <3>1. counter' \in 0 .. BATCH_SIZE - 1
      BY <2>5 DEF CountSubmission, NextCount, FillsBatch
    <3>2. queue' \in Seq(Causes)
      BY <2>5 DEF CountSubmission
    <3>3. phase' \in [Docs -> Phases]
      BY <2>1, <2>5 DEF CountSubmission
    <3> QED
      BY <2>5, <3>1, <3>2, <3>3 DEF CountSubmission
  <2> QED
    BY <1>5, <2>2, <2>3, <2>4, <2>5 DEF ClientStep
<1>6. ASSUME NEW d \in Deposits, ListenerStep(d) PROVE TypeOK'
  <2>1. d \in Docs
    BY DEF Docs
  <2>2. CASE ListenerHandle(d)
    BY <2>1, <2>2 DEF ListenerHandle
  <2>3. CASE DepositLands(d)
    BY <2>1, <2>3 DEF DepositLands
  <2>4. CASE DepositInsertFails(d)
    BY <2>1, <2>4 DEF DepositInsertFails, Fault
  <2> QED
    BY <1>6, <2>2, <2>3, <2>4 DEF ListenerStep
<1>7. CASE ProduceTimeout
  BY <1>7 DEF ProduceTimeout
<1>8. CASE ConsumerStep
  <2>1. CASE ConsumerTake
    BY <2>1 DEF ConsumerTake
  <2>2. CASE FindBatch
    BY <2>2, QueryType DEF FindBatch
  <2>3. CASE MarkIncluded
    BY <2>3 DEF MarkIncluded, WithStatus
  <2>4. CASE StampBatch
    BY <2>4 DEF StampBatch
  <2>5. CASE ApplyOk
    BY <2>5 DEF ApplyOk
  <2>6. CASE ApplyFailed
    BY <2>6 DEF ApplyFailed, WithStatus, KeptAfterFailure
  <2>7. CASE BuildBlock
    <3>1. curr[1] \in DOMAIN badges /\ curr[1] \in Nat
      BY <2>7 DEF BuildBlock, BlockBuildable
    <3>2. badges[curr[1]] \in BadgeRecord
      BY <3>1
    <3>3. NextNumber \in Nat
      BY <3>2, BadgeFields DEF NextNumber
    <3>4. Badge(NextNumber, curr[1], kept, cause) \in BadgeRecord
      BY <3>1, <3>3, BadgeType
    <3> QED
      BY <2>7, <3>4 DEF BuildBlock
  <2>8. CASE LoseBlock
    BY <2>8, GenesisType DEF LoseBlock, DropBatch
  <2>9. CASE InsertBadge
    BY <2>9, AppendBadge DEF InsertBadge
  <2>10. CASE AdvancePointer
    <3>1. curr' \in Seq(Nat) /\ \A i \in DOMAIN curr' : curr'[i] \in DOMAIN badges
      <4>1. CASE curr = <<>>
        <5>1. curr' = curr
          BY <2>10, <4>1 DEF AdvancePointer
        <5> QED
          BY <5>1
      <4>2. CASE curr # <<>>
        <5>1. 1 \in DOMAIN curr
          BY <4>2
        <5>2. Len(badges) \in DOMAIN badges /\ Len(badges) \in Nat
          BY <5>1
        <5> QED
          BY <2>10, <5>1, <5>2 DEF AdvancePointer, NewBadgeId
      <4> QED
        BY <4>1, <4>2
    <3>2. /\ pc' = "idle"
          /\ DropBatch
          /\ UNCHANGED <<status, receivedAt, badges, webVars, queue, timerVars, pointer, envVars>>
      BY <2>10 DEF AdvancePointer
    <3> QED
      BY <3>1, <3>2, GenesisType DEF DropBatch
  <2> QED
    BY <1>8, <2>1, <2>2, <2>3, <2>4, <2>5, <2>6, <2>7, <2>8, <2>9, <2>10 DEF ConsumerStep
<1>9. CASE ConsumerFault
  <2>1. CASE FindFails
    BY <2>1 DEF FindFails, Fault
  <2>2. CASE MarkFails
    BY <2>2 DEF MarkFails, Fault, WithStatus
  <2>3. CASE BlockStepFails
    BY <2>3, GenesisType DEF BlockStepFails, Fault, DropBatch
  <2> QED
    BY <1>9, <2>1, <2>2, <2>3 DEF ConsumerFault
<1>10. CASE EndOfRun \/ UNCHANGED vars
  BY <1>10 DEF EndOfRun, vars
<1> QED
  BY <1>1, <1>2, <1>3, <1>4, <1>5, <1>6, <1>7, <1>8, <1>9, <1>10 DEF Next

THEOREM TypeCorrect == Spec => []TypeOK
  BY TypeInit, TypeNext, PTL DEF Spec

---------------------------------------------------------------------------
(* The inductive invariant.                                                *)

\* A document that no handler has inserted yet is absent, so an insertion
\* never overwrites a status; only signed transfers get past INVALID.
StoredOnce ==
    /\ \A d \in Docs : phase[d] \in {"new", "received"} => status[d] = "absent"
    /\ \A t \in Transfers : status[t] \in {"pending", "included", "failed"} => t \in Signed

\* Between find() and the block, the batch is free of duplicates and holds no
\* transaction of an earlier block; its statuses follow the consumer's progress.
BatchInHand ==
    pc \in {"mark", "stamp", "apply"} =>
        /\ \A i, j \in DOMAIN batch : batch[i] = batch[j] => i = j
        /\ \A i \in DOMAIN batch : ~ InABadge(batch[i])
        /\ pc = "mark" => \A i \in DOMAIN batch : status[batch[i]] = "pending"
        /\ pc = "stamp" => \A i \in DOMAIN batch :
              batch[i] \in Transfers => status[batch[i]] = "included"
        /\ pc = "apply" => \A i \in DOMAIN batch :
              i >= pos /\ batch[i] \in Transfers => status[batch[i]] = "included"

\* What was applied successfully comes from the handled part of the batch.
KeptInHand ==
    pc = "apply" =>
        /\ \A a, b \in DOMAIN kept : kept[a] = kept[b] => a = b
        /\ \A a \in DOMAIN kept :
              /\ \E i \in DOMAIN batch : i < pos /\ kept[a] = batch[i]
              /\ kept[a] \in Transfers => status[kept[a]] = "included"

\* The block about to be inserted is fit to be: new transactions, a parent.
BlockInHand ==
    pc = "insert" =>
        /\ \A a, b \in DOMAIN block.txs : block.txs[a] = block.txs[b] => a = b
        /\ \A a \in DOMAIN block.txs :
              /\ block.txs[a] \in Signed
              /\ status[block.txs[a]] = "included"
              /\ ~ InABadge(block.txs[a])
        /\ block.prev \in DOMAIN badges
        /\ block.number = badges[block.prev].number + 1

BadgesSound == UniqueInclusion /\ BadgedIsIncluded /\ ParentLink

IInv == TypeOK /\ StoredOnce /\ BatchInHand /\ KeptInHand /\ BlockInHand /\ BadgesSound

LEMMA InvInit == Init => IInv
<1> SUFFICES ASSUME Init PROVE IInv
  OBVIOUS
<1>1. badges = <<>> /\ pc = "boot" /\ DOMAIN badges = {} /\ status = [d \in Docs |-> "absent"]
  BY DEF Init
<1>2. StoredOnce
  BY <1>1 DEF StoredOnce, Docs
<1>3. BadgesSound
  BY <1>1 DEF BadgesSound, UniqueInclusion, BadgedIsIncluded, ParentLink
<1> QED
  BY <1>1, <1>2, <1>3, TypeInit DEF IInv, BatchInHand, KeptInHand, BlockInHand

\* Who is in a badge depends on the badges alone.
LEMMA SameBadges ==
    ASSUME badges' = badges
    PROVE  \A d : InABadge(d)' <=> InABadge(d)
  BY DEF InABadge

LEMMA InABadgeAt ==
    ASSUME TypeOK, NEW i \in DOMAIN badges, NEW a \in DOMAIN badges[i].txs
    PROVE  InABadge(badges[i].txs[a])
  BY DEF InABadge, Range

LEMMA InABadgeIncluded ==
    ASSUME TypeOK, BadgesSound, NEW d, InABadge(d)
    PROVE  d \in Signed /\ status[d] = "included"
  BY DEF InABadge, Range, BadgesSound, BadgedIsIncluded

\* The badges stay sound while no transaction of a badge loses its status.
LEMMA BadgesStay ==
    ASSUME TypeOK, BadgesSound, badges' = badges,
           \A d \in Signed : InABadge(d) => status'[d] = "included"
    PROVE  BadgesSound'
<1>1. UniqueInclusion' /\ ParentLink'
  BY DEF BadgesSound, UniqueInclusion, ParentLink
<1>2. BadgedIsIncluded'
  <2> SUFFICES ASSUME NEW i \in DOMAIN badges, NEW a \in DOMAIN badges[i].txs
               PROVE  badges[i].txs[a] \in Signed /\ status'[badges[i].txs[a]] = "included"
    BY DEF BadgedIsIncluded
  <2>1. badges[i].txs[a] \in Signed
    BY DEF BadgesSound, BadgedIsIncluded
  <2> QED
    BY <2>1, InABadgeAt
<1> QED
  BY <1>1, <1>2 DEF BadgesSound

\* A handler, a timer or the listener moves: the consumer's view holds.
LEMMA QuietStep ==
    ASSUME IInv, TypeOK', StoredOnce', UNCHANGED <<badges, pc, batch, pos, kept, block>>,
           \A d \in Docs : status[d] # "absent" => status'[d] = status[d]
    PROVE  IInv'
<1> USE DEF IInv
<1>1. Signed \subseteq Docs /\ Transfers \subseteq Docs
  BY DocsAssumption DEF Docs
<1>2. BadgesSound'
  BY <1>1, BadgesStay, InABadgeIncluded
<1>3. BatchInHand'
  <2>1. \A i \in DOMAIN batch : batch[i] \in Docs
    BY DEF TypeOK
  <2> QED
    BY <2>1, SameBadges DEF BatchInHand
<1>4. KeptInHand'
  BY <1>1 DEF KeptInHand
<1>5. BlockInHand'
  BY <1>1, SameBadges DEF BlockInHand
<1> QED
  BY <1>2, <1>3, <1>4, <1>5

\* The consumer has no batch: nothing is claimed of one.
LEMMA NoBatch ==
    ASSUME pc' \notin {"mark", "stamp", "apply", "insert"}
    PROVE  BatchInHand' /\ KeptInHand' /\ BlockInHand'
  BY DEF BatchInHand, KeptInHand, BlockInHand

\* Statuses left alone, or changed only on documents already stored.
LEMMA StoredStays ==
    ASSUME StoredOnce, phase' = phase, status' = status
    PROVE  StoredOnce'
  BY DEF StoredOnce

---------------------------------------------------------------------------
(* Each kind of step preserves the invariant.                              *)

LEMMA EnvironmentSteps ==
    ASSUME IInv, TypeOK', Boot \/ PointerLands \/ Crash \/ Tick \/ ProduceTimeout
    PROVE  IInv'
<1> USE DEF IInv
<1>1. CASE Boot
  <2>1. /\ badges' = Append(badges, Genesis)
        /\ Genesis \in BadgeRecord
        /\ Genesis.txs = <<>> /\ Genesis.number = 0
    BY <1>1, GenesisType DEF Boot, Genesis, Badge
  <2>2. /\ DOMAIN badges' = 1 .. Len(badges) + 1
        /\ badges'[Len(badges) + 1] = Genesis
        /\ \A i \in DOMAIN badges : badges'[i] = badges[i]
        /\ DOMAIN badges = 1 .. Len(badges) /\ Len(badges) \in Nat
    <3>1. DOMAIN badges = 1 .. Len(badges) /\ Len(badges) \in Nat
      BY DEF TypeOK
    <3> QED
      BY <2>1, <3>1, AppendBadge
  <2>3. StoredOnce'
    BY <1>1, StoredStays DEF Boot
  <2>4. UniqueInclusion'
    BY <2>1, <2>2 DEF BadgesSound, UniqueInclusion
  <2>5. BadgedIsIncluded'
    BY <1>1, <2>1, <2>2 DEF Boot, BadgesSound, BadgedIsIncluded
  <2>6. ParentLink'
    <3> SUFFICES ASSUME NEW i \in DOMAIN badges'
                 PROVE  \/ badges'[i].number = 0 /\ badges'[i].txs = <<>>
                        \/ /\ badges'[i].prev \in 1 .. i - 1
                           /\ badges'[i].number = badges'[badges'[i].prev].number + 1
      BY DEF ParentLink
    <3>1. CASE i = Len(badges) + 1
      BY <2>1, <2>2, <3>1
    <3>2. CASE i \in DOMAIN badges
      <4>1. CASE badges[i].number = 0 /\ badges[i].txs = <<>>
        BY <2>2, <3>2, <4>1
      <4>2. CASE /\ badges[i].prev \in 1 .. i - 1
                 /\ badges[i].number = badges[badges[i].prev].number + 1
        <5>1. badges[i].prev \in DOMAIN badges
          BY <2>2, <3>2, <4>2
        <5> QED
          BY <2>2, <3>2, <4>2, <5>1
      <4> QED
        BY <3>2, <4>1, <4>2 DEF BadgesSound, ParentLink
    <3> QED
      BY <2>2, <3>1, <3>2
  <2> QED
    BY <1>1, <2>3, <2>4, <2>5, <2>6, NoBatch DEF Boot, BadgesSound
<1>2. CASE PointerLands
  BY <1>2, QuietStep, StoredStays DEF PointerLands, webVars, blockVars
<1>3. CASE Crash
  <2>1. StoredOnce'
    <3>1. \A d \in Docs : phase'[d] \in {"new", "received"} => phase[d] = "new"
      BY <1>3 DEF Crash, TypeOK
    <3> QED
      BY <1>3, <3>1 DEF Crash, dbVars, StoredOnce
  <2>2. BadgesSound'
    BY <1>3, BadgesStay, InABadgeIncluded DEF Crash, dbVars
  <2> QED
    BY <1>3, <2>1, <2>2, NoBatch DEF Crash
<1>4. CASE Tick
  BY <1>4, QuietStep, StoredStays DEF Tick, dbVars, webVars, blockVars
<1>5. CASE ProduceTimeout
  BY <1>5, QuietStep, StoredStays DEF ProduceTimeout, dbVars, webVars, blockVars
<1> QED
  BY <1>1, <1>2, <1>3, <1>4, <1>5

LEMMA HandlerSteps ==
    ASSUME IInv, TypeOK',
           \/ \E t \in Transfers : ClientStep(t)
           \/ \E d \in Deposits : ListenerStep(d)
    PROVE  IInv'
<1> USE DEF IInv
<1>1. Transfers \subseteq Docs /\ Deposits \subseteq Docs
  BY DEF Docs
<1>2. ASSUME NEW t \in Transfers, ClientStep(t) PROVE IInv'
  <2>1. CASE ReceiveSubmission(t)
    <3>1. StoredOnce'
      BY <1>1, <2>1 DEF ReceiveSubmission, StoredOnce, TypeOK
    <3> QED
      BY <2>1, <3>1, QuietStep DEF ReceiveSubmission, blockVars
  <2>2. CASE InsertTransaction(t)
    <3>1. StoredOnce'
      BY <1>1, <2>2 DEF InsertTransaction, VerdictOf, StoredOnce, TypeOK
    <3>2. \A d \in Docs : status[d] # "absent" => status'[d] = status[d]
      BY <1>1, <2>2 DEF InsertTransaction, StoredOnce, TypeOK
    <3> QED
      BY <2>2, <3>1, <3>2, QuietStep DEF InsertTransaction, blockVars
  <2>3. CASE InsertTransactionFails(t)
    <3>1. status[t] = "absent" /\ phase' = [phase EXCEPT ![t] = "refused"]
      BY <1>1, <2>3 DEF InsertTransactionFails, StoredOnce
    <3>2. status' = status \/ status' = [status EXCEPT ![t] = VerdictOf(t)]
      BY <2>3 DEF InsertTransactionFails
    <3>3. StoredOnce'
      BY <1>1, <3>1, <3>2 DEF VerdictOf, StoredOnce, TypeOK
    <3>4. \A d \in Docs : status[d] # "absent" => status'[d] = status[d]
      BY <1>1, <3>1, <3>2 DEF TypeOK
    <3> QED
      BY <2>3, <3>3, <3>4, QuietStep DEF InsertTransactionFails, blockVars
  <2>4. CASE CountSubmission(t)
    <3>1. StoredOnce'
      BY <1>1, <2>4 DEF CountSubmission, dbVars, StoredOnce, TypeOK
    <3> QED
      BY <2>4, <3>1, QuietStep DEF CountSubmission, dbVars, blockVars
  <2> QED
    BY <1>2, <2>1, <2>2, <2>3, <2>4 DEF ClientStep
<1>3. ASSUME NEW d \in Deposits, ListenerStep(d) PROVE IInv'
  <2>0. d \notin Transfers
    BY DocsAssumption
  <2>1. CASE ListenerHandle(d)
    <3>1. StoredOnce'
      BY <1>1, <2>1 DEF ListenerHandle, StoredOnce, TypeOK
    <3> QED
      BY <2>1, <3>1, QuietStep DEF ListenerHandle, blockVars
  <2>2. CASE DepositLands(d)
    <3>1. StoredOnce'
      BY <1>1, <2>0, <2>2 DEF DepositLands, StoredOnce, TypeOK
    <3>2. \A e \in Docs : status[e] # "absent" => status'[e] = status[e]
      BY <1>1, <2>2 DEF DepositLands, StoredOnce, TypeOK
    <3> QED
      BY <2>2, <3>1, <3>2, QuietStep DEF DepositLands, blockVars
  <2>3. CASE DepositInsertFails(d)
    <3>1. StoredOnce'
      BY <1>1, <2>3 DEF DepositInsertFails, dbVars, StoredOnce, TypeOK
    <3> QED
      BY <2>3, <3>1, QuietStep DEF DepositInsertFails, dbVars, blockVars
  <2> QED
    BY <1>3, <2>1, <2>2, <2>3 DEF ListenerStep
<1> QED
  BY <1>2, <1>3

LEMMA HandTypes ==
    ASSUME TypeOK
    PROVE  /\ \A i \in DOMAIN batch : batch[i] \in Docs /\ i \in Nat
           /\ DOMAIN batch = 1 .. Len(batch) /\ Len(batch) \in Nat
           /\ pos \in Nat /\ pos >= 1
           /\ kept \in Seq(Docs) /\ DOMAIN kept = 1 .. Len(kept) /\ Len(kept) \in Nat
           /\ status \in [Docs -> Statuses]
<1>1. batch \in Seq(Docs) /\ kept \in Seq(Docs) /\ pos \in Nat \ {0} /\ status \in [Docs -> Statuses]
  BY DEF TypeOK
<1> QED
  BY <1>1

LEMMA SelectSteps ==
    ASSUME IInv, TypeOK', ConsumerTake \/ FindBatch \/ MarkIncluded \/ FindFails \/ MarkFails
    PROVE  IInv'
<1> USE DEF IInv
<1>1. CASE ConsumerTake
  <2>1. StoredOnce'
    BY <1>1, StoredStays DEF ConsumerTake, dbVars, webVars
  <2>2. BadgesSound'
    BY <1>1, BadgesStay, InABadgeIncluded DEF ConsumerTake, dbVars
  <2> QED
    BY <1>1, <2>1, <2>2, NoBatch DEF ConsumerTake
<1>2. CASE FindBatch
  <2>1. UNCHANGED <<status, phase, badges>> /\ pc' = "mark"
    BY <1>2 DEF FindBatch, dbVars, webVars
  <2>2. StoredOnce'
    BY <2>1, StoredStays
  <2>3. BadgesSound'
    BY <2>1, BadgesStay, InABadgeIncluded
  <2>4. /\ \A i, j \in DOMAIN batch' : batch'[i] = batch'[j] => i = j
        /\ \A i \in DOMAIN batch' : status[batch'[i]] = "pending"
    BY <1>2 DEF FindBatch, QueryResult, Candidates
  <2>5. \A i \in DOMAIN batch' : ~ InABadge(batch'[i])
    BY <2>4, InABadgeIncluded
  <2>6. BatchInHand'
    BY <2>1, <2>4, <2>5, SameBadges DEF BatchInHand
  <2> QED
    BY <2>1, <2>2, <2>3, <2>6 DEF KeptInHand, BlockInHand
<1>3. CASE MarkIncluded \/ MarkFails
  <2>1. PICK S \in SUBSET MatchedByBatch :
           /\ status' = WithStatus(S, "included")
           /\ MarkIncluded => S = MatchedByBatch
    BY <1>3 DEF MarkIncluded, MarkFails
  <2>2. pc = "mark" /\ pc' = "stamp" /\ UNCHANGED <<phase, badges>>
    BY <1>3 DEF MarkIncluded, MarkFails, webVars
  <2>3. \A i \in DOMAIN batch : batch[i] \in Docs /\ status[batch[i]] = "pending"
    <3>1. \A i \in DOMAIN batch : batch[i] \in Docs
      BY HandTypes
    <3>2. \A i \in DOMAIN batch : status[batch[i]] = "pending"
      BY <2>2 DEF BatchInHand
    <3> QED
      BY <3>1, <3>2
  <2>4. \A d \in MatchedByBatch : d \in Deposits \/ (d \in Transfers /\ status[d] = "pending")
    BY <2>3 DEF MatchedByBatch, SameId, Range, Docs
  <2>5. \A d \in MatchedByBatch : d \in Docs /\ status[d] # "absent"
    BY <2>4, <2>3 DEF MatchedByBatch, SameId, Range, Docs
  <2>6. \A d \in Docs : status'[d] = IF d \in S THEN "included" ELSE status[d]
    BY <2>1 DEF WithStatus
  <2>7. StoredOnce'
    <3>1. \A d \in Docs : phase'[d] \in {"new", "received"} => status'[d] = "absent"
      BY <2>1, <2>2, <2>5, <2>6 DEF StoredOnce
    <3>2. \A t \in Transfers : t \in S => t \in Signed
      BY <2>1, <2>4, DocsAssumption DEF StoredOnce
    <3>3. \A t \in Transfers : status'[t] \in {"pending", "included", "failed"} => t \in Signed
      BY <2>6, <3>2 DEF StoredOnce, Docs
    <3> QED
      BY <3>1, <3>3 DEF StoredOnce
  <2>8. BadgesSound'
    BY <2>2, <2>6, DocsAssumption, BadgesStay, InABadgeIncluded DEF Docs
  <2>9. BatchInHand'
    <3>1. CASE MarkIncluded
      <4>1. batch' = batch
        BY <3>1 DEF MarkIncluded, blockVars
      <4>2. \A i \in DOMAIN batch : batch[i] \in Transfers => batch[i] \in S
        BY <2>1, <3>1, DocsAssumption DEF MatchedByBatch, SameId, Range
      <4> QED
        BY <2>2, <2>3, <2>6, <4>1, <4>2, SameBadges DEF BatchInHand
    <3>2. CASE MarkFails
      BY <2>2, <3>2 DEF MarkFails, BatchInHand
    <3> QED
      BY <1>3, <3>1, <3>2
  <2> QED
    BY <2>2, <2>7, <2>8, <2>9 DEF KeptInHand, BlockInHand
<1>4. CASE FindFails
  <2>1. UNCHANGED <<status, phase, badges>> /\ pc' = "stamp" /\ batch' = <<>>
    BY <1>4 DEF FindFails, dbVars, webVars
  <2> QED
    BY <2>1, StoredStays, BadgesStay, InABadgeIncluded DEF BatchInHand, KeptInHand, BlockInHand
<1> QED
  BY <1>1, <1>2, <1>3, <1>4

LEMMA ApplySteps ==
    ASSUME IInv, TypeOK', StampBatch \/ ApplyOk \/ ApplyFailed
    PROVE  IInv'
<1> USE DEF IInv
<1>0. \A i \in DOMAIN batch : batch[i] \in Docs
  BY HandTypes
<1>1. CASE StampBatch
  <2>1. /\ UNCHANGED <<status, phase, badges, batch>>
        /\ pc = "stamp" /\ pc' = "apply" /\ pos' = 1 /\ kept' = <<>>
    BY <1>1 DEF StampBatch, dbVars, webVars
  <2>2. BatchInHand'
    BY <2>1, SameBadges DEF BatchInHand
  <2> QED
    BY <2>1, <2>2, StoredStays, BadgesStay, InABadgeIncluded DEF KeptInHand, BlockInHand
<1>2. CASE ApplyOk
  <2>1. /\ UNCHANGED <<status, phase, badges, batch>>
        /\ pc = "apply" /\ pc' = "apply" /\ pos' = pos + 1
        /\ kept' = Append(kept, batch[pos])
    BY <1>2 DEF ApplyOk, dbVars, webVars
  <2>2. pos \in DOMAIN batch /\ pos \in Nat
    BY <1>2, HandTypes DEF ApplyOk
  <2>3. BatchInHand'
    BY <2>1, <2>2, HandTypes, SameBadges DEF BatchInHand
  <2>4. /\ DOMAIN kept' = 1 .. Len(kept) + 1
        /\ kept'[Len(kept) + 1] = batch[pos]
        /\ \A a \in DOMAIN kept : kept'[a] = kept[a]
        /\ DOMAIN kept = 1 .. Len(kept) /\ Len(kept) \in Nat
    <3>1. kept \in Seq(Docs) /\ batch[pos] \in Docs
      BY <1>0, <2>2, HandTypes
    <3> QED
      BY <2>1, <3>1
  <2>5. \A a \in DOMAIN kept : kept[a] # batch[pos]
    <3> SUFFICES ASSUME NEW a \in DOMAIN kept PROVE kept[a] # batch[pos]
      OBVIOUS
    <3>1. PICK i \in DOMAIN batch : i < pos /\ kept[a] = batch[i]
      BY <2>1 DEF KeptInHand
    <3>2. i # pos
      BY <2>2, <3>1, HandTypes
    <3> QED
      BY <2>1, <2>2, <3>1, <3>2 DEF BatchInHand
  <2>6. \A a, b \in DOMAIN kept' : kept'[a] = kept'[b] => a = b
    BY <2>1, <2>4, <2>5 DEF KeptInHand
  <2>7. \A a \in DOMAIN kept' : \E i \in DOMAIN batch : i < pos + 1 /\ kept'[a] = batch[i]
    <3> SUFFICES ASSUME NEW a \in DOMAIN kept'
                 PROVE  \E i \in DOMAIN batch : i < pos + 1 /\ kept'[a] = batch[i]
      OBVIOUS
    <3>1. CASE a = Len(kept) + 1
      BY <2>2, <2>4, <3>1
    <3>2. CASE a \in DOMAIN kept
      <4>1. PICK i \in DOMAIN batch : i < pos /\ kept[a] = batch[i]
        BY <2>1, <3>2 DEF KeptInHand
      <4>2. i \in Nat
        BY HandTypes
      <4> QED
        BY <2>2, <2>4, <3>2, <4>1, <4>2
    <3> QED
      BY <2>4, <3>1, <3>2
  <2>8. \A a \in DOMAIN kept' : kept'[a] \in Transfers => status[kept'[a]] = "included"
    <3>1. batch[pos] \in Transfers => status[batch[pos]] = "included"
      BY <2>1, <2>2 DEF BatchInHand
    <3> QED
      BY <2>1, <2>4, <3>1 DEF KeptInHand
  <2>9. KeptInHand'
    BY <2>1, <2>6, <2>7, <2>8 DEF KeptInHand
  <2> QED
    BY <2>1, <2>3, <2>9, StoredStays, BadgesStay, InABadgeIncluded DEF BlockInHand
<1>3. CASE ApplyFailed
  <2>1. /\ UNCHANGED <<phase, badges, batch, kept>>
        /\ pc = "apply" /\ pc' = "apply" /\ pos' = pos + 1
    BY <1>3 DEF ApplyFailed, KeptAfterFailure, webVars
  <2>2. pos \in DOMAIN batch /\ pos \in Nat
    BY <1>3, HandTypes DEF ApplyFailed
  <2>3. PICK e \in SameId(batch[pos]) : status' = WithStatus({e}, "failed")
    BY <1>3 DEF ApplyFailed
  <2>4. \A d \in Docs : status'[d] = IF d = e THEN "failed" ELSE status[d]
    BY <2>3 DEF WithStatus
  <2>5. \/ e \in Deposits /\ status[e] # "absent"
        \/ e \in Transfers /\ e = batch[pos]
    <3>1. batch[pos] \in Docs
      BY <1>0, <2>2
    <3>2. CASE batch[pos] \in Deposits
      BY <2>3, <3>2 DEF SameId
    <3>3. CASE batch[pos] \notin Deposits
      BY <2>3, <3>1, <3>3 DEF SameId, Docs
    <3> QED
      BY <3>2, <3>3
  <2>6. e \in Transfers => status[e] = "included" /\ e \in Signed
    BY <2>1, <2>2, <2>5, HandTypes, DocsAssumption DEF BatchInHand, StoredOnce
  <2>7. e \notin Signed \/ ~ InABadge(e)
    BY <2>1, <2>2, <2>5, DocsAssumption DEF BatchInHand
  <2>8. StoredOnce'
    <3>1. \A d \in Docs : phase'[d] \in {"new", "received"} => status'[d] = "absent"
      BY <2>1, <2>4, <2>5, <2>6 DEF StoredOnce
    <3>2. \A t \in Transfers : status'[t] \in {"pending", "included", "failed"} => t \in Signed
      BY <2>4, <2>6 DEF StoredOnce, Docs
    <3> QED
      BY <3>1, <3>2 DEF StoredOnce
  <2>9. BadgesSound'
    BY <2>1, <2>4, <2>7, DocsAssumption, BadgesStay, InABadgeIncluded DEF Docs
  <2>10. \A i \in DOMAIN batch : i # pos => (batch[i] \in Transfers => batch[i] # e)
    BY <2>1, <2>2, <2>5, DocsAssumption DEF BatchInHand
  <2>11. BatchInHand'
    <3>1. \A i \in DOMAIN batch : i >= pos + 1 => i >= pos /\ i # pos
      BY <2>2, HandTypes
    <3>2. \A i \in DOMAIN batch : i >= pos + 1 /\ batch[i] \in Transfers
                                     => status'[batch[i]] = "included"
      BY <1>0, <2>1, <2>4, <2>10, <3>1 DEF BatchInHand
    <3> QED
      BY <2>1, <3>2, SameBadges DEF BatchInHand
  <2>12. KeptInHand'
    <3> SUFFICES ASSUME NEW a \in DOMAIN kept
                 PROVE  /\ \E i \in DOMAIN batch : i < pos + 1 /\ kept[a] = batch[i]
                        /\ kept[a] \in Transfers => status'[kept[a]] = "included"
      BY <2>1 DEF KeptInHand
    <3>1. PICK i \in DOMAIN batch : i < pos /\ kept[a] = batch[i]
      BY <2>1 DEF KeptInHand
    <3>2. i \in Nat
      BY HandTypes
    <3>3. i < pos + 1 /\ i # pos
      BY <2>2, <3>1, <3>2
    <3>4. kept[a] \in Transfers => status[kept[a]] = "included" /\ kept[a] # e
      BY <2>1, <2>10, <3>1, <3>3 DEF KeptInHand
    <3> QED
      BY <1>0, <2>4, <3>1, <3>3, <3>4
  <2> QED
    BY <2>1, <2>8, <2>9, <2>11, <2>12 DEF BlockInHand
<1> QED
  BY <1>1, <1>2, <1>3

LEMMA BlockSteps ==
    ASSUME IInv, TypeOK',
           BuildBlock \/ LoseBlock \/ BlockStepFails \/ InsertBadge \/ AdvancePointer
    PROVE  IInv'
<1> USE DEF IInv
<1>1. CASE BuildBlock
  <2>1. /\ UNCHANGED <<status, phase, badges>>
        /\ pc = "apply" /\ pc' = "insert" /\ curr # <<>>
        /\ block' = Badge(NextNumber, curr[1], kept, cause)
        /\ Range(batch) \cap Deposits = {}
    BY <1>1 DEF BuildBlock, BlockBuildable, dbVars, webVars
  <2>2. block'.txs = kept /\ block'.prev = curr[1] /\ block'.number = badges[curr[1]].number + 1
    BY <2>1 DEF Badge, NextNumber
  <2>3. curr[1] \in DOMAIN badges
    <3>1. curr \in Seq(Nat) /\ \A i \in DOMAIN curr : curr[i] \in DOMAIN badges
      BY DEF TypeOK
    <3> QED
      BY <2>1, <3>1
  <2>4. \A a \in DOMAIN kept : /\ kept[a] \in Signed
                               /\ status[kept[a]] = "included"
                               /\ ~ InABadge(kept[a])
    <3> SUFFICES ASSUME NEW a \in DOMAIN kept
                 PROVE  /\ kept[a] \in Signed
                        /\ status[kept[a]] = "included"
                        /\ ~ InABadge(kept[a])
      OBVIOUS
    <3>1. PICK i \in DOMAIN batch : kept[a] = batch[i]
      BY <2>1 DEF KeptInHand
    <3>2. kept[a] \in Transfers
      BY <2>1, <3>1, HandTypes DEF Range, Docs
    <3>3. status[kept[a]] = "included" /\ ~ InABadge(kept[a])
      BY <2>1, <3>1, <3>2 DEF KeptInHand, BatchInHand
    <3> QED
      BY <3>2, <3>3 DEF StoredOnce
  <2>5. \A a, b \in DOMAIN kept : kept[a] = kept[b] => a = b
    BY <2>1 DEF KeptInHand
  <2>6. BlockInHand'
    BY <2>1, <2>2, <2>3, <2>4, <2>5, SameBadges DEF BlockInHand
  <2> QED
    BY <2>1, <2>6, StoredStays, BadgesStay, InABadgeIncluded DEF BatchInHand, KeptInHand
<1>2. CASE LoseBlock \/ BlockStepFails \/ AdvancePointer
  <2>1. UNCHANGED <<status, phase, badges>> /\ pc' = "idle"
    BY <1>2 DEF LoseBlock, BlockStepFails, AdvancePointer, dbVars, webVars
  <2> QED
    BY <2>1, NoBatch, StoredStays, BadgesStay, InABadgeIncluded
<1>3. CASE InsertBadge
  <2>1. /\ UNCHANGED <<status, phase>> /\ pc = "insert" /\ pc' = "advance"
        /\ badges' = Append(badges, block)
    BY <1>3 DEF InsertBadge, webVars
  <2> DEFINE n == Len(badges)
  <2>2. /\ DOMAIN badges = 1 .. n /\ n \in Nat
        /\ DOMAIN badges' = 1 .. n + 1
        /\ badges'[n + 1] = block
        /\ \A i \in DOMAIN badges : badges'[i] = badges[i]
    <3>1. DOMAIN badges = 1 .. Len(badges) /\ Len(badges) \in Nat /\ block \in BadgeRecord
      BY DEF TypeOK
    <3> QED
      BY <2>1, <3>1, AppendBadge
  <2> HIDE DEF n
  <2>3. UniqueInclusion'
    <3> SUFFICES ASSUME NEW i \in DOMAIN badges', NEW j \in DOMAIN badges',
                        NEW a \in DOMAIN badges'[i].txs, NEW b \in DOMAIN badges'[j].txs,
                        badges'[i].txs[a] = badges'[j].txs[b]
                 PROVE  i = j /\ a = b
      BY DEF UniqueInclusion
    <3>1. CASE i \in DOMAIN badges /\ j \in DOMAIN badges
      BY <2>2, <3>1 DEF BadgesSound, UniqueInclusion
    <3>2. CASE i = n + 1 /\ j = n + 1
      BY <2>1, <2>2, <3>2 DEF BlockInHand
    <3>3. CASE i = n + 1 /\ j \in DOMAIN badges
      BY <2>1, <2>2, <3>3, InABadgeAt DEF BlockInHand
    <3>4. CASE i \in DOMAIN badges /\ j = n + 1
      BY <2>1, <2>2, <3>4, InABadgeAt DEF BlockInHand
    <3> QED
      BY <2>2, <3>1, <3>2, <3>3, <3>4
  <2>4. BadgedIsIncluded'
    BY <2>1, <2>2 DEF BlockInHand, BadgesSound, BadgedIsIncluded
  <2>5. ParentLink'
    <3> SUFFICES ASSUME NEW i \in DOMAIN badges'
                 PROVE  \/ badges'[i].number = 0 /\ badges'[i].txs = <<>>
                        \/ /\ badges'[i].prev \in 1 .. i - 1
                           /\ badges'[i].number = badges'[badges'[i].prev].number + 1
      BY DEF ParentLink
    <3>1. CASE i = n + 1
      BY <2>1, <2>2, <3>1 DEF BlockInHand
    <3>2. CASE i \in DOMAIN badges
      <4>1. CASE badges[i].number = 0 /\ badges[i].txs = <<>>
        BY <2>2, <3>2, <4>1
      <4>2. CASE /\ badges[i].prev \in 1 .. i - 1
                 /\ badges[i].number = badges[badges[i].prev].number + 1
        <5>1. badges[i].prev \in DOMAIN badges
          BY <2>2, <3>2, <4>2
        <5> QED
          BY <2>2, <3>2, <4>2, <5>1
      <4> QED
        BY <3>2, <4>1, <4>2 DEF BadgesSound, ParentLink
    <3> QED
      BY <2>2, <3>1, <3>2
  <2> QED
    BY <2>1, <2>3, <2>4, <2>5, NoBatch, StoredStays DEF BadgesSound
<1> QED
  BY <1>1, <1>2, <1>3

LEMMA InvNext == IInv /\ [Next]_vars => IInv'
<1> SUFFICES ASSUME IInv, [Next]_vars PROVE IInv'
  OBVIOUS
<1>1. TypeOK'
  BY TypeNext DEF IInv
<1>2. CASE UNCHANGED vars \/ EndOfRun
  <2>1. UNCHANGED <<status, phase, badges, pc, batch, pos, kept, block>>
    BY <1>2 DEF EndOfRun, vars, dbVars, webVars, blockVars
  <2> QED
    BY <1>1, <2>1, QuietStep, StoredStays DEF IInv
<1>3. CASE Next /\ ~ EndOfRun
  BY <1>1, <1>3, EnvironmentSteps, HandlerSteps, SelectSteps, ApplySteps, BlockSteps
     DEF Next, ConsumerStep, ConsumerFault
<1> QED
  BY <1>2, <1>3

THEOREM InvariantHolds == Spec => []IInv
  BY InvInit, InvNext, PTL DEF Spec

\* No transaction is executed by two blocks, for any number of transfers,
\* batch size, database errors and crashes.
THEOREM NoDoubleInclusion == Spec => []UniqueInclusion
<1>1. IInv => UniqueInclusion
  BY DEF IInv, BadgesSound
<1> QED
  BY <1>1, InvariantHolds, PTL

\* Whatever a block lists was signed and is reported as INCLUDED.
THEOREM StatusAgreesWithBlocks == Spec => []BadgedIsIncluded
<1>1. IInv => BadgedIsIncluded
  BY DEF IInv, BadgesSound
<1> QED
  BY <1>1, InvariantHolds, PTL

\* Every block extends an older one by one number, restarts included.
THEOREM BlocksLinkToParents == Spec => []ParentLink
<1>1. IInv => ParentLink
  BY DEF IInv, BadgesSound
<1> QED
  BY <1>1, InvariantHolds, PTL

LEMMA ForwardStep ==
    ASSUME IInv, [Next]_vars, NEW t \in Transfers
    PROVE  status'[t] = status[t] \/ Forward(status[t], status'[t])
<1> USE DEF IInv
<1>0. t \in Docs /\ t \notin Deposits
  BY DocsAssumption DEF Docs
<1>1. CASE UNCHANGED status
  BY <1>1
<1>2. ASSUME NEW u \in Transfers, InsertTransaction(u) \/ InsertTransactionFails(u)
      PROVE  status'[t] = status[t] \/ Forward(status[t], status'[t])
  <2>1. status[u] = "absent" /\ u \in Docs
    BY <1>2 DEF InsertTransaction, InsertTransactionFails, StoredOnce, Docs
  <2>2. status' = status \/ status' = [status EXCEPT ![u] = VerdictOf(u)]
    BY <1>2 DEF InsertTransaction, InsertTransactionFails
  <2> QED
    BY <1>0, <2>1, <2>2, HandTypes DEF VerdictOf, Forward
<1>3. ASSUME NEW d \in Deposits, DepositLands(d)
      PROVE  status'[t] = status[t]
  BY <1>0, <1>3, HandTypes DEF DepositLands, Docs
<1>4. CASE MarkIncluded \/ MarkFails
  <2>1. PICK S \in SUBSET MatchedByBatch : status' = WithStatus(S, "included")
    BY <1>4 DEF MarkIncluded, MarkFails
  <2>2. pc = "mark"
    BY <1>4 DEF MarkIncluded, MarkFails
  <2>3. t \in S => status[t] = "pending"
    BY <1>0, <2>1, <2>2 DEF MatchedByBatch, SameId, Range, BatchInHand
  <2> QED
    BY <1>0, <2>1, <2>3 DEF WithStatus, Forward
<1>5. CASE ApplyFailed
  <2>1. pc = "apply" /\ pos \in DOMAIN batch
    BY <1>5, HandTypes DEF ApplyFailed
  <2>2. PICK e \in SameId(batch[pos]) : status' = WithStatus({e}, "failed")
    BY <1>5 DEF ApplyFailed
  <2>3. t = e => t = batch[pos]
    BY <1>0, <2>2 DEF SameId
  <2>4. t = e => status[t] = "included"
    BY <2>1, <2>3, HandTypes DEF BatchInHand
  <2> QED
    BY <1>0, <2>2, <2>4 DEF WithStatus, Forward
<1>6. CASE UNCHANGED vars
  BY <1>6 DEF vars, dbVars
<1>7. CASE Boot \/ PointerLands \/ Crash \/ Tick \/ ProduceTimeout \/ EndOfRun
  BY <1>1, <1>7 DEF Boot, PointerLands, Crash, Tick, ProduceTimeout, EndOfRun, dbVars, vars
<1>8. ASSUME NEW u \in Transfers, ClientStep(u)
      PROVE  status'[t] = status[t] \/ Forward(status[t], status'[t])
  BY <1>1, <1>2, <1>8 DEF ClientStep, ReceiveSubmission, CountSubmission, dbVars
<1>9. ASSUME NEW d \in Deposits, ListenerStep(d)
      PROVE  status'[t] = status[t]
  BY <1>3, <1>9 DEF ListenerStep, ListenerHandle, DepositInsertFails, dbVars
<1>10. CASE ConsumerStep \/ ConsumerFault
  BY <1>1, <1>4, <1>5, <1>10
     DEF ConsumerStep, ConsumerFault, ConsumerTake, FindBatch, StampBatch, ApplyOk, BuildBlock,
         LoseBlock, InsertBadge, AdvancePointer, FindFails, BlockStepFails, dbVars
<1> QED
  BY <1>6, <1>7, <1>8, <1>9, <1>10 DEF Next

\* A transfer never becomes PENDING again and INVALID and FAILED are final.
THEOREM StatusMovesForward == Spec => StatusForward
<1>1. IInv /\ [Next]_vars =>
        [\A t \in Transfers : status'[t] = status[t] \/ Forward(status[t], status'[t])]_vars
  BY ForwardStep
<1> QED
  BY <1>1, InvariantHolds, PTL DEF Spec, StatusForward

---------------------------------------------------------------------------
(* The badges form one chain while nothing fails.                          *)

\* Where the badge pointer is: on its way, at the last badge, or one behind
\* while the consumer has inserted a badge and not yet moved it.
PointerFollows ==
    /\ pc = "boot" => badges = <<>> /\ curr = <<>> /\ pointer = 0
    /\ pc # "boot" =>
          \/ /\ curr = <<>> /\ pointer = 1 /\ Len(badges) = 1
             /\ pc \notin {"insert", "advance"}
          \/ /\ Len(curr) = 1 /\ pointer = 0
             /\ curr[1] = IF pc = "advance" THEN Len(badges) - 1 ELSE Len(badges)
    /\ pc = "insert" => block.prev = Len(badges) /\ block.number = Len(badges)

Numbered == \A i \in DOMAIN badges : badges[i].number = i - 1 /\ badges[i].prev = i - 1

ChainInv == faults = 0 /\ crashes = 0 => PointerFollows /\ Numbered

LEMMA ChainInit == Init => ChainInv
  BY DEF Init, ChainInv, PointerFollows, Numbered

LEMMA Lengths ==
    ASSUME TypeOK
    PROVE  /\ Len(badges) \in Nat /\ DOMAIN badges = 1 .. Len(badges)
           /\ Len(curr) \in Nat /\ DOMAIN curr = 1 .. Len(curr)
           /\ curr = <<>> <=> Len(curr) = 0
           /\ \A i \in DOMAIN badges : badges[i] \in BadgeRecord
           /\ faults \in Nat /\ crashes \in Nat
  BY DEF TypeOK

\* The steps that neither insert a badge nor move the pointer.
LEMMA ChainStays ==
    ASSUME ChainInv, UNCHANGED <<badges, curr, pointer, faults, crashes>>,
           pc' = pc \/ (pc \notin {"boot", "advance"} /\ pc' \notin {"boot", "insert", "advance"}),
           pc' = "insert" => block' = block
    PROVE  ChainInv'
  BY DEF ChainInv, PointerFollows, Numbered

LEMMA ChainBoot ==
    ASSUME TypeOK, ChainInv, Boot, faults = 0, crashes = 0
    PROVE  PointerFollows' /\ Numbered'
  <1>1. /\ badges = <<>> /\ curr' = <<>> /\ pointer' = Len(badges) + 1 /\ pc' = "idle"
        /\ badges' = Append(badges, Genesis)
    BY DEF Boot, ChainInv, PointerFollows
  <1>2. badges' = <<Genesis>> /\ Len(badges) = 0 /\ Len(badges') = 1
    BY <1>1
  <1>3. Genesis.number = 0 /\ Genesis.prev = 0
    BY DEF Genesis, Badge
  <1> QED
    BY <1>1, <1>2, <1>3 DEF PointerFollows, Numbered

LEMMA ChainPointer ==
    ASSUME TypeOK, ChainInv, PointerLands, faults = 0, crashes = 0
    PROVE  PointerFollows' /\ Numbered'
  <1>1. /\ pointer # 0 /\ curr' = Append(curr, pointer) /\ pointer' = 0
        /\ UNCHANGED <<badges, pc, block>>
    BY DEF PointerLands, blockVars
  <1>2. curr = <<>> /\ pointer = 1 /\ Len(badges) = 1 /\ pc \notin {"boot", "insert", "advance"}
    BY <1>1 DEF ChainInv, PointerFollows
  <1>3. Len(curr') = 1 /\ curr'[1] = 1
    BY <1>1, <1>2
  <1> QED
    BY <1>1, <1>2, <1>3 DEF ChainInv, PointerFollows, Numbered

LEMMA ChainBuild ==
    ASSUME TypeOK, ChainInv, BuildBlock, faults = 0, crashes = 0
    PROVE  PointerFollows' /\ Numbered'
  <1>1. /\ pc = "apply" /\ pc' = "insert" /\ curr # <<>> /\ UNCHANGED <<badges, curr, pointer>>
        /\ block' = Badge(NextNumber, curr[1], kept, cause)
    BY DEF BuildBlock, BlockBuildable, dbVars
  <1>2. Len(curr) = 1 /\ pointer = 0 /\ curr[1] = Len(badges)
    BY <1>1 DEF ChainInv, PointerFollows
  <1>3. curr[1] \in DOMAIN badges
    BY <1>1, Lengths DEF TypeOK
  <1>4. badges[curr[1]].number = curr[1] - 1
    BY <1>3 DEF ChainInv, Numbered
  <1>5. block'.prev = Len(badges) /\ block'.number = Len(badges)
    BY <1>1, <1>2, <1>4, Lengths DEF Badge, NextNumber
  <1> QED
    BY <1>1, <1>2, <1>5 DEF ChainInv, PointerFollows, Numbered

LEMMA ChainInsert ==
    ASSUME TypeOK, ChainInv, InsertBadge, faults = 0, crashes = 0
    PROVE  PointerFollows' /\ Numbered'
  <1>1. /\ pc = "insert" /\ pc' = "advance" /\ badges' = Append(badges, block)
        /\ UNCHANGED <<curr, pointer>>
    BY DEF InsertBadge
  <1>2. /\ Len(curr) = 1 /\ pointer = 0 /\ curr[1] = Len(badges)
        /\ block.prev = Len(badges) /\ block.number = Len(badges)
    BY <1>1 DEF ChainInv, PointerFollows
  <1>3. block \in BadgeRecord
    BY DEF TypeOK
  <1>4. /\ Len(badges') = Len(badges) + 1 /\ DOMAIN badges' = 1 .. Len(badges) + 1
        /\ badges'[Len(badges) + 1] = block
        /\ \A i \in DOMAIN badges : badges'[i] = badges[i]
    BY <1>1, <1>3, AppendBadge
  <1>5. Numbered'
    <2> SUFFICES ASSUME NEW i \in DOMAIN badges'
                 PROVE  badges'[i].number = i - 1 /\ badges'[i].prev = i - 1
      BY DEF Numbered
    <2>1. CASE i \in DOMAIN badges
      BY <1>4, <2>1 DEF ChainInv, Numbered
    <2>2. CASE i = Len(badges) + 1
      BY <1>2, <1>4, <2>2, Lengths
    <2> QED
      BY <1>4, <2>1, <2>2, Lengths
  <1>6. PointerFollows'
    BY <1>1, <1>2, <1>4, Lengths DEF PointerFollows
  <1> QED
    BY <1>5, <1>6

LEMMA ChainAdvance ==
    ASSUME TypeOK, ChainInv, AdvancePointer, faults = 0, crashes = 0
    PROVE  PointerFollows' /\ Numbered'
  <1>1. /\ pc = "advance" /\ pc' = "idle" /\ curr' = [curr EXCEPT ![1] = Len(badges)]
        /\ UNCHANGED <<badges, pointer>>
    BY DEF AdvancePointer, NewBadgeId
  <1>2. Len(curr) = 1 /\ pointer = 0
    BY <1>1 DEF ChainInv, PointerFollows
  <1>3. Len(curr') = 1 /\ curr'[1] = Len(badges)
    BY <1>1, <1>2 DEF TypeOK
  <1> QED
    BY <1>1, <1>2, <1>3 DEF ChainInv, PointerFollows, Numbered

LEMMA ChainNext == TypeOK /\ ChainInv /\ [Next]_vars => ChainInv'
  <1> SUFFICES ASSUME TypeOK, ChainInv, [Next]_vars PROVE ChainInv'
    OBVIOUS
  <1>1. CASE Boot \/ PointerLands \/ BuildBlock \/ InsertBadge \/ AdvancePointer
    <2>1. UNCHANGED <<faults, crashes>>
      BY <1>1 DEF Boot, PointerLands, BuildBlock, InsertBadge, AdvancePointer, envVars
    <2> QED
      BY <1>1, <2>1, ChainBoot, ChainPointer, ChainBuild, ChainInsert, ChainAdvance DEF ChainInv
  <1>2. CASE Crash \/ ConsumerFault
    <2>1. crashes' = crashes + 1 \/ faults' = faults + 1
      BY <1>2 DEF Crash, ConsumerFault, FindFails, MarkFails, BlockStepFails, Fault
    <2>2. crashes' # 0 \/ faults' # 0
      BY <2>1, Lengths
    <2> QED
      BY <2>2 DEF ChainInv
  <1>3. CASE Tick \/ ProduceTimeout \/ EndOfRun \/ UNCHANGED vars
    BY <1>3, ChainStays
       DEF Tick, ProduceTimeout, EndOfRun, vars, dbVars, webVars, timerVars, blockVars, envVars
  <1>4. ASSUME NEW t \in Transfers, ClientStep(t) PROVE ChainInv'
    <2>1. CASE InsertTransactionFails(t)
      <3>1. faults' # 0
        BY <2>1, Lengths DEF InsertTransactionFails, Fault
      <3> QED
        BY <3>1 DEF ChainInv
    <2>2. CASE ~ InsertTransactionFails(t)
      BY <1>4, <2>2, ChainStays
         DEF ClientStep, ReceiveSubmission, InsertTransaction, CountSubmission, dbVars, blockVars,
             envVars
    <2> QED
      BY <2>1, <2>2
  <1>5. ASSUME NEW d \in Deposits, ListenerStep(d) PROVE ChainInv'
    <2>1. CASE DepositInsertFails(d)
      <3>1. faults' # 0
        BY <2>1, Lengths DEF DepositInsertFails, Fault
      <3> QED
        BY <3>1 DEF ChainInv
    <2>2. CASE ~ DepositInsertFails(d)
      BY <1>5, <2>2, ChainStays
         DEF ListenerStep, ListenerHandle, DepositLands, dbVars, blockVars, envVars
    <2> QED
      BY <2>1, <2>2
  <1>6. CASE \/ ConsumerTake \/ FindBatch \/ MarkIncluded \/ StampBatch
             \/ ApplyOk \/ ApplyFailed \/ LoseBlock
    <2>1. /\ UNCHANGED <<badges, curr, pointer, faults, crashes>>
          /\ pc \notin {"boot", "advance"} /\ pc' \notin {"boot", "insert", "advance"}
      BY <1>6 DEF ConsumerTake, FindBatch, MarkIncluded, StampBatch, ApplyOk, ApplyFailed,
                  LoseBlock, dbVars, envVars
    <2> QED
      BY <2>1, ChainStays
  <1> QED
    BY <1>1, <1>2, <1>3, <1>4, <1>5, <1>6 DEF Next, ConsumerStep

\* As long as nothing fails, every block is built on the one inserted before it.
THEOREM BlocksFormOneChain == Spec => []LinearChain
  <1>1. ChainInv => LinearChain
    BY DEF ChainInv, Numbered, LinearChain
  <1>2. Spec => []ChainInv
    BY ChainInit, ChainNext, TypeCorrect, PTL DEF Spec
  <1> QED
    BY <1>1, <1>2, PTL
---------------------------------------------------------------------------
(* FILLEDUP triggers are earned.                                           *)

FilledBadges == {i \in DOMAIN badges : badges[i].why = "FILLEDUP"}
FilledQueue == {i \in DOMAIN queue : queue[i] = "FILLEDUP"}
FilledInHand == IF cause = "FILLEDUP" /\ pc \notin {"boot", "idle", "advance"} THEN 1 ELSE 0
Triggers == Cardinality(FilledBadges) + Cardinality(FilledQueue) + FilledInHand

Seen == {t \in Transfers : phase[t] # "new"}
Counted == {t \in Transfers : phase[t] = "done"}

\* What is not yet worth a trigger is in the counter; only finitely many
\* requests have been made.
Earned == BATCH_SIZE * Triggers + counter <= Cardinality(Counted)
FilledInv ==
    /\ IsFiniteSet(Seen)
    /\ pc = "insert" => block.why = cause
    /\ Earned

LEMMA Marked ==
    ASSUME NEW n \in Nat, NEW S \in SUBSET (1 .. n)
    PROVE  IsFiniteSet(S) /\ Cardinality(S) \in Nat
  <1>1. 1 \in Int /\ n \in Int
    OBVIOUS
  <1>2. IsFiniteSet(1 .. n)
    BY <1>1, FS_Interval
  <1>3. IsFiniteSet(S)
    BY <1>2, FS_Subset
  <1> QED
    BY <1>3, FS_CardinalityType

\* Places of a sequence can be counted.
LEMMA Places ==
    ASSUME NEW T, NEW s \in Seq(T), NEW S \in SUBSET DOMAIN s
    PROVE  IsFiniteSet(S) /\ Cardinality(S) \in Nat
  <1>1. Len(s) \in Nat /\ DOMAIN s = 1 .. Len(s)
    OBVIOUS
  <1> QED
    BY <1>1, Marked

LEMMA FilledFinite ==
    ASSUME TypeOK
    PROVE  /\ IsFiniteSet(FilledBadges) /\ Cardinality(FilledBadges) \in Nat
           /\ IsFiniteSet(FilledQueue) /\ Cardinality(FilledQueue) \in Nat
           /\ FilledInHand \in {0, 1} /\ Triggers \in Nat
  <1>1. /\ badges \in Seq(BadgeRecord) /\ FilledBadges \in SUBSET DOMAIN badges
        /\ queue \in Seq(Causes) /\ FilledQueue \in SUBSET DOMAIN queue
    BY DEF TypeOK, FilledBadges, FilledQueue
  <1>2. /\ IsFiniteSet(FilledBadges) /\ Cardinality(FilledBadges) \in Nat
        /\ IsFiniteSet(FilledQueue) /\ Cardinality(FilledQueue) \in Nat
    BY <1>1, Places
  <1>3. FilledInHand \in {0, 1}
    BY DEF FilledInHand
  <1> QED
    BY <1>2, <1>3 DEF Triggers

LEMMA CountedFinite ==
    ASSUME TypeOK, IsFiniteSet(Seen)
    PROVE  IsFiniteSet(Counted) /\ Cardinality(Counted) \in Nat
  <1>1. Counted \in SUBSET Seen
    BY DEF Counted, Seen
  <1> QED
    BY <1>1, FS_Subset, FS_CardinalityType

\* Appending to a sequence marks its new place or nothing.
LEMMA AppendTrigger ==
    ASSUME TypeOK, NEW c \in Causes, queue' = Append(queue, c)
    PROVE  Cardinality(FilledQueue') =
              Cardinality(FilledQueue) + (IF c = "FILLEDUP" THEN 1 ELSE 0)
  <1>1. /\ queue \in Seq(Causes) /\ Len(queue) \in Nat /\ DOMAIN queue = 1 .. Len(queue)
        /\ DOMAIN queue' = 1 .. Len(queue) + 1 /\ queue'[Len(queue) + 1] = c
        /\ \A i \in DOMAIN queue : queue'[i] = queue[i]
    BY DEF TypeOK
  <1>2. Len(queue) + 1 \notin FilledQueue
    BY <1>1 DEF FilledQueue
  <1>3. CASE c = "FILLEDUP"
    <2>1. FilledQueue' = FilledQueue \cup {Len(queue) + 1}
      BY <1>1, <1>3 DEF FilledQueue
    <2> QED
      BY <1>2, <1>3, <2>1, FilledFinite, FS_AddElement
  <1>4. CASE c # "FILLEDUP"
    <2>1. FilledQueue' = FilledQueue
      BY <1>1, <1>4 DEF FilledQueue
    <2> QED
      BY <1>4, <2>1, FilledFinite
  <1> QED
    BY <1>3, <1>4

LEMMA AppendFilled ==
    ASSUME TypeOK, NEW b \in BadgeRecord, badges' = Append(badges, b)
    PROVE  Cardinality(FilledBadges') =
              Cardinality(FilledBadges) + (IF b.why = "FILLEDUP" THEN 1 ELSE 0)
  <1>1. /\ Len(badges) \in Nat /\ DOMAIN badges = 1 .. Len(badges)
        /\ DOMAIN badges' = 1 .. Len(badges) + 1 /\ badges'[Len(badges) + 1] = b
        /\ \A i \in DOMAIN badges : badges'[i] = badges[i]
    BY Lengths, AppendBadge
  <1>2. Len(badges) + 1 \notin FilledBadges
    BY <1>1 DEF FilledBadges
  <1>3. CASE b.why = "FILLEDUP"
    <2>1. FilledBadges' = FilledBadges \cup {Len(badges) + 1}
      BY <1>1, <1>3 DEF FilledBadges
    <2> QED
      BY <1>2, <1>3, <2>1, FilledFinite, FS_AddElement
  <1>4. CASE b.why # "FILLEDUP"
    <2>1. FilledBadges' = FilledBadges
      BY <1>1, <1>4 DEF FilledBadges
    <2> QED
      BY <1>4, <2>1, FilledFinite
  <1> QED
    BY <1>3, <1>4

\* Taking the head off moves every other mark by one place.
LEMMA TailTrigger ==
    ASSUME TypeOK, queue # <<>>, queue' = Tail(queue)
    PROVE  Cardinality(FilledQueue') + (IF Head(queue) = "FILLEDUP" THEN 1 ELSE 0)
              = Cardinality(FilledQueue)
  <1> DEFINE n == Len(queue)
             rest == FilledQueue \ {1}
             shift == [i \in FilledQueue' |-> i + 1]
  <1>1. /\ n \in Nat /\ n # 0 /\ DOMAIN queue = 1 .. n /\ Head(queue) = queue[1]
        /\ DOMAIN queue' = 1 .. n - 1
        /\ \A i \in 1 .. n - 1 : queue'[i] = queue[i + 1]
    BY DEF TypeOK
  <1>2. FilledQueue' \in SUBSET (1 .. n - 1)
    BY <1>1 DEF FilledQueue
  <1>3. IsFiniteSet(FilledQueue')
    <2>1. n - 1 \in Nat
      BY <1>1
    <2> QED
      BY <1>2, <2>1, Marked
  <1> HIDE DEF n
  <1>4. \A i : i \in FilledQueue' <=> i \in 1 .. n - 1 /\ queue[i + 1] = "FILLEDUP"
    BY <1>1 DEF FilledQueue
  <1>5. \A i : i \in rest <=> i \in 1 .. n /\ i # 1 /\ queue[i] = "FILLEDUP"
    BY <1>1 DEF FilledQueue
  <1>6. shift \in Bijection(FilledQueue', rest)
    <2>1. shift \in [FilledQueue' -> rest]
      <3>1. \A i \in FilledQueue' : i + 1 \in rest
        BY <1>1, <1>4, <1>5
      <3> QED
        BY <3>1
    <2>2. \A i, j \in FilledQueue' : shift[i] = shift[j] => i = j
      BY <1>1, <1>4
    <2>3. \A j \in rest : \E i \in FilledQueue' : shift[i] = j
      <3> SUFFICES ASSUME NEW j \in rest PROVE \E i \in FilledQueue' : shift[i] = j
        OBVIOUS
      <3>1. j \in 1 .. n /\ j # 1 /\ queue[j] = "FILLEDUP"
        BY <1>5
      <3>2. j - 1 \in 1 .. n - 1 /\ (j - 1) + 1 = j
        BY <1>1, <3>1
      <3>3. j - 1 \in FilledQueue'
        BY <1>4, <3>1, <3>2
      <3> QED
        BY <3>2, <3>3
    <2> QED
      BY <2>1, <2>2, <2>3 DEF Bijection, Injection, Surjection, IsInjective
  <1>7. Cardinality(rest) = Cardinality(FilledQueue')
    <2>1. ExistsBijection(FilledQueue', rest)
      BY <1>6 DEF ExistsBijection
    <2> QED
      BY <1>3, <2>1, FS_Bijection
  <1>8. Cardinality(rest) = IF 1 \in FilledQueue THEN Cardinality(FilledQueue) - 1
                            ELSE Cardinality(FilledQueue)
    BY FilledFinite, FS_RemoveElement
  <1>9. 1 \in FilledQueue <=> Head(queue) = "FILLEDUP"
    BY <1>1 DEF FilledQueue
  <1> QED
    BY <1>7, <1>8, <1>9, FilledFinite

\* A step that adds no trigger and uncounts nothing.
LEMMA EarnedStays ==
    ASSUME TypeOK, TypeOK', FilledInv, IsFiniteSet(Seen'),
           pc' = "insert" => block'.why = cause',
           Counted \subseteq Counted', Triggers' <= Triggers, counter' <= counter
    PROVE  FilledInv'
  <1>1. Triggers \in Nat /\ Triggers' \in Nat
    <2>1. badges' \in Seq(BadgeRecord) /\ queue' \in Seq(Causes)
      BY DEF TypeOK
    <2>2. FilledBadges' \in SUBSET DOMAIN badges' /\ FilledQueue' \in SUBSET DOMAIN queue'
      BY DEF FilledBadges, FilledQueue
    <2>3. Cardinality(FilledBadges') \in Nat /\ Cardinality(FilledQueue') \in Nat
      BY <2>1, <2>2, Places
    <2>4. FilledInHand' \in {0, 1}
      BY DEF FilledInHand
    <2> QED
      BY <2>3, <2>4, FilledFinite DEF Triggers
  <1>2. BATCH_SIZE * Triggers' <= BATCH_SIZE * Triggers
    <2>1. \A b, m, k \in Nat : m <= k => b * m <= b * k
      OBVIOUS
    <2> QED
      BY <1>1, <2>1, SizesAssumption
  <1>3. Cardinality(Counted) <= Cardinality(Counted') /\ Cardinality(Counted') \in Nat
    <2>1. Counted' \in SUBSET Seen'
      BY DEF Counted, Seen
    <2>2. IsFiniteSet(Counted')
      BY <2>1, FS_Subset
    <2> QED
      BY <2>2, FS_Subset, FS_CardinalityType
  <1>4. /\ Cardinality(Counted) \in Nat /\ counter \in Nat /\ counter' \in Nat
        /\ BATCH_SIZE * Triggers' \in Nat /\ BATCH_SIZE * Triggers \in Nat
    <2>1. \A b, m \in Nat : b * m \in Nat
      OBVIOUS
    <2>2. counter \in Nat /\ counter' \in Nat
      BY SizesAssumption DEF TypeOK
    <2>3. BATCH_SIZE * Triggers' \in Nat /\ BATCH_SIZE * Triggers \in Nat
      BY <1>1, <2>1, SizesAssumption
    <2> QED
      BY <2>2, <2>3, CountedFinite DEF FilledInv
  <1> QED
    BY <1>2, <1>3, <1>4 DEF FilledInv, Earned

LEMMA FilledInit == Init => FilledInv
  <1> SUFFICES ASSUME Init PROVE FilledInv
    OBVIOUS
  <1>1. FilledBadges = {} /\ FilledQueue = {} /\ FilledInHand = 0
    BY DEF Init, FilledBadges, FilledQueue, FilledInHand
  <1>2. Seen = {} /\ Counted = {}
    BY DEF Init, Seen, Counted, Docs
  <1> QED
    BY <1>1, <1>2, FS_EmptySet, SizesAssumption DEF Init, FilledInv, Earned, Triggers

\* A step of anything but the web handlers leaves the counted requests alone.
LEMMA PhaseStays ==
    ASSUME UNCHANGED phase
    PROVE  Seen' = Seen /\ Counted' = Counted
  BY DEF Seen, Counted

\* Neither badges nor queue nor phases change, and no trigger comes in hand.
LEMMA FilledStays ==
    ASSUME TypeOK, TypeOK', FilledInv, UNCHANGED <<badges, queue, phase, counter>>,
           FilledInHand' <= FilledInHand,
           pc' = "insert" => block'.why = cause'
    PROVE  FilledInv'
  <1>1. FilledBadges' = FilledBadges /\ FilledQueue' = FilledQueue
    BY DEF FilledBadges, FilledQueue
  <1>2. FilledInHand' \in {0, 1}
    BY DEF FilledInHand
  <1>3. Triggers' <= Triggers
    BY <1>1, <1>2, FilledFinite DEF Triggers
  <1>4. counter' <= counter
    BY SizesAssumption DEF TypeOK
  <1> QED
    BY <1>3, <1>4, PhaseStays, EarnedStays DEF FilledInv

\* A request moves on: the requests seen stay finitely many.
LEMMA OneMoreSeen ==
    ASSUME TypeOK, FilledInv, NEW t, NEW st,
           phase' = [phase EXCEPT ![t] = st], st # "new"
    PROVE  IsFiniteSet(Seen')
  <1>1. Seen' \in SUBSET (Seen \cup {t})
    BY DEF TypeOK, Seen, Docs
  <1>2. IsFiniteSet(Seen \cup {t})
    BY FS_AddElement DEF FilledInv
  <1> QED
    BY <1>1, <1>2, FS_Subset

LEMMA FilledCount ==
    ASSUME TypeOK, TypeOK', FilledInv, NEW t \in Transfers, CountSubmission(t)
    PROVE  FilledInv'
  <1>1. /\ phase[t] = "stored" /\ phase' = [phase EXCEPT ![t] = "done"]
        /\ counter' = NextCount(counter)
        /\ queue' = IF FillsBatch(counter) THEN Append(queue, "FILLEDUP") ELSE queue
        /\ UNCHANGED <<badges, pc, cause, block>>
    BY DEF CountSubmission, dbVars, blockVars
  <1>2. IsFiniteSet(Seen')
    BY <1>1, OneMoreSeen
  <1>3. Cardinality(Counted') = Cardinality(Counted) + 1 /\ Cardinality(Counted) \in Nat
    <2>1. Counted' = Counted \cup {t} /\ t \notin Counted
      BY <1>1 DEF TypeOK, Counted, Docs
    <2> QED
      BY <2>1, CountedFinite, FS_AddElement DEF FilledInv
  <1>4. FilledBadges' = FilledBadges /\ FilledInHand' = FilledInHand
    BY <1>1 DEF FilledBadges, FilledInHand
  <1>5. BATCH_SIZE \in Nat /\ BATCH_SIZE # 0 /\ counter \in Nat
    BY SizesAssumption DEF TypeOK
  <1>6. CASE FillsBatch(counter)
    <2>1. Cardinality(FilledQueue') = Cardinality(FilledQueue) + 1
      BY <1>1, <1>6, AppendTrigger DEF Causes
    <2>2. Triggers' = Triggers + 1 /\ Triggers \in Nat
      BY <1>4, <2>1, FilledFinite DEF Triggers
    <2>3. BATCH_SIZE * Triggers' = BATCH_SIZE * Triggers + BATCH_SIZE
      <3>1. \A b, m \in Nat : b * (m + 1) = b * m + b
        OBVIOUS
      <3> QED
        BY <1>5, <2>2, <3>1
    <2>4. BATCH_SIZE * Triggers \in Nat
      <3>1. \A b, m \in Nat : b * m \in Nat
        OBVIOUS
      <3> QED
        BY <1>5, <2>2, <3>1
    <2>5. counter + 1 = BATCH_SIZE /\ counter' = 0
      BY <1>1, <1>6 DEF FillsBatch, NextCount
    <2>6. BATCH_SIZE * Triggers + counter <= Cardinality(Counted)
      BY DEF FilledInv, Earned
    <2>7. BATCH_SIZE * Triggers' + counter' <= Cardinality(Counted')
      BY <1>3, <1>5, <2>3, <2>4, <2>5, <2>6
    <2> QED
      BY <1>1, <1>2, <2>7 DEF FilledInv, Earned
  <1>7. CASE ~ FillsBatch(counter)
    <2>1. FilledQueue' = FilledQueue
      BY <1>1, <1>7 DEF FilledQueue
    <2>2. Triggers' = Triggers /\ Triggers \in Nat
      BY <1>4, <2>1, FilledFinite DEF Triggers
    <2>3. counter' = counter + 1
      BY <1>1, <1>7 DEF NextCount
    <2>4. BATCH_SIZE * Triggers \in Nat
      <3>1. \A b, m \in Nat : b * m \in Nat
        OBVIOUS
      <3> QED
        BY <1>5, <2>2, <3>1
    <2>5. BATCH_SIZE * Triggers + counter <= Cardinality(Counted)
      BY DEF FilledInv, Earned
    <2>6. BATCH_SIZE * Triggers + (counter + 1) <= Cardinality(Counted) + 1
      BY <1>3, <1>5, <2>4, <2>5
    <2> QED
      BY <1>1, <1>2, <1>3, <2>2, <2>3, <2>6 DEF FilledInv, Earned
  <1> QED
    BY <1>6, <1>7

LEMMA FilledBoot ==
    ASSUME TypeOK, TypeOK', FilledInv, Boot \/ Crash
    PROVE  FilledInv'
  <1>1. /\ queue' = <<>> /\ counter' = 0 /\ pc' \in {"boot", "idle"}
        /\ badges' = badges \/ badges' = Append(badges, Genesis)
    BY DEF Boot, Crash, dbVars
  <1>2. FilledQueue' = {} /\ FilledInHand' = 0
    BY <1>1 DEF FilledQueue, FilledInHand
  <1>3. Cardinality(FilledBadges') = Cardinality(FilledBadges)
    <2>1. CASE badges' = badges
      BY <2>1 DEF FilledBadges
    <2>2. CASE badges' = Append(badges, Genesis)
      <3>1. Genesis.why # "FILLEDUP"
        BY DEF Genesis, Badge
      <3> QED
        BY <2>2, <3>1, GenesisType, AppendFilled, FilledFinite
    <2> QED
      BY <1>1, <2>1, <2>2
  <1>4. Triggers' <= Triggers
    BY <1>2, <1>3, FilledFinite, FS_EmptySet DEF Triggers
  <1>5. IsFiniteSet(Seen') /\ Counted \subseteq Counted'
    <2>1. CASE Boot
      BY <2>1, PhaseStays DEF Boot, FilledInv
    <2>2. CASE Crash
      <3>1. /\ \A d \in Docs : phase[d] = "new" => phase'[d] = "new"
            /\ \A d \in Docs : phase[d] = "done" => phase'[d] = "done"
        BY <2>2 DEF Crash
      <3>2. Seen' \in SUBSET Seen /\ Counted \subseteq Counted'
        BY <3>1 DEF Seen, Counted, Docs
      <3> QED
        BY <3>2, FS_Subset DEF FilledInv
    <2> QED
      BY <2>1, <2>2
  <1>6. counter' <= counter
    BY <1>1, SizesAssumption DEF TypeOK
  <1> QED
    BY <1>1, <1>4, <1>5, <1>6, EarnedStays

LEMMA FilledHandlers ==
    ASSUME TypeOK, TypeOK', FilledInv, NEW d \in Docs,
           \/ d \in Transfers /\ (ReceiveSubmission(d) \/ InsertTransaction(d)
                                    \/ InsertTransactionFails(d))
           \/ d \in Deposits /\ ListenerStep(d)
    PROVE  FilledInv'
  <1>1. PICK st \in Phases \ {"new"} :
           /\ phase' = [phase EXCEPT ![d] = st]
           /\ d \in Transfers => phase[d] # "done"
           /\ UNCHANGED <<badges, queue, counter, pc, cause, block>>
    BY DocsAssumption
       DEF ReceiveSubmission, InsertTransaction, InsertTransactionFails, ListenerStep,
           ListenerHandle, DepositLands, DepositInsertFails, Phases, dbVars, blockVars
  <1>2. IsFiniteSet(Seen')
    BY <1>1, OneMoreSeen
  <1>3. Counted \subseteq Counted'
    BY <1>1 DEF TypeOK, Counted, Docs
  <1>4. FilledBadges' = FilledBadges /\ FilledQueue' = FilledQueue /\ FilledInHand' = FilledInHand
    BY <1>1 DEF FilledBadges, FilledQueue, FilledInHand
  <1>5. Triggers' <= Triggers /\ counter' <= counter
    <2>1. Triggers' <= Triggers
      BY <1>1, <1>4, FilledFinite DEF Triggers
    <2>2. counter \in Nat /\ counter' = counter
      BY <1>1, SizesAssumption DEF TypeOK
    <2> QED
      BY <2>1, <2>2
  <1> QED
    BY <1>1, <1>2, <1>3, <1>5, EarnedStays DEF FilledInv

LEMMA FilledTake ==
    ASSUME TypeOK, TypeOK', FilledInv, ConsumerTake
    PROVE  FilledInv'
  <1>1. /\ pc = "idle" /\ pc' = "find" /\ queue # <<>> /\ queue' = Tail(queue)
        /\ cause' = Head(queue) /\ UNCHANGED <<badges, phase, counter>>
    BY DEF ConsumerTake, dbVars, webVars
  <1>2. FilledBadges' = FilledBadges
    BY <1>1 DEF FilledBadges
  <1>3. FilledInHand = 0 /\ FilledInHand' = IF Head(queue) = "FILLEDUP" THEN 1 ELSE 0
    BY <1>1 DEF FilledInHand
  <1>4. Cardinality(FilledQueue') + FilledInHand' = Cardinality(FilledQueue)
    BY <1>1, <1>3, TailTrigger
  <1>5. Cardinality(FilledQueue') \in Nat
    <2>1. queue' \in Seq(Causes)
      BY DEF TypeOK
    <2>2. FilledQueue' \in SUBSET DOMAIN queue'
      BY DEF FilledQueue
    <2> QED
      BY <2>1, <2>2, Places
  <1>6. Triggers' <= Triggers /\ counter' <= counter
    <2>1. Triggers' <= Triggers
      BY <1>1, <1>2, <1>3, <1>4, <1>5, FilledFinite DEF Triggers
    <2>2. counter \in Nat /\ counter' = counter
      BY <1>1, SizesAssumption DEF TypeOK
    <2> QED
      BY <2>1, <2>2
  <1> QED
    BY <1>1, <1>6, PhaseStays, EarnedStays DEF FilledInv

LEMMA FilledInsert ==
    ASSUME TypeOK, TypeOK', FilledInv, InsertBadge
    PROVE  FilledInv'
  <1>1. /\ pc = "insert" /\ pc' = "advance" /\ badges' = Append(badges, block)
        /\ block.why = cause /\ UNCHANGED <<queue, phase, counter>>
    BY DEF InsertBadge, webVars, FilledInv
  <1>2. FilledQueue' = FilledQueue
    BY <1>1 DEF FilledQueue
  <1>3. FilledInHand' = 0 /\ FilledInHand = IF block.why = "FILLEDUP" THEN 1 ELSE 0
    BY <1>1 DEF FilledInHand
  <1>4. Cardinality(FilledBadges') = Cardinality(FilledBadges) + FilledInHand
    BY <1>1, <1>3, AppendFilled DEF TypeOK
  <1>5. Triggers' <= Triggers /\ counter' <= counter
    <2>1. Triggers' <= Triggers
      BY <1>1, <1>2, <1>3, <1>4, FilledFinite DEF Triggers
    <2>2. counter \in Nat /\ counter' = counter
      BY <1>1, SizesAssumption DEF TypeOK
    <2> QED
      BY <2>1, <2>2
  <1> QED
    BY <1>1, <1>5, PhaseStays, EarnedStays DEF FilledInv

LEMMA FilledProduce ==
    ASSUME TypeOK, TypeOK', FilledInv, ProduceTimeout
    PROVE  FilledInv'
  <1>1. /\ queue' = Append(queue, "TIMEDOUT")
        /\ UNCHANGED <<badges, phase, counter, pc, cause, block>>
    BY DEF ProduceTimeout, dbVars, webVars, blockVars
  <1>2. Cardinality(FilledQueue') = Cardinality(FilledQueue)
    BY <1>1, AppendTrigger, FilledFinite DEF Causes
  <1>3. FilledBadges' = FilledBadges /\ FilledInHand' = FilledInHand
    BY <1>1 DEF FilledBadges, FilledInHand
  <1>4. Triggers' <= Triggers /\ counter' <= counter
    <2>1. Triggers' <= Triggers
      BY <1>1, <1>2, <1>3, FilledFinite DEF Triggers
    <2>2. counter \in Nat /\ counter' = counter
      BY <1>1, SizesAssumption DEF TypeOK
    <2> QED
      BY <2>1, <2>2
  <1> QED
    BY <1>1, <1>4, PhaseStays, EarnedStays DEF FilledInv

LEMMA FilledNext == TypeOK /\ FilledInv /\ [Next]_vars => FilledInv'
  <1> SUFFICES ASSUME TypeOK, FilledInv, [Next]_vars PROVE FilledInv'
    OBVIOUS
  <1>0. TypeOK'
    BY TypeNext
  <1>1. CASE Boot \/ Crash
    BY <1>0, <1>1, FilledBoot
  <1>2. CASE ProduceTimeout
    BY <1>0, <1>2, FilledProduce
  <1>3. ASSUME NEW t \in Transfers, ClientStep(t) PROVE FilledInv'
    BY <1>0, <1>3, FilledCount, FilledHandlers DEF ClientStep, Docs
  <1>4. ASSUME NEW d \in Deposits, ListenerStep(d) PROVE FilledInv'
    BY <1>0, <1>4, FilledHandlers DEF Docs
  <1>5. CASE ConsumerTake
    BY <1>0, <1>5, FilledTake
  <1>6. CASE InsertBadge
    BY <1>0, <1>6, FilledInsert
  <1>7. CASE \/ FindBatch \/ FindFails \/ MarkIncluded \/ MarkFails \/ StampBatch
             \/ ApplyOk \/ ApplyFailed \/ BuildBlock
    <2>1. /\ UNCHANGED <<badges, queue, phase, counter, cause>>
          /\ pc \notin {"boot", "idle", "advance"}
      BY <1>7 DEF FindBatch, FindFails, MarkIncluded, MarkFails, StampBatch, ApplyOk, ApplyFailed,
                  BuildBlock, dbVars, webVars, blockVars
    <2>2. FilledInHand' <= FilledInHand
      BY <2>1 DEF FilledInHand
    <2>3. pc' = "insert" => block'.why = cause'
      BY <1>7 DEF FindBatch, FindFails, MarkIncluded, MarkFails, StampBatch, ApplyOk, ApplyFailed,
                  BuildBlock, Badge
    <2> QED
      BY <1>0, <2>1, <2>2, <2>3, FilledStays
  <1>8. CASE LoseBlock \/ BlockStepFails \/ AdvancePointer
    <2>1. UNCHANGED <<badges, queue, phase, counter>> /\ pc' = "idle"
      BY <1>8 DEF LoseBlock, BlockStepFails, AdvancePointer, dbVars, webVars
    <2>2. FilledInHand' <= FilledInHand
      BY <2>1 DEF FilledInHand
    <2> QED
      BY <1>0, <2>1, <2>2, FilledStays
  <1>9. CASE PointerLands \/ Tick \/ EndOfRun \/ UNCHANGED vars
    <2>1. UNCHANGED <<badges, queue, phase, counter, pc, cause, block>>
      BY <1>9 DEF PointerLands, Tick, EndOfRun, vars, dbVars, webVars, blockVars
    <2>2. FilledInHand' <= FilledInHand /\ (pc' = "insert" => block'.why = cause')
      BY <2>1 DEF FilledInHand, FilledInv
    <2> QED
      BY <1>0, <2>1, <2>2, FilledStays
  <1> QED
    BY <1>1, <1>2, <1>3, <1>4, <1>5, <1>6, <1>7, <1>8, <1>9
       DEF Next, ConsumerStep, ConsumerFault

\* Every FILLEDUP trigger stands for BATCH_SIZE requests of its own that were
\* counted, however handlers interleave, calls fail and the node restarts.
THEOREM TriggersAreEarned == Spec => []FilledUpBacked
  <1>1. TypeOK /\ FilledInv => FilledUpBacked
    <2> SUFFICES ASSUME TypeOK, FilledInv PROVE FilledUpBacked
      OBVIOUS
    <2>1. counter \in Nat /\ Cardinality(Counted) \in Nat /\ BATCH_SIZE * Triggers \in Nat
      <3>1. \A b, m \in Nat : b * m \in Nat
        OBVIOUS
      <3>2. BATCH_SIZE * Triggers \in Nat
        BY <3>1, FilledFinite, SizesAssumption
      <3> QED
        BY <3>2, CountedFinite, SizesAssumption DEF FilledInv, TypeOK
    <2>2. BATCH_SIZE * Triggers <= Cardinality(Counted)
      BY <2>1 DEF FilledInv, Earned
    <2>3. Triggers = Cardinality(FilledBadges) + Cardinality(FilledQueue) + FilledInHand
      BY DEF Triggers
    <2> QED
      BY <2>2, <2>3 DEF FilledUpBacked, FilledBadges, FilledQueue, FilledInHand, Counted
  <1>2. Spec => []FilledInv
    BY FilledInit, FilledNext, TypeCorrect, PTL DEF Spec
  <1> QED
    BY <1>1, <1>2, TypeCorrect, PTL
=============================================================================
