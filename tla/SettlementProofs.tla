--------------------------- MODULE SettlementProofs ---------------------------
(***************************************************************************)
(* What the rollup contract records, for all batches, all runs of the host *)
(* and whatever the users do meanwhile.                                    *)
(*                                                                         *)
(* The places of the batches and the chain of roots are written once.      *)
(* What a run reports, and where its badge is settled, rests on a fact     *)
(* that goes both ways: a transaction that succeeded has put the journal   *)
(* of its run at the place of its badge id, and a place that a run has     *)
(* taken is that of its badge.  Others may take places between.            *)
(*                                                                         *)
(* The DepositManager of the whole system is that of ManagerSpec: whatever *)
(* the hosts and the rollup do is a step of it, so what holds of it holds  *)
(* here.                                                                   *)
(***************************************************************************)
EXTENDS Settlement, DepositManagerProofs

Recorded ==
    /\ batchCount \in Nat
    /\ accepted \in Seq(Journals)
    /\ batchProcessedDepositIds \in Seq(SUBSET Nat)
    /\ \E S : roots \in Seq(S)
    /\ RootsChain

\* A succeeded transaction is recorded at the place of its badge, and a place
\* that a run took is that of its badge.
Placed ==
    /\ settledBy \in Seq(Runs \cup {NoRun}) /\ Len(settledBy) = batchCount
    /\ \A r \in Runs : transaction[r] = "succeeded" =>
          /\ journal[r].badgeId \in DOMAIN accepted
          /\ accepted[journal[r].badgeId] = journal[r]
          /\ settledBy[journal[r].badgeId] = r
    /\ \A n \in DOMAIN settledBy : settledBy[n] # NoRun =>
          /\ transaction[settledBy[n]] = "succeeded"
          /\ journal[settledBy[n]].badgeId = n

\* A run has a transaction only after it has its journal, which is one of success.
RunsSound ==
    /\ pc \in [Runs -> Progress]
    /\ journal \in [Runs -> {j \in Journals : j.success} \cup {NoJournal}]
    /\ transaction \in [Runs -> {"none", "pending", "succeeded", "reverted", "lost"}]
    /\ \A r \in Runs : pc[r] \in {"start", "proved"} => transaction[r] = "none"
    /\ \A r \in Runs : pc[r] \in {"proved", "sent"} => journal[r] \in Journals
    /\ \A r \in Runs : transaction[r] = "pending" => journal[r] \in Journals
    /\ \A r \in Runs : pc[r] = "published" => transaction[r] \in {"succeeded", "reverted"}
    /\ \A r \in Runs : pc[r] = "settled" => transaction[r] = "succeeded"

SettlementInv == Recorded /\ Placed /\ RunsSound

---------------------------------------------------------------------------
(* The contract.                                                           *)

LEMMA RecordedInit == Init => Recorded
  <1> SUFFICES ASSUME Init PROVE Recorded
    OBVIOUS
  <1>1. roots \in Seq({})
    BY DEF Init, RollupInit
  <1>2. RootsChain
    BY DEF Init, RollupInit, RootsChain
  <1> QED
    BY <1>1, <1>2 DEF Recorded, Init, RollupInit

\* submitBatch writes one batch behind those that are there.
LEMMA RecordedSubmit ==
    ASSUME Recorded, NEW b, NEW j \in Journals, SubmitBatch(b, j)
    PROVE  /\ Recorded'
           /\ b = batchCount + 1 /\ batchCount' = b /\ accepted' = Append(accepted, j)
           /\ DOMAIN accepted = 1 .. batchCount /\ DOMAIN accepted' = 1 .. b
           /\ \A k \in 1 .. batchCount : accepted'[k] = accepted[k]
           /\ accepted'[b] = j
  <1> DEFINE newRoot == Hash(ExpectedOldRoot(b), j, b)
  <1> DEFINE n == batchCount + 1
  <1>1. /\ b = n /\ n \in Nat
        /\ currentRoot' = newRoot /\ roots' = Append(roots, newRoot)
        /\ batchCount' = n /\ accepted' = Append(accepted, j)
    BY DEF SubmitBatch, Acceptable, SequentialId, Recorded
  <1>2. PICK S : roots \in Seq(S)
    BY DEF Recorded
  <1>3. roots' \in Seq(S \cup {newRoot})
    BY <1>1, <1>2
  <1>4. /\ Len(roots) = batchCount /\ Len(accepted) = batchCount
        /\ batchCount \in Nat /\ accepted \in Seq(Journals)
    BY DEF Recorded, RootsChain
  <1>5. /\ DOMAIN roots = 1 .. batchCount /\ DOMAIN roots' = 1 .. n
        /\ \A k \in 1 .. batchCount : roots'[k] = roots[k]
        /\ roots'[n] = newRoot
    BY <1>1, <1>2, <1>4
  <1>6. /\ DOMAIN accepted = 1 .. batchCount /\ DOMAIN accepted' = 1 .. n
        /\ \A k \in 1 .. batchCount : accepted'[k] = accepted[k]
        /\ accepted'[n] = j
        /\ accepted' \in Seq(Journals) /\ Len(accepted') = n
    BY <1>1, <1>4
  <1>7. batchProcessedDepositIds' \in Seq(SUBSET Nat)
    <2>1. batchProcessedDepositIds' = Append(batchProcessedDepositIds, ProcessedDepositIds(j))
      BY DEF SubmitBatch
    <2>2. ProcessedDepositIds(j) \in SUBSET Nat
      BY DEF ProcessedDepositIds
    <2> QED
      BY <2>1, <2>2 DEF Recorded
  <1>8. RootsChain'
    <2>1. Len(roots') = n
      BY <1>1, <1>2, <1>4
    <2>2. roots' # <<>> /\ currentRoot' = roots'[n]
      BY <1>1, <1>5
    <2>3. ASSUME NEW k \in 1 .. batchCount
          PROVE  roots'[k] = Hash(IF k = 1 THEN ZeroRoot ELSE roots'[k - 1], accepted'[k], k)
      <3>1. roots[k] = Hash(IF k = 1 THEN ZeroRoot ELSE roots[k - 1], accepted[k], k)
        BY <1>5 DEF Recorded, RootsChain
      <3>2. k # 1 => k - 1 \in 1 .. batchCount
        BY <1>4
      <3> QED
        BY <1>5, <1>6, <3>1, <3>2
    <2>4. roots'[n] = Hash(IF n = 1 THEN ZeroRoot ELSE roots'[n - 1], accepted'[n], n)
      <3>1. n # 1 => n - 1 \in 1 .. batchCount
        BY <1>4
      <3> QED
        BY <1>1, <1>4, <1>5, <1>6, <3>1 DEF ExpectedOldRoot
    <2>5. \A k \in 1 .. n : k = n \/ k \in 1 .. batchCount
      BY <1>4
    <2> QED
      BY <1>1, <1>5, <1>6, <2>1, <2>2, <2>3, <2>4, <2>5 DEF RootsChain
  <1>9. Recorded'
    BY <1>1, <1>3, <1>6, <1>7, <1>8 DEF Recorded
  <1> QED
    BY <1>1, <1>6, <1>9

LEMMA RecordedUnchanged == Recorded /\ UNCHANGED rollupVars => Recorded'
  BY DEF Recorded, rollupVars, RootsChain

---------------------------------------------------------------------------
(* The runs.                                                               *)

LEMMA SettlementInvInit == Init => SettlementInv
  <1> SUFFICES ASSUME Init PROVE SettlementInv
    OBVIOUS
  <1>1. Placed
    BY DEF Init, RollupInit, Placed
  <1>2. RunsSound
    BY DEF Init, RunsSound, Progress
  <1> QED
    BY <1>1, <1>2, RecordedInit DEF SettlementInv

\* A batch of someone else takes the next place and leaves the others.
LEMMA OutsideKeeps ==
    ASSUME SettlementInv, SubmitOutside
    PROVE  SettlementInv'
  <1> USE DEF SettlementInv
  <1>1. PICK j \in Journals : SubmitBatch(batchCount + 1, j)
    BY DEF SubmitOutside
  <1>2. /\ settledBy' = Append(settledBy, NoRun)
        /\ UNCHANGED <<pc, journal, transaction>>
    BY DEF SubmitOutside
  <1>3. /\ Recorded' /\ batchCount' = batchCount + 1
        /\ DOMAIN accepted = 1 .. batchCount /\ DOMAIN accepted' = 1 .. batchCount + 1
        /\ \A k \in 1 .. batchCount : accepted'[k] = accepted[k]
    BY <1>1, RecordedSubmit
  <1>4. /\ settledBy' \in Seq(Runs \cup {NoRun}) /\ Len(settledBy') = batchCount + 1
        /\ DOMAIN settledBy = 1 .. batchCount /\ DOMAIN settledBy' = 1 .. batchCount + 1
        /\ \A k \in 1 .. batchCount : settledBy'[k] = settledBy[k]
        /\ settledBy'[batchCount + 1] = NoRun
    BY <1>2 DEF Placed, Recorded
  <1>5. batchCount \in Nat /\ \A k \in 1 .. batchCount + 1 : k = batchCount + 1 \/ k \in 1 .. batchCount
    BY DEF Recorded
  <1>6. \A r \in Runs : transaction[r] = "succeeded" =>
            /\ journal[r].badgeId \in 1 .. batchCount /\ journal[r].badgeId \in DOMAIN accepted'
            /\ accepted'[journal[r].badgeId] = journal[r]
            /\ settledBy'[journal[r].badgeId] = r
    BY <1>3, <1>4, <1>5 DEF Placed
  <1>7. \A n \in DOMAIN settledBy' : settledBy'[n] # NoRun =>
            /\ transaction[settledBy'[n]] = "succeeded"
            /\ journal[settledBy'[n]].badgeId = n
    BY <1>4, <1>5 DEF Placed
  <1>8. Placed'
    BY <1>2, <1>3, <1>4, <1>6, <1>7 DEF Placed
  <1>9. RunsSound'
    BY <1>2 DEF RunsSound
  <1> QED
    BY <1>3, <1>8, <1>9

LEMMA MineKeeps ==
    ASSUME SettlementInv, NEW r \in Runs, Mine(r)
    PROVE  SettlementInv'
  <1> USE DEF SettlementInv
  <1>1. /\ transaction[r] = "pending" /\ journal[r] \in Journals
        /\ pc' = pc /\ journal' = journal
    BY DEF Mine, RunsSound
  <1>2. CASE /\ SubmitBatch(journal[r].badgeId, journal[r])
             /\ transaction' = [transaction EXCEPT ![r] = "succeeded"]
             /\ settledBy' = Append(settledBy, r)
    <2> DEFINE b == journal[r].badgeId
    <2>1. /\ Recorded' /\ b = batchCount + 1 /\ batchCount' = b
          /\ DOMAIN accepted = 1 .. batchCount /\ DOMAIN accepted' = 1 .. b
          /\ \A k \in 1 .. batchCount : accepted'[k] = accepted[k]
          /\ accepted'[b] = journal[r]
      BY <1>1, <1>2, RecordedSubmit
    <2>2. /\ settledBy' \in Seq(Runs \cup {NoRun}) /\ Len(settledBy') = b
          /\ DOMAIN settledBy = 1 .. batchCount /\ DOMAIN settledBy' = 1 .. b
          /\ \A k \in 1 .. batchCount : settledBy'[k] = settledBy[k]
          /\ settledBy'[b] = r
      BY <1>2, <2>1 DEF Placed, Recorded
    <2>3. batchCount \in Nat /\ \A k \in 1 .. b : k = b \/ k \in 1 .. batchCount
      BY <2>1 DEF Recorded
    <2>4. /\ transaction'[r] = "succeeded"
          /\ \A q \in Runs \ {r} : transaction'[q] = transaction[q]
      BY <1>2 DEF RunsSound
    <2>5. b \in 1 .. b
      BY <2>1, <2>3
    <2> HIDE DEF b
    <2>6. \A q \in Runs : transaction'[q] = "succeeded" =>
              /\ journal[q].badgeId \in DOMAIN accepted'
              /\ accepted'[journal[q].badgeId] = journal[q]
              /\ settledBy'[journal[q].badgeId] = q
      <3> TAKE q \in Runs
      <3>1. CASE q = r
        BY <2>1, <2>2, <2>5, <3>1 DEF b
      <3>2. CASE q # r
        <4>1. transaction[q] = "succeeded" => journal[q].badgeId \in 1 .. batchCount
          BY <2>1 DEF Placed
        <4>2. \A k \in 1 .. batchCount : k \in 1 .. b
          BY <2>1, <2>3
        <4> QED
          BY <2>1, <2>2, <2>4, <3>2, <4>1, <4>2 DEF Placed
      <3> QED
        BY <3>1, <3>2
    <2>7. \A n \in DOMAIN settledBy' : settledBy'[n] # NoRun =>
              /\ transaction'[settledBy'[n]] = "succeeded"
              /\ journal[settledBy'[n]].badgeId = n
      <3> TAKE n \in DOMAIN settledBy'
      <3>1. CASE n = b
        BY <2>2, <2>4, <3>1 DEF b
      <3>2. CASE n # b
        <4>1. n \in 1 .. batchCount /\ settledBy'[n] = settledBy[n]
          BY <2>2, <2>3, <3>2
        <4>2. settledBy[n] \in Runs \cup {NoRun}
          BY <2>2, <4>1 DEF Placed
        <4> QED
          BY <1>1, <2>2, <2>4, <4>1, <4>2 DEF Placed
      <3> QED
        BY <3>1, <3>2
    <2>8. Placed'
      BY <1>1, <2>1, <2>2, <2>6, <2>7 DEF Placed
    <2>9. RunsSound'
      BY <1>1, <1>2 DEF RunsSound
    <2> QED
      BY <2>1, <2>8, <2>9
  <1>3. CASE /\ transaction' = [transaction EXCEPT ![r] = "reverted"]
             /\ UNCHANGED <<managerVars, rollupVars, settledBy>>
    <2>1. Recorded'
      BY <1>3, RecordedUnchanged
    <2>2. Placed'
      <3>1. \A q \in Runs : transaction'[q] = "succeeded" <=> transaction[q] = "succeeded"
        BY <1>1, <1>3 DEF RunsSound
      <3>2. \A n \in DOMAIN settledBy : settledBy[n] \in Runs \cup {NoRun}
        BY DEF Placed
      <3> QED
        BY <1>1, <1>3, <3>1, <3>2 DEF Placed, rollupVars
    <2>3. RunsSound'
      BY <1>1, <1>3 DEF RunsSound
    <2> QED
      BY <2>1, <2>2, <2>3
  <1> QED
    BY <1>2, <1>3 DEF Mine

\* Steps that settle nothing.
LEMMA PlacedStays ==
    ASSUME SettlementInv, UNCHANGED <<rollupVars, settledBy>>,
           \A q \in Runs : transaction'[q] = "succeeded" <=> transaction[q] = "succeeded",
           \A q \in Runs : transaction[q] = "succeeded" => journal'[q] = journal[q]
    PROVE  Recorded' /\ Placed'
  <1>1. \A n \in DOMAIN settledBy : settledBy[n] \in Runs \cup {NoRun}
    BY DEF SettlementInv, Placed
  <1>2. Placed'
    BY <1>1 DEF SettlementInv, Placed, rollupVars
  <1> QED
    BY <1>2, RecordedUnchanged DEF SettlementInv

LEMMA SettlementInvNext == SettlementInv /\ [Next]_vars => SettlementInv'
  <1> SUFFICES ASSUME SettlementInv, [Next]_vars PROVE SettlementInv'
    OBVIOUS
  <1>1. ASSUME UNCHANGED <<rollupVars, hostVars>> PROVE SettlementInv'
    <2>1. RunsSound'
      BY <1>1 DEF SettlementInv, hostVars, RunsSound
    <2> QED
      BY <1>1, <2>1, PlacedStays DEF SettlementInv, hostVars
  <1>2. ASSUME NEW r \in Runs, Prove(r) PROVE SettlementInv'
    <2>1. UNCHANGED <<rollupVars, settledBy, transaction>> /\ pc[r] = "start"
      BY <1>2 DEF Prove
    <2>2. transaction[r] = "none" /\ \A q \in Runs : q # r => journal'[q] = journal[q]
      BY <1>2, <2>1 DEF Prove, SettlementInv, RunsSound
    <2>3. RunsSound'
      BY <1>2, <2>2 DEF Prove, Checked, SettlementInv, RunsSound, Progress
    <2> QED
      BY <2>1, <2>2, <2>3, PlacedStays DEF SettlementInv
  <1>3. ASSUME NEW r \in Runs, Send(r) \/ SendFails(r) PROVE SettlementInv'
    <2>1. UNCHANGED <<rollupVars, settledBy, journal>> /\ pc[r] = "proved"
      BY <1>3 DEF Send, SendFails
    <2>2. transaction[r] = "none"
      BY <2>1 DEF SettlementInv, RunsSound
    <2>3. \A q \in Runs : transaction'[q] = "succeeded" <=> transaction[q] = "succeeded"
      BY <1>3, <2>2 DEF Send, SendFails, SettlementInv, RunsSound
    <2>4. RunsSound'
      BY <1>3, <2>2 DEF Send, SendFails, SettlementInv, RunsSound, Progress
    <2> QED
      BY <2>1, <2>3, <2>4, PlacedStays DEF SettlementInv
  <1>4. ASSUME NEW r \in Runs, Receipt(r) \/ Report(r) \/ ReceiptFails(r) PROVE SettlementInv'
    <2>1. UNCHANGED <<rollupVars, settledBy, journal, transaction>>
      BY <1>4 DEF Receipt, Report, ReceiptFails
    <2>2. RunsSound'
      BY <1>4 DEF Receipt, Report, ReceiptFails, SettlementInv, RunsSound, Progress, Outcome
    <2> QED
      BY <2>1, <2>2, PlacedStays DEF SettlementInv
  <1>5. ASSUME NEW r \in Runs, LoseTransaction(r) PROVE SettlementInv'
    <2>1. UNCHANGED <<rollupVars, settledBy, journal, pc>>
      BY <1>5 DEF LoseTransaction
    <2>2. \A q \in Runs : transaction'[q] = "succeeded" <=> transaction[q] = "succeeded"
      BY <1>5 DEF LoseTransaction, SettlementInv, RunsSound
    <2>3. RunsSound'
      BY <1>5 DEF LoseTransaction, SettlementInv, RunsSound
    <2> QED
      BY <2>1, <2>2, <2>3, PlacedStays DEF SettlementInv
  <1>6. CASE ManagerStep
    BY <1>1, <1>6 DEF ManagerStep
  <1>7. CASE EndOfRun \/ UNCHANGED vars
    BY <1>1, <1>7 DEF EndOfRun, vars
  <1> QED
    BY <1>2, <1>3, <1>4, <1>5, <1>6, <1>7, MineKeeps, OutsideKeeps DEF Next, HostStep, ChainStep

LEMMA SettlementInvHolds == Spec => []SettlementInv
  BY SettlementInvInit, SettlementInvNext, PTL DEF Spec

---------------------------------------------------------------------------
(* The manager in the system.                                              *)

\* submitBatch does to the manager what markDepositsProcessed does, or nothing;
\* whichever deposits it takes from a journal.
LEMMA SubmitIsMark ==
    ASSUME NEW b, NEW j, SubmitBatch(b, j)
    PROVE  RollupStep \/ UNCHANGED managerVars
  <1> DEFINE ids == ProcessedDepositIds(j)
  <1>1. CASE ids = {}
    BY <1>1 DEF SubmitBatch
  <1>2. CASE ids # {}
    <2>1. MarkDepositsProcessed(RollupAddress, ids)
      BY <1>2 DEF SubmitBatch
    <2>2. RollupAddress \in Contracts /\ ids \in (SUBSET Ids(store)) \ {{}}
      BY <1>2, RollupAssumption DEF SubmitBatch, Acceptable, Markable
    <2> QED
      BY <2>1, <2>2 DEF RollupStep
  <1> QED
    BY <1>1, <1>2

LEMMA StepIsManagerStep == [Next]_vars => [ManagerNext]_managerVars
  <1> SUFFICES ASSUME [Next]_vars PROVE [ManagerNext]_managerVars
    OBVIOUS
  <1>1. ASSUME NEW r \in Runs, HostStep(r) PROVE UNCHANGED managerVars
    BY <1>1 DEF HostStep, Prove, Send, SendFails, Receipt, Report, ReceiptFails
  <1>2. ASSUME (\E r \in Runs : ChainStep(r)) \/ SubmitOutside PROVE [ManagerNext]_managerVars
    BY <1>2, SubmitIsMark DEF ChainStep, Mine, LoseTransaction, SubmitOutside, ManagerNext
  <1>3. CASE ManagerStep
    <2>1. LinkContracts => OwnerStep
      BY RollupAssumption DEF LinkContracts, OwnerStep
    <2> QED
      BY <1>3, <2>1 DEF ManagerStep, ManagerNext
  <1>4. CASE EndOfRun \/ UNCHANGED vars
    BY <1>4 DEF EndOfRun, vars
  <1> QED
    BY <1>1, <1>2, <1>3, <1>4 DEF Next

\* The deployed system is, for its users, the DepositManager: its hosts and the
\* rollup contract do nothing to it that ManagerSpec does not allow.
THEOREM ManagerInSystem == Spec => ManagerSpec
  <1>1. Init => ManagerInit
    BY DEF Init
  <1> QED
    BY <1>1, StepIsManagerStep, PTL DEF Spec, ManagerSpec

---------------------------------------------------------------------------
(* What follows.                                                           *)

\* The batches that runs of the host submit settle in the order of their badges,
\* each at its badge id and by one run, whoever else submits what between them.
THEOREM BadgesSettleInOrder == Spec => []SettledInOrder
  <1>1. ASSUME SettlementInv PROVE SettledInOrder
    <2>1. Len(settledBy) = batchCount /\ Len(accepted) = batchCount
      BY <1>1 DEF SettlementInv, Placed, Recorded, RootsChain
    <2>2. ASSUME NEW n \in DOMAIN settledBy, settledBy[n] # NoRun
          PROVE  /\ settledBy[n] \in Runs /\ journal[settledBy[n]].badgeId = n
                 /\ accepted[n] = journal[settledBy[n]]
      <3>1. settledBy[n] \in Runs
        BY <1>1, <2>2 DEF SettlementInv, Placed
      <3> QED
        BY <1>1, <2>2, <3>1 DEF SettlementInv, Placed
    <2> QED
      BY <2>1, <2>2 DEF SettledInOrder
  <1> QED
    BY <1>1, SettlementInvHolds, PTL

\* The root that submitBatch stores commits to all batches so far.
THEOREM RootsCommitToHistory == Spec => []RootsChain
  <1>1. SettlementInv => RootsChain
    BY DEF SettlementInv, Recorded
  <1> QED
    BY <1>1, SettlementInvHolds, PTL

\* A host run that reports "Transaction succeeded!" has its batch on the chain, at
\* the place of its badge. One that has reported "Batch published successfully!"
\* knows only that its transaction was mined.
THEOREM ReportsAreTrue == Spec => []ReportedIsSettled
  <1>1. SettlementInv => ReportedIsSettled
    BY DEF SettlementInv, Placed, RunsSound, ReportedIsSettled
  <1> QED
    BY <1>1, SettlementInvHolds, PTL

\* Contracts and runs keep their types; payments never overdraw the manager, and
\* no run holds a journal that is not one of success.
THEOREM SettlementTyped == Spec => []TypeOK
  <1>1. Spec => []ManagerTypeOK
    BY ManagerInSystem, NeverOverdrawn, PTL
  <1>2. SettlementInv /\ ManagerTypeOK => TypeOK
    BY DEF SettlementInv, Recorded, Placed, RunsSound, TypeOK
  <1> QED
    BY <1>1, <1>2, SettlementInvHolds, PTL

\* In the whole system no deposit has two outcomes or is paid back twice, and the
\* manager holds what it owes.
THEOREM UsersAreSafe == Spec => [](NoDoubleOutcome /\ NoDoublePayment /\ Solvent)
  BY ManagerInSystem, OneOutcomePerDeposit, OnePaymentPerDeposit, OwedIsHeld, PTL
=============================================================================
