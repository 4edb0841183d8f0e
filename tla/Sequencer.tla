----------------------------- MODULE Sequencer -----------------------------
(***************************************************************************)
(* The sequencer process: MemPool and BlockController over the MongoDB     *)
(* collections they share, with the genesis set-up of SetupService and the *)
(* insertions of ChainListener.                                            *)
(*                                                                         *)
(* Everything runs on one asyncio loop, so what happens between two awaits *)
(* is one atomic action; every await on the database is a point where      *)
(* another handler, the batch producer or the batch consumer may run, and  *)
(* a point where the process may stop.                                     *)
(*                                                                         *)
(* Documents are abstract: a transfer stands for its transactionId.  All   *)
(* deposits are stored with transactionId None, which SameId expresses.    *)
(* Whether a transfer passes the account checks is left open here.         *)
(***************************************************************************)
EXTENDS Naturals, Sequences, FiniteSets, Functions

CONSTANTS
    Transfers,      \* requests that clients POST to /api/submit
    Deposits,       \* deposit events that the chain listener reports
    Signed,         \* transfers whose signature check_transaction_validity accepts
    Unhashable,     \* transfers with a field that does not fit the block hash encoding
    BADGE_SIZE,     \* most documents one batch takes
    BATCH_SIZE,     \* submissions that trigger a FILLEDUP batch
    Interval,       \* seconds between two TIMEDOUT triggers
    MaxTime,        \* bound on the clock
    MaxFaults,      \* bound on database errors
    MaxCrashes      \* bound on process crashes

Docs == Transfers \cup Deposits

ASSUME DocsAssumption ==
    /\ Transfers \cap Deposits = {}
    /\ Signed \subseteq Transfers
    /\ Unhashable \subseteq Transfers
ASSUME SizesAssumption ==
    /\ BADGE_SIZE \in Nat \ {0}
    /\ BATCH_SIZE \in Nat \ {0}
    /\ Interval \in Nat \ {0}
ASSUME BoundsAssumption == MaxTime \in Nat /\ MaxFaults \in Nat /\ MaxCrashes \in Nat

VARIABLES
    status,         \* database: status field of each document, "absent" before insertion
    receivedAt,     \* database: receivedAt field, in whole seconds
    badges,         \* database: badge collection, a badge's id is its index
    curr,           \* database: badge-pointer documents, the first one is the one used
    phase,          \* how far the handler of each request or event has come
    counter,        \* transaction_counter
    queue,          \* the asyncio.Queue of batch triggers
    producerAt,     \* when batch_queue_producer wakes up
    lastTimestamp,  \* last_timestamp
    pointer,        \* genesis pointer insert still in flight, 0 if none
    pc,             \* where batch_queue_consumer is
    cause,          \* execution_cause of the batch in hand
    batch,          \* badged_transaction
    pos,            \* next document of batch that _update_merkle_tree handles
    kept,           \* transactions_for_delta
    block,          \* l2_badge_new
    clock, faults, crashes

dbVars    == <<status, receivedAt, badges, curr>>
webVars   == <<phase, counter>>
timerVars == <<producerAt, lastTimestamp>>
blockVars == <<cause, batch, pos, kept, block>>
envVars   == <<clock, faults, crashes>>
vars == <<dbVars, webVars, queue, timerVars, pointer, pc, blockVars, envVars>>

Statuses == {"absent", "pending", "invalid", "included", "failed"}
Phases   == {"new", "received", "stored", "done", "refused", "lost"}
Steps    == {"boot", "idle", "find", "mark", "stamp", "apply", "insert", "advance"}
Causes   == {"FILLEDUP", "TIMEDOUT"}

\* blocknumber, prevBadge, transactions, executionCause.
BadgeRecord == [number : Nat, prev : Nat, txs : Seq(Docs), why : Causes]

Badge(number, prev, txs, why) ==
    [number |-> number, prev |-> prev, txs |-> txs, why |-> why]

Genesis == Badge(0, 0, <<>>, "TIMEDOUT")

Init ==
    /\ status = [d \in Docs |-> "absent"]
    /\ receivedAt = [d \in Docs |-> 0]
    /\ badges = <<>>
    /\ curr = <<>>
    /\ phase = [d \in Docs |-> "new"]
    /\ counter = 0
    /\ queue = <<>>
    /\ producerAt = 0
    /\ lastTimestamp = 0
    /\ pointer = 0
    /\ pc = "boot"
    /\ cause = "TIMEDOUT"
    /\ batch = <<>>
    /\ pos = 1
    /\ kept = <<>>
    /\ block = Genesis
    /\ clock = 0
    /\ faults = 0
    /\ crashes = 0

Fault == faults < MaxFaults /\ faults' = faults + 1

\* form_new_L2_block returns, or the process dies: its locals are gone.
DropBatch ==
    /\ cause' = "TIMEDOUT"
    /\ batch' = <<>>
    /\ pos' = 1
    /\ kept' = <<>>
    /\ block' = Genesis

---------------------------------------------------------------------------
(* Seeded defects: forms of the definitions below that the properties must *)
(* reject.                                                                 *)

NextCountNoReset(n) == n + 1
FillsBatchEarly(n) == n + 2 >= BATCH_SIZE
CandidatesAnyStatus == {d \in Docs : status[d] \in {"pending", "included"}}
MatchedByEmptyFilter == {d \in Docs : status[d] # "absent"}
KeptDespiteFailure == Append(kept, batch[pos])
KeptNoneOnFailure == <<>>
NumberFromCount == Len(badges)
PointerToParent == block.prev
BuildableIfAllKept == curr # <<>> /\ Len(kept) = Len(batch)

---------------------------------------------------------------------------
(* Start-up, crash, time.                                                  *)

\* Module construction and SetupService.on_start: a genesis badge is inserted
\* on every start; the insert of its pointer is not awaited.
Boot ==
    /\ pc = "boot"
    /\ badges' = Append(badges, Genesis)
    /\ pointer' = Len(badges) + 1
    /\ lastTimestamp' = clock
    /\ producerAt' = clock + Interval
    /\ counter' = 0
    /\ queue' = <<>>
    /\ pc' = "idle"
    /\ UNCHANGED <<status, receivedAt, curr, phase, blockVars, envVars>>

PointerLands ==
    /\ pointer # 0
    /\ curr' = Append(curr, pointer)
    /\ pointer' = 0
    /\ UNCHANGED <<status, receivedAt, badges, webVars, queue, timerVars, pc, blockVars, envVars>>

\* The process dies: handlers, queue, counter and the batch in hand are gone;
\* a request whose document is stored stays stored.
Crash ==
    /\ pc # "boot"
    /\ crashes < MaxCrashes
    /\ crashes' = crashes + 1
    /\ pc' = "boot"
    /\ pointer' = 0
    /\ queue' = <<>>
    /\ counter' = 0
    /\ DropBatch
    /\ phase' = [d \in Docs |-> IF phase[d] = "received" THEN "lost"
                                ELSE IF phase[d] = "stored" THEN "done" ELSE phase[d]]
    /\ UNCHANGED <<dbVars, timerVars, clock, faults>>

Tick ==
    /\ clock < MaxTime
    /\ clock' = clock + 1
    /\ UNCHANGED <<dbVars, webVars, queue, timerVars, pointer, pc, blockVars, faults, crashes>>

---------------------------------------------------------------------------
(* POST /api/submit: handel_transaction_submission, insert_into_queue.     *)

\* enrich_transaction stamps the request; validation follows without a
\* suspension, so both precede the first await.
ReceiveSubmission(t) ==
    /\ pc # "boot"
    /\ phase[t] = "new"
    /\ phase' = [phase EXCEPT ![t] = "received"]
    /\ receivedAt' = [receivedAt EXCEPT ![t] = clock]
    /\ UNCHANGED <<status, badges, curr, counter, queue, timerVars, pointer, pc, blockVars, envVars>>

VerdictOf(t) == IF t \in Signed THEN "pending" ELSE "invalid"

\* insert_one takes effect; the handler has not resumed yet.
InsertTransaction(t) ==
    /\ phase[t] = "received"
    /\ phase' = [phase EXCEPT ![t] = "stored"]
    /\ status' = [status EXCEPT ![t] = VerdictOf(t)]
    /\ UNCHANGED <<receivedAt, badges, curr, counter, queue, timerVars, pointer, pc, blockVars, envVars>>

\* insert_one raises and the client gets a 500; after a lost reply the
\* document may be stored all the same.
InsertTransactionFails(t) ==
    /\ Fault
    /\ phase[t] = "received"
    /\ phase' = [phase EXCEPT ![t] = "refused"]
    /\ \/ status' = status
       \/ status' = [status EXCEPT ![t] = VerdictOf(t)]
    /\ UNCHANGED <<receivedAt, badges, curr, counter, queue, timerVars, pointer, pc, blockVars,
                   clock, crashes>>

FillsBatch(n) == n + 1 = BATCH_SIZE

NextCount(n) == IF FillsBatch(n) THEN 0 ELSE n + 1

\* The handler resumes: it counts valid and invalid submissions alike. The
\* queue is unbounded, so the put does not suspend.
CountSubmission(t) ==
    /\ phase[t] = "stored"
    /\ phase' = [phase EXCEPT ![t] = "done"]
    /\ counter' = NextCount(counter)
    /\ queue' = IF FillsBatch(counter) THEN Append(queue, "FILLEDUP") ELSE queue
    /\ UNCHANGED <<dbVars, timerVars, pointer, pc, blockVars, envVars>>

---------------------------------------------------------------------------
(* ChainListener.handle_deposit_entries, MemPool.insert_deposit_transaction *)

\* The event is handled: the insert is started and never awaited.
ListenerHandle(d) ==
    /\ pc # "boot"
    /\ phase[d] = "new"
    /\ phase' = [phase EXCEPT ![d] = "received"]
    /\ receivedAt' = [receivedAt EXCEPT ![d] = clock]
    /\ UNCHANGED <<status, badges, curr, counter, queue, timerVars, pointer, pc, blockVars, envVars>>

DepositLands(d) ==
    /\ phase[d] = "received"
    /\ phase' = [phase EXCEPT ![d] = "done"]
    /\ status' = [status EXCEPT ![d] = "pending"]
    /\ UNCHANGED <<receivedAt, badges, curr, counter, queue, timerVars, pointer, pc, blockVars, envVars>>

\* An error of an insert nobody awaits is never seen.
DepositInsertFails(d) ==
    /\ Fault
    /\ phase[d] = "received"
    /\ phase' = [phase EXCEPT ![d] = "lost"]
    /\ UNCHANGED <<dbVars, counter, queue, timerVars, pointer, pc, blockVars, clock, crashes>>

---------------------------------------------------------------------------
(* batch_queue_producer and the head of batch_queue_consumer.              *)

ProduceTimeout ==
    /\ pc # "boot"
    /\ clock >= producerAt
    /\ queue' = Append(queue, "TIMEDOUT")
    /\ producerAt' = clock + Interval
    /\ UNCHANGED <<dbVars, webVars, lastTimestamp, pointer, pc, blockVars, envVars>>

ConsumerTake ==
    /\ pc = "idle"
    /\ queue # <<>>
    /\ cause' = Head(queue)
    /\ queue' = Tail(queue)
    /\ pc' = "find"
    /\ UNCHANGED <<dbVars, webVars, timerVars, pointer, batch, pos, kept, block, envVars>>

---------------------------------------------------------------------------
(* get_transaction_for_badge                                               *)

\* What find() matches; only a TIMEDOUT batch passes last_timestamp.
Candidates ==
    {d \in Docs : /\ status[d] = "pending"
                  /\ cause = "TIMEDOUT" => receivedAt[d] > lastTimestamp}

\* s is what sort("receivedAt", DESCENDING).limit(BADGE_SIZE) may return.
QueryResult(s) ==
    /\ \A i, j \in DOMAIN s : s[i] = s[j] => i = j
    /\ \A i, j \in DOMAIN s : i < j => receivedAt[s[i]] >= receivedAt[s[j]]
    /\ \A d \in Candidates \ Range(s) :
          /\ Len(s) = BADGE_SIZE
          /\ \A i \in DOMAIN s : receivedAt[s[i]] >= receivedAt[d]

FindBatch ==
    /\ pc = "find"
    /\ \E n \in 0 .. BADGE_SIZE : \E s \in [1 .. n -> Candidates] :
          QueryResult(s) /\ batch' = s
    /\ pc' = "mark"
    /\ UNCHANGED <<dbVars, webVars, queue, timerVars, pointer, cause, pos, kept, block, envVars>>

\* The inner except clause returns an empty list: an empty block follows. (An
\* error of start_session is not in its reach: BlockStepFails.)
FindFails ==
    /\ Fault
    /\ pc = "find"
    /\ batch' = <<>>
    /\ pc' = "stamp"
    /\ UNCHANGED <<dbVars, webVars, queue, timerVars, pointer, cause, pos, kept, block, clock, crashes>>

\* The documents that a filter on the transactionId of d matches.
SameId(d) == IF d \in Deposits THEN {e \in Deposits : status[e] # "absent"} ELSE {d}

MatchedByBatch == UNION {SameId(d) : d \in Range(batch)}

WithStatus(S, st) == [d \in Docs |-> IF d \in S THEN st ELSE status[d]]

MarkIncluded ==
    /\ pc = "mark"
    /\ status' = WithStatus(MatchedByBatch, "included")
    /\ pc' = "stamp"
    /\ UNCHANGED <<receivedAt, badges, curr, webVars, queue, timerVars, pointer, blockVars, envVars>>

\* update_many fails after changing some of the documents; the batch is dropped.
MarkFails ==
    /\ Fault
    /\ pc = "mark"
    /\ \E S \in SUBSET MatchedByBatch : status' = WithStatus(S, "included")
    /\ batch' = <<>>
    /\ pc' = "stamp"
    /\ UNCHANGED <<receivedAt, badges, curr, webVars, queue, timerVars, pointer, cause, pos, kept,
                   block, clock, crashes>>

---------------------------------------------------------------------------
(* form_new_L2_block after the batch is fetched.                           *)

StampBatch ==
    /\ pc = "stamp"
    /\ lastTimestamp' = clock
    /\ pos' = 1
    /\ kept' = <<>>
    /\ pc' = "apply"
    /\ UNCHANGED <<dbVars, webVars, queue, producerAt, pointer, cause, batch, block, envVars>>

ApplyOk ==
    /\ pc = "apply"
    /\ pos <= Len(batch)
    /\ kept' = Append(kept, batch[pos])
    /\ pos' = pos + 1
    /\ UNCHANGED <<dbVars, webVars, queue, timerVars, pointer, pc, cause, batch, block, envVars>>

KeptAfterFailure == kept

\* update_one changes one document with that id. (Failed deposits would also
\* drop the other deposits from kept; such a batch never becomes a block.)
ApplyFailed ==
    /\ pc = "apply"
    /\ pos <= Len(batch)
    /\ \E e \in SameId(batch[pos]) : status' = WithStatus({e}, "failed")
    /\ kept' = KeptAfterFailure
    /\ pos' = pos + 1
    /\ UNCHANGED <<receivedAt, badges, curr, webVars, queue, timerVars, pointer, pc, cause, batch,
                   block, envVars>>

\* get_previous_block_information reads the pointer; create_block_hash runs
\* over the whole batch, failed documents included.
BlockBuildable ==
    /\ curr # <<>>
    /\ Range(batch) \cap (Deposits \cup Unhashable) = {}

NextNumber == badges[curr[1]].number + 1

BuildBlock ==
    /\ pc = "apply"
    /\ pos > Len(batch)
    /\ BlockBuildable
    /\ block' = Badge(NextNumber, curr[1], kept, cause)
    /\ pc' = "insert"
    /\ UNCHANGED <<dbVars, webVars, queue, timerVars, pointer, cause, batch, pos, kept, envVars>>

\* An exception reaches the outer except clause, which only logs it.
LoseBlock ==
    /\ pc = "apply"
    /\ pos > Len(batch)
    /\ ~ BlockBuildable
    /\ pc' = "idle"
    /\ DropBatch
    /\ UNCHANGED <<dbVars, webVars, queue, timerVars, pointer, envVars>>

\* A database error while opening the session, marking a transaction failed,
\* reading the previous badge, inserting the badge or moving the pointer: logged,
\* and the next trigger is awaited.
BlockStepFails ==
    /\ Fault
    /\ pc \in {"find", "apply", "insert", "advance"}
    /\ pc' = "idle"
    /\ DropBatch
    /\ UNCHANGED <<dbVars, webVars, queue, timerVars, pointer, clock, crashes>>

InsertBadge ==
    /\ pc = "insert"
    /\ badges' = Append(badges, block)
    /\ pc' = "advance"
    /\ UNCHANGED <<status, receivedAt, curr, webVars, queue, timerVars, pointer, blockVars, envVars>>

\* The new badge is the last one: only this task inserts badges after start-up.
NewBadgeId == Len(badges)

\* increment_badge_pointer: update_one({}) changes the first document.
AdvancePointer ==
    /\ pc = "advance"
    /\ curr' = [curr EXCEPT ![1] = NewBadgeId]
    /\ pc' = "idle"
    /\ DropBatch
    /\ UNCHANGED <<status, receivedAt, badges, webVars, queue, timerVars, pointer, envVars>>

---------------------------------------------------------------------------
ClientStep(t) ==
    \/ ReceiveSubmission(t)
    \/ InsertTransaction(t)
    \/ InsertTransactionFails(t)
    \/ CountSubmission(t)

ListenerStep(d) ==
    \/ ListenerHandle(d)
    \/ DepositLands(d)
    \/ DepositInsertFails(d)

ConsumerStep ==
    \/ ConsumerTake
    \/ FindBatch
    \/ MarkIncluded
    \/ StampBatch
    \/ ApplyOk
    \/ ApplyFailed
    \/ BuildBlock
    \/ LoseBlock
    \/ InsertBadge
    \/ AdvancePointer

ConsumerFault == FindFails \/ MarkFails \/ BlockStepFails

Over(d) == phase[d] \in {"done", "refused", "lost"}

\* The bounded run is over: the clock is at its bound and every task waits.
TasksWait ==
    /\ clock = MaxTime
    /\ clock < producerAt
    /\ pc = "idle"
    /\ queue = <<>>
    /\ pointer = 0

EndOfRun ==
    /\ TasksWait
    /\ \A d \in Docs : Over(d)
    /\ UNCHANGED vars

Next ==
    \/ Boot
    \/ PointerLands
    \/ Crash
    \/ Tick
    \/ \E t \in Transfers : ClientStep(t)
    \/ \E d \in Deposits : ListenerStep(d)
    \/ ProduceTimeout
    \/ ConsumerStep
    \/ ConsumerFault
    \/ EndOfRun

Spec == Init /\ [][Next]_vars

\* The event loop keeps running the consumer and every started database
\* operation is answered; clients, deposits, time and faults owe nothing.
Fairness ==
    /\ WF_vars(ConsumerStep)
    /\ WF_vars(PointerLands)

FairSpec == Spec /\ Fairness

---------------------------------------------------------------------------
(* Properties.                                                             *)

\* Every variable has its type, and badge pointers name badges that exist.
TypeOK ==
    /\ status \in [Docs -> Statuses]
    /\ receivedAt \in [Docs -> Nat]
    /\ badges \in Seq(BadgeRecord)
    /\ curr \in Seq(Nat) /\ \A i \in DOMAIN curr : curr[i] \in DOMAIN badges
    /\ phase \in [Docs -> Phases]
    /\ counter \in 0 .. BATCH_SIZE - 1
    /\ queue \in Seq(Causes)
    /\ producerAt \in Nat /\ lastTimestamp \in Nat
    /\ pointer \in Nat /\ (pointer # 0 => pointer \in DOMAIN badges)
    /\ pc \in Steps
    /\ cause \in Causes
    /\ batch \in Seq(Docs)
    /\ pos \in Nat \ {0}
    /\ kept \in Seq(Docs)
    /\ block \in BadgeRecord
    /\ clock \in Nat /\ faults \in Nat /\ crashes \in Nat

\* No transaction is executed by two blocks, nor twice by one, whatever
\* database errors and restarts come between reading, marking and inserting.
UniqueInclusion ==
    \A i, j \in DOMAIN badges :
        \A a \in DOMAIN badges[i].txs, b \in DOMAIN badges[j].txs :
            badges[i].txs[a] = badges[j].txs[b] => i = j /\ a = b

\* The status a client is told agrees with the blocks: a transaction of a
\* block was correctly signed and is reported INCLUDED, never PENDING or FAILED.
BadgedIsIncluded ==
    \A i \in DOMAIN badges : \A a \in DOMAIN badges[i].txs :
        badges[i].txs[a] \in Signed /\ status[badges[i].txs[a]] = "included"

\* Every badge that is no genesis badge extends an older one by one block
\* number, also after restarts have added genesis badges in between.
ParentLink ==
    \A i \in DOMAIN badges :
        \/ badges[i].number = 0 /\ badges[i].txs = <<>>
        \/ /\ badges[i].prev \in 1 .. i - 1
           /\ badges[i].number = badges[badges[i].prev].number + 1

\* Without crashes and database errors the badges form one chain, each on top
\* of the one inserted before it: nobody builds on a stale pointer.
LinearChain ==
    faults = 0 /\ crashes = 0 =>
        \A i \in DOMAIN badges : badges[i].number = i - 1 /\ badges[i].prev = i - 1

\* A FILLEDUP trigger is backed by BATCH_SIZE counted submissions of its own,
\* wherever it is: in the queue, in the batch in hand, in a badge.
FilledUpBacked ==
    LET Counted == {t \in Transfers : phase[t] = "done"}
        InBadges == {i \in DOMAIN badges : badges[i].why = "FILLEDUP"}
        InQueue == {i \in DOMAIN queue : queue[i] = "FILLEDUP"}
        InHand == IF cause = "FILLEDUP" /\ pc \notin {"boot", "idle", "advance"} THEN 1 ELSE 0
    IN  BATCH_SIZE * (Cardinality(InBadges) + Cardinality(InQueue) + InHand) <= Cardinality(Counted)

\* The status of a transfer moves only forward: INVALID and FAILED are final,
\* and nothing that was taken into a batch becomes PENDING again.
Forward(from, to) ==
    \/ from = "absent" /\ to \in {"pending", "invalid"}
    \/ from = "pending" /\ to = "included"
    \/ from = "included" /\ to = "failed"

StatusForward ==
    [][\A t \in Transfers : status'[t] = status[t] \/ Forward(status[t], status'[t])]_vars

InABadge(t) == \E i \in DOMAIN badges : t \in Range(badges[i].txs)

\* A transfer marked INCLUDED with its batch, once there is a badge pointer, is
\* settled: it comes to be in a block or is reported FAILED.
BatchResolves ==
    \A t \in Transfers :
        (pc = "stamp" /\ t \in Range(batch) /\ curr # <<>>) ~>
            (InABadge(t) \/ status[t] = "failed")

---------------------------------------------------------------------------
(* What the documentation says and the code does not do.                   *)

\* "FIRST IN FIRST OUT Sequencer" (sequencer/README.md): a transaction is not
\* taken into a batch while one that arrived in an earlier second waits and is
\* left waiting. Both the order of the query and last_timestamp break it.
FirstInFirstOut ==
    [][\A t, u \in Transfers :
          (status[t] = "pending" /\ status[u] = "pending" /\ status'[u] = "included"
             /\ receivedAt[t] < receivedAt[u]) => status'[t] = "included"]_vars
=============================================================================
