------------------------------- MODULE Listener -------------------------------
(***************************************************************************)
(* ChainListener: the task that polls the L1 node for deposit events and   *)
(* hands them to the mempool.  The events come from an event filter of the *)
(* node, created once per start of the process, which returns each log     *)
(* behind its position once.  Any exception ends the task for good while   *)
(* the rest of the node runs on; only a restart creates a new filter.      *)
(*                                                                         *)
(* Handling an event starts two inserts, of a user and of a transaction,   *)
(* and waits for neither.                                                  *)
(***************************************************************************)
EXTENDS Naturals, Sequences, FiniteSets, Functions

CONSTANTS
    Events,         \* deposits on L1
    Wei,            \* amount of each of them
    Ether,          \* wei in one ether
    MaxBlockSize,   \* bound on the events of one L1 block
    MaxFaults,      \* bound on failing calls
    MaxCrashes      \* bound on restarts

ASSUME ListenerAssumption ==
    /\ Wei \in [Events -> Nat]
    /\ Ether \in Nat \ {0}
    /\ MaxBlockSize \in Nat /\ MaxFaults \in Nat /\ MaxCrashes \in Nat

VARIABLES
    chain,          \* L1: the events in the order of their logs, with their blocks
    height,         \* L1: the latest block
    pc,             \* progress of deposit_chain_loop
    cursor,         \* node: the next log that the filter returns
    starts,         \* where each filter so far started; the last one is in use
    entries,        \* deposit_entries that are still to be handled
    handled,        \* history: for each filter so far, the events handled
    inFlight,       \* inserts started and not yet answered
    stored,         \* database: inserts that took effect
    faults, crashes

vars == <<chain, height, pc, cursor, starts, entries, handled, inFlight, stored, faults, crashes>>

Log == [event : Events, block : Nat]

\* An insert of one of the two documents of the n-th event that a filter gave.
Kinds == {"user", "transaction"}
Inserts == (1 .. MaxCrashes + 1) \X (1 .. Cardinality(Events)) \X Kinds

Init ==
    /\ chain = <<>>
    /\ height = 0
    /\ pc = "start"
    /\ cursor = 1
    /\ starts = <<>>
    /\ entries = <<>>
    /\ handled = <<>>
    /\ inFlight = {}
    /\ stored = {}
    /\ faults = 0
    /\ crashes = 0

EventsOf(logs) == {logs[i].event : i \in DOMAIN logs}

LatestIsEmpty == \A i \in DOMAIN chain : chain[i].block < height

Fault == faults < MaxFaults /\ faults' = faults + 1

---------------------------------------------------------------------------
(* Seeded defects.                                                         *)

EarliestBlock == {1}
KeepsLastLog == Len(chain)
RoundedUp(wei) == (wei + Ether - 1) \div Ether
SkipsOneLog == Len(chain) + 2

---------------------------------------------------------------------------
(* L1 and its node.                                                        *)

\* A block with some deposits, or none.
MineBlock ==
    /\ \E n \in 0 .. MaxBlockSize : \E b \in [1 .. n -> Events \ EventsOf(chain)] :
          /\ IsInjective(b)
          /\ n = 0 => ~ LatestIsEmpty
          /\ chain' = chain \o [i \in 1 .. n |-> [event |-> b[i], block |-> height + 1]]
    /\ height' = height + 1
    /\ UNCHANGED <<pc, cursor, starts, entries, handled, inFlight, stored, faults, crashes>>

\* from_block="latest": nodes differ in whether the logs of the block that is
\* the latest when the filter is created are still returned.
FilterStarts ==
    {n \in 1 .. Len(chain) + 1 :
        \/ n = Len(chain) + 1
        \/ \A i \in DOMAIN chain : i < n <=> chain[i].block < height}

---------------------------------------------------------------------------
(* deposit_chain_loop                                                      *)

\* _init_deposit_event_filter
CreateFilter ==
    /\ pc = "start"
    /\ \E from \in FilterStarts : cursor' = from /\ starts' = Append(starts, from)
    /\ handled' = Append(handled, <<>>)
    /\ pc' = "poll"
    /\ UNCHANGED <<chain, height, entries, inFlight, stored, faults, crashes>>

\* The node has returned everything up to here.
NextCursor == Len(chain) + 1

\* get_new_entries, after the pause. Without new logs the loop goes round.
Poll ==
    /\ pc = "poll"
    /\ cursor <= Len(chain)
    /\ entries' = SubSeq(chain, cursor, Len(chain))
    /\ cursor' = NextCursor
    /\ pc' = "handle"
    /\ UNCHANGED <<chain, height, starts, handled, inFlight, stored, faults, crashes>>

\* int(from_wei(amount, "ether")): whole ether.
InEther(wei) == wei \div Ether

\* One round of handle_deposit_entries: insert_deposit_transaction starts the
\* two inserts.
HandleEntry ==
    LET g == Len(starts) IN
    /\ pc = "handle"
    /\ handled' = [handled EXCEPT ![g] = Append(@, Head(entries).event)]
    /\ inFlight' = inFlight \cup {<<g, Len(handled[g]) + 1, kind>> : kind \in Kinds}
    /\ entries' = Tail(entries)
    /\ pc' = IF entries' = <<>> THEN "poll" ELSE "handle"
    /\ UNCHANGED <<chain, height, cursor, starts, stored, faults, crashes>>

\* The node does not answer, or the database session cannot be started: nobody
\* catches the exception, and the entries still in hand are gone with the task.
TaskDies ==
    /\ Fault
    /\ pc \in {"start", "poll", "handle"}
    /\ pc' = "dead"
    /\ entries' = <<>>
    /\ UNCHANGED <<chain, height, cursor, starts, handled, inFlight, stored, crashes>>

---------------------------------------------------------------------------
(* The inserts that nobody waits for; restart.                             *)

InsertLands(i) ==
    /\ i \in inFlight
    /\ inFlight' = inFlight \ {i}
    /\ stored' = stored \cup {i}
    /\ UNCHANGED <<chain, height, pc, cursor, starts, entries, handled, faults, crashes>>

\* The error of such an insert is never seen.
InsertFails(i) ==
    /\ Fault
    /\ i \in inFlight
    /\ inFlight' = inFlight \ {i}
    /\ UNCHANGED <<chain, height, pc, cursor, starts, entries, handled, stored, crashes>>

\* The process stops, also one whose listener is dead, and is started again;
\* what was in flight may have reached the database.
Restart ==
    /\ crashes < MaxCrashes
    /\ crashes' = crashes + 1
    /\ pc' = "start"
    /\ entries' = <<>>
    /\ \E S \in SUBSET inFlight : stored' = stored \cup S
    /\ inFlight' = {}
    /\ UNCHANGED <<chain, height, cursor, starts, handled, faults>>

\* The bounded run is over.
EndOfRun ==
    /\ EventsOf(chain) = Events /\ LatestIsEmpty
    /\ pc = "dead" \/ (pc = "poll" /\ cursor > Len(chain))
    /\ inFlight = {}
    /\ UNCHANGED vars

Next ==
    \/ MineBlock
    \/ CreateFilter
    \/ Poll
    \/ HandleEntry
    \/ TaskDies
    \/ \E i \in Inserts : InsertLands(i) \/ InsertFails(i)
    \/ Restart
    \/ EndOfRun

\* The loop goes on as long as its calls are answered, and a started insert is
\* answered; L1, errors and restarts owe nothing.
Fairness ==
    /\ WF_vars(CreateFilter)
    /\ WF_vars(Poll)
    /\ WF_vars(HandleEntry)
    /\ \A i \in Inserts : WF_vars(InsertLands(i))

Spec == Init /\ [][Next]_vars /\ Fairness

---------------------------------------------------------------------------
(* Properties.                                                             *)

\* Every variable has its type; a filter never gets ahead of the chain.
TypeOK ==
    /\ chain \in Seq(Log)
    /\ height \in Nat
    /\ pc \in {"start", "poll", "handle", "dead"}
    /\ cursor \in 1 .. Len(chain) + 1
    /\ starts \in Seq(Nat \ {0})
    /\ entries \in Seq(Log)
    /\ handled \in Seq(Seq(Events)) /\ Len(handled) = Len(starts)
    /\ \A i \in inFlight \cup stored : i[1] \in DOMAIN handled /\ i[2] \in DOMAIN handled[i[1]]
    /\ inFlight \cap stored = {}
    /\ faults \in Nat /\ crashes \in Nat

\* The log that a filter handles next.
NextOf(g) == starts[g] + Len(handled[g])

\* Every filter, also one whose task died or whose process stopped, has handled
\* an unbroken run of the logs from its start, each once and in their order; as
\* long as the task lives, what it has not handled yet is in hand.
HandledInOrder ==
    \A g \in DOMAIN starts :
        /\ NextOf(g) <= Len(chain) + 1
        /\ \A k \in 1 .. Len(handled[g]) : handled[g][k] = chain[starts[g] + k - 1].event
        /\ g = Len(starts) /\ pc \in {"poll", "handle"} => NextOf(g) + Len(entries) = cursor

Handles(g, i) == i \in starts[g] .. NextOf(g) - 1

\* A restart repeats the deposits of one L1 block at the most: the logs that two
\* filters have handled are of the block that was the latest at the restart.
RepeatsOneBlock ==
    \A g, h \in DOMAIN starts : g < h =>
        \A i, j \in DOMAIN chain :
            Handles(g, i) /\ Handles(h, i) /\ Handles(g, j) /\ Handles(h, j) =>
                chain[i].block = chain[j].block

\* What the documents in the mempool credit.
Credit == [i \in stored |-> InEther(Wei[handled[i[1]][i[2]]]) * Ether]

\* Without a restart the mempool never holds more money than was deposited.
CreditIsBacked ==
    crashes = 0 =>
        SumFunctionOnSet(Credit, {i \in stored : i[3] = "transaction"})
            <= SumFunctionOnSet(Wei, EventsOf(chain))

Stored(e, g) ==
    \A kind \in Kinds : \E i \in stored :
        i[1] = g /\ i[3] = kind /\ handled[g][i[2]] = e

Watched(e) ==
    /\ pc # "dead" /\ starts # <<>>
    /\ \E i \in DOMAIN chain : i >= starts[Len(starts)] /\ chain[i].event = e

\* A deposit that is mined while the listener has a filter comes to be stored
\* with both of its documents, unless a call fails or the process stops.
WatchedIsStored ==
    \A e \in Events : \A g \in 1 .. MaxCrashes + 1 :
        (Watched(e) /\ Len(starts) = g /\ crashes = g - 1) ~>
            (Stored(e, g) \/ faults > 0 \/ crashes > g - 1)
=============================================================================
