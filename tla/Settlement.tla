------------------------------ MODULE Settlement ------------------------------
(***************************************************************************)
(* The way of a batch to L1: runs of the host program                      *)
(* (executor/host/src/main.rs) prove a batch file and submit it to the     *)
(* contracts, while users deposit and withdraw.  A run that ends without a *)
(* receipt is started again, so several runs may hold the same batch; a    *)
(* transaction may be lost or mined late.  Anyone else may submit a proved *)
(* journal too, under whichever batch id is next.                          *)
(***************************************************************************)
EXTENDS Rollup

CONSTANTS
    Runs,           \* runs of the host program
    NoJournal,      \* a run without a batch
    NoRun,          \* a caller of submitBatch that is no run
    MaxOutside      \* bound on the calls of others

VARIABLES
    pc,             \* progress of each run
    journal,        \* the journal of each run
    transaction,    \* the transaction of each run
    settledBy       \* history: the run that submitted each batch, or NoRun

ASSUME SettlementAssumption == NoRun \notin Runs /\ MaxOutside \in Nat

hostVars == <<pc, journal, transaction, settledBy>>
vars == <<managerVars, rollupVars, hostVars>>

Init ==
    /\ ManagerInit
    /\ RollupInit
    /\ pc = [r \in Runs |-> "start"]
    /\ journal = [r \in Runs |-> NoJournal]
    /\ transaction = [r \in Runs |-> "none"]
    /\ settledBy = <<>>

---------------------------------------------------------------------------
(* Seeded defects, which the properties must reject.                       *)

OutcomeUnseen(r) == "settled"
Unchecked(j) == TRUE

---------------------------------------------------------------------------
(* A run of the host.                                                      *)

\* main panics upon any other journal.
Checked(j) == j.success

\* Read the batch file and prove it. A batch that the guest does not accept, or
\* whose journal is not what the file says, ends the run. The file may credit
\* deposits that the contract does not have.
Prove(r) ==
    /\ pc[r] = "start"
    /\ \/ /\ \E j \in Journals : Checked(j) /\ journal' = [journal EXCEPT ![r] = j]
          /\ pc' = [pc EXCEPT ![r] = "proved"]
       \/ pc' = [pc EXCEPT ![r] = "failed"] /\ UNCHANGED journal
    /\ UNCHANGED <<managerVars, rollupVars, transaction, settledBy>>

\* The host passes the badge id of the journal for the batch id.
Accepts(r) == Acceptable(journal[r].badgeId, journal[r])

\* call.send(): the gas estimation executes the call, and refuses one that would
\* revert.
Send(r) ==
    /\ pc[r] = "proved"
    /\ \/ /\ Accepts(r)
          /\ pc' = [pc EXCEPT ![r] = "sent"]
          /\ transaction' = [transaction EXCEPT ![r] = "pending"]
       \/ /\ ~ Accepts(r)
          /\ pc' = [pc EXCEPT ![r] = "failed"]
          /\ UNCHANGED transaction
    /\ UNCHANGED <<managerVars, rollupVars, journal, settledBy>>

\* send() fails, and the transaction may have reached the node all the same.
SendFails(r) ==
    /\ pc[r] = "proved"
    /\ pc' = [pc EXCEPT ![r] = "failed"]
    /\ \/ UNCHANGED transaction
       \/ Accepts(r) /\ transaction' = [transaction EXCEPT ![r] = "pending"]
    /\ UNCHANGED <<managerVars, rollupVars, journal, settledBy>>

\* The chain executes the transaction.
Mine(r) ==
    /\ transaction[r] = "pending"
    /\ \/ /\ SubmitBatch(journal[r].badgeId, journal[r])
          /\ transaction' = [transaction EXCEPT ![r] = "succeeded"]
          /\ settledBy' = Append(settledBy, r)
       \/ /\ calls = <<>>
          /\ ~ Accepts(r)
          /\ transaction' = [transaction EXCEPT ![r] = "reverted"]
          /\ UNCHANGED <<managerVars, rollupVars, settledBy>>
    /\ UNCHANGED <<pc, journal>>

\* The node forgets the transaction.
LoseTransaction(r) ==
    /\ transaction[r] = "pending"
    /\ transaction' = [transaction EXCEPT ![r] = "lost"]
    /\ UNCHANGED <<managerVars, rollupVars, pc, journal, settledBy>>

\* get_receipt() returns once the transaction is mined, and waits for ever for
\* one that is lost. Of any receipt the run first reports "Batch published
\* successfully!".
Receipt(r) ==
    /\ pc[r] = "sent"
    /\ transaction[r] \in {"succeeded", "reverted"}
    /\ pc' = [pc EXCEPT ![r] = "published"]
    /\ UNCHANGED <<managerVars, rollupVars, journal, transaction, settledBy>>

\* receipt.status(): "Transaction succeeded!" or "Transaction failed!".
Outcome(r) == IF transaction[r] = "succeeded" THEN "settled" ELSE "rejected"

\* The second report, after which main returns Ok in either case.
Report(r) ==
    /\ pc[r] = "published"
    /\ pc' = [pc EXCEPT ![r] = Outcome(r)]
    /\ UNCHANGED <<managerVars, rollupVars, journal, transaction, settledBy>>

\* get_receipt() fails.
ReceiptFails(r) ==
    /\ pc[r] = "sent"
    /\ pc' = [pc EXCEPT ![r] = "failed"]
    /\ UNCHANGED <<managerVars, rollupVars, journal, transaction, settledBy>>

HostStep(r) ==
    Prove(r) \/ Send(r) \/ SendFails(r) \/ Receipt(r) \/ Report(r) \/ ReceiptFails(r)

ChainStep(r) == Mine(r) \/ LoseTransaction(r)

---------------------------------------------------------------------------
(* The other actors.                                                       *)

\* Anyone who has a proof, of a journal that was settled before or of one that
\* is not of success, submits it under the id that is next.
SubmitOutside ==
    /\ Cardinality({n \in DOMAIN settledBy : settledBy[n] = NoRun}) < MaxOutside
    /\ \E j \in Journals : SubmitBatch(batchCount + 1, j)
    /\ settledBy' = Append(settledBy, NoRun)
    /\ UNCHANGED <<pc, journal, transaction>>

\* Deploy.s.sol, its last transaction: the manager learns of the rollup.
LinkContracts ==
    /\ store.rollupContract = NoContract
    /\ calls = <<>>
    /\ UpdateRollupContract(Deployer, RollupAddress)

ManagerStep ==
    /\ UserStep \/ LinkContracts \/ NewBlock
    /\ UNCHANGED <<rollupVars, hostVars>>

\* The bounded run is over.
EndOfRun ==
    /\ block = MaxBlock
    /\ calls = <<>>
    /\ \A r \in Runs :
          /\ pc[r] \in {"settled", "rejected", "failed"} \/ transaction[r] = "lost"
          /\ transaction[r] # "pending"
    /\ UNCHANGED vars

Next ==
    \/ \E r \in Runs : HostStep(r) \/ ChainStep(r)
    \/ SubmitOutside
    \/ ManagerStep
    \/ EndOfRun

Spec == Init /\ [][Next]_vars

---------------------------------------------------------------------------
(* Properties.                                                             *)

Progress == {"start", "proved", "sent", "published", "settled", "rejected", "failed"}

\* Contracts and runs have their types, and no run holds a journal that is not
\* one of success.
TypeOK ==
    /\ ManagerTypeOK
    /\ batchCount \in Nat
    /\ accepted \in Seq(Journals)
    /\ batchProcessedDepositIds \in Seq(SUBSET Nat)
    /\ pc \in [Runs -> Progress]
    /\ journal \in [Runs -> {j \in Journals : j.success} \cup {NoJournal}]
    /\ transaction \in [Runs -> {"none", "pending", "succeeded", "reverted", "lost"}]
    /\ settledBy \in Seq(Runs \cup {NoRun})

\* The batches that runs submit settle in the order of their badges, each at the
\* place of its badge id and by one run, whatever others submit between them. The
\* contract does not see to it for others: under the next id it takes the journal
\* of any badge, also of one that is settled.
SettledInOrder ==
    /\ Len(settledBy) = batchCount /\ Len(accepted) = batchCount
    /\ \A n \in DOMAIN settledBy : settledBy[n] # NoRun =>
          /\ accepted[n] = journal[settledBy[n]]
          /\ accepted[n].badgeId = n
          /\ \A m \in DOMAIN settledBy : settledBy[m] = settledBy[n] => m = n

\* A run that reports "Transaction succeeded!" has its journal on the chain, at
\* its badge id, and no other run has settled that badge. The report before, of
\* "Batch published successfully!", says no more than that the transaction was
\* mined: a reverted one is reported so too.
ReportedIsSettled ==
    \A r \in Runs :
       /\ pc[r] = "published" => transaction[r] \in {"succeeded", "reverted"}
       /\ pc[r] = "settled" =>
            /\ journal[r].badgeId \in DOMAIN accepted
            /\ accepted[journal[r].badgeId] = journal[r]
            /\ \A q \in Runs \ {r} :
                  transaction[q] = "succeeded" => journal[q].badgeId # journal[r].badgeId

---------------------------------------------------------------------------
(* What the documentation says and the code does not do.                   *)

\* "Determine expected old root from contract state" (Rollup.sol): a batch is
\* accepted upon the state in which the batch before it ended.
StatesChain ==
    \A n \in DOMAIN accepted : n > 1 => accepted[n].oldRoot = accepted[n - 1].newRoot

\* "Force withdraw a deposit that hasn't been processed" (Deposit.sol): a deposit
\* that a settled batch credited is not paid back afterwards.
SettledIsNotWithdrawn ==
    \A n \in DOMAIN credited : \A id \in credited[n] : ~ store.deposits[id].withdrawn
=============================================================================
