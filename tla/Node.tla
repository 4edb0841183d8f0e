--------------------------------- MODULE Node ---------------------------------
(***************************************************************************)
(* The sequencer node as a whole: mempool and block production (Sequencer) *)
(* over the account updates (Accounts), with the clients of                *)
(* client/chain_client.py in front.  What Sequencer leaves open, whether a *)
(* transaction of a batch passes, is here what Accounts makes of it, and   *)
(* the transfers that Accounts leaves open are those of the batch.         *)
(*                                                                         *)
(* A client is one run of the task submit_transaction: it asks for the     *)
(* nonce of its sender and submits a transfer with it.  Clients share the  *)
(* accounts, so two of them may be told the same nonce.                    *)
(***************************************************************************)
EXTENDS Sequencer

CONSTANTS
    Addresses, Opening, Zero, LeafMax, NoUser, NoLeaf,      \* as in Accounts
    Request,        \* what each transfer asks for: [from, to, amount]
    DepositInfo,    \* what each deposit is: [account, amount]
    NoNonce,        \* a client that has not asked yet
    NoAccount,      \* a client whose sender is not known
    NoRoot,         \* state_root of a genesis badge
    MaxDisturbances \* bound on failing calls and crashes taken together

VARIABLES
    users, tree, accountPc, tx, result, landed, leafed, callFaults,     \* as in Accounts
    nonce,          \* the nonce each client was told
    userInserts,    \* inserts of user documents that are still in flight
    logged,         \* database: the transactions field of each change log
    stateRoots,     \* database: the state_root field of each badge
    lost            \* history: what the batches held whose block was lost

\* A deposit event: two of the same amount to the same account are two.
Event(d) == [id |-> d, account |-> DepositInfo[d].account, amount |-> DepositInfo[d].amount]

A == INSTANCE Accounts WITH
        Accounts <- Addresses,
        Requests <- [from : Addresses, to : Addresses \cup {Zero}, amount : Int, nonce : Nat],
        Deposits <- {Event(d) : d \in Deposits},
        MaxTransfers <- Cardinality(Transfers),
        pc <- accountPc, handled <- 0, faults <- callFaults

ASSUME NodeAssumption ==
    /\ \A t \in Transfers : /\ Request[t].from \in Addresses
                            /\ Request[t].to \in Addresses \cup {Zero}
                            /\ Request[t].amount \in Int
    /\ NoNonce \notin Nat /\ NoAccount \notin Nat /\ NoNonce # NoAccount
    /\ MaxDisturbances \in Nat

\* create_transaction_hash encodes the amount in eight bytes, like a leaf; other
\* fields (a receiver that is not hexadecimal) may make it raise as well.
ASSUME UnhashableAssumption ==
    \A t \in Transfers : Request[t].amount \notin 0 .. LeafMax => t \in Unhashable

\* What Accounts assumes of its constants.
ASSUME NodeAccountsAssumption ==
    /\ Zero \notin Addresses
    /\ LeafMax \in Nat
    /\ DOMAIN Opening \subseteq Addresses
    /\ \A a \in DOMAIN Opening : Opening[a] \in 0 .. LeafMax
    /\ \A d \in Deposits : /\ DepositInfo[d].account \in Addresses
                           /\ DepositInfo[d].amount \in 0 .. LeafMax
    /\ NoUser \notin A!UserRecord

\* NoRoot is no state of the tree.
ASSUME RootAssumption ==
    NoRoot \notin [Addresses -> [balance : 0 .. LeafMax, nonce : Nat] \cup {NoLeaf}]

accountVars == <<users, tree, accountPc, tx, result, landed, leafed, callFaults>>
nodeVars == <<accountVars, nonce, userInserts, logged, stateRoots, lost>>
allVars == <<vars, nodeVars>>

NodeInit ==
    /\ Init
    /\ A!Init
    /\ nonce = [t \in Transfers |-> NoNonce]
    /\ userInserts = {}
    /\ logged = [a \in Addresses |-> <<>>]
    /\ stateRoots = <<>>
    /\ lost = {}

---------------------------------------------------------------------------
(* Clients: submit_transaction of chain_client.py.                         *)

\* POST /api/get-nonce, answered from the change log.
GetNonce(t) ==
    /\ pc # "boot"
    /\ phase[t] = "new" /\ nonce[t] = NoNonce
    /\ users[Request[t].from] # NoUser
    /\ nonce' = [nonce EXCEPT ![t] = A!ReportedNonce(Request[t].from)]
    /\ UNCHANGED <<vars, accountVars, userInserts, logged, stateRoots, lost>>

\* get_nonce_for_account raises for an unknown account, and the task returns.
NonceRefused(t) ==
    /\ pc # "boot"
    /\ phase[t] = "new" /\ nonce[t] = NoNonce
    /\ users[Request[t].from] = NoUser
    /\ nonce' = [nonce EXCEPT ![t] = NoAccount]
    /\ UNCHANGED <<vars, accountVars, userInserts, logged, stateRoots, lost>>

\* POST /api/submit with that nonce.
Submit(t) ==
    /\ nonce[t] \in Nat
    /\ ClientStep(t)
    /\ UNCHANGED nodeVars

---------------------------------------------------------------------------
(* A deposit event is two inserts, of a user and of a transaction; neither *)
(* is waited for, and they land in either order.                           *)

HandleEvent(d) ==
    /\ ListenerHandle(d)
    /\ userInserts' = userInserts \cup {d}
    /\ UNCHANGED <<accountVars, nonce, logged, stateRoots, lost>>

TransactionInsertEnds(d) ==
    /\ DepositLands(d) \/ DepositInsertFails(d)
    /\ UNCHANGED nodeVars

UserInsertEnds(d) ==
    /\ d \in userInserts
    /\ userInserts' = userInserts \ {d}
    /\ \/ A!DepositUserLands(Event(d))
       \/ A!Fault /\ UNCHANGED <<users, tree, accountPc, tx, result, landed, leafed>>
    /\ UNCHANGED <<vars, nonce, logged, stateRoots, lost>>

---------------------------------------------------------------------------
(* The consumer.                                                           *)

\* What _update_merkle_tree passes to the tree controller.
InHand ==
    LET t == batch[pos]
    IN  [from |-> Request[t].from, to |-> Request[t].to, amount |-> Request[t].amount,
         nonce |-> nonce[t]]

LogGrew(a) == users[a] # NoUser /\ users'[a].updates # users[a].updates

\* A step of the transfer in hand. When it is the last one, the transaction is
\* kept, or marked FAILED; the marking may fail in turn, which ends the batch.
ApplyTransfer ==
    /\ pc = "apply"
    /\ pos <= Len(batch)
    /\ batch[pos] \in Transfers
    /\ A!TakeUp(InHand) \/ A!Debit \/ A!Credit \/ A!DatabaseFails
    /\ logged' = [a \in Addresses |-> IF LogGrew(a) THEN Append(logged[a], batch[pos]) ELSE logged[a]]
    /\ \/ accountPc' # "idle" /\ UNCHANGED vars
       \/ accountPc' = "idle" /\ result' = "ok" /\ ApplyOk
       \/ accountPc' = "idle" /\ result' = "failed" /\ (ApplyFailed \/ BlockStepFails)
    /\ UNCHANGED <<nonce, userInserts, stateRoots, lost>>

ApplyDeposit ==
    /\ pc = "apply"
    /\ pos <= Len(batch)
    /\ batch[pos] \in Deposits
    /\ A!HandleDeposit(Event(batch[pos]))
    /\ ApplyOk
    /\ UNCHANGED <<nonce, userInserts, logged, stateRoots, lost>>

\* The steps that do not touch the accounts.
BatchStep ==
    /\ \/ ConsumerTake \/ FindBatch \/ MarkIncluded \/ StampBatch
       \/ BuildBlock \/ AdvancePointer
    /\ UNCHANGED nodeVars

\* The state of the accounts stays as the batch left it.
DropBlock ==
    /\ LoseBlock
    /\ lost' = lost \cup Range(batch)
    /\ UNCHANGED <<accountVars, nonce, userInserts, logged, stateRoots>>

\* new_merkle_root is the tree's: only this task changes the tree.
StoreBadge ==
    /\ InsertBadge
    /\ stateRoots' = Append(stateRoots, tree)
    /\ UNCHANGED <<accountVars, nonce, userInserts, logged, lost>>

BatchFault ==
    /\ FindFails \/ MarkFails \/ (BlockStepFails /\ (pc = "apply" => pos > Len(batch)))
    /\ UNCHANGED nodeVars

Consume == BatchStep \/ ApplyTransfer \/ ApplyDeposit \/ DropBlock \/ StoreBadge

---------------------------------------------------------------------------
NodeBoot ==
    /\ Boot
    /\ stateRoots' = Append(stateRoots, NoRoot)
    /\ UNCHANGED <<accountVars, nonce, userInserts, logged, lost>>

\* An insert in flight dies with the process, or has reached the database.
NodeCrash ==
    /\ Crash
    /\ A!Crash
    /\ userInserts' = {}
    /\ UNCHANGED <<nonce, logged, stateRoots, lost>>

Background ==
    /\ PointerLands \/ Tick \/ ProduceTimeout
    /\ UNCHANGED nodeVars

\* The bounded run is over; some clients never came to submit.
NodeEnd ==
    /\ TasksWait
    /\ \A d \in Docs : Over(d) \/ (d \in Transfers /\ nonce[d] = NoAccount)
    /\ UNCHANGED allVars

NodeStep ==
    \/ \E t \in Transfers : GetNonce(t) \/ NonceRefused(t) \/ Submit(t)
    \/ \E d \in Deposits : HandleEvent(d) \/ TransactionInsertEnds(d) \/ UserInsertEnds(d)
    \/ Consume
    \/ BatchFault
    \/ NodeBoot
    \/ NodeCrash
    \/ Background
    \/ NodeEnd

NodeNext == NodeStep /\ faults' + callFaults' + crashes' <= MaxDisturbances

NodeSpec == NodeInit /\ [][NodeNext]_allVars

\* As in Sequencer: started database operations are answered, and the event
\* loop resumes the consumer.
FairNodeSpec ==
    /\ NodeSpec
    /\ WF_allVars(Consume)
    /\ WF_allVars(Background /\ PointerLands)

---------------------------------------------------------------------------
(* Properties.                                                             *)

Undisturbed == faults = 0 /\ callFaults = 0 /\ crashes = 0

\* Where t is in the change logs.
Entries(t) == UNION {{a} \X {i \in DOMAIN logged[a] : logged[a][i] = t} : a \in Addresses}

\* An entry that counts the nonce up is a debit, any other a credit.
IsDebit(e) == e.nonceAfter = e.nonceBefore + 1

EntryAt(place) == users[place[1]].updates[place[2]]

\* However calls fail and the node restarts, no transfer is debited twice or
\* credited twice: of two entries in the change logs that are its, one is a debit
\* and the other is not.
ExecutedOnce ==
    \A t \in Transfers : \A x, y \in Entries(t) :
        x # y => (IsDebit(EntryAt(x)) <=> ~ IsDebit(EntryAt(y)))

\* A transfer in a block was carried out: its debit and, next to it, its credit
\* are in the change log of its sender. A withdrawal is passed over.
BadgedIsExecuted ==
    \A t \in Transfers :
        InABadge(t) /\ Request[t].to # Zero =>
            \E i \in DOMAIN logged[Request[t].from] :
                LET debit == <<Request[t].from, i>>
                    credit == <<Request[t].from, i + 1>>
                IN  /\ Entries(t) = {debit, credit}
                    /\ IsDebit(EntryAt(debit)) /\ ~ IsDebit(EntryAt(credit))

\* Carried out in both leaves and not reported FAILED.
Executed == {t \in Transfers : Cardinality(Entries(t)) = 2 /\ status[t] # "failed"}

AmountOf == [t \in Transfers |-> Request[t].amount]

\* No call has failed, and no transfer of a negative amount was debited.
Regular ==
    /\ Undisturbed
    /\ \A t \in Transfers : Entries(t) # {} => Request[t].amount >= 0

\* As long as no call fails and no negative amount is debited: clients that are
\* told the same nonce, or a wrong one, cannot together spend more of an account
\* than its opening balance, in one batch or in several. One failed credit is
\* enough for a debit that starts from the balance of a receiver.
NoOverspending ==
    Regular =>
        \A a \in {b \in Addresses : users[b] # NoUser} :
            SumFunctionOnSet(AmountOf, {t \in Executed : Request[t].from = a}) <= users[a].balance

\* No credit was refused by the leaf of its receiver, as one that is too large
\* for it, or goes to an overdrawn account: the sender's leaf has moved by then.
CreditsFit ==
    \A a \in {b \in Addresses : users[b] # NoUser} :
        \A i \in DOMAIN users[a].updates :
            IsDebit(users[a].updates[i]) \/ A!FitsLeaf(users[a].updates[i].after)

Parties(d) == IF d \in Deposits THEN {DepositInfo[d].account} ELSE {Request[d].from, Request[d].to}

RootOfParent(i) ==
    IF stateRoots[badges[i].prev] = NoRoot THEN A!FundedTree ELSE stateRoots[badges[i].prev]

\* The state root of a block is explained by its transactions: from the root of
\* its parent only leaves of their parties differ, and of the parties of
\* transactions whose own block was lost. A FAILED transfer moves no leaf, unless
\* its credit was refused.
RootExplained ==
    Undisturbed /\ CreditsFit =>
        \A i \in {j \in DOMAIN badges : badges[j].number # 0} : \A a \in Addresses :
            stateRoots[i][a] # RootOfParent(i)[a] =>
                \E d \in Range(badges[i].txs) \cup lost : a \in Parties(d)

\* A transfer marked INCLUDED with a batch of transfers that can all be hashed,
\* once there is a badge pointer, comes to be in a block or is reported FAILED,
\* unless a call of the block's own fails or the node stops. Next to a transfer
\* that cannot be hashed, or a deposit, it stays INCLUDED and in no block.
TakenIsResolved ==
    \A t \in Transfers \ Unhashable :
        (/\ pc = "stamp" /\ t \in Range(batch) /\ curr # <<>>
         /\ Range(batch) \subseteq Transfers \ Unhashable) ~>
            (InABadge(t) \/ status[t] = "failed" \/ faults > 0 \/ crashes > 0)
=============================================================================
