------------------------------ MODULE NodeProofs ------------------------------
(***************************************************************************)
(* The node implements the sequencer: with the account checks and the      *)
(* clients in place, every step is one that Sequencer allows, or leaves    *)
(* its variables alone.  So what is proved of Sequencer, where the outcome *)
(* of a transaction is open, holds of the node.                            *)
(*                                                                         *)
(* The rest is about what the parts keep between them, in layers: LogInv   *)
(* relates the change logs to the progress of the consumer and to the      *)
(* blocks, KindsSound tells the debits in them from the credits, MoneyInv  *)
(* relates the money that the debits of an account have left to the        *)
(* transfers that were carried out, and RootInv the tree to the root of    *)
(* the block before and the transactions since.                            *)
(***************************************************************************)
EXTENDS Node, SequencerProofs, Sums

\* The clients, the account updates of a transaction that is not done with, and
\* the inserts of user documents are invisible to Sequencer.
LEMMA Invisible ==
    ASSUME \/ \E t \in Transfers : GetNonce(t) \/ NonceRefused(t)
           \/ \E d \in Deposits : UserInsertEnds(d)
           \/ NodeEnd
    PROVE  UNCHANGED vars
  BY DEF GetNonce, NonceRefused, UserInsertEnds, NodeEnd, allVars

\* Whatever becomes of a transaction, it is kept, marked FAILED, or the batch
\* ends with an error.
LEMMA ApplyMaps ==
    ASSUME ApplyTransfer \/ ApplyDeposit
    PROVE  ApplyOk \/ ApplyFailed \/ BlockStepFails \/ UNCHANGED vars
  BY DEF ApplyTransfer, ApplyDeposit

LEMMA ConsumeMaps ==
    ASSUME Consume \/ BatchFault
    PROVE  ConsumerStep \/ ConsumerFault \/ UNCHANGED vars
  BY ApplyMaps DEF Consume, BatchFault, BatchStep, DropBlock, StoreBadge, ConsumerStep, ConsumerFault

LEMMA StepMaps == NodeStep => [Next]_vars
  <1> SUFFICES ASSUME NodeStep PROVE [Next]_vars
    OBVIOUS
  <1>1. CASE \E t \in Transfers : GetNonce(t) \/ NonceRefused(t)
    BY <1>1, Invisible
  <1>2. CASE \E t \in Transfers : Submit(t)
    BY <1>2 DEF Submit, Next
  <1>3. CASE \E d \in Deposits : HandleEvent(d) \/ TransactionInsertEnds(d)
    BY <1>3 DEF HandleEvent, TransactionInsertEnds, ListenerStep, Next
  <1>4. CASE \E d \in Deposits : UserInsertEnds(d)
    BY <1>4, Invisible
  <1>5. CASE Consume \/ BatchFault
    BY <1>5, ConsumeMaps DEF Next
  <1>6. CASE NodeBoot \/ NodeCrash \/ Background
    BY <1>6 DEF NodeBoot, NodeCrash, Background, Next
  <1>7. CASE NodeEnd
    BY <1>7, Invisible
  <1> QED
    BY <1>1, <1>2, <1>3, <1>4, <1>5, <1>6, <1>7 DEF NodeStep

---------------------------------------------------------------------------
\* Every behaviour of the node is one of Sequencer.
THEOREM NodeImplementsSequencer == NodeSpec => Spec
  <1>1. NodeInit => Init
    BY DEF NodeInit
  <1>2. [NodeNext]_allVars => [Next]_vars
    BY StepMaps DEF NodeNext, allVars
  <1> QED
    BY <1>1, <1>2, PTL DEF NodeSpec, Spec

\* So no transaction of the node is executed by two blocks, nor twice by one,
\* whichever transfers the account checks refuse.
THEOREM NodeIncludesOnce == NodeSpec => []UniqueInclusion
  BY NodeImplementsSequencer, NoDoubleInclusion, PTL

\* And a transaction in a block of the node is reported INCLUDED for ever.
THEOREM NodeStatusAgrees == NodeSpec => []BadgedIsIncluded
  BY NodeImplementsSequencer, StatusAgreesWithBlocks, PTL
---------------------------------------------------------------------------
(* The invariant: accounts and change logs.                                *)

Users == [Addresses -> A!UserRecord \cup {NoUser}]
Leaves == [balance : 0 .. LeafMax, nonce : Nat] \cup {NoLeaf}

\* Whether a has a user document, and the length of its log.
Known(a) == users[a] # NoUser
LogSize(a) == Len(users[a].updates)

AccountTypes ==
    /\ users \in Users
    /\ tree \in [Addresses -> Leaves]
    /\ accountPc \in {"idle", "checked", "debited"}
    /\ callFaults \in Nat

\* The account updates in progress are those of the transaction that the
\* consumer is at. Its sender had the amount when it was checked, and is not
\* overdrawn once it is debited.
TransferInHand ==
    accountPc # "idle" =>
        /\ pc = "apply" /\ pos <= Len(batch) /\ batch[pos] \in Transfers
        /\ tx.from = Request[batch[pos]].from
        /\ tx.to = Request[batch[pos]].to /\ tx.to # Zero
        /\ tx.amount = Request[batch[pos]].amount
        /\ Known(tx.from) /\ Known(tx.to)
        /\ accountPc = "checked" => A!Latest(users[tx.from]).after >= tx.amount
        /\ accountPc = "debited" => ~ A!Overdrawn(users[tx.from].updates)

LogsMatch ==
    /\ logged \in [Addresses -> Seq(Transfers)]
    /\ \A a \in Addresses : /\ ~ Known(a) => logged[a] = <<>>
                            /\ Known(a) => Len(logged[a]) = LogSize(a)

\* Not handled yet: the consumer may still take it up.
ToCome(t) ==
    \/ status[t] \in {"absent", "pending"}
    \/ pc \in {"mark", "stamp"} /\ t \in Range(batch)
    \/ pc = "apply" /\ \E i \in DOMAIN batch : i >= pos /\ batch[i] = t

\* Passed by the account checks, and in a block or on the way there.
Passed(t) ==
    \/ InABadge(t)
    \/ pc = "apply" /\ t \in Range(kept)
    \/ pc = "insert" /\ t \in Range(block.txs)

Pair(t, i) == {<<Request[t].from, i>>, <<Request[t].from, i + 1>>}

\* A transfer is not in the logs before its turn. Its entries are next to each
\* other, in the log of its sender; where it was passed it has both.
EntriesSound ==
    /\ \A t \in Transfers :
          ToCome(t) /\ ~ (accountPc = "debited" /\ t = batch[pos]) => Entries(t) = {}
    /\ \A t \in Transfers : \E i \in Nat : Entries(t) \subseteq Pair(t, i)
    /\ \A t \in Transfers : Passed(t) /\ Request[t].to # Zero =>
          \E i \in DOMAIN logged[Request[t].from] : Entries(t) = Pair(t, i)
    /\ accountPc = "debited" =>
          /\ logged[tx.from] # <<>>
          /\ Entries(batch[pos]) = {<<tx.from, Len(logged[tx.from])>>}

LogInv == AccountTypes /\ TransferInHand /\ LogsMatch /\ EntriesSound

\* Of two entries of one transfer the first is its debit and the second is not.
KindsSound ==
    /\ accountPc = "debited" => IsDebit(EntryAt(<<tx.from, Len(logged[tx.from])>>))
    /\ \A a \in Addresses : \A i \in DOMAIN logged[a] :
          i + 1 \in DOMAIN logged[a] /\ logged[a][i + 1] = logged[a][i] =>
              IsDebit(EntryAt(<<a, i>>)) /\ ~ IsDebit(EntryAt(<<a, i + 1>>))

---------------------------------------------------------------------------
(* The invariant: money.                                                   *)

EvenLogs ==
    Regular =>
        /\ \A a \in Addresses : Known(a) /\ A!IsOdd(LogSize(a)) =>
              A!Overdrawn(users[a].updates) \/ (accountPc = "debited" /\ tx.from = a)
        /\ accountPc = "debited" => A!IsOdd(LogSize(tx.from))

\* No debit leaves more than a leaf can hold.
Fits(u) ==
    /\ u.balance \in 0 .. LeafMax
    /\ \A k \in DOMAIN u.updates : A!IsOdd(k) => u.updates[k].after <= LeafMax

DebitsFit == Regular => \A a \in Addresses : Known(a) => Fits(users[a])

\* What the debits of a document have left of its opening balance.
Left(u) == IF A!IsOdd(Len(u.updates)) THEN u.updates[Len(u.updates)].after ELSE A!DebitBase(u).after

Debited(a) == {t \in Transfers : Request[t].from = a /\ Entries(t) # {}}

SpentIsGone ==
    Regular =>
        \A a \in Addresses : Known(a) /\ ~ A!Overdrawn(users[a].updates) =>
            /\ Left(users[a]) >= 0
            /\ SumFunctionOnSet(AmountOf, Debited(a)) = users[a].balance - Left(users[a])

FewDebited == \A a \in Addresses : IsFiniteSet(Debited(a))

MoneyInv == EvenLogs /\ DebitsFit /\ FewDebited /\ SpentIsGone /\ NoOverspending

---------------------------------------------------------------------------
(* The invariant: state roots.                                             *)

Roots == [Addresses -> Leaves] \cup {NoRoot}

RootOf(i) == IF stateRoots[i] = NoRoot THEN A!FundedTree ELSE stateRoots[i]

\* The root that the next block builds on.
TipRoot == IF curr = <<>> THEN A!FundedTree ELSE RootOf(curr[1])

RootsStored ==
    /\ stateRoots \in Seq(Roots) /\ Len(stateRoots) = Len(badges)
    /\ pointer # 0 => stateRoots[pointer] = NoRoot

ParentInHand ==
    /\ pc \in {"insert", "advance"} => curr # <<>>
    /\ pc = "insert" => block.prev = curr[1]
    /\ pc = "advance" => badges # <<>> /\ stateRoots[Len(badges)] = tree

\* The transactions of the block to come that have changed the tree.
Touched ==
    IF pc = "apply"
      THEN Range(kept) \cup (IF accountPc = "debited" THEN {batch[pos]} ELSE {})
      ELSE IF pc = "insert" THEN Range(block.txs) ELSE {}

TreeExplained ==
    Undisturbed /\ CreditsFit /\ pc # "advance" =>
        \A a \in Addresses :
            tree[a] # TipRoot[a] => \E d \in Touched \cup lost : a \in Parties(d)

RootInv == RootsStored /\ ParentInHand /\ TreeExplained /\ RootExplained

---------------------------------------------------------------------------
(* Reading and writing a user document.                                    *)

LEMMA UserFields ==
    ASSUME NEW u \in A!UserRecord
    PROVE  /\ u.balance \in Int /\ u.nonce \in Nat /\ u.updates \in Seq(A!UpdateRecord)
           /\ DOMAIN u.updates = 1 .. Len(u.updates) /\ Len(u.updates) \in Nat
           /\ \A k \in DOMAIN u.updates : u.updates[k] \in A!UpdateRecord
  <1>1. u.balance \in Int /\ u.nonce \in Nat /\ u.updates \in Seq(A!UpdateRecord)
    BY DEF A!UserRecord
  <1> QED
    BY <1>1

LEMMA UpdateFields ==
    ASSUME NEW e \in A!UpdateRecord
    PROVE  e.before \in Int /\ e.after \in Int /\ e.nonceBefore \in Nat /\ e.nonceAfter \in Nat
  BY DEF A!UpdateRecord

LEMMA UpdateType ==
    ASSUME NEW b \in Int, NEW a \in Int, NEW n \in Nat, NEW m \in Nat
    PROVE  A!Update(b, a, n, m) \in A!UpdateRecord
  BY DEF A!Update, A!UpdateRecord

LEMMA BaseType ==
    ASSUME NEW u \in A!UserRecord
    PROVE  /\ A!Latest(u) \in A!UpdateRecord /\ A!DebitBase(u) \in A!UpdateRecord
           /\ A!OpeningOf(u) \in A!UpdateRecord
  <1>1. A!OpeningOf(u) \in A!UpdateRecord
    BY UserFields, UpdateType DEF A!OpeningOf
  <1>2. u.updates # <<>> => Len(u.updates) \in DOMAIN u.updates
    BY UserFields
  <1>3. u.updates # <<>> /\ Len(u.updates) # 1 =>
            Len(u.updates) - 1 \in DOMAIN u.updates /\ 1 \in DOMAIN u.updates
    <2> SUFFICES ASSUME u.updates # <<>>, Len(u.updates) # 1
                 PROVE  Len(u.updates) - 1 \in DOMAIN u.updates /\ 1 \in DOMAIN u.updates
      OBVIOUS
    <2>1. \A n \in Nat : n \in 1 .. n /\ n # 1 => n - 1 \in 1 .. n /\ 1 \in 1 .. n
      OBVIOUS
    <2>2. DOMAIN u.updates = 1 .. Len(u.updates) /\ Len(u.updates) \in Nat
      BY UserFields
    <2> QED
      BY <1>2, <2>1, <2>2
  <1>4. A!Latest(u) \in A!UpdateRecord
    BY <1>1, <1>2, UserFields DEF A!Latest
  <1>5. A!DebitBase(u) \in A!UpdateRecord
    <2>1. CASE u.updates = <<>>
      BY <1>1, <2>1 DEF A!DebitBase
    <2>2. CASE u.updates # <<>> /\ Len(u.updates) = 1
      BY <1>2, <2>2, UserFields DEF A!DebitBase
    <2>3. CASE u.updates # <<>> /\ Len(u.updates) # 1
      <3>1. A!DebitBase(u) = u.updates[Len(u.updates) - 1]
        BY <2>3 DEF A!DebitBase
      <3> QED
        BY <1>3, <2>3, <3>1, UserFields
    <2> QED
      BY <2>1, <2>2, <2>3
  <1> QED
    BY <1>1, <1>4, <1>5

\* A push changes one log, at its end.
LEMMA PushFacts ==
    ASSUME users \in Users, NEW a \in Addresses, Known(a), NEW e \in A!UpdateRecord
    PROVE  /\ A!Push(a, e) \in Users
           /\ A!Push(a, e)[a] # NoUser /\ A!Push(a, e)[a] \in A!UserRecord
           /\ A!Push(a, e)[a].updates = Append(users[a].updates, e)
           /\ A!Push(a, e)[a].balance = users[a].balance
           /\ A!Push(a, e)[a].nonce = users[a].nonce
           /\ \A b \in Addresses \ {a} : A!Push(a, e)[b] = users[b]
  <1>1. users[a] \in A!UserRecord
    BY DEF Users, Known
  <1> DEFINE u == users[a]
  <1> DEFINE v == [u EXCEPT !.updates = Append(@, e)]
  <1>2. Append(u.updates, e) \in Seq(A!UpdateRecord)
    BY <1>1, UserFields
  <1>3. /\ v \in A!UserRecord /\ v.updates = Append(u.updates, e)
        /\ v.balance = u.balance /\ v.nonce = u.nonce
    BY <1>1, <1>2 DEF A!UserRecord
  <1>4. A!Push(a, e) = [users EXCEPT ![a] = v]
    BY DEF A!Push, Users
  <1>5. A!Push(a, e)[a] = v /\ \A b \in Addresses \ {a} : A!Push(a, e)[b] = users[b]
    BY <1>4 DEF Users
  <1>6. A!Push(a, e) \in Users
    BY <1>3, <1>4 DEF Users
  <1>7. v # NoUser
    BY <1>3, NodeAccountsAssumption
  <1> QED
    BY <1>3, <1>5, <1>6, <1>7

LEMMA AppendFacts ==
    ASSUME NEW S, NEW log \in Seq(S), NEW e \in S
    PROVE  /\ Append(log, e) \in Seq(S) /\ Append(log, e) # <<>> /\ Append(log, e) # log
           /\ Len(log) \in Nat /\ DOMAIN log = 1 .. Len(log)
           /\ Len(Append(log, e)) = Len(log) + 1
           /\ DOMAIN Append(log, e) = 1 .. Len(log) + 1
           /\ Append(log, e)[Len(log) + 1] = e
           /\ \A k \in 1 .. Len(log) : Append(log, e)[k] = log[k]
  <1>1. /\ Append(log, e) \in Seq(S) /\ Len(log) \in Nat /\ DOMAIN log = 1 .. Len(log)
        /\ Len(Append(log, e)) = Len(log) + 1
        /\ DOMAIN Append(log, e) = 1 .. Len(log) + 1
        /\ Append(log, e)[Len(log) + 1] = e
        /\ \A k \in 1 .. Len(log) : Append(log, e)[k] = log[k]
    OBVIOUS
  <1>2. Append(log, e) # log
    <2>1. \A n \in Nat : n + 1 # n
      OBVIOUS
    <2> QED
      BY <1>1, <2>1
  <1>3. Append(log, e) # <<>>
    BY <1>1
  <1> QED
    BY <1>1, <1>2, <1>3

LEMMA AppendRange ==
    ASSUME NEW S, NEW s \in Seq(S), NEW e \in S
    PROVE  Range(Append(s, e)) = Range(s) \cup {e}
  <1> DEFINE r == Append(s, e)
  <1>1. /\ Len(s) \in Nat /\ DOMAIN s = 1 .. Len(s) /\ DOMAIN r = 1 .. Len(s) + 1
        /\ r[Len(s) + 1] = e /\ \A k \in 1 .. Len(s) : r[k] = s[k]
    BY AppendFacts
  <1>2. \A n \in Nat : 1 .. n + 1 = (1 .. n) \cup {n + 1}
    OBVIOUS
  <1>3. DOMAIN r = DOMAIN s \cup {Len(s) + 1} /\ \A k \in DOMAIN s : r[k] = s[k]
    BY <1>1, <1>2
  <1> HIDE DEF r
  <1>4. Range(r) = Range(s) \cup {e}
    BY <1>1, <1>3 DEF Range
  <1> QED
    BY <1>4 DEF r

---------------------------------------------------------------------------
(* The entries of the transfer in hand.                                    *)

LEMMA InHandTypes ==
    ASSUME LogInv, accountPc # "idle"
    PROVE  /\ pc = "apply" /\ pos <= Len(batch) /\ batch[pos] \in Transfers
           /\ tx.from = Request[batch[pos]].from /\ tx.to = Request[batch[pos]].to
           /\ tx.amount = Request[batch[pos]].amount /\ tx.to # Zero
           /\ tx.from \in Addresses /\ tx.to \in Addresses /\ tx.amount \in Int
           /\ Known(tx.from) /\ Known(tx.to)
           /\ users[tx.from] \in A!UserRecord /\ users[tx.to] \in A!UserRecord
  <1>1. /\ pc = "apply" /\ pos <= Len(batch) /\ batch[pos] \in Transfers
        /\ tx.from = Request[batch[pos]].from /\ tx.to = Request[batch[pos]].to
        /\ tx.amount = Request[batch[pos]].amount /\ tx.to # Zero
        /\ Known(tx.from) /\ Known(tx.to)
    BY DEF LogInv, TransferInHand
  <1>2. tx.from \in Addresses /\ tx.to \in Addresses /\ tx.amount \in Int
    BY <1>1, NodeAssumption
  <1>3. users[tx.from] \in A!UserRecord /\ users[tx.to] \in A!UserRecord
    BY <1>1, <1>2 DEF LogInv, AccountTypes, Users, Known
  <1> QED
    BY <1>1, <1>2, <1>3

LEMMA EntryTypes ==
    ASSUME LogInv, accountPc # "idle"
    PROVE  /\ A!DebitEntry \in A!UpdateRecord /\ A!CreditEntry \in A!UpdateRecord
           /\ A!DebitEntry.after = A!DebitBase(users[tx.from]).after - tx.amount
  <1>1. /\ tx.amount \in Int
        /\ users[tx.from] \in A!UserRecord /\ users[tx.to] \in A!UserRecord
    BY InHandTypes
  <1>2. A!DebitEntry \in A!UpdateRecord /\
        A!DebitEntry.after = A!DebitBase(users[tx.from]).after - tx.amount
    <2> DEFINE b == A!DebitBase(users[tx.from])
    <2>1. b.after \in Int /\ b.nonceAfter \in Nat
      BY <1>1, BaseType, UpdateFields
    <2>2. b.after - tx.amount \in Int /\ b.nonceAfter + 1 \in Nat
      BY <1>1, <2>1
    <2>3. A!DebitEntry = A!Update(b.after, b.after - tx.amount, b.nonceAfter, b.nonceAfter + 1)
      BY DEF A!DebitEntry
    <2> HIDE DEF b
    <2>4. A!Update(b.after, b.after - tx.amount, b.nonceAfter, b.nonceAfter + 1) \in A!UpdateRecord
      BY <2>1, <2>2, UpdateType
    <2>5. A!DebitEntry.after = b.after - tx.amount
      BY <2>3 DEF A!Update
    <2> QED
      BY <2>3, <2>4, <2>5 DEF b
  <1>3. A!CreditEntry \in A!UpdateRecord
    <2> DEFINE b == A!Latest(users[tx.to])
    <2>1. b.after \in Int /\ b.nonceAfter \in Nat
      BY <1>1, BaseType, UpdateFields
    <2>2. b.after + tx.amount \in Int
      BY <1>1, <2>1
    <2>3. A!CreditEntry = A!Update(b.after, b.after + tx.amount, b.nonceAfter, b.nonceAfter)
      BY DEF A!CreditEntry
    <2> HIDE DEF b
    <2>4. A!Update(b.after, b.after + tx.amount, b.nonceAfter, b.nonceAfter) \in A!UpdateRecord
      BY <2>1, <2>2, UpdateType
    <2> QED
      BY <2>3, <2>4
  <1> QED
    BY <1>2, <1>3

LEMMA NewUserType ==
    ASSUME NEW n \in 0 .. LeafMax
    PROVE  /\ A!NewUser(n) \in A!UserRecord /\ A!NewUser(n) # NoUser
           /\ A!NewUser(n).updates = <<>> /\ A!NewUser(n).balance = n
           /\ Len(A!NewUser(n).updates) = 0
  <1>1. <<>> \in Seq(A!UpdateRecord)
    OBVIOUS
  <1>2. n \in Int
    BY NodeAccountsAssumption
  <1>3. A!NewUser(n) \in A!UserRecord
    BY <1>1, <1>2 DEF A!NewUser, A!UserRecord
  <1>4. A!NewUser(n).updates = <<>> /\ A!NewUser(n).balance = n
    BY DEF A!NewUser
  <1> QED
    BY <1>3, <1>4, NodeAccountsAssumption

LEMMA LeafType ==
    ASSUME NEW b, A!FitsLeaf(b), NEW n \in Nat
    PROVE  A!Leaf(b, n) \in Leaves
  BY DEF A!Leaf, A!FitsLeaf, Leaves

LEMMA FundedTreeType == A!FundedTree \in [Addresses -> Leaves]
  BY NodeAccountsAssumption DEF A!FundedTree, A!Funded, A!Leaf, Leaves

---------------------------------------------------------------------------
(* What the steps of Sequencer leave to be done.                           *)

\* Every step that does not finish with a transaction of the batch.
Outside ==
    \/ Boot \/ PointerLands \/ Crash \/ Tick
    \/ \E t \in Transfers : ClientStep(t)
    \/ \E d \in Deposits : ListenerStep(d)
    \/ ProduceTimeout
    \/ ConsumerTake \/ FindBatch \/ MarkIncluded \/ StampBatch
    \/ BuildBlock \/ LoseBlock \/ InsertBadge \/ AdvancePointer
    \/ FindFails \/ MarkFails \/ BlockStepFails
    \/ UNCHANGED vars

LEMMA OutsideIsStep == Outside \/ ApplyOk \/ ApplyFailed => [Next]_vars
  BY DEF Outside, Next, ConsumerStep, ConsumerFault

\* The steps of the handlers and the timers.
Aside ==
    \/ PointerLands \/ Tick
    \/ \E t \in Transfers : ClientStep(t)
    \/ \E d \in Deposits : ListenerStep(d)
    \/ ProduceTimeout
    \/ UNCHANGED vars

LEMMA AsideKeeps ==
    ASSUME Aside
    PROVE  UNCHANGED <<badges, pc, batch, pos, kept, block>>
  BY DEF Aside, PointerLands, Tick, ClientStep, ReceiveSubmission, InsertTransaction,
         InsertTransactionFails, CountSubmission, ListenerStep, ListenerHandle, DepositLands,
         DepositInsertFails, ProduceTimeout, dbVars, blockVars, vars

LEMMA StatusBack ==
    ASSUME IInv, [Next]_vars, NEW t \in Transfers, status'[t] \in {"absent", "pending"}
    PROVE  status[t] \in {"absent", "pending"}
  BY ForwardStep DEF Forward

\* Nothing that was handled comes up again.
LEMMA ToComeShrinks ==
    ASSUME IInv, Outside, NEW t \in Transfers, ToCome(t)'
    PROVE  ToCome(t)
  <1>0. status'[t] \in {"absent", "pending"} => ToCome(t)
    BY StatusBack, OutsideIsStep DEF ToCome
  <1>1. CASE Aside
    BY <1>0, <1>1, AsideKeeps DEF ToCome
  <1>2. CASE pc' \in {"boot", "idle", "find", "insert", "advance"}
    BY <1>0, <1>2 DEF ToCome
  <1>3. CASE FindBatch
    <2>1. pc' = "mark" /\ \A i \in DOMAIN batch' : status[batch'[i]] = "pending"
      BY <1>3 DEF FindBatch, Candidates
    <2> QED
      BY <1>0, <2>1 DEF ToCome, Range
  <1>4. CASE MarkIncluded
    BY <1>0, <1>4 DEF MarkIncluded, ToCome, blockVars
  <1>5. CASE FindFails \/ MarkFails
    <2>1. Range(batch') = {} /\ pc' = "stamp"
      BY <1>5 DEF FindFails, MarkFails, Range
    <2> QED
      BY <1>0, <2>1 DEF ToCome
  <1>6. CASE StampBatch
    <2>1. pc = "stamp" /\ batch' = batch
      BY <1>6 DEF StampBatch
    <2> QED
      BY <1>0, <1>6, <2>1 DEF StampBatch, ToCome, Range
  <1>7. Outside => \/ Aside \/ FindBatch \/ MarkIncluded \/ FindFails \/ MarkFails \/ StampBatch
                   \/ pc' \in {"boot", "idle", "find", "insert", "advance"}
    BY DEF Outside, Aside, Boot, Crash, ConsumerTake, BuildBlock, LoseBlock, InsertBadge,
           AdvancePointer, BlockStepFails
  <1> QED
    BY <1>1, <1>2, <1>3, <1>4, <1>5, <1>6, <1>7

\* The transaction that the consumer is at.
LEMMA AtHand ==
    ASSUME IInv, pc = "apply", pos <= Len(batch), batch[pos] \in Transfers
    PROVE  /\ pos \in DOMAIN batch /\ ToCome(batch[pos]) /\ ~ Passed(batch[pos])
           /\ status[batch[pos]] = "included"
  <1>1. pos \in DOMAIN batch /\ pos \in Nat
    BY HandTypes DEF IInv
  <1>2. ToCome(batch[pos])
    BY <1>1 DEF ToCome
  <1>3. ~ InABadge(batch[pos]) /\ status[batch[pos]] = "included"
    BY <1>1 DEF IInv, BatchInHand
  <1>4. batch[pos] \notin Range(kept)
    <2> SUFFICES ASSUME NEW a \in DOMAIN kept, kept[a] = batch[pos] PROVE FALSE
      BY DEF Range
    <2>1. PICK i \in DOMAIN batch : i < pos /\ kept[a] = batch[i]
      BY DEF IInv, KeptInHand
    <2>2. i # pos
      BY <1>1, <2>1, HandTypes DEF IInv
    <2> QED
      BY <1>1, <2>1, <2>2 DEF IInv, BatchInHand
  <1> QED
    BY <1>1, <1>2, <1>3, <1>4 DEF Passed

\* Once it is done with, it never comes up again.
LEMMA NoReturn ==
    ASSUME IInv, pc = "apply", pos <= Len(batch), batch[pos] \in Transfers,
           ApplyOk \/ ApplyFailed \/ BlockStepFails, NEW t \in Transfers, ToCome(t)'
    PROVE  ToCome(t) /\ t # batch[pos]
  <1>1. pos \in DOMAIN batch /\ pos \in Nat /\ status[batch[pos]] = "included"
    BY AtHand, HandTypes DEF IInv
  <1>2. [Next]_vars
    BY OutsideIsStep DEF Outside
  <1>3. CASE status'[t] \in {"absent", "pending"}
    <2>1. status[t] \in {"absent", "pending"}
      BY <1>2, <1>3, StatusBack
    <2> QED
      BY <1>1, <2>1 DEF ToCome
  <1>4. CASE status'[t] \notin {"absent", "pending"}
    <2>1. ~ BlockStepFails
      BY <1>4 DEF BlockStepFails, ToCome
    <2>2. pc' = "apply" /\ pos' = pos + 1 /\ batch' = batch
      BY <2>1 DEF ApplyOk, ApplyFailed
    <2>3. PICK i \in DOMAIN batch : i >= pos + 1 /\ batch[i] = t
      BY <1>4, <2>2 DEF ToCome
    <2>4. i >= pos /\ i # pos
      BY <1>1, <2>3, HandTypes DEF IInv
    <2>5. t # batch[pos]
      BY <1>1, <2>3, <2>4 DEF IInv, BatchInHand
    <2> QED
      BY <2>3, <2>4, <2>5 DEF ToCome
  <1> QED
    BY <1>3, <1>4

\* Transactions are passed by the account checks only.
LEMMA PassedGrows ==
    ASSUME IInv, Outside \/ ApplyOk \/ ApplyFailed, NEW t \in Transfers, Passed(t)'
    PROVE  Passed(t) \/ (ApplyOk /\ pos <= Len(batch) /\ t = batch[pos])
  <1>1. CASE UNCHANGED <<badges, pc, kept, block>>
    BY <1>1 DEF Passed, InABadge
  <1>2. CASE badges' = badges /\ pc' \notin {"apply", "insert"}
    BY <1>2 DEF Passed, InABadge
  <1>3. CASE Boot \/ InsertBadge
    <2>1. PICK b \in BadgeRecord : badges' = Append(badges, b) /\ (b = Genesis \/ (InsertBadge /\ b = block))
      <3>1. block \in BadgeRecord
        BY DEF IInv, TypeOK
      <3> QED
        BY <1>3, <3>1, GenesisType DEF Boot, InsertBadge
    <2>2. pc' \notin {"apply", "insert"}
      BY <1>3 DEF Boot, InsertBadge
    <2>3. InABadge(t)'
      BY <2>2 DEF Passed
    <2>4. PICK i \in DOMAIN badges' : t \in Range(badges'[i].txs)
      BY <2>3 DEF InABadge
    <2>5. CASE i \in DOMAIN badges
      BY <2>1, <2>4, <2>5, AppendBadge DEF IInv, Passed, InABadge
    <2>6. CASE i = Len(badges) + 1
      <3>1. t \in Range(b.txs)
        BY <2>1, <2>4, <2>6, AppendBadge DEF IInv
      <3>2. b # Genesis
        BY <3>1 DEF Genesis, Badge, Range
      <3> QED
        BY <2>1, <3>1, <3>2 DEF InsertBadge, Passed
    <2>7. DOMAIN badges' = 1 .. Len(badges) + 1 /\ DOMAIN badges = 1 .. Len(badges) /\ Len(badges) \in Nat
      BY <2>1, AppendBadge DEF IInv, TypeOK
    <2> QED
      BY <2>5, <2>6, <2>7
  <1>4. CASE StampBatch
    <2>1. badges' = badges /\ pc' = "apply" /\ Range(kept') = {}
      BY <1>4 DEF StampBatch, dbVars, Range
    <2> QED
      BY <2>1 DEF Passed, InABadge
  <1>5. CASE ApplyOk
    <2>1. /\ badges' = badges /\ pc = "apply" /\ pc' = "apply" /\ pos <= Len(batch)
          /\ kept' = Append(kept, batch[pos])
      BY <1>5 DEF ApplyOk, dbVars
    <2>2. kept \in Seq(Docs) /\ batch[pos] \in Docs
      BY <2>1, HandTypes DEF IInv
    <2>3. Range(kept') = Range(kept) \cup {batch[pos]}
      BY <2>1, <2>2 DEF Range
    <2> QED
      BY <1>5, <2>1, <2>3 DEF Passed, InABadge
  <1>6. CASE BuildBlock
    <2>1. badges' = badges /\ pc = "apply" /\ pc' = "insert" /\ block'.txs = kept
      BY <1>6 DEF BuildBlock, dbVars, Badge
    <2> QED
      BY <2>1 DEF Passed, InABadge
  <1>7. CASE ApplyFailed
    BY <1>1, <1>7 DEF ApplyFailed, KeptAfterFailure
  <1>8. Crash \/ ConsumerTake \/ FindBatch \/ MarkIncluded \/ LoseBlock \/ AdvancePointer
           \/ FindFails \/ MarkFails \/ BlockStepFails
        => badges' = badges /\ pc' \notin {"apply", "insert"}
    BY DEF Crash, ConsumerTake, FindBatch, MarkIncluded, LoseBlock, AdvancePointer, FindFails,
           MarkFails, BlockStepFails, dbVars
  <1> QED
    BY <1>1, <1>2, <1>3, <1>4, <1>5, <1>6, <1>7, <1>8, AsideKeeps DEF Outside, Aside

---------------------------------------------------------------------------
(* What the steps of the node do to the accounts and the change logs.      *)

\* The log of the sender of the transfer in hand gets the entry e.
Pushes(e) ==
    /\ e \in A!UpdateRecord
    /\ users' = A!Push(tx.from, e)
    /\ logged' = [logged EXCEPT ![tx.from] = Append(@, batch[pos])]

LEMMA PushedUser ==
    ASSUME LogInv, accountPc # "idle", NEW e \in A!UpdateRecord, users' = A!Push(tx.from, e)
    PROVE  /\ users' \in Users /\ users'[tx.from] # NoUser /\ users'[tx.from] \in A!UserRecord
           /\ users'[tx.from].updates = Append(users[tx.from].updates, e)
           /\ users'[tx.from].balance = users[tx.from].balance
           /\ users'[tx.from].nonce = users[tx.from].nonce
           /\ \A b \in Addresses \ {tx.from} : users'[b] = users[b]
           /\ users[tx.from].updates \in Seq(A!UpdateRecord)
  <1>1. tx.from \in Addresses /\ Known(tx.from) /\ users \in Users /\ users[tx.from] \in A!UserRecord
    BY InHandTypes DEF LogInv, AccountTypes
  <1>2. users[tx.from].updates \in Seq(A!UpdateRecord)
    BY <1>1, UserFields
  <1> QED
    BY <1>1, <1>2, PushFacts

\* The change log of a document grows with its account_updates.
LEMMA LoggedPushed ==
    ASSUME LogInv, ApplyTransfer, accountPc # "idle", NEW e \in A!UpdateRecord,
           users' = A!Push(tx.from, e)
    PROVE  Pushes(e)
  <1>1. logged' = [a \in Addresses |-> IF LogGrew(a) THEN Append(logged[a], batch[pos]) ELSE logged[a]]
    BY DEF ApplyTransfer
  <1>2. tx.from \in Addresses /\ Known(tx.from)
    BY InHandTypes
  <1>3. LogGrew(tx.from)
    <2>1. users'[tx.from].updates # users[tx.from].updates
      BY PushedUser, AppendFacts
    <2> QED
      BY <1>2, <2>1 DEF LogGrew, Known
  <1>4. \A b \in Addresses \ {tx.from} : ~ LogGrew(b)
    BY PushedUser DEF LogGrew
  <1>5. logged \in [Addresses -> Seq(Transfers)]
    BY DEF LogInv, LogsMatch
  <1>6. logged' = [logged EXCEPT ![tx.from] = Append(@, batch[pos])]
    BY <1>1, <1>2, <1>3, <1>4, <1>5
  <1> QED
    BY <1>6 DEF Pushes

LEMMA LoggedStays ==
    ASSUME LogInv, ApplyTransfer, users' = users
    PROVE  logged' = logged
  <1>1. logged' = [a \in Addresses |-> IF LogGrew(a) THEN Append(logged[a], batch[pos]) ELSE logged[a]]
    BY DEF ApplyTransfer
  <1>2. \A a : ~ LogGrew(a)
    BY DEF LogGrew
  <1>3. logged \in [Addresses -> Seq(Transfers)]
    BY DEF LogInv, LogsMatch
  <1> QED
    BY <1>1, <1>2, <1>3

\* The ways in which the updates of a transfer go on and end.
TakesUp ==
    /\ accountPc = "idle" /\ accountPc' = "checked"
    /\ UNCHANGED <<users, tree, callFaults, logged, vars>>
    /\ A!InvariantsHold(InHand) /\ tx' = InHand /\ InHand.to # Zero
SkipsOrRefuses ==
    /\ accountPc = "idle" /\ accountPc' = "idle"
    /\ UNCHANGED <<users, tree, callFaults, logged>>
    /\ \/ Request[batch[pos]].to = Zero /\ ApplyOk
       \/ ApplyFailed \/ BlockStepFails
Debits ==
    /\ accountPc = "checked"
    /\ Pushes(A!DebitEntry)
    /\ callFaults' = callFaults
    /\ \/ /\ A!FitsLeaf(A!DebitEntry.after)
          /\ tree' = [tree EXCEPT ![tx.from] = A!Leaf(A!DebitEntry.after, A!DebitEntry.nonceAfter)]
          /\ accountPc' = "debited" /\ UNCHANGED <<tx, vars>>
       \/ /\ ~ A!FitsLeaf(A!DebitEntry.after)
          /\ tree' = tree /\ accountPc' = "idle" /\ (ApplyFailed \/ BlockStepFails)
Credits ==
    /\ accountPc = "debited" /\ accountPc' = "idle"
    /\ Pushes(A!CreditEntry)
    /\ callFaults' = callFaults
    /\ \/ /\ A!FitsLeaf(A!CreditEntry.after)
          /\ tree' = [tree EXCEPT ![tx.to] = A!Leaf(A!CreditEntry.after, A!CreditEntry.nonceAfter)]
          /\ ApplyOk
       \/ /\ ~ A!FitsLeaf(A!CreditEntry.after)
          /\ tree' = tree /\ (ApplyFailed \/ BlockStepFails)
Breaks ==
    /\ accountPc # "idle" /\ accountPc' = "idle"
    /\ callFaults' = callFaults + 1 /\ tree' = tree
    /\ \/ UNCHANGED <<users, logged>>
       \/ accountPc = "checked" /\ Pushes(A!DebitEntry)
       \/ accountPc = "debited" /\ Pushes(A!CreditEntry)
    /\ ApplyFailed \/ BlockStepFails

LEMMA TransferCases ==
    ASSUME LogInv, ApplyTransfer
    PROVE  /\ pc = "apply" /\ pos <= Len(batch) /\ batch[pos] \in Transfers
           /\ TakesUp \/ SkipsOrRefuses \/ Debits \/ Credits \/ Breaks
  <1>1. pc = "apply" /\ pos <= Len(batch) /\ batch[pos] \in Transfers
    BY DEF ApplyTransfer
  <1>2. \/ accountPc' # "idle" /\ UNCHANGED vars
        \/ accountPc' = "idle" /\ result' = "ok" /\ ApplyOk
        \/ accountPc' = "idle" /\ result' = "failed" /\ (ApplyFailed \/ BlockStepFails)
    BY DEF ApplyTransfer
  <1>3. CASE A!TakeUp(InHand)
    <2>1. users' = users /\ tree' = tree /\ callFaults' = callFaults /\ accountPc = "idle"
      BY <1>3 DEF A!TakeUp
    <2>2. logged' = logged
      BY <2>1, LoggedStays
    <2>3. InHand.to = Request[batch[pos]].to
      BY DEF InHand
    <2> QED
      BY <1>1, <1>2, <1>3, <2>1, <2>2, <2>3 DEF A!TakeUp, A!Finish, TakesUp, SkipsOrRefuses
  <1>4. CASE A!Debit
    <2>1. accountPc = "checked" /\ users' = A!Push(tx.from, A!DebitEntry)
      BY <1>4 DEF A!Debit
    <2>2. Pushes(A!DebitEntry)
      BY <2>1, LoggedPushed, EntryTypes
    <2> QED
      BY <1>1, <1>2, <1>4, <2>1, <2>2 DEF A!Debit, A!Finish, Debits
  <1>5. CASE A!Credit
    <2>1. accountPc = "debited" /\ users' = A!Push(tx.from, A!CreditEntry)
      BY <1>5 DEF A!Credit, A!CreditLog
    <2>2. Pushes(A!CreditEntry)
      BY <2>1, LoggedPushed, EntryTypes
    <2> QED
      BY <1>1, <1>2, <1>5, <2>1, <2>2 DEF A!Credit, A!Finish, Credits
  <1>6. CASE A!DatabaseFails
    <2>1. /\ callFaults' = callFaults + 1 /\ tree' = tree
          /\ accountPc' = "idle" /\ result' = "failed"
      BY <1>6 DEF A!DatabaseFails, A!Fault, A!Finish
    <2>2. \/ accountPc # "idle" /\ users' = users
          \/ accountPc = "checked" /\ users' = A!Push(tx.from, A!DebitEntry)
          \/ accountPc = "debited" /\ users' = A!Push(tx.from, A!CreditEntry)
      BY <1>6 DEF A!DatabaseFails, A!CreditLog
    <2>3. users' = users => logged' = logged
      BY LoggedStays
    <2>4. accountPc = "checked" /\ users' = A!Push(tx.from, A!DebitEntry) => Pushes(A!DebitEntry)
      BY LoggedPushed, EntryTypes
    <2>5. accountPc = "debited" /\ users' = A!Push(tx.from, A!CreditEntry) => Pushes(A!CreditEntry)
      BY LoggedPushed, EntryTypes
    <2> QED
      BY <1>1, <1>2, <2>1, <2>2, <2>3, <2>4, <2>5 DEF Breaks
  <1> QED
    BY <1>1, <1>3, <1>4, <1>5, <1>6 DEF ApplyTransfer

\* A deposit of the batch replaces a leaf; its user document is inserted apart.
DepositLeaf(d) ==
    /\ pc = "apply" /\ pos <= Len(batch) /\ d = batch[pos] /\ d \in Deposits /\ accountPc = "idle"
    /\ tree' = [tree EXCEPT ![DepositInfo[d].account] = A!Leaf(DepositInfo[d].amount, 0)]
    /\ ApplyOk
    /\ UNCHANGED <<users, accountPc, tx, callFaults, logged, stateRoots, lost>>
DepositUser(d) ==
    /\ UNCHANGED <<vars, tree, accountPc, tx, logged, stateRoots, lost>>
    /\ \/ /\ callFaults' = callFaults
          /\ \/ /\ ~ Known(DepositInfo[d].account)
                /\ users' = [users EXCEPT ![DepositInfo[d].account] = A!NewUser(DepositInfo[d].amount)]
             \/ users' = users
       \/ callFaults' = callFaults + 1 /\ users' = users
Stops ==
    /\ Crash
    /\ accountPc' = "idle" /\ tree' = A!FundedTree
    /\ UNCHANGED <<users, callFaults, logged, stateRoots, lost>>
Elsewhere ==
    /\ Outside
    /\ UNCHANGED <<users, tree, accountPc, tx, callFaults, logged>>
    /\ accountPc # "idle" => UNCHANGED <<pc, batch, pos>>

LEMMA DepositCases ==
    /\ ApplyDeposit => \E d \in Deposits : DepositLeaf(d)
    /\ \A d \in Deposits : UserInsertEnds(d) => DepositUser(d)
  <1>1. ApplyDeposit => \E d \in Deposits : DepositLeaf(d)
    BY DEF ApplyDeposit, A!HandleDeposit, Event, DepositLeaf
  <1>2. ASSUME NEW d \in Deposits, UserInsertEnds(d) PROVE DepositUser(d)
    <2>1. UNCHANGED <<vars, tree, accountPc, tx, logged, stateRoots, lost>>
      BY <1>2 DEF UserInsertEnds, A!DepositUserLands
    <2>2. CASE A!DepositUserLands(Event(d))
      BY <2>1, <2>2 DEF A!DepositUserLands, Event, DepositUser, Known
    <2>3. CASE A!Fault /\ users' = users
      BY <2>1, <2>3 DEF A!Fault, DepositUser
    <2> QED
      BY <1>2, <2>2, <2>3 DEF UserInsertEnds
  <1> QED
    BY <1>1, <1>2

\* Everything else leaves the transfer in hand where it is.
LEMMA ElsewhereCases ==
    ASSUME IInv, LogInv,
           \/ \E t \in Transfers : GetNonce(t) \/ NonceRefused(t) \/ Submit(t)
           \/ \E d \in Deposits : HandleEvent(d) \/ TransactionInsertEnds(d)
           \/ BatchStep \/ DropBlock \/ StoreBadge \/ BatchFault
           \/ NodeBoot \/ Background \/ NodeEnd \/ UNCHANGED allVars
    PROVE  Elsewhere
  <1>1. UNCHANGED <<users, tree, accountPc, tx, callFaults, logged>>
    BY DEF GetNonce, NonceRefused, Submit, HandleEvent, TransactionInsertEnds, BatchStep, DropBlock,
           StoreBadge, BatchFault, NodeBoot, Background, NodeEnd, allVars, nodeVars, accountVars
  <1>2. CASE \/ \E t \in Transfers : GetNonce(t) \/ NonceRefused(t) \/ Submit(t)
             \/ \E d \in Deposits : HandleEvent(d) \/ TransactionInsertEnds(d)
             \/ Background \/ NodeEnd \/ UNCHANGED allVars
    <2>1. Aside
      BY <1>2 DEF GetNonce, NonceRefused, Submit, HandleEvent, TransactionInsertEnds, Background,
                  NodeEnd, allVars, Aside, ListenerStep
    <2>2. Outside
      BY <2>1 DEF Aside, Outside
    <2> QED
      BY <1>1, <2>1, <2>2, AsideKeeps DEF Elsewhere
  <1>3. CASE BatchStep \/ DropBlock \/ StoreBadge \/ BatchFault \/ NodeBoot
    <2>1. Outside
      BY <1>3 DEF BatchStep, DropBlock, StoreBadge, BatchFault, NodeBoot, Outside
    <2>2. accountPc # "idle" => pc = "apply" /\ pos <= Len(batch)
      BY InHandTypes
    <2>3. ~ (pc = "apply" /\ ~ (pos > Len(batch)))
      BY <1>3 DEF BatchStep, DropBlock, StoreBadge, BatchFault, NodeBoot, ConsumerTake, FindBatch,
                  MarkIncluded, StampBatch, BuildBlock, AdvancePointer, LoseBlock, InsertBadge,
                  FindFails, MarkFails, Boot
    <2>4. pos \in Nat /\ Len(batch) \in Nat
      BY HandTypes DEF IInv
    <2>5. accountPc = "idle"
      <3> SUFFICES ASSUME accountPc # "idle" PROVE FALSE
        OBVIOUS
      <3>1. pc = "apply" /\ pos <= Len(batch) /\ pos > Len(batch)
        BY <2>2, <2>3
      <3> HIDE DEF IInv
      <3> QED
        BY <2>4, <3>1
    <2> QED
      BY <1>1, <2>1, <2>5 DEF Elsewhere
  <1> QED
    BY <1>2, <1>3

LEMMA NodeCases ==
    ASSUME IInv, LogInv, [NodeNext]_allVars
    PROVE  \/ ApplyTransfer
           \/ \E d \in Deposits : DepositLeaf(d) \/ DepositUser(d)
           \/ Stops
           \/ Elsewhere
  <1>1. NodeCrash => Stops
    BY DEF NodeCrash, A!Crash, A!Finish, Stops
  <1>2. NodeStep \/ UNCHANGED allVars
    BY DEF NodeNext
  <1> QED
    BY <1>1, <1>2, DepositCases, ElsewhereCases DEF NodeStep, Consume

---------------------------------------------------------------------------
(* Entries of the change logs.                                             *)

EntriesIn(log, t) == UNION {{a} \X {i \in DOMAIN log[a] : log[a][i] = t} : a \in Addresses}

LEMMA InEntries ==
    ASSUME NEW log, NEW t
    PROVE  /\ \A e \in EntriesIn(log, t) :
                 \E a \in Addresses : \E i \in DOMAIN log[a] : e = <<a, i>> /\ log[a][i] = t
           /\ \A a \in Addresses : \A i \in DOMAIN log[a] : log[a][i] = t => <<a, i>> \in EntriesIn(log, t)
  BY DEF EntriesIn

LEMMA EntriesGrow ==
    ASSUME NEW log \in [Addresses -> Seq(Transfers)], NEW a \in Addresses, NEW d \in Transfers,
           NEW more, more[a] = Append(log[a], d), \A b \in Addresses \ {a} : more[b] = log[b],
           NEW t
    PROVE  EntriesIn(more, t) =
              EntriesIn(log, t) \cup (IF t = d THEN {<<a, Len(log[a]) + 1>>} ELSE {})
  <1> DEFINE new == IF t = d THEN {<<a, Len(log[a]) + 1>>} ELSE {}
  <1>1. log[a] \in Seq(Transfers)
    OBVIOUS
  <1>2. /\ Len(log[a]) \in Nat
        /\ more[a] = Append(log[a], d) /\ DOMAIN log[a] = 1 .. Len(log[a])
        /\ DOMAIN more[a] = 1 .. Len(log[a]) + 1
        /\ more[a][Len(log[a]) + 1] = d
        /\ \A k \in 1 .. Len(log[a]) : more[a][k] = log[a][k]
    BY <1>1, AppendFacts
  <1>4. \A n \in Nat : 1 .. n + 1 = (1 .. n) \cup {n + 1}
    OBVIOUS
  <1>5. DOMAIN more[a] = DOMAIN log[a] \cup {Len(log[a]) + 1}
    BY <1>2, <1>4
  <1>6. ASSUME NEW e \in EntriesIn(more, t) PROVE e \in EntriesIn(log, t) \cup new
    <2>1. PICK b \in Addresses : \E i \in DOMAIN more[b] : e = <<b, i>> /\ more[b][i] = t
      BY InEntries
    <2>2. PICK i \in DOMAIN more[b] : e = <<b, i>> /\ more[b][i] = t
      BY <2>1
    <2>3. CASE b # a
      BY <2>2, <2>3, InEntries
    <2>4. CASE b = a /\ i \in DOMAIN log[a]
      BY <1>2, <2>2, <2>4, InEntries
    <2>5. CASE b = a /\ i = Len(log[a]) + 1
      BY <1>2, <2>2, <2>5
    <2> QED
      BY <1>5, <2>3, <2>4, <2>5
  <1>7. ASSUME NEW e \in EntriesIn(log, t) PROVE e \in EntriesIn(more, t)
    <2>1. PICK b \in Addresses : \E i \in DOMAIN log[b] : e = <<b, i>> /\ log[b][i] = t
      BY InEntries
    <2>2. PICK i \in DOMAIN log[b] : e = <<b, i>> /\ log[b][i] = t
      BY <2>1
    <2>3. i \in DOMAIN more[b] /\ more[b][i] = t
      BY <1>2, <1>5, <2>2
    <2> QED
      BY <2>2, <2>3, InEntries
  <1>8. t = d => <<a, Len(log[a]) + 1>> \in EntriesIn(more, t)
    BY <1>2, <1>5, InEntries
  <1> QED
    BY <1>6, <1>7, <1>8

\* A push adds an entry of the transfer in hand, behind the others in the log of
\* its sender.
LEMMA PushEntries ==
    ASSUME LogInv, accountPc # "idle", NEW e, Pushes(e)
    PROVE  /\ logged' \in [Addresses -> Seq(Transfers)]
           /\ Len(logged[tx.from]) \in Nat
           /\ logged'[tx.from] = Append(logged[tx.from], batch[pos])
           /\ Len(logged'[tx.from]) = Len(logged[tx.from]) + 1
           /\ DOMAIN logged'[tx.from] = 1 .. Len(logged[tx.from]) + 1
           /\ \A a \in Addresses : DOMAIN logged[a] \subseteq DOMAIN logged'[a]
           /\ \A a \in Addresses \ {tx.from} : logged'[a] = logged[a]
           /\ \A t \in Transfers : t # batch[pos] => Entries(t)' = Entries(t)
           /\ EntriesIn(logged', batch[pos]) =
                 Entries(batch[pos]) \cup {<<tx.from, Len(logged[tx.from]) + 1>>}
  <1>1. /\ batch[pos] \in Transfers /\ tx.from \in Addresses
        /\ logged \in [Addresses -> Seq(Transfers)]
        /\ logged' = [logged EXCEPT ![tx.from] = Append(@, batch[pos])]
    BY InHandTypes DEF LogInv, LogsMatch, Pushes
  <1>2. logged[tx.from] \in Seq(Transfers)
    BY <1>1
  <1>3. /\ Append(logged[tx.from], batch[pos]) \in Seq(Transfers)
        /\ Len(logged[tx.from]) \in Nat
        /\ Len(Append(logged[tx.from], batch[pos])) = Len(logged[tx.from]) + 1
        /\ DOMAIN Append(logged[tx.from], batch[pos]) = 1 .. Len(logged[tx.from]) + 1
        /\ DOMAIN logged[tx.from] = 1 .. Len(logged[tx.from])
    BY <1>1, <1>2, AppendFacts
  <1>4. /\ logged' \in [Addresses -> Seq(Transfers)]
        /\ logged'[tx.from] = Append(logged[tx.from], batch[pos])
        /\ \A a \in Addresses \ {tx.from} : logged'[a] = logged[a]
    BY <1>1, <1>3
  <1>5. \A n \in Nat : 1 .. n \subseteq 1 .. n + 1
    OBVIOUS
  <1>6. \A a \in Addresses : DOMAIN logged[a] \subseteq DOMAIN logged'[a]
    BY <1>3, <1>4, <1>5
  <1>7. \A t : EntriesIn(logged', t) = EntriesIn(logged, t) \cup
                  (IF t = batch[pos] THEN {<<tx.from, Len(logged[tx.from]) + 1>>} ELSE {})
    <2> TAKE t
    <2> DEFINE log == logged
    <2> DEFINE more == logged'
    <2> DEFINE a == tx.from
    <2> DEFINE d == batch[pos]
    <2>1. /\ log \in [Addresses -> Seq(Transfers)] /\ a \in Addresses /\ d \in Transfers
          /\ more[a] = Append(log[a], d) /\ \A b \in Addresses \ {a} : more[b] = log[b]
      BY <1>1, <1>4
    <2> HIDE DEF log, more, a, d
    <2>2. EntriesIn(more, t) = EntriesIn(log, t) \cup (IF t = d THEN {<<a, Len(log[a]) + 1>>} ELSE {})
      BY <2>1, EntriesGrow
    <2> QED
      BY <2>2 DEF log, more, a, d
  <1>8. \A t : Entries(t) = EntriesIn(logged, t) /\ Entries(t)' = EntriesIn(logged', t)
    BY DEF Entries, EntriesIn
  <1> QED
    BY <1>3, <1>4, <1>6, <1>7, <1>8

LEMMA EntriesStay ==
    ASSUME logged' = logged
    PROVE  \A t : Entries(t)' = Entries(t)
  BY DEF Entries

---------------------------------------------------------------------------
(* The invariant of the change logs.                                       *)

\* The transfer in hand is done with, and nothing but itself becomes Passed.
LEMMA DoneWith ==
    ASSUME IInv, pc = "apply", pos <= Len(batch), batch[pos] \in Transfers,
           ApplyOk \/ ApplyFailed \/ BlockStepFails
    PROVE  /\ \A t \in Transfers : ToCome(t)' => ToCome(t) /\ t # batch[pos]
           /\ \A t \in Transfers : Passed(t)' => Passed(t) \/ (ApplyOk /\ t = batch[pos])
           /\ \A t \in Transfers : Passed(t) => t # batch[pos]
           /\ ApplyFailed \/ BlockStepFails => ~ ApplyOk
  <1>1. \A t \in Transfers : ToCome(t)' => ToCome(t) /\ t # batch[pos]
    BY NoReturn
  <1>2. \A t \in Transfers : Passed(t)' => Passed(t) \/ (ApplyOk /\ t = batch[pos])
    BY PassedGrows DEF Outside
  <1>3. \A t \in Transfers : Passed(t) => t # batch[pos]
    BY AtHand
  <1>4. ApplyFailed \/ BlockStepFails => ~ ApplyOk
    <2>1. kept \in Seq(Docs) /\ batch[pos] \in Docs
      BY DEF IInv, TypeOK, Docs
    <2>2. Append(kept, batch[pos]) # kept
      BY <2>1, AppendFacts
    <2> QED
      BY <2>2 DEF ApplyOk, ApplyFailed, KeptAfterFailure, BlockStepFails
  <1> QED
    BY <1>1, <1>2, <1>3, <1>4

LEMMA LogInvInit == NodeInit => LogInv
  <1> SUFFICES ASSUME NodeInit PROVE LogInv
    OBVIOUS
  <1>1. /\ users = [a \in Addresses |-> IF a \in A!Funded THEN A!NewUser(Opening[a]) ELSE NoUser]
        /\ tree = A!FundedTree /\ accountPc = "idle" /\ callFaults = 0
        /\ logged = [a \in Addresses |-> <<>>]
        /\ pc = "boot" /\ kept = <<>> /\ badges = <<>>
    BY DEF NodeInit, A!Init, Init
  <1>2. \A a \in Addresses : \/ users[a] = NoUser
                             \/ /\ users[a] \in A!UserRecord
                                /\ Len(users[a].updates) = 0
    BY <1>1, NewUserType, NodeAccountsAssumption DEF A!Funded
  <1>3. AccountTypes
    BY <1>1, <1>2, FundedTreeType DEF AccountTypes, Users
  <1>4. LogsMatch
    <2>1. <<>> \in Seq(Transfers) /\ Len(<<>>) = 0
      OBVIOUS
    <2> QED
      BY <1>1, <1>2, <2>1 DEF LogsMatch, Known, LogSize
  <1>5. \A t : Entries(t) = {}
    BY <1>1 DEF Entries
  <1>6. \A t : ~ Passed(t)
    BY <1>1 DEF Passed, InABadge
  <1>7. EntriesSound
    BY <1>1, <1>5, <1>6 DEF EntriesSound
  <1> QED
    BY <1>1, <1>3, <1>4, <1>7 DEF LogInv, TransferInHand

\* A push keeps documents and logs in step, and the entries of a transfer together.
LEMMA PushKeeps ==
    ASSUME IInv, LogInv, accountPc # "idle", NEW e, Pushes(e)
    PROVE  /\ users' \in Users /\ LogsMatch'
           /\ \A t \in Transfers : t # batch[pos] => Entries(t)' = Entries(t)
           /\ accountPc = "checked" =>
                 EntriesIn(logged', batch[pos]) = {<<tx.from, Len(logged'[tx.from])>>}
           /\ accountPc = "debited" =>
                 \E i \in DOMAIN logged'[tx.from] : EntriesIn(logged', batch[pos]) = Pair(batch[pos], i)
           /\ \A a \in Addresses : DOMAIN logged[a] \subseteq DOMAIN logged'[a]
           /\ logged'[tx.from] # <<>> /\ Len(logged'[tx.from]) \in Nat
  <1> DEFINE L == Len(logged[tx.from])
  <1>1. /\ pc = "apply" /\ pos <= Len(batch) /\ batch[pos] \in Transfers
        /\ tx.from = Request[batch[pos]].from /\ tx.from \in Addresses /\ Known(tx.from)
    BY InHandTypes
  <1>2. /\ logged' \in [Addresses -> Seq(Transfers)]
        /\ L \in Nat /\ Len(logged'[tx.from]) = L + 1
        /\ DOMAIN logged'[tx.from] = 1 .. L + 1
        /\ logged'[tx.from] = Append(logged[tx.from], batch[pos])
        /\ \A a \in Addresses : DOMAIN logged[a] \subseteq DOMAIN logged'[a]
        /\ \A a \in Addresses \ {tx.from} : logged'[a] = logged[a]
        /\ \A t \in Transfers : t # batch[pos] => Entries(t)' = Entries(t)
        /\ EntriesIn(logged', batch[pos]) = Entries(batch[pos]) \cup {<<tx.from, L + 1>>}
    BY PushEntries
  <1>3. /\ users' \in Users /\ users'[tx.from] # NoUser
        /\ users'[tx.from].updates = Append(users[tx.from].updates, e)
        /\ \A b \in Addresses \ {tx.from} : users'[b] = users[b]
        /\ users[tx.from].updates \in Seq(A!UpdateRecord) /\ e \in A!UpdateRecord
    BY PushedUser DEF Pushes
  <1>4. Len(users'[tx.from].updates) = Len(users[tx.from].updates) + 1
    BY <1>3, AppendFacts
  <1>5. LogsMatch'
    <2>1. ASSUME NEW a \in Addresses
          PROVE  /\ users'[a] = NoUser => logged'[a] = <<>>
                 /\ users'[a] # NoUser => Len(logged'[a]) = Len(users'[a].updates)
      <3>1. CASE a = tx.from
        BY <1>1, <1>2, <1>3, <1>4, <3>1 DEF LogInv, LogsMatch, LogSize
      <3>2. CASE a # tx.from
        BY <1>2, <1>3, <3>2 DEF LogInv, LogsMatch, Known, LogSize
      <3> QED
        BY <3>1, <3>2
    <2> QED
      BY <1>2, <2>1 DEF LogsMatch, Known, LogSize
  <1>6. accountPc = "checked" => EntriesIn(logged', batch[pos]) = {<<tx.from, Len(logged'[tx.from])>>}
    <2> SUFFICES ASSUME accountPc = "checked"
                 PROVE  EntriesIn(logged', batch[pos]) = {<<tx.from, Len(logged'[tx.from])>>}
      OBVIOUS
    <2>1. Entries(batch[pos]) = {}
      BY <1>1, AtHand DEF LogInv, EntriesSound
    <2> QED
      BY <1>2, <2>1
  <1>7. accountPc = "debited" =>
            \E i \in DOMAIN logged'[tx.from] : EntriesIn(logged', batch[pos]) = Pair(batch[pos], i)
    <2> SUFFICES ASSUME accountPc = "debited"
                 PROVE  \E i \in DOMAIN logged'[tx.from] :
                            EntriesIn(logged', batch[pos]) = Pair(batch[pos], i)
      OBVIOUS
    <2>1. Entries(batch[pos]) = {<<tx.from, L>>} /\ logged[tx.from] # <<>>
      BY DEF LogInv, EntriesSound
    <2>2. logged[tx.from] \in Seq(Transfers)
      BY <1>1 DEF LogInv, LogsMatch
    <2>3. L \in 1 .. L + 1
      BY <1>2, <2>1, <2>2
    <2>4. EntriesIn(logged', batch[pos]) = Pair(batch[pos], L)
      BY <1>1, <1>2, <2>1 DEF Pair
    <2> QED
      BY <1>2, <2>3, <2>4
  <1>8. logged'[tx.from] # <<>>
    <2>1. logged[tx.from] \in Seq(Transfers)
      BY <1>1 DEF LogInv, LogsMatch
    <2>2. Append(logged[tx.from], batch[pos]) # <<>>
      BY <1>1, <2>1, AppendFacts
    <2> QED
      BY <1>2, <2>2
  <1>9. Len(logged'[tx.from]) \in Nat
    BY <1>2
  <1> HIDE DEF L
  <1> QED
    BY <1>2, <1>3, <1>5, <1>6, <1>7, <1>8, <1>9

\* What follows from the cases of a transfer.
LEMMA LogTransfer ==
    ASSUME IInv, LogInv, ApplyTransfer
    PROVE  LogInv'
  <1>0. pc = "apply" /\ pos <= Len(batch) /\ batch[pos] \in Transfers
    BY TransferCases
  <1>1. CASE TakesUp
    <2>1. /\ tx' = InHand /\ UNCHANGED <<users, tree, logged, callFaults, vars>>
          /\ accountPc = "idle" /\ accountPc' = "checked"
      BY <1>1 DEF TakesUp
    <2>2. AccountTypes' /\ LogsMatch'
      BY <2>1 DEF LogInv, AccountTypes, LogsMatch, Users, Known, LogSize
    <2>3. /\ InHand.from = Request[batch[pos]].from /\ InHand.to = Request[batch[pos]].to
          /\ InHand.amount = Request[batch[pos]].amount
          /\ InHand.from \in Addresses
      BY <1>0, NodeAssumption DEF InHand
    <2>4. /\ Known(InHand.from) /\ Known(InHand.to) /\ InHand.to # Zero
          /\ A!Latest(users[InHand.from]).after >= InHand.amount
      BY <1>1 DEF TakesUp, A!InvariantsHold, Known
    <2>6. TransferInHand'
      BY <1>0, <2>1, <2>3, <2>4 DEF TransferInHand, Known, vars, blockVars
    <2>7. EntriesSound'
      <3>1. \A t \in Transfers :
                /\ Entries(t)' = Entries(t)
                /\ ToCome(t)' <=> ToCome(t)
                /\ Passed(t)' <=> Passed(t)
        BY <2>1, EntriesStay DEF ToCome, Passed, InABadge, vars, blockVars, dbVars
      <3> QED
        BY <2>1, <3>1 DEF LogInv, EntriesSound
    <2> QED
      BY <2>2, <2>6, <2>7 DEF LogInv
  <1>2. CASE SkipsOrRefuses
    <2>1. /\ UNCHANGED <<users, tree, logged, callFaults>>
          /\ accountPc = "idle" /\ accountPc' = "idle"
          /\ \/ Request[batch[pos]].to = Zero /\ ApplyOk
             \/ ApplyFailed \/ BlockStepFails
      BY <1>2 DEF SkipsOrRefuses
    <2>2. AccountTypes' /\ LogsMatch' /\ TransferInHand'
      BY <2>1 DEF LogInv, AccountTypes, LogsMatch, Users, Known, LogSize, TransferInHand
    <2>3. \A t : Entries(t)' = Entries(t)
      BY <2>1, EntriesStay
    <2>4. \A t \in Transfers : ToCome(t)' => ToCome(t)
      BY <1>0, <2>1, DoneWith
    <2>5. \A t \in Transfers : Passed(t)' /\ Request[t].to # Zero => Passed(t)
      BY <1>0, <2>1, DoneWith
    <2>6. EntriesSound'
      BY <2>1, <2>3, <2>4, <2>5 DEF LogInv, EntriesSound
    <2> QED
      BY <2>2, <2>6 DEF LogInv
  <1>3. CASE Debits \/ Credits \/ Breaks
    <2>0. accountPc # "idle"
      BY <1>3 DEF Debits, Credits, Breaks
    <2>1. /\ tx.from = Request[batch[pos]].from /\ tx.from \in Addresses /\ tx.to \in Addresses
          /\ users[tx.from] \in A!UserRecord /\ users[tx.to] \in A!UserRecord
      BY <2>0, InHandTypes
    <2>2. accountPc' = "idle" => ApplyOk \/ ApplyFailed \/ BlockStepFails
      BY <1>3 DEF Debits, Credits, Breaks
    <2>3. \/ UNCHANGED <<users, logged>> /\ accountPc' = "idle" /\ (ApplyFailed \/ BlockStepFails)
          \/ \E e : Pushes(e)
      BY <1>3 DEF Debits, Credits, Breaks
    <2>4. AccountTypes'
      <3>1. tree' \in [Addresses -> Leaves]
        <4>1. A!DebitEntry.nonceAfter \in Nat /\ A!CreditEntry.nonceAfter \in Nat
          BY <2>0, EntryTypes, UpdateFields
        <4>2. tree \in [Addresses -> Leaves]
          BY DEF LogInv, AccountTypes
        <4>3. CASE tree' = tree
          BY <4>2, <4>3
        <4>4. CASE /\ A!FitsLeaf(A!DebitEntry.after)
                   /\ tree' = [tree EXCEPT ![tx.from] = A!Leaf(A!DebitEntry.after, A!DebitEntry.nonceAfter)]
          <5>1. A!Leaf(A!DebitEntry.after, A!DebitEntry.nonceAfter) \in Leaves
            BY <4>1, <4>4, LeafType
          <5> QED
            BY <2>1, <4>2, <4>4, <5>1
        <4>5. CASE /\ A!FitsLeaf(A!CreditEntry.after)
                   /\ tree' = [tree EXCEPT ![tx.to] = A!Leaf(A!CreditEntry.after, A!CreditEntry.nonceAfter)]
          <5>1. A!Leaf(A!CreditEntry.after, A!CreditEntry.nonceAfter) \in Leaves
            BY <4>1, <4>5, LeafType
          <5> QED
            BY <2>1, <4>2, <4>5, <5>1
        <4> QED
          BY <1>3, <4>3, <4>4, <4>5 DEF Debits, Credits, Breaks
      <3>2. users' \in Users
        BY <2>0, <2>3, PushKeeps DEF LogInv, AccountTypes
      <3>3. accountPc' \in {"idle", "checked", "debited"} /\ callFaults' \in Nat
        BY <1>3 DEF LogInv, AccountTypes, Debits, Credits, Breaks
      <3> QED
        BY <3>1, <3>2, <3>3 DEF AccountTypes, Users
    <2>5. LogsMatch'
      <3>1. UNCHANGED <<users, logged>> => LogsMatch'
        BY DEF LogInv, LogsMatch, Known, LogSize
      <3> QED
        BY <2>0, <2>3, <3>1, PushKeeps
    <2>6. CASE accountPc' = "idle"
      <3>1. TransferInHand'
        BY <2>6 DEF TransferInHand
      <3>2. \A t \in Transfers :
                /\ ToCome(t)' => ToCome(t) /\ t # batch[pos]
                /\ Passed(t)' => Passed(t) \/ (ApplyOk /\ t = batch[pos])
                /\ Passed(t) => t # batch[pos]
        BY <1>0, <2>2, <2>6, DoneWith
      <3>3. ApplyFailed \/ BlockStepFails => ~ ApplyOk
        BY <1>0, DoneWith
      <3>4. CASE UNCHANGED <<users, logged>> /\ (ApplyFailed \/ BlockStepFails)
        <4>1. \A t \in Transfers : Entries(t)' = Entries(t)
          BY <3>4, EntriesStay
        <4>2. \A t \in Transfers : Passed(t)' => Passed(t)
          BY <3>2, <3>3, <3>4
        <4>3. \A t \in Transfers : ToCome(t)' => Entries(t) = {}
          BY <3>2 DEF LogInv, EntriesSound
        <4>4. EntriesSound'
          BY <2>6, <3>4, <4>1, <4>2, <4>3 DEF LogInv, EntriesSound
        <4> QED
          BY <2>4, <2>5, <3>1, <4>4 DEF LogInv
      <3>5. CASE \E e : Pushes(e)
        <4>1. /\ \A t \in Transfers : t # batch[pos] => Entries(t)' = Entries(t)
              /\ accountPc = "checked" =>
                    EntriesIn(logged', batch[pos]) = {<<tx.from, Len(logged'[tx.from])>>}
              /\ accountPc = "debited" =>
                    \E i \in DOMAIN logged'[tx.from] : EntriesIn(logged', batch[pos]) = Pair(batch[pos], i)
              /\ \A a \in Addresses : DOMAIN logged[a] \subseteq DOMAIN logged'[a]
              /\ Len(logged'[tx.from]) \in Nat
          BY <2>0, <3>5, PushKeeps
        <4>2. \A t : Entries(t)' = EntriesIn(logged', t)
          BY DEF Entries, EntriesIn
        <4>3. \A t \in Transfers : ToCome(t)' => Entries(t)' = {}
          BY <3>2, <4>1 DEF LogInv, EntriesSound
        <4>4. \A t \in Transfers : \E i \in Nat : Entries(t)' \subseteq Pair(t, i)
          <5> TAKE t \in Transfers
          <5>1. CASE t # batch[pos]
            BY <4>1, <5>1 DEF LogInv, EntriesSound
          <5>2. CASE t = batch[pos] /\ accountPc = "checked"
            BY <2>1, <4>1, <4>2, <5>2 DEF Pair
          <5>3. CASE t = batch[pos] /\ accountPc = "debited"
            <6>1. logged' \in [Addresses -> Seq(Transfers)]
              BY <2>5 DEF LogsMatch
            <6>2. DOMAIN logged'[tx.from] \subseteq Nat
              BY <2>1, <6>1
            <6> QED
              BY <4>1, <4>2, <5>3, <6>2
          <5> QED
            BY <2>0, <5>1, <5>2, <5>3 DEF LogInv, AccountTypes
        <4>5. \A t \in Transfers : Passed(t)' /\ Request[t].to # Zero =>
                  \E i \in DOMAIN logged'[Request[t].from] : Entries(t)' = Pair(t, i)
          <5> TAKE t \in Transfers
          <5>1. CASE t # batch[pos]
            <6>1. Request[t].from \in Addresses
              BY NodeAssumption
            <6> QED
              BY <3>2, <4>1, <5>1, <6>1 DEF LogInv, EntriesSound
          <5>2. CASE t = batch[pos]
            <6>1. Passed(t)' => accountPc = "debited"
              BY <1>3, <2>6, <3>2, <3>3, <5>2 DEF Debits, Credits, Breaks
            <6> QED
              BY <2>1, <4>1, <4>2, <5>2, <6>1
          <5> QED
            BY <5>1, <5>2
        <4>6. EntriesSound'
          BY <2>6, <4>3, <4>4, <4>5 DEF EntriesSound, Pair
        <4> QED
          BY <2>4, <2>5, <3>1, <4>6 DEF LogInv
      <3> QED
        BY <2>3, <3>4, <3>5
    <2>7. CASE accountPc' # "idle"
      <3>1. /\ Debits /\ accountPc = "checked" /\ Pushes(A!DebitEntry) /\ A!FitsLeaf(A!DebitEntry.after)
            /\ accountPc' = "debited" /\ UNCHANGED <<tx, vars>>
        BY <1>3, <2>7 DEF Debits, Credits, Breaks
      <3>2. UNCHANGED <<pc, pos, batch, status, badges, kept, block>>
        BY <3>1 DEF vars, dbVars, blockVars
      <3>3. \A t \in Transfers : (ToCome(t)' <=> ToCome(t)) /\ (Passed(t)' <=> Passed(t))
        BY <3>2 DEF ToCome, Passed, InABadge
      <3>4. /\ \A t \in Transfers : t # batch[pos] => Entries(t)' = Entries(t)
            /\ EntriesIn(logged', batch[pos]) = {<<tx.from, Len(logged'[tx.from])>>}
            /\ \A a \in Addresses : DOMAIN logged[a] \subseteq DOMAIN logged'[a]
            /\ logged'[tx.from] # <<>> /\ Len(logged'[tx.from]) \in Nat
        BY <2>0, <3>1, PushKeeps
      <3>5. \A t : Entries(t)' = EntriesIn(logged', t)
        BY DEF Entries, EntriesIn
      <3>6. ~ Passed(batch[pos])
        BY <1>0, AtHand
      <3>7. TransferInHand'
        <4>1. /\ users'[tx.from].updates = Append(users[tx.from].updates, A!DebitEntry)
              /\ users[tx.from].updates \in Seq(A!UpdateRecord) /\ users'[tx.from] # NoUser
              /\ \A b \in Addresses \ {tx.from} : users'[b] = users[b]
              /\ A!DebitEntry \in A!UpdateRecord
          BY <2>0, <3>1, PushedUser DEF Pushes
        <4>2. /\ Len(users'[tx.from].updates) = Len(users[tx.from].updates) + 1
              /\ users'[tx.from].updates[Len(users[tx.from].updates) + 1] = A!DebitEntry
          BY <4>1, AppendFacts
        <4>3. A!DebitEntry.after \in Int /\ ~ (A!DebitEntry.after < 0)
          BY <3>1, NodeAccountsAssumption DEF A!FitsLeaf
        <4>4. ~ A!Overdrawn(users'[tx.from].updates)
          BY <4>2, <4>3 DEF A!Overdrawn, A!Closing
        <4>5. Known(tx.from)' /\ Known(tx.to)'
          <5>1. Known(tx.from) /\ Known(tx.to)
            BY <2>0, InHandTypes
          <5> QED
            BY <2>1, <3>1, <4>1, <5>1 DEF Known
        <4> QED
          BY <2>0, <3>1, <3>2, <4>4, <4>5 DEF LogInv, TransferInHand
      <3>8. EntriesSound'
        <4>1. \A t \in Transfers : ToCome(t)' /\ t # batch[pos] => Entries(t)' = {}
          BY <3>3, <3>4 DEF LogInv, EntriesSound
        <4>2. \A t \in Transfers : \E i \in Nat : Entries(t)' \subseteq Pair(t, i)
          <5> TAKE t \in Transfers
          <5>1. CASE t = batch[pos]
            BY <2>1, <3>4, <3>5, <5>1 DEF Pair
          <5>2. CASE t # batch[pos]
            BY <3>4, <5>2 DEF LogInv, EntriesSound
          <5> QED
            BY <5>1, <5>2
        <4>3. \A t \in Transfers : Passed(t)' /\ Request[t].to # Zero =>
                  \E i \in DOMAIN logged'[Request[t].from] : Entries(t)' = Pair(t, i)
          <5> TAKE t \in Transfers
          <5>1. Request[t].from \in Addresses
            BY NodeAssumption
          <5> QED
            BY <3>3, <3>4, <3>6, <5>1 DEF LogInv, EntriesSound
        <4>4. EntriesIn(logged', batch'[pos']) = {<<tx'.from, Len(logged'[tx'.from])>>}
          BY <3>1, <3>2, <3>4
        <4>5. Entries(batch[pos])' = EntriesIn(logged', batch'[pos'])
          BY DEF Entries, EntriesIn
        <4> QED
          BY <3>1, <3>2, <3>4, <4>1, <4>2, <4>3, <4>4, <4>5 DEF EntriesSound, Pair
      <3> QED
        BY <2>4, <2>5, <3>7, <3>8 DEF LogInv
    <2> QED
      BY <2>6, <2>7
  <1> QED
    BY <1>1, <1>2, <1>3, TransferCases

\* The steps that leave the change logs alone.
LEMMA NoneKept ==
    ASSUME IInv, Outside
    PROVE  ~ ApplyOk
  <1> SUFFICES ASSUME ApplyOk PROVE FALSE
    OBVIOUS
  <1>1. pc = "apply" /\ pc' = "apply" /\ pos' = pos + 1 /\ pos \in Nat
    BY DEF ApplyOk, IInv, TypeOK
  <1>2. pos' = pos
    <2>1. Aside
      BY <1>1 DEF Outside, Aside, Boot, Crash, ConsumerTake, FindBatch, MarkIncluded, StampBatch,
                  BuildBlock, LoseBlock, InsertBadge, AdvancePointer, FindFails, MarkFails,
                  BlockStepFails
    <2> QED
      BY <2>1, AsideKeeps
  <1> QED
    BY <1>1, <1>2

LEMMA SoundStays ==
    ASSUME LogInv, logged' = logged,
           \A t \in Transfers : /\ ToCome(t)' => ToCome(t)
                                /\ Passed(t)' => Passed(t),
           \/ UNCHANGED <<accountPc, tx>> /\ (accountPc # "idle" => UNCHANGED <<batch, pos>>)
           \/ /\ accountPc' = "idle"
              /\ accountPc = "debited" => \A t \in Transfers : ToCome(t)' => t # batch[pos]
    PROVE  EntriesSound'
  <1>1. \A t : Entries(t)' = Entries(t)
    BY EntriesStay
  <1>2. CASE UNCHANGED <<accountPc, tx>> /\ (accountPc # "idle" => UNCHANGED <<batch, pos>>)
    <2>1. \A t \in Transfers :
              ToCome(t)' /\ ~ (accountPc' = "debited" /\ t = batch'[pos']) => Entries(t)' = {}
      BY <1>1, <1>2 DEF LogInv, EntriesSound
    <2>2. accountPc' = "debited" =>
              Entries(batch[pos])' = Entries(batch[pos]) /\ batch'[pos'] = batch[pos]
      BY <1>2 DEF Entries
    <2> QED
      BY <1>1, <1>2, <2>1, <2>2 DEF LogInv, EntriesSound
  <1>3. CASE /\ accountPc' = "idle"
             /\ accountPc = "debited" => \A t \in Transfers : ToCome(t)' => t # batch[pos]
    <2>1. \A t \in Transfers : ToCome(t)' => Entries(t)' = {}
      BY <1>1, <1>3 DEF LogInv, EntriesSound
    <2> QED
      BY <1>1, <1>3, <2>1 DEF LogInv, EntriesSound
  <1> QED
    BY <1>2, <1>3

LEMMA LogDeposit ==
    ASSUME IInv, LogInv, NEW d \in Deposits, DepositLeaf(d)
    PROVE  LogInv'
  <1>1. /\ pc = "apply" /\ d = batch[pos] /\ accountPc = "idle" /\ ApplyOk
        /\ tree' = [tree EXCEPT ![DepositInfo[d].account] = A!Leaf(DepositInfo[d].amount, 0)]
        /\ UNCHANGED <<users, accountPc, tx, callFaults, logged>>
    BY DEF DepositLeaf
  <1>2. A!Leaf(DepositInfo[d].amount, 0) \in Leaves
    BY NodeAccountsAssumption, LeafType DEF A!FitsLeaf
  <1>3. AccountTypes' /\ LogsMatch' /\ TransferInHand'
    BY <1>1, <1>2, NodeAccountsAssumption
       DEF LogInv, AccountTypes, LogsMatch, TransferInHand, Users, Known, LogSize
  <1>4. \A t \in Transfers : ToCome(t)' => ToCome(t)
    <2>1. /\ status' = status /\ pc' = "apply" /\ batch' = batch /\ pos' = pos + 1
          /\ pos \in Nat /\ \A i \in DOMAIN batch : i \in Nat
      BY <1>1, HandTypes DEF ApplyOk, dbVars, IInv
    <2>2. \A i \in Nat : i >= pos + 1 => i >= pos
      BY <2>1
    <2> QED
      BY <1>1, <2>1, <2>2 DEF ToCome
  <1>5. \A t \in Transfers : Passed(t)' => Passed(t)
    BY <1>1, PassedGrows, DocsAssumption
  <1>6. EntriesSound'
    BY <1>1, <1>4, <1>5, SoundStays
  <1> QED
    BY <1>3, <1>6 DEF LogInv

LEMMA LogDepositUser ==
    ASSUME LogInv, NEW d \in Deposits, DepositUser(d)
    PROVE  LogInv'
  <1> DEFINE a == DepositInfo[d].account
  <1> DEFINE u == A!NewUser(DepositInfo[d].amount)
  <1>1. /\ UNCHANGED <<vars, tree, accountPc, tx, logged>>
        /\ callFaults' = callFaults \/ callFaults' = callFaults + 1
        /\ users' = users \/ (~ Known(a) /\ users' = [users EXCEPT ![a] = u])
    BY DEF DepositUser
  <1>2. a \in Addresses /\ u \in A!UserRecord /\ u # NoUser /\ Len(u.updates) = 0
    BY NodeAccountsAssumption, NewUserType
  <1>3. users \in Users /\ \A b \in Addresses : users'[b] = users[b] \/ (b = a /\ ~ Known(a) /\ users'[b] = u)
    BY <1>1, <1>2 DEF LogInv, AccountTypes, Users
  <1>4. AccountTypes'
    BY <1>1, <1>2 DEF LogInv, AccountTypes, Users
  <1>5. TransferInHand'
    <2> SUFFICES ASSUME accountPc # "idle" PROVE TransferInHand'
      BY <1>1 DEF TransferInHand
    <2>1. /\ tx.from \in Addresses /\ tx.to \in Addresses /\ Known(tx.from) /\ Known(tx.to)
      BY InHandTypes
    <2>2. users'[tx.from] = users[tx.from] /\ users'[tx.to] = users[tx.to]
      BY <1>3, <2>1
    <2> QED
      BY <1>1, <2>1, <2>2 DEF LogInv, TransferInHand, Known, vars, blockVars
  <1>6. LogsMatch'
    <2>1. <<>> \in Seq(Transfers) /\ Len(<<>>) = 0
      OBVIOUS
    <2> HIDE DEF u, a
    <2> QED
      BY <1>1, <1>2, <1>3, <2>1 DEF LogInv, LogsMatch, Known, LogSize
  <1>7. EntriesSound'
    <2>1. UNCHANGED <<status, badges, pc, batch, pos, kept, block>>
      BY <1>1 DEF vars, dbVars, blockVars
    <2>2. \A t \in Transfers : /\ ToCome(t)' => ToCome(t)
                               /\ Passed(t)' => Passed(t)
      BY <2>1 DEF ToCome, Passed, InABadge
    <2> QED
      BY <1>1, <2>1, <2>2, SoundStays
  <1> QED
    BY <1>4, <1>5, <1>6, <1>7 DEF LogInv

LEMMA LogStops ==
    ASSUME IInv, LogInv, Stops
    PROVE  LogInv'
  <1>1. /\ Crash /\ accountPc' = "idle" /\ tree' = A!FundedTree
        /\ UNCHANGED <<users, callFaults, logged>>
    BY DEF Stops
  <1>2. AccountTypes' /\ LogsMatch' /\ TransferInHand'
    BY <1>1, FundedTreeType DEF LogInv, AccountTypes, LogsMatch, TransferInHand, Known, LogSize
  <1>3. Outside
    BY <1>1 DEF Outside
  <1>4. \A t \in Transfers : /\ ToCome(t)' => ToCome(t)
                             /\ Passed(t)' => Passed(t)
    <2> TAKE t \in Transfers
    <2>1. ToCome(t)' => ToCome(t)
      BY <1>3, ToComeShrinks
    <2>2. Passed(t)' => Passed(t)
      <3>1. ~ ApplyOk
        BY <1>1 DEF Crash, ApplyOk
      <3> QED
        BY <1>3, <3>1, PassedGrows
    <2> QED
      BY <2>1, <2>2
  <1>5. accountPc = "debited" => \A t \in Transfers : ToCome(t)' => t # batch[pos]
    <2> SUFFICES ASSUME accountPc = "debited", NEW t \in Transfers, t = batch[pos] PROVE ~ ToCome(t)'
      OBVIOUS
    <2>1. status[t] = "included"
      BY InHandTypes, AtHand
    <2>2. status' = status /\ pc' = "boot"
      BY <1>1 DEF Crash, dbVars
    <2> QED
      BY <2>1, <2>2 DEF ToCome
  <1>6. EntriesSound'
    BY <1>1, <1>4, <1>5, SoundStays
  <1> QED
    BY <1>2, <1>6 DEF LogInv

LEMMA LogElsewhere ==
    ASSUME IInv, LogInv, Elsewhere
    PROVE  LogInv'
  <1>1. /\ Outside /\ UNCHANGED <<users, tree, accountPc, tx, callFaults, logged>>
        /\ accountPc # "idle" => UNCHANGED <<pc, batch, pos>>
    BY DEF Elsewhere
  <1>2. AccountTypes' /\ LogsMatch' /\ TransferInHand'
    BY <1>1 DEF LogInv, AccountTypes, LogsMatch, TransferInHand, Known, LogSize
  <1>3. \A t \in Transfers : ToCome(t)' => ToCome(t)
    BY <1>1, ToComeShrinks
  <1>4. \A t \in Transfers : Passed(t)' => Passed(t)
    <2>1. ~ ApplyOk
      BY <1>1, NoneKept
    <2> QED
      BY <1>1, <2>1, PassedGrows
  <1>5. EntriesSound'
    BY <1>1, <1>3, <1>4, SoundStays
  <1> QED
    BY <1>2, <1>5 DEF LogInv

LEMMA LogInvNext ==
    ASSUME IInv, LogInv, [NodeNext]_allVars
    PROVE  LogInv'
  BY NodeCases, LogTransfer, LogDeposit, LogDepositUser, LogStops, LogElsewhere

\* What holds of Sequencer holds of the node.
LEMMA NodeInv == NodeSpec => []IInv
  BY NodeImplementsSequencer, InvariantHolds, PTL

LEMMA LogInvHolds == NodeSpec => []LogInv
  <1>1. IInv /\ LogInv /\ [NodeNext]_allVars => LogInv'
    BY LogInvNext
  <1> QED
    BY <1>1, LogInvInit, NodeInv, PTL DEF NodeSpec

---------------------------------------------------------------------------
(* Overdrawn accounts.                                                     *)

\* Of a document that exists, only the log of the sender in hand changes.
LEMMA OthersStay ==
    ASSUME IInv, LogInv, [NodeNext]_allVars, NEW a \in Addresses, Known(a), users'[a] # users[a]
    PROVE  accountPc # "idle" /\ a = tx.from
  <1>1. CASE ApplyTransfer
    <2>1. CASE TakesUp \/ SkipsOrRefuses
      BY <2>1 DEF TakesUp, SkipsOrRefuses
    <2>2. CASE Debits \/ Credits \/ Breaks
      <3>1. accountPc # "idle"
        BY <2>2 DEF Debits, Credits, Breaks
      <3>2. \/ users' = users
            \/ Pushes(A!DebitEntry)
            \/ Pushes(A!CreditEntry)
        BY <2>2 DEF Debits, Credits, Breaks
      <3>3. users' # users => \A b \in Addresses \ {tx.from} : users'[b] = users[b]
        BY <3>1, <3>2, PushedUser DEF Pushes
      <3> QED
        BY <3>1, <3>3
    <2> QED
      BY <1>1, <2>1, <2>2, TransferCases
  <1>2. ASSUME NEW d \in Deposits, DepositUser(d) PROVE users'[a] = users[a]
    BY <1>2 DEF DepositUser, LogInv, AccountTypes, Users
  <1>3. CASE (\E d \in Deposits : DepositLeaf(d)) \/ Stops \/ Elsewhere
    BY <1>3 DEF DepositLeaf, Stops, Elsewhere
  <1> QED
    BY <1>1, <1>2, <1>3, NodeCases

\* A log that ends below zero is frozen for every amount that is not negative:
\* whatever clients submit and whatever fails, nothing is written to it, except
\* by a transfer of its own of an amount at or below what the log ends with.
THEOREM NodeFreezesOverdrawn == NodeSpec => A!OverdrawnIsFrozen
  <1>1. ASSUME IInv, LogInv, [NodeNext]_allVars, NEW a \in Addresses, users[a] # NoUser,
               A!Overdrawn(users[a].updates), users'[a] # users[a]
        PROVE  tx.from = a /\ tx.amount <= A!Closing(users[a].updates)
    <2>1. accountPc # "idle" /\ tx.from = a
      BY <1>1, OthersStay DEF Known
    <2>2. accountPc = "checked" /\ A!Latest(users[a]).after >= tx.amount
      BY <1>1, <2>1 DEF LogInv, TransferInHand, AccountTypes
    <2>3. A!Latest(users[a]).after = A!Closing(users[a].updates)
      BY <1>1 DEF A!Overdrawn, A!Latest, A!Closing
    <2>4. A!Latest(users[a]).after \in Int /\ tx.amount \in Int
      BY <1>1, <2>1, InHandTypes, BaseType, UpdateFields
    <2> QED
      BY <2>1, <2>2, <2>3, <2>4
  <1>2. IInv /\ LogInv /\ [NodeNext]_allVars =>
            [\A a \in Addresses :
                users[a] # NoUser /\ A!Overdrawn(users[a].updates) =>
                    \/ users'[a] = users[a]
                    \/ tx.from = a /\ tx.amount <= A!Closing(users[a].updates)]_(A!vars)
    BY <1>1
  <1> QED
    BY <1>2, NodeInv, LogInvHolds, PTL DEF NodeSpec, A!OverdrawnIsFrozen

---------------------------------------------------------------------------
(* Debits and credits.                                                     *)

LEMMA EntryKinds ==
    ASSUME LogInv, accountPc # "idle"
    PROVE  IsDebit(A!DebitEntry) /\ ~ IsDebit(A!CreditEntry)
  <1>1. users[tx.from] \in A!UserRecord /\ users[tx.to] \in A!UserRecord
    BY InHandTypes
  <1>2. A!Latest(users[tx.to]).nonceAfter \in Nat
    BY <1>1, BaseType, UpdateFields
  <1>3. IsDebit(A!DebitEntry)
    BY DEF A!DebitEntry, A!Update, IsDebit
  <1>4. ~ IsDebit(A!CreditEntry)
    <2> DEFINE n == A!Latest(users[tx.to]).nonceAfter
    <2>1. A!CreditEntry.nonceBefore = n /\ A!CreditEntry.nonceAfter = n
      BY DEF A!CreditEntry, A!Update
    <2>2. n # n + 1
      BY <1>2
    <2> HIDE DEF n
    <2> QED
      BY <2>1, <2>2 DEF IsDebit
  <1> QED
    BY <1>3, <1>4

LEMMA KindsPushed ==
    ASSUME IInv, LogInv, KindsSound, accountPc # "idle", NEW e, Pushes(e),
           \/ accountPc = "checked" /\ e = A!DebitEntry /\ (accountPc' = "debited" => tx' = tx)
           \/ accountPc = "debited" /\ e = A!CreditEntry /\ accountPc' = "idle"
    PROVE  KindsSound'
  <1> PICK f \in Addresses : f = tx.from
    BY InHandTypes
  <1> DEFINE L == Len(logged[f])
  <1>1. /\ batch[pos] \in Transfers /\ Known(f) /\ L \in Nat /\ L = LogSize(f)
        /\ logged[f] \in Seq(Transfers)
    BY InHandTypes DEF LogInv, LogsMatch
  <1>2. /\ users'[f].updates = Append(users[f].updates, e)
        /\ users[f].updates \in Seq(A!UpdateRecord) /\ e \in A!UpdateRecord
        /\ \A b \in Addresses \ {f} : users'[b] = users[b]
    BY PushedUser DEF Pushes
  <1>3. users'[f].updates[L + 1] = e /\ \A k \in 1 .. L : users'[f].updates[k] = users[f].updates[k]
    BY <1>1, <1>2, AppendFacts DEF LogSize
  <1>4. /\ logged'[f] = Append(logged[f], batch[pos])
        /\ \A b \in Addresses \ {f} : logged'[b] = logged[b]
    BY DEF Pushes, LogInv, LogsMatch
  <1>5. /\ Len(logged'[f]) = L + 1 /\ DOMAIN logged'[f] = 1 .. L + 1 /\ DOMAIN logged[f] = 1 .. L
        /\ logged'[f][L + 1] = batch[pos] /\ \A k \in 1 .. L : logged'[f][k] = logged[f][k]
    BY <1>1, <1>4, AppendFacts
  <1>6. L \in DOMAIN logged[f] /\ logged[f][L] = batch[pos] =>
            accountPc = "debited" /\ IsDebit(users[f].updates[L])
    <2> SUFFICES ASSUME L \in DOMAIN logged[f], logged[f][L] = batch[pos]
                 PROVE  accountPc = "debited" /\ IsDebit(users[f].updates[L])
      OBVIOUS
    <2>1. Entries(batch[pos]) # {}
      <3>1. <<f, L>> \in EntriesIn(logged, batch[pos])
        BY InEntries
      <3>2. Entries(batch[pos]) = EntriesIn(logged, batch[pos])
        BY DEF Entries, EntriesIn
      <3> QED
        BY <3>1, <3>2
    <2>2. ToCome(batch[pos])
      BY <1>1, AtHand, InHandTypes
    <2>3. accountPc = "debited"
      BY <1>1, <2>1, <2>2 DEF LogInv, EntriesSound
    <2> QED
      BY <2>3 DEF KindsSound, EntryAt
  <1>7. IsDebit(A!DebitEntry) /\ ~ IsDebit(A!CreditEntry)
    BY EntryKinds
  <1> HIDE DEF L
  <1>8. ASSUME NEW i \in 1 .. L + 1, i + 1 \in 1 .. L + 1, logged'[f][i + 1] = logged'[f][i]
        PROVE  IsDebit(users'[f].updates[i]) /\ ~ IsDebit(users'[f].updates[i + 1])
    <2>1. i \in 1 .. L /\ (i + 1 \in 1 .. L \/ i = L)
      BY <1>1, <1>8
    <2>2. CASE i + 1 \in 1 .. L
      <3>1. i \in DOMAIN logged[f] /\ i + 1 \in DOMAIN logged[f] /\ logged[f][i + 1] = logged[f][i]
        BY <1>5, <1>8, <2>1, <2>2
      <3>2. IsDebit(EntryAt(<<f, i>>)) /\ ~ IsDebit(EntryAt(<<f, i + 1>>))
        BY <3>1 DEF KindsSound
      <3>3. EntryAt(<<f, i>>) = users[f].updates[i] /\ EntryAt(<<f, i + 1>>) = users[f].updates[i + 1]
        BY DEF EntryAt
      <3>4. users'[f].updates[i] = users[f].updates[i] /\ users'[f].updates[i + 1] = users[f].updates[i + 1]
        BY <1>3, <2>1, <2>2
      <3> QED
        BY <3>2, <3>3, <3>4
    <2>3. CASE i = L
      <3>1. accountPc = "debited" /\ IsDebit(users[f].updates[i])
        BY <1>5, <1>6, <1>8, <2>1, <2>3
      <3> QED
        BY <1>3, <1>7, <2>1, <2>3, <3>1
    <2> QED
      BY <2>1, <2>2, <2>3
  <1>9. accountPc' = "debited" => IsDebit(users'[f].updates[L + 1]) /\ tx'.from = f
    BY <1>3, <1>7
  <1>10. \A a \in Addresses \ {f} : \A i \in DOMAIN logged'[a] :
             i + 1 \in DOMAIN logged'[a] /\ logged'[a][i + 1] = logged'[a][i] =>
                 IsDebit(users'[a].updates[i]) /\ ~ IsDebit(users'[a].updates[i + 1])
    BY <1>2, <1>4 DEF KindsSound, EntryAt
  <1>11. \A a \in Addresses : \A i \in DOMAIN logged'[a] :
             i + 1 \in DOMAIN logged'[a] /\ logged'[a][i + 1] = logged'[a][i] =>
                 IsDebit(users'[a].updates[i]) /\ ~ IsDebit(users'[a].updates[i + 1])
    BY <1>5, <1>8, <1>10
  <1>12. accountPc' = "debited" => IsDebit(users'[tx'.from].updates[Len(logged'[tx'.from])])
    BY <1>5, <1>9
  <1> QED
    BY <1>11, <1>12 DEF KindsSound, EntryAt, IsDebit

\* Documents that exist, and logs, as they were.
LEMMA KindsStay ==
    ASSUME LogInv, KindsSound, logged' = logged,
           \A a \in Addresses : Known(a) => users'[a] = users[a],
           accountPc' = "debited" => accountPc = "debited" /\ tx' = tx
    PROVE  KindsSound'
  <1>1. \A a \in Addresses : logged[a] # <<>> => users'[a] = users[a]
    BY DEF LogInv, LogsMatch
  <1>2. \A a \in Addresses : \A i \in DOMAIN logged[a] : users'[a] = users[a]
    BY <1>1
  <1>3. accountPc' = "debited" => users'[tx.from] = users[tx.from]
    BY InHandTypes
  <1> QED
    BY <1>2, <1>3 DEF KindsSound, EntryAt, IsDebit

LEMMA KindsNext ==
    ASSUME IInv, LogInv, KindsSound, [NodeNext]_allVars
    PROVE  KindsSound'
  <1>1. CASE ApplyTransfer /\ (TakesUp \/ SkipsOrRefuses)
    BY <1>1, KindsStay DEF TakesUp, SkipsOrRefuses
  <1>2. CASE ApplyTransfer /\ (Debits \/ Credits)
    BY <1>2, KindsPushed DEF Debits, Credits
  <1>3. CASE ApplyTransfer /\ Breaks
    <2>1. CASE UNCHANGED <<users, logged>>
      BY <1>3, <2>1, KindsStay DEF Breaks
    <2>2. CASE ~ UNCHANGED <<users, logged>>
      BY <1>3, <2>2, KindsPushed DEF Breaks
    <2> QED
      BY <2>1, <2>2
  <1>4. ASSUME NEW d \in Deposits, DepositUser(d) PROVE KindsSound'
    <2>1. \A a \in Addresses : Known(a) => users'[a] = users[a]
      BY <1>4 DEF DepositUser, LogInv, AccountTypes, Users
    <2> QED
      BY <1>4, <2>1, KindsStay DEF DepositUser
  <1>5. CASE (\E d \in Deposits : DepositLeaf(d)) \/ Stops \/ Elsewhere
    BY <1>5, KindsStay DEF DepositLeaf, Stops, Elsewhere
  <1> QED
    BY <1>1, <1>2, <1>3, <1>4, <1>5, NodeCases, TransferCases

LEMMA KindsHold == NodeSpec => []KindsSound
  <1>1. NodeInit => KindsSound
    BY DEF NodeInit, A!Init, KindsSound
  <1>2. IInv /\ LogInv /\ KindsSound /\ [NodeNext]_allVars => KindsSound'
    BY KindsNext
  <1> QED
    BY <1>1, <1>2, NodeInv, LogInvHolds, PTL DEF NodeSpec

\* Two entries of a transfer are its debit and, next to it, its credit.
LEMMA PairKinds ==
    ASSUME LogInv, KindsSound, NEW t \in Transfers, NEW i \in Nat,
           <<Request[t].from, i>> \in Entries(t), <<Request[t].from, i + 1>> \in Entries(t)
    PROVE  /\ IsDebit(EntryAt(<<Request[t].from, i>>))
           /\ ~ IsDebit(EntryAt(<<Request[t].from, i + 1>>))
  <1>1. ASSUME NEW a \in Addresses, NEW k, <<a, k>> \in Entries(t)
        PROVE  k \in DOMAIN logged[a] /\ logged[a][k] = t
    BY <1>1 DEF Entries
  <1>2. Request[t].from \in Addresses
    BY NodeAssumption
  <1> QED
    BY <1>1, <1>2 DEF KindsSound

\* However calls fail and the node restarts, no transfer is debited twice or
\* credited twice: of two entries of the change logs that are its, one is a debit
\* and the other is not.
THEOREM NodeExecutesOnce == NodeSpec => []ExecutedOnce
  <1>1. ASSUME LogInv, KindsSound, NEW t \in Transfers, NEW x \in Entries(t), NEW y \in Entries(t),
               x # y
        PROVE  IsDebit(EntryAt(x)) <=> ~ IsDebit(EntryAt(y))
    <2>1. PICK i \in Nat : Entries(t) \subseteq Pair(t, i)
      BY <1>1 DEF LogInv, EntriesSound
    <2> DEFINE d == <<Request[t].from, i>>
    <2> DEFINE c == <<Request[t].from, i + 1>>
    <2>2. x \in {d, c} /\ y \in {d, c}
      BY <2>1 DEF Pair
    <2>3. d \in Entries(t) /\ c \in Entries(t)
      BY <1>1, <2>2
    <2>4. IsDebit(EntryAt(d)) /\ ~ IsDebit(EntryAt(c))
      BY <1>1, <2>3, PairKinds
    <2> HIDE DEF d, c
    <2>5. CASE x = d /\ y = c
      BY <2>4, <2>5
    <2>6. CASE x = c /\ y = d
      BY <2>4, <2>6
    <2> QED
      BY <1>1, <2>2, <2>5, <2>6
  <1>2. LogInv /\ KindsSound => ExecutedOnce
    BY <1>1 DEF ExecutedOnce
  <1> QED
    BY <1>2, LogInvHolds, KindsHold, PTL

\* A transfer in a block was carried out: its debit and, next to it, its credit
\* are in the change log of its sender.
THEOREM NodeCarriesOut == NodeSpec => []BadgedIsExecuted
  <1>1. ASSUME LogInv, KindsSound, NEW t \in Transfers, InABadge(t), Request[t].to # Zero
        PROVE  \E i \in DOMAIN logged[Request[t].from] :
                   /\ Entries(t) = {<<Request[t].from, i>>, <<Request[t].from, i + 1>>}
                   /\ IsDebit(EntryAt(<<Request[t].from, i>>))
                   /\ ~ IsDebit(EntryAt(<<Request[t].from, i + 1>>))
    <2>1. PICK i \in DOMAIN logged[Request[t].from] : Entries(t) = Pair(t, i)
      BY <1>1 DEF LogInv, EntriesSound, Passed
    <2>2. i \in Nat
      <3>1. logged[Request[t].from] \in Seq(Transfers)
        BY <1>1, NodeAssumption DEF LogInv, LogsMatch
      <3> QED
        BY <2>1, <3>1
    <2>3. Entries(t) = {<<Request[t].from, i>>, <<Request[t].from, i + 1>>}
      BY <2>1 DEF Pair
    <2> QED
      BY <1>1, <2>2, <2>3, PairKinds
  <1>2. LogInv /\ KindsSound => BadgedIsExecuted
    BY <1>1 DEF BadgedIsExecuted
  <1> QED
    BY <1>2, LogInvHolds, KindsHold, PTL
---------------------------------------------------------------------------
(* A document with one entry more.                                         *)

LEMMA Parity ==
    /\ ~ A!IsOdd(0) /\ A!IsOdd(1)
    /\ \A n \in Nat : A!IsOdd(n + 1) <=> ~ A!IsOdd(n)
  BY DEF A!IsOdd

LEMMA Lengthened ==
    ASSUME NEW u \in A!UserRecord, NEW v \in A!UserRecord, NEW e \in A!UpdateRecord,
           v.updates = Append(u.updates, e)
    PROVE  /\ Len(u.updates) \in Nat /\ Len(v.updates) = Len(u.updates) + 1
           /\ DOMAIN u.updates = 1 .. Len(u.updates)
           /\ DOMAIN v.updates = 1 .. Len(u.updates) + 1
           /\ \A k \in 1 .. Len(u.updates) : v.updates[k] = u.updates[k]
           /\ v.updates[Len(u.updates) + 1] = e
           /\ v.updates # <<>>
           /\ A!Overdrawn(v.updates) <=> e.after < 0
           /\ A!IsOdd(Len(v.updates)) <=> ~ A!IsOdd(Len(u.updates))
  <1>1. u.updates \in Seq(A!UpdateRecord)
    BY UserFields
  <1>2. /\ Len(u.updates) \in Nat /\ Len(v.updates) = Len(u.updates) + 1
        /\ DOMAIN u.updates = 1 .. Len(u.updates)
        /\ DOMAIN v.updates = 1 .. Len(u.updates) + 1
        /\ \A k \in 1 .. Len(u.updates) : v.updates[k] = u.updates[k]
        /\ v.updates[Len(u.updates) + 1] = e
        /\ v.updates # <<>>
    BY <1>1, AppendFacts
  <1>3. A!Overdrawn(v.updates) <=> e.after < 0
    BY <1>2 DEF A!Overdrawn, A!Closing
  <1>4. A!IsOdd(Len(v.updates)) <=> ~ A!IsOdd(Len(u.updates))
    BY <1>2, Parity
  <1> QED
    BY <1>2, <1>3, <1>4

\* An entry in an even place disturbs nothing.
LEMMA CreditAppended ==
    ASSUME NEW u \in A!UserRecord, NEW v \in A!UserRecord, NEW e \in A!UpdateRecord,
           v.updates = Append(u.updates, e), v.balance = u.balance,
           A!IsOdd(Len(u.updates)), Fits(u)
    PROVE  Fits(v) /\ Left(v) = Left(u)
  <1> DEFINE n == Len(u.updates)
  <1>1. /\ n \in Nat /\ Len(v.updates) = n + 1
        /\ DOMAIN u.updates = 1 .. n /\ DOMAIN v.updates = 1 .. n + 1
        /\ \A k \in 1 .. n : v.updates[k] = u.updates[k]
        /\ A!IsOdd(n) /\ ~ A!IsOdd(n + 1) /\ v.updates # <<>>
    BY Lengthened
  <1>2. n # 0
    BY <1>1, Parity
  <1> HIDE DEF n
  <1>3. \A k \in 1 .. n + 1 : A!IsOdd(k) => k \in 1 .. n
    BY <1>1
  <1>4. Fits(v)
    BY <1>1, <1>3 DEF Fits
  <1>5. n + 1 # 1 /\ (n + 1) - 1 = n /\ n \in 1 .. n
    BY <1>1, <1>2
  <1>6. A!DebitBase(v) = u.updates[n]
    BY <1>1, <1>5 DEF A!DebitBase
  <1>7. Left(u) = u.updates[n].after /\ Left(v) = A!DebitBase(v).after
    BY <1>1 DEF Left, n
  <1> QED
    BY <1>4, <1>6, <1>7

\* What a document of an even number of entries has left is that of its last
\* debit, or its opening balance.
LEMMA LeftFits ==
    ASSUME NEW u \in A!UserRecord, ~ A!IsOdd(Len(u.updates)), Fits(u)
    PROVE  Left(u) = A!DebitBase(u).after /\ Left(u) \in Int /\ Left(u) <= LeafMax
  <1> DEFINE n == Len(u.updates)
  <1>1. /\ n \in Nat /\ DOMAIN u.updates = 1 .. n /\ ~ A!IsOdd(n) /\ u.balance \in 0 .. LeafMax
        /\ \A k \in 1 .. n : A!IsOdd(k) => u.updates[k].after <= LeafMax
        /\ u.updates = <<>> <=> n = 0
    BY UserFields DEF Fits
  <1>2. Left(u) = A!DebitBase(u).after
    BY DEF Left
  <1>3. A!DebitBase(u).after \in Int
    BY BaseType, UpdateFields
  <1>4. A!DebitBase(u).after <= LeafMax
    <2>1. CASE n = 0
      BY <1>1, <2>1, NodeAccountsAssumption DEF A!DebitBase, A!OpeningOf, A!Update
    <2>2. CASE n # 0
      <3>1. n # 1
        BY <1>1, Parity
      <3>2. A!DebitBase(u) = u.updates[n - 1]
        BY <1>1, <2>2, <3>1 DEF A!DebitBase
      <3> HIDE DEF n
      <3>3. n - 1 \in 1 .. n /\ n - 1 \in Nat /\ (n - 1) + 1 = n
        BY <1>1, <2>2, <3>1
      <3>4. A!IsOdd(n - 1)
        <4>1. A!IsOdd((n - 1) + 1) <=> ~ A!IsOdd(n - 1)
          BY <3>3, Parity
        <4> QED
          BY <1>1, <3>3, <4>1
      <3> QED
        BY <1>1, <3>2, <3>3, <3>4
    <2> QED
      BY <2>1, <2>2
  <1> QED
    BY <1>2, <1>3, <1>4

\* A debit takes its amount from what is left.
LEMMA DebitAppended ==
    ASSUME NEW u \in A!UserRecord, NEW v \in A!UserRecord, NEW e \in A!UpdateRecord, NEW m \in Nat,
           v.updates = Append(u.updates, e), v.balance = u.balance,
           ~ A!IsOdd(Len(u.updates)), Fits(u), e.after = A!DebitBase(u).after - m
    PROVE  Fits(v) /\ Left(v) = Left(u) - m /\ Left(v) <= LeafMax /\ Left(v) = e.after
  <1> DEFINE n == Len(u.updates)
  <1>1. /\ n \in Nat /\ Len(v.updates) = n + 1
        /\ DOMAIN u.updates = 1 .. n /\ DOMAIN v.updates = 1 .. n + 1
        /\ \A k \in 1 .. n : v.updates[k] = u.updates[k]
        /\ v.updates[n + 1] = e /\ A!IsOdd(Len(v.updates))
    BY Lengthened
  <1>2. Left(u) = A!DebitBase(u).after /\ Left(u) \in Int /\ Left(u) <= LeafMax
    BY LeftFits
  <1>3. Left(v) = e.after
    BY <1>1 DEF Left
  <1>4. e.after = Left(u) - m
    BY <1>2
  <1>5. e.after <= LeafMax
    BY <1>2, <1>4, NodeAccountsAssumption
  <1> HIDE DEF n
  <1>6. \A k \in 1 .. n + 1 : k = n + 1 \/ k \in 1 .. n
    BY <1>1
  <1>7. Fits(v)
    BY <1>1, <1>5, <1>6 DEF Fits
  <1> QED
    BY <1>3, <1>4, <1>5, <1>7

---------------------------------------------------------------------------
(* What counts as undisturbed.                                             *)

LEMMA Quieter ==
    ASSUME IInv, LogInv, [NodeNext]_allVars, Undisturbed'
    PROVE  Undisturbed /\ faults' = faults /\ ~ Crash /\ callFaults' = callFaults
  <1>1. faults \in Nat /\ crashes \in Nat /\ callFaults \in Nat
    BY DEF IInv, TypeOK, LogInv, AccountTypes
  <1>2. [Next]_vars
    BY StepMaps DEF NodeNext, allVars
  <1>3. /\ faults' = faults \/ faults' = faults + 1
        /\ crashes' = crashes \/ crashes' = crashes + 1
    BY <1>2 DEF Next, Boot, PointerLands, Crash, Tick, ClientStep, ReceiveSubmission,
       InsertTransaction, InsertTransactionFails, CountSubmission, ListenerStep, ListenerHandle,
       DepositLands, DepositInsertFails, ProduceTimeout, ConsumerStep, ConsumerTake, FindBatch,
       MarkIncluded, StampBatch, ApplyOk, ApplyFailed, BuildBlock, LoseBlock, InsertBadge,
       AdvancePointer, ConsumerFault, FindFails, MarkFails, BlockStepFails, Fault, EndOfRun,
       envVars, vars
  <1>4. callFaults' = callFaults \/ callFaults' = callFaults + 1
    BY NodeCases, TransferCases DEF TakesUp, SkipsOrRefuses, Debits, Credits, Breaks, DepositLeaf,
       DepositUser, Stops, Elsewhere
  <1>5. faults' = 0 /\ crashes' = 0 /\ callFaults' = 0
    BY DEF Undisturbed
  <1>6. Crash => crashes' = crashes + 1
    BY DEF Crash
  <1> QED
    BY <1>1, <1>3, <1>4, <1>5, <1>6 DEF Undisturbed

---------------------------------------------------------------------------
(* The invariant of the money.                                             *)

\* An account owes the transfers that its change log names.
LEMMA DebitedInLog ==
    ASSUME LogInv, NEW a \in Addresses
    PROVE  /\ logged[a] = <<>> => Debited(a) = {}
           /\ Debited(a) \subseteq Transfers
  <1>1. ASSUME NEW t \in Debited(a) PROVE logged[a] # <<>>
    <2>1. t \in Transfers /\ Request[t].from = a /\ Entries(t) # {}
      BY DEF Debited
    <2>2. PICK i \in Nat : Entries(t) \subseteq Pair(t, i)
      BY <2>1 DEF LogInv, EntriesSound
    <2>3. PICK e \in Entries(t) : e \in Pair(t, i)
      BY <2>1, <2>2
    <2>4. Entries(t) = EntriesIn(logged, t)
      BY DEF Entries, EntriesIn
    <2>5. PICK b \in Addresses : \E k \in DOMAIN logged[b] : e = <<b, k>>
      BY <2>3, <2>4, InEntries
    <2>6. b = a
      BY <2>1, <2>3, <2>5 DEF Pair
    <2> QED
      BY <2>5, <2>6
  <1> QED
    BY <1>1 DEF Debited

LEMMA DebitedPushed ==
    ASSUME IInv, LogInv, accountPc # "idle", NEW e, Pushes(e)
    PROVE  \A a \in Addresses :
               Debited(a)' = IF a = tx.from THEN Debited(a) \cup {batch[pos]} ELSE Debited(a)
  <1>1. batch[pos] \in Transfers /\ Request[batch[pos]].from = tx.from
    BY InHandTypes
  <1>2. \A t \in Transfers : t # batch[pos] => Entries(t)' = Entries(t)
    BY PushEntries
  <1>3. EntriesIn(logged', batch[pos]) # {}
    BY PushEntries
  <1>4. \A t : Entries(t)' = EntriesIn(logged', t)
    BY DEF Entries, EntriesIn
  <1>5. \A t \in Transfers : Entries(t)' # {} <=> (t = batch[pos] \/ Entries(t) # {})
    BY <1>2, <1>3, <1>4
  <1> QED
    BY <1>1, <1>5 DEF Debited

LEMMA AmountsAreNumbers == \A t \in Transfers : AmountOf[t] = Request[t].amount /\ AmountOf[t] \in Int
  BY NodeAssumption DEF AmountOf

\* What is debited is not negative.
LEMMA DebitedIsNatural ==
    ASSUME Regular
    PROVE  \A a \in Addresses : \A t \in Debited(a) : AmountOf[t] \in Nat
  <1>1. ASSUME NEW a \in Addresses, NEW t \in Debited(a) PROVE AmountOf[t] \in Nat
    <2>1. t \in Transfers /\ Request[t].amount >= 0
      BY <1>1 DEF Debited, Regular
    <2> QED
      BY <2>1, AmountsAreNumbers
  <1> QED
    BY <1>1

\* Entries only come: what is regular now was so before.
LEMMA RegularBack ==
    ASSUME IInv, LogInv, [NodeNext]_allVars, Regular'
    PROVE  Regular
  <1>1. logged' = logged \/ (accountPc # "idle" /\ \E e : Pushes(e))
    BY NodeCases, TransferCases DEF TakesUp, SkipsOrRefuses, Debits, Credits, Breaks, DepositLeaf,
       DepositUser, Stops, Elsewhere
  <1>2. \A t \in Transfers : Entries(t) # {} => EntriesIn(logged', t) # {}
    <2>1. \A t : Entries(t)' = EntriesIn(logged', t)
      BY DEF Entries, EntriesIn
    <2>2. CASE logged' = logged
      BY <2>1, <2>2, EntriesStay
    <2>3. CASE accountPc # "idle" /\ \E e : Pushes(e)
      BY <2>1, <2>3, PushEntries
    <2> QED
      BY <1>1, <2>2, <2>3
  <1>3. \A t \in Transfers : EntriesIn(logged', t) # {} => Request[t].amount >= 0
    BY DEF Regular, Entries, EntriesIn
  <1>4. Undisturbed
    BY Quieter DEF Regular
  <1> QED
    BY <1>2, <1>3, <1>4 DEF Regular

LEMMA FewDebitedNext ==
    ASSUME IInv, LogInv, FewDebited, [NodeNext]_allVars
    PROVE  FewDebited'
  <1>1. logged' = logged \/ (accountPc # "idle" /\ \E e : Pushes(e))
    BY NodeCases, TransferCases DEF TakesUp, SkipsOrRefuses, Debits, Credits, Breaks, DepositLeaf,
       DepositUser, Stops, Elsewhere
  <1>2. CASE logged' = logged
    BY <1>2, EntriesStay DEF FewDebited, Debited
  <1>3. CASE accountPc # "idle" /\ \E e : Pushes(e)
    <2> SUFFICES ASSUME NEW a \in Addresses PROVE IsFiniteSet(Debited(a)')
      BY DEF FewDebited
    <2>1. IsFiniteSet(Debited(a)) /\ IsFiniteSet(Debited(a) \cup {batch[pos]})
      BY FS_AddElement DEF FewDebited
    <2> QED
      BY <1>3, <2>1, DebitedPushed
  <1> QED
    BY <1>1, <1>2, <1>3

\* The documents and the entry of a transfer that is debited or credited.
LEMMA PushedDocument ==
    ASSUME LogInv, accountPc # "idle", NEW e, Pushes(e)
    PROVE  /\ e \in A!UpdateRecord
           /\ users[tx.from] \in A!UserRecord /\ users'[tx.from] \in A!UserRecord
           /\ users'[tx.from].updates = Append(users[tx.from].updates, e)
           /\ users'[tx.from].balance = users[tx.from].balance
           /\ Known(tx.from) /\ users'[tx.from] # NoUser /\ tx.from \in Addresses
           /\ \A b \in Addresses \ {tx.from} : users'[b] = users[b] /\ (Known(b)' <=> Known(b))
           /\ tx.amount >= 0 \/ accountPc = "debited" => ~ A!Overdrawn(users[tx.from].updates)
  <1>1. /\ e \in A!UpdateRecord
        /\ users'[tx.from] # NoUser /\ users'[tx.from] \in A!UserRecord
        /\ users'[tx.from].updates = Append(users[tx.from].updates, e)
        /\ users'[tx.from].balance = users[tx.from].balance
        /\ \A b \in Addresses \ {tx.from} : users'[b] = users[b]
    BY PushedUser DEF Pushes
  <1>2. tx.from \in Addresses /\ Known(tx.from) /\ users[tx.from] \in A!UserRecord
    BY InHandTypes
  <1>3. tx.amount >= 0 \/ accountPc = "debited" => ~ A!Overdrawn(users[tx.from].updates)
    <2>1. accountPc = "debited" => ~ A!Overdrawn(users[tx.from].updates)
      BY DEF LogInv, TransferInHand
    <2>2. CASE accountPc = "checked" /\ tx.amount >= 0
      <3>1. A!Latest(users[tx.from]).after >= tx.amount
        BY <2>2 DEF LogInv, TransferInHand
      <3>2. A!Latest(users[tx.from]).after \in Int /\ tx.amount \in Int
        BY <1>2, InHandTypes, BaseType, UpdateFields
      <3>3. ~ (A!Latest(users[tx.from]).after < 0)
        BY <2>2, <3>1, <3>2
      <3> QED
        BY <3>3 DEF A!Overdrawn, A!Latest, A!Closing
    <2> QED
      BY <2>1, <2>2 DEF LogInv, AccountTypes
  <1> QED
    BY <1>1, <1>2, <1>3 DEF Known

LEMMA MoneyDebits ==
    ASSUME IInv, LogInv, MoneyInv, Regular, Regular', ApplyTransfer, Debits
    PROVE  EvenLogs' /\ DebitsFit' /\ SpentIsGone'
  <1> DEFINE f == tx.from
  <1> DEFINE u == users[tx.from]
  <1> DEFINE v == users'[tx.from]
  <1> DEFINE e == A!DebitEntry
  <1>1. /\ accountPc = "checked" /\ Pushes(e)
        /\ \/ A!FitsLeaf(e.after) /\ accountPc' = "debited" /\ tx' = tx
           \/ ~ A!FitsLeaf(e.after) /\ accountPc' = "idle"
    BY DEF Debits
  <1>2. /\ e \in A!UpdateRecord /\ u \in A!UserRecord /\ v \in A!UserRecord
        /\ v.updates = Append(u.updates, e) /\ v.balance = u.balance
        /\ Known(f) /\ v # NoUser /\ f \in Addresses
        /\ \A b \in Addresses \ {f} : users'[b] = users[b] /\ (Known(b)' <=> Known(b))
        /\ tx.amount >= 0 => ~ A!Overdrawn(u.updates)
    BY <1>1, PushedDocument
  <1>3. /\ tx.amount \in Nat /\ batch[pos] \in Transfers /\ Request[batch[pos]].amount = tx.amount
        /\ e.after = A!DebitBase(u).after - tx.amount
        /\ pc = "apply" /\ pos <= Len(batch)
    <2>1. /\ tx.amount \in Int /\ batch[pos] \in Transfers /\ Request[batch[pos]].amount = tx.amount
          /\ e.after = A!DebitBase(u).after - tx.amount
          /\ pc = "apply" /\ pos <= Len(batch)
      BY <1>1, InHandTypes, EntryTypes
    <2>2. EntriesIn(logged', batch[pos]) # {}
      BY <1>1, PushEntries
    <2>3. Request[batch[pos]].amount >= 0
      BY <2>1, <2>2 DEF Regular, Entries, EntriesIn
    <2> QED
      BY <2>1, <2>3
  <1>4. ~ A!Overdrawn(u.updates)
    BY <1>2, <1>3
  <1>5. ~ A!IsOdd(Len(u.updates)) /\ Fits(u)
    BY <1>1, <1>2, <1>4 DEF MoneyInv, EvenLogs, DebitsFit, LogSize
  <1>6. \A a \in Addresses :
            Debited(a)' = IF a = f THEN Debited(a) \cup {batch[pos]} ELSE Debited(a)
    BY <1>1, DebitedPushed
  <1>7. batch[pos] \notin Debited(f)
    BY <1>1, <1>3, AtHand DEF LogInv, EntriesSound, Debited
  <1>8. Left(u) >= 0 /\ SumFunctionOnSet(AmountOf, Debited(f)) = u.balance - Left(u)
    BY <1>2, <1>4 DEF MoneyInv, SpentIsGone
  <1>9. SumFunctionOnSet(AmountOf, Debited(f) \cup {batch[pos]}) =
            SumFunctionOnSet(AmountOf, Debited(f)) + tx.amount
    <2>1. IsFiniteSet(Debited(f)) /\ Debited(f) \subseteq Transfers
      BY <1>2, DebitedInLog DEF MoneyInv, FewDebited
    <2>2. \A t \in Debited(f) \cup {batch[pos]} : AmountOf[t] \in Int
      BY <1>3, <2>1, AmountsAreNumbers
    <2>3. SumFunctionOnSet(AmountOf, Debited(f) \cup {batch[pos]}) =
              SumFunctionOnSet(AmountOf, Debited(f)) + AmountOf[batch[pos]]
      BY <1>7, <2>1, <2>2, SumAdds
    <2> QED
      BY <1>3, <2>3, AmountsAreNumbers
  <1>10. u.balance \in Int
    BY <1>2, UserFields
  <1>11. Left(u) \in Int
    BY <1>2, <1>5, LeftFits
  <1> HIDE DEF u, v, e, f
  <1>12. Fits(v) /\ Left(v) = Left(u) - tx.amount /\ Left(v) <= LeafMax /\ Left(v) = e.after
    BY <1>2, <1>3, <1>5, DebitAppended
  <1>13. A!IsOdd(Len(v.updates)) /\ (A!Overdrawn(v.updates) <=> e.after < 0)
    <2>1. A!IsOdd(Len(v.updates))
      BY <1>2, <1>5, Lengthened
    <2>2. A!Overdrawn(v.updates) <=> e.after < 0
      BY <1>2, Lengthened
    <2> QED
      BY <2>1, <2>2
  <1>14. Left(v) \in Int /\ (~ A!FitsLeaf(e.after) => Left(v) < 0)
    BY <1>3, <1>11, <1>12 DEF A!FitsLeaf
  <1>15. \A a \in Addresses : a = f \/ a \in Addresses \ {f}
    OBVIOUS
  <1>16. f = tx.from /\ v = users'[f]
    BY DEF f, v
  <1>17. EvenLogs'
    <2>1. \A a \in Addresses : users'[a] # NoUser /\ A!IsOdd(Len(users'[a].updates)) =>
              A!Overdrawn(users'[a].updates) \/ (accountPc' = "debited" /\ tx'.from = a)
      <3> TAKE a \in Addresses
      <3>1. CASE a = f
        BY <1>1, <1>12, <1>13, <1>14, <1>16, <3>1
      <3>2. CASE a # f
        BY <1>1, <1>2, <3>2 DEF MoneyInv, EvenLogs, Known, LogSize
      <3> QED
        BY <3>1, <3>2
    <2>2. accountPc' = "debited" => A!IsOdd(Len(users'[tx'.from].updates))
      BY <1>1, <1>13, <1>16
    <2> QED
      BY <2>1, <2>2 DEF EvenLogs, Known, LogSize
  <1>18. DebitsFit'
    <2>1. \A a \in Addresses : users'[a] # NoUser => Fits(users'[a])
      BY <1>2, <1>12, <1>16 DEF MoneyInv, DebitsFit, Known
    <2> QED
      BY <2>1 DEF DebitsFit, Known, Fits
  <1>19. SpentIsGone'
    <2>1. ASSUME NEW a \in Addresses, users'[a] # NoUser, ~ A!Overdrawn(users'[a].updates)
          PROVE  /\ Left(users'[a]) >= 0
                 /\ SumFunctionOnSet(AmountOf, Debited(a)') = users'[a].balance - Left(users'[a])
      <3>1. CASE a = f
        <4>1. Left(v) >= 0
          BY <1>12, <1>13, <1>14, <1>16, <2>1, <3>1
        <4>2. SumFunctionOnSet(AmountOf, Debited(f) \cup {batch[pos]}) = v.balance - Left(v)
          BY <1>2, <1>3, <1>8, <1>9, <1>10, <1>11, <1>12
        <4> QED
          BY <1>2, <1>6, <1>16, <3>1, <4>1, <4>2
      <3>2. CASE a # f
        BY <1>2, <1>6, <2>1, <3>2 DEF MoneyInv, SpentIsGone, Known
      <3> QED
        BY <3>1, <3>2
    <2> QED
      BY <2>1 DEF SpentIsGone, Known, Left
  <1> QED
    BY <1>17, <1>18, <1>19

LEMMA MoneyCredits ==
    ASSUME IInv, LogInv, MoneyInv, Regular, ApplyTransfer, Credits
    PROVE  EvenLogs' /\ DebitsFit' /\ SpentIsGone'
  <1> DEFINE f == tx.from
  <1> DEFINE u == users[tx.from]
  <1> DEFINE v == users'[tx.from]
  <1> DEFINE e == A!CreditEntry
  <1>1. accountPc = "debited" /\ Pushes(e) /\ accountPc' = "idle"
    BY DEF Credits
  <1>2. /\ e \in A!UpdateRecord /\ u \in A!UserRecord /\ v \in A!UserRecord
        /\ v.updates = Append(u.updates, e) /\ v.balance = u.balance
        /\ Known(f) /\ v # NoUser /\ f \in Addresses
        /\ \A b \in Addresses \ {f} : users'[b] = users[b] /\ (Known(b)' <=> Known(b))
        /\ ~ A!Overdrawn(u.updates)
    BY <1>1, PushedDocument
  <1>3. A!IsOdd(Len(u.updates)) /\ Fits(u)
    BY <1>1, <1>2 DEF MoneyInv, EvenLogs, DebitsFit, LogSize
  <1>4. batch[pos] \in Debited(f)
    <2>1. Entries(batch[pos]) # {} /\ batch[pos] \in Transfers /\ Request[batch[pos]].from = f
      BY <1>1, InHandTypes DEF LogInv, EntriesSound
    <2> QED
      BY <2>1 DEF Debited
  <1>5. \A a \in Addresses : Debited(a)' = Debited(a)
    <2>1. \A a \in Addresses :
              Debited(a)' = IF a = f THEN Debited(a) \cup {batch[pos]} ELSE Debited(a)
      BY <1>1, DebitedPushed
    <2> HIDE DEF f
    <2> QED
      BY <1>4, <2>1
  <1>6. Left(u) >= 0 /\ SumFunctionOnSet(AmountOf, Debited(f)) = u.balance - Left(u)
    BY <1>2 DEF MoneyInv, SpentIsGone
  <1> HIDE DEF u, v, e, f
  <1>7. Fits(v) /\ Left(v) = Left(u)
    BY <1>2, <1>3, CreditAppended
  <1>8. ~ A!IsOdd(Len(v.updates))
    BY <1>2, <1>3, Lengthened
  <1>9. f = tx.from /\ v = users'[f]
    BY DEF f, v
  <1>10. EvenLogs'
    <2>1. \A a \in Addresses : users'[a] # NoUser /\ A!IsOdd(Len(users'[a].updates)) =>
              A!Overdrawn(users'[a].updates)
      <3> TAKE a \in Addresses
      <3>1. CASE a = f
        BY <1>8, <1>9, <3>1
      <3>2. CASE a # f
        BY <1>2, <1>9, <3>2 DEF MoneyInv, EvenLogs, Known, LogSize
      <3> QED
        BY <3>1, <3>2
    <2> QED
      BY <1>1, <2>1 DEF EvenLogs, Known, LogSize
  <1>11. DebitsFit'
    <2>1. \A a \in Addresses : users'[a] # NoUser => Fits(users'[a])
      BY <1>2, <1>7, <1>9 DEF MoneyInv, DebitsFit, Known
    <2> QED
      BY <2>1 DEF DebitsFit, Known, Fits
  <1>12. SpentIsGone'
    <2>1. ASSUME NEW a \in Addresses, users'[a] # NoUser, ~ A!Overdrawn(users'[a].updates)
          PROVE  /\ Left(users'[a]) >= 0
                 /\ SumFunctionOnSet(AmountOf, Debited(a)') = users'[a].balance - Left(users'[a])
      <3>1. CASE a = f
        BY <1>2, <1>5, <1>6, <1>7, <1>9, <3>1
      <3>2. CASE a # f
        BY <1>2, <1>5, <2>1, <3>2 DEF MoneyInv, SpentIsGone, Known
      <3> QED
        BY <3>1, <3>2
    <2> QED
      BY <2>1 DEF SpentIsGone, Known, Left
  <1> QED
    BY <1>10, <1>11, <1>12

LEMMA MoneyRest ==
    ASSUME MoneyInv, Regular, UNCHANGED <<users, logged>>,
           \/ UNCHANGED <<accountPc, tx>>
           \/ accountPc # "debited" /\ accountPc' # "debited"
    PROVE  EvenLogs' /\ DebitsFit' /\ SpentIsGone'
  <1>1. EvenLogs'
    BY DEF MoneyInv, EvenLogs, Known, LogSize
  <1>2. DebitsFit'
    BY DEF MoneyInv, DebitsFit, Known, Fits
  <1>3. SpentIsGone'
    <2>1. \A a : Debited(a)' = Debited(a)
      BY EntriesStay DEF Debited
    <2> QED
      BY <2>1 DEF MoneyInv, SpentIsGone, Known, Left
  <1> QED
    BY <1>1, <1>2, <1>3

LEMMA MoneyDepositUser ==
    ASSUME LogInv, MoneyInv, Regular, NEW d \in Deposits, DepositUser(d)
    PROVE  EvenLogs' /\ DebitsFit' /\ SpentIsGone'
  <1> DEFINE n == DepositInfo[d].account
  <1> DEFINE u == A!NewUser(DepositInfo[d].amount)
  <1>1. /\ UNCHANGED <<accountPc, tx, logged>>
        /\ users' = users \/ (~ Known(n) /\ users' = [users EXCEPT ![n] = u])
    BY DEF DepositUser
  <1>2. /\ n \in Addresses /\ u \in A!UserRecord /\ u.updates = <<>> /\ Len(u.updates) = 0
        /\ u.balance = DepositInfo[d].amount /\ u.balance \in 0 .. LeafMax
    BY NodeAccountsAssumption, NewUserType
  <1>3. ~ A!IsOdd(Len(u.updates)) /\ Fits(u) /\ Left(u) = u.balance
    <2>1. ~ A!IsOdd(Len(u.updates))
      BY <1>2, Parity
    <2>2. Fits(u)
      BY <1>2 DEF Fits
    <2>3. Left(u) = u.balance
      BY <1>2, <2>1 DEF Left, A!DebitBase, A!OpeningOf, A!Update
    <2> QED
      BY <2>1, <2>2, <2>3
  <1>4. SumFunctionOnSet(AmountOf, Debited(n)) = 0 \/ Known(n)
    <2> SUFFICES ASSUME ~ Known(n) PROVE Debited(n) = {}
      BY SumOfNone
    <2> QED
      BY <1>2, DebitedInLog DEF LogInv, LogsMatch
  <1>5. \A a : Debited(a)' = Debited(a)
    BY <1>1, EntriesStay DEF Debited
  <1> HIDE DEF n, u
  <1>6. \A a \in Addresses : users'[a] = users[a] \/ (a = n /\ ~ Known(n) /\ users'[a] = u)
    BY <1>1, <1>2 DEF LogInv, AccountTypes, Users
  <1>7. EvenLogs'
    <2>1. \A a \in Addresses : users'[a] # NoUser /\ A!IsOdd(Len(users'[a].updates)) =>
              A!Overdrawn(users'[a].updates) \/ (accountPc' = "debited" /\ tx'.from = a)
      BY <1>1, <1>3, <1>6 DEF MoneyInv, EvenLogs, Known, LogSize
    <2>2. accountPc' = "debited" => A!IsOdd(Len(users'[tx'.from].updates))
      <3> SUFFICES ASSUME accountPc = "debited" PROVE A!IsOdd(Len(users'[tx'.from].updates))
        BY <1>1
      <3>1. Known(tx.from) /\ tx.from \in Addresses
        BY InHandTypes
      <3> QED
        BY <1>1, <1>6, <3>1 DEF MoneyInv, EvenLogs, LogSize
    <2> QED
      BY <2>1, <2>2 DEF EvenLogs, Known, LogSize
  <1>8. DebitsFit'
    <2>1. \A a \in Addresses : users'[a] # NoUser => Fits(users'[a])
      BY <1>3, <1>6 DEF MoneyInv, DebitsFit, Known
    <2> QED
      BY <2>1 DEF DebitsFit, Known, Fits
  <1>9. SpentIsGone'
    <2>1. ASSUME NEW a \in Addresses, users'[a] # NoUser, ~ A!Overdrawn(users'[a].updates)
          PROVE  /\ Left(users'[a]) >= 0
                 /\ SumFunctionOnSet(AmountOf, Debited(a)') = users'[a].balance - Left(users'[a])
      <3>1. CASE users'[a] = users[a]
        BY <1>5, <2>1, <3>1 DEF MoneyInv, SpentIsGone, Known
      <3>2. CASE a = n /\ ~ Known(n) /\ users'[a] = u
        <4>1. u.balance \in Nat /\ u.balance - u.balance = 0
          BY <1>2, NodeAccountsAssumption
        <4> QED
          BY <1>3, <1>4, <1>5, <3>2, <4>1
      <3> QED
        BY <1>6, <3>1, <3>2
    <2> QED
      BY <2>1 DEF SpentIsGone, Known, Left
  <1> QED
    BY <1>7, <1>8, <1>9

LEMMA MoneyNext ==
    ASSUME IInv, LogInv, MoneyInv, [NodeNext]_allVars, Regular'
    PROVE  EvenLogs' /\ DebitsFit' /\ SpentIsGone'
  <1>1. Regular /\ ~ Crash /\ callFaults' = callFaults /\ callFaults \in Nat
    BY RegularBack, Quieter DEF Regular, LogInv, AccountTypes
  <1>2. CASE ApplyTransfer
    <2>1. ~ Breaks
      BY <1>1 DEF Breaks
    <2>2. CASE TakesUp \/ SkipsOrRefuses
      BY <1>1, <2>2, MoneyRest DEF TakesUp, SkipsOrRefuses
    <2> QED
      BY <1>1, <1>2, <2>1, <2>2, TransferCases, MoneyDebits, MoneyCredits
  <1>3. CASE \E d \in Deposits : DepositUser(d)
    BY <1>1, <1>3, MoneyDepositUser
  <1>4. CASE Elsewhere \/ \E d \in Deposits : DepositLeaf(d)
    BY <1>1, <1>4, MoneyRest DEF Elsewhere, DepositLeaf
  <1> QED
    BY <1>1, <1>2, <1>3, <1>4, NodeCases DEF Stops

\* A transfer is carried out where its credit fits the leaf of the receiver: the
\* log of its sender then ends with that credit.
LEMMA ExecutedGrows ==
    ASSUME IInv, LogInv, [NodeNext]_allVars, Undisturbed',
           NEW t \in Transfers, t \in Executed', t \notin Executed
    PROVE  LET a == Request[t].from
           IN  users'[a] # NoUser /\ ~ A!Overdrawn(users'[a].updates)
  <1>1. faults' = faults /\ callFaults' = callFaults /\ callFaults \in Nat /\ faults \in Nat
    BY Quieter DEF LogInv, AccountTypes, IInv, TypeOK
  <1>2. status'[t] # "failed" /\ Cardinality(EntriesIn(logged', t)) = 2
    BY DEF Executed, Entries, EntriesIn
  <1>3. status[t] # "failed"
    <2>1. [Next]_vars
      BY StepMaps DEF NodeNext, allVars
    <2> QED
      BY <1>2, <2>1, ForwardStep DEF Forward
  <1>4. EntriesIn(logged', t) # EntriesIn(logged, t)
    BY <1>2, <1>3 DEF Executed, Entries, EntriesIn
  <1>5. logged' # logged
    BY <1>4
  <1>6. ApplyTransfer /\ (Debits \/ Credits)
    BY <1>1, <1>5, NodeCases, TransferCases DEF TakesUp, SkipsOrRefuses, Breaks, DepositLeaf,
       DepositUser, Stops, Elsewhere
  <1>7. accountPc # "idle"
    BY <1>6 DEF Debits, Credits
  <1>8. /\ pc = "apply" /\ pos <= Len(batch) /\ batch[pos] \in Transfers
        /\ tx.from = Request[batch[pos]].from
    BY <1>7, InHandTypes
  <1>9. t = batch[pos]
    <2>1. \E e : Pushes(e)
      BY <1>6 DEF Debits, Credits
    <2>2. t # batch[pos] => Entries(t)' = Entries(t)
      BY <1>7, <2>1, PushEntries
    <2> QED
      BY <1>4, <2>2 DEF Entries, EntriesIn
  <1>10. CASE Debits
    <2>1. accountPc = "checked" /\ Pushes(A!DebitEntry)
      BY <1>10 DEF Debits
    <2>2. EntriesIn(logged', t) = {<<tx.from, Len(logged'[tx.from])>>}
      BY <1>7, <1>9, <2>1, PushKeeps
    <2>3. Cardinality(EntriesIn(logged', t)) = 1
      BY <2>2, FS_Singleton
    <2> QED
      BY <1>2, <2>3
  <1>11. CASE Credits
    <2>1. Pushes(A!CreditEntry)
      BY <1>11 DEF Credits
    <2>2. ~ ApplyFailed
      <3>1. t \in Docs /\ t \notin Deposits
        BY DocsAssumption DEF Docs
      <3> QED
        BY <1>2, <1>9, <3>1 DEF ApplyFailed, SameId, WithStatus
    <2>3. ~ BlockStepFails
      BY <1>1 DEF BlockStepFails, Fault
    <2>4. A!FitsLeaf(A!CreditEntry.after)
      BY <1>11, <2>2, <2>3 DEF Credits
    <2>5. /\ users'[tx.from] # NoUser
          /\ users[tx.from] \in A!UserRecord /\ users'[tx.from] \in A!UserRecord
          /\ users'[tx.from].updates = Append(users[tx.from].updates, A!CreditEntry)
          /\ A!CreditEntry \in A!UpdateRecord
      BY <1>7, <2>1, PushedDocument
    <2>6. ~ (A!CreditEntry.after < 0)
      BY <2>4, NodeAccountsAssumption DEF A!FitsLeaf
    <2>7. ~ A!Overdrawn(users'[tx.from].updates)
      <3> DEFINE e == A!CreditEntry
      <3> DEFINE u == users[tx.from]
      <3> DEFINE v == users'[tx.from]
      <3>1. /\ u \in A!UserRecord /\ v \in A!UserRecord /\ e \in A!UpdateRecord
            /\ v.updates = Append(u.updates, e) /\ ~ (e.after < 0)
        BY <2>5, <2>6
      <3> HIDE DEF e, u, v
      <3>2. /\ Len(v.updates) = Len(u.updates) + 1
            /\ v.updates[Len(u.updates) + 1] = e
        BY <3>1, Lengthened
      <3>3. ~ A!Overdrawn(v.updates)
        BY <3>1, <3>2 DEF A!Overdrawn, A!Closing
      <3> QED
        BY <3>3 DEF v
    <2> QED
      BY <1>8, <1>9, <2>5, <2>7
  <1> QED
    BY <1>6, <1>10, <1>11

\* Documents appear with an empty log and keep their balance.
LEMMA BalanceStays ==
    ASSUME IInv, LogInv, [NodeNext]_allVars, NEW a \in Addresses, users'[a] # NoUser
    PROVE  \/ Known(a) /\ users'[a].balance = users[a].balance
           \/ ~ A!Overdrawn(users'[a].updates)
  <1>1. CASE users' = users
    BY <1>1 DEF Known
  <1>2. CASE accountPc # "idle" /\ \E e : Pushes(e)
    BY <1>2, PushedDocument DEF Known
  <1>3. CASE \E d \in Deposits : DepositUser(d)
    <2>1. PICK d \in Deposits : DepositUser(d)
      BY <1>3
    <2>2. A!NewUser(DepositInfo[d].amount).updates = <<>> /\ DepositInfo[d].account \in Addresses
      BY NodeAccountsAssumption, NewUserType
    <2>3. users \in Users
      BY DEF LogInv, AccountTypes
    <2>4. \/ users'[a] = users[a]
          \/ users'[a] = A!NewUser(DepositInfo[d].amount)
      BY <2>1, <2>2, <2>3 DEF DepositUser, Users
    <2> QED
      BY <2>2, <2>4 DEF Known, A!Overdrawn
  <1> QED
    BY <1>1, <1>2, <1>3, NodeCases, TransferCases DEF TakesUp, SkipsOrRefuses, Debits, Credits,
       Breaks, DepositLeaf, Stops, Elsewhere

\* What was carried out for an account is among what its log names.
LEMMA ExecutedIsDebited ==
    ASSUME NEW a \in Addresses
    PROVE  {t \in Executed : Request[t].from = a} \subseteq Debited(a)
  <1> SUFFICES ASSUME NEW t \in Executed, Request[t].from = a PROVE t \in Debited(a)
    OBVIOUS
  <1>1. t \in Transfers /\ Cardinality(Entries(t)) = 2
    BY DEF Executed
  <1>2. Entries(t) # {}
    BY <1>1, FS_EmptySet
  <1> QED
    BY <1>1, <1>2 DEF Debited

LEMMA OverspendingNext ==
    ASSUME IInv, LogInv, LogInv', MoneyInv, [NodeNext]_allVars, Regular',
           FewDebited', SpentIsGone'
    PROVE  NoOverspending'
  <1> SUFFICES ASSUME NEW a \in Addresses, users'[a] # NoUser
               PROVE  SumFunctionOnSet(AmountOf, {t \in Executed' : Request[t].from = a})
                         <= users'[a].balance
    BY DEF NoOverspending, Executed
  <1> DEFINE S == {t \in Executed : Request[t].from = a}
  <1> DEFINE R == {t \in Executed' : Request[t].from = a}
  <1>1. R \subseteq Transfers /\ S \subseteq Transfers
    BY DEF Executed
  <1>2. Regular /\ Undisturbed'
    BY RegularBack DEF Regular
  <1>3. CASE ~ A!Overdrawn(users'[a].updates)
    <2>1. R \subseteq Debited(a)'
      <3> SUFFICES ASSUME NEW t \in Executed', Request[t].from = a PROVE t \in Debited(a)'
        OBVIOUS
      <3>1. t \in Transfers /\ Cardinality(EntriesIn(logged', t)) = 2
        BY DEF Executed, Entries, EntriesIn
      <3>2. EntriesIn(logged', t) # {}
        BY <3>1, FS_EmptySet
      <3> QED
        BY <3>1, <3>2 DEF Debited, Entries, EntriesIn
    <2>2. IsFiniteSet(Debited(a)') /\ Debited(a)' \subseteq Transfers
      BY DEF FewDebited, Debited
    <2>3. SumFunctionOnSet(AmountOf, R) <= SumFunctionOnSet(AmountOf, Debited(a)')
      <3>1. \A t \in Debited(a)' : AmountOf[t] \in Nat
        <4> TAKE t \in Debited(a)'
        <4>1. t \in Transfers /\ Request[t].amount >= 0
          BY DEF Debited, Regular
        <4> QED
          BY <4>1, AmountsAreNumbers
      <3> HIDE DEF R
      <3> QED
        BY <2>1, <2>2, <3>1, SumOfPart
    <2>4. /\ Left(users'[a]) >= 0
          /\ SumFunctionOnSet(AmountOf, Debited(a)') = users'[a].balance - Left(users'[a])
      BY <1>3 DEF SpentIsGone, Known, Left
    <2>5. users'[a] \in A!UserRecord
      BY DEF LogInv, AccountTypes, Users
    <2>6. users'[a].balance \in Int /\ Left(users'[a]) \in Int
      <3>1. A!IsOdd(Len(users'[a].updates)) => Len(users'[a].updates) \in DOMAIN users'[a].updates
        <4>1. Len(users'[a].updates) # 0 => Len(users'[a].updates) \in DOMAIN users'[a].updates
          BY <2>5, UserFields
        <4> QED
          BY <4>1, Parity
      <3>2. A!DebitBase(users'[a]).after \in Int
        BY <2>5, BaseType, UpdateFields
      <3>3. A!IsOdd(Len(users'[a].updates)) => users'[a].updates[Len(users'[a].updates)].after \in Int
        BY <2>5, <3>1, UserFields, UpdateFields
      <3>4. users'[a].balance \in Int
        BY <2>5, UserFields
      <3> QED
        BY <3>2, <3>3, <3>4 DEF Left
    <2>7. SumFunctionOnSet(AmountOf, R) \in Int
      BY <2>1, <2>2, SumType, FS_Subset, AmountsAreNumbers
    <2> HIDE DEF R
    <2>8. SumFunctionOnSet(AmountOf, R) <= users'[a].balance
      BY <2>3, <2>4, <2>6, <2>7
    <2> QED
      BY <2>8 DEF R
  <1>4. CASE A!Overdrawn(users'[a].updates)
    <2>1. R \subseteq S
      BY <1>1, <1>2, <1>4, ExecutedGrows
    <2>2. Known(a) /\ users'[a].balance = users[a].balance
      BY <1>4, BalanceStays
    <2>3. SumFunctionOnSet(AmountOf, S) <= users[a].balance
      BY <1>2, <2>2 DEF MoneyInv, NoOverspending, Known
    <2>4. IsFiniteSet(S)
      BY ExecutedIsDebited, FS_Subset DEF MoneyInv, FewDebited
    <2>5. SumFunctionOnSet(AmountOf, R) <= SumFunctionOnSet(AmountOf, S)
      <3>1. \A t \in S : AmountOf[t] \in Nat
        BY <1>2, ExecutedIsDebited, DebitedIsNatural
      <3> HIDE DEF S, R
      <3> QED
        BY <2>1, <2>4, <3>1, SumOfPart
    <2>6. SumFunctionOnSet(AmountOf, R) \in Int /\ SumFunctionOnSet(AmountOf, S) \in Int
      BY <1>1, <2>1, <2>4, SumType, FS_Subset, AmountsAreNumbers
    <2>7. users[a].balance \in Int
      BY <2>2, UserFields DEF LogInv, AccountTypes, Users, Known
    <2> HIDE DEF R, S
    <2>8. SumFunctionOnSet(AmountOf, R) <= users'[a].balance
      BY <2>2, <2>3, <2>5, <2>6, <2>7
    <2> QED
      BY <2>8 DEF R
  <1> QED
    BY <1>3, <1>4

LEMMA MoneyInvInit == NodeInit => MoneyInv
  <1> SUFFICES ASSUME NodeInit PROVE MoneyInv
    OBVIOUS
  <1>1. /\ users = [a \in Addresses |-> IF a \in A!Funded THEN A!NewUser(Opening[a]) ELSE NoUser]
        /\ accountPc = "idle" /\ logged = [a \in Addresses |-> <<>>]
    BY DEF NodeInit, A!Init
  <1>2. ASSUME NEW a \in Addresses, Known(a)
        PROVE  /\ users[a] \in A!UserRecord /\ ~ A!IsOdd(LogSize(a)) /\ Fits(users[a])
               /\ Left(users[a]) = users[a].balance /\ users[a].balance \in Nat
    <2>1. a \in A!Funded /\ users[a] = A!NewUser(Opening[a]) /\ Opening[a] \in 0 .. LeafMax
      BY <1>1, <1>2, NodeAccountsAssumption DEF Known, A!Funded
    <2>2. /\ users[a] \in A!UserRecord /\ users[a].updates = <<>> /\ Len(users[a].updates) = 0
          /\ users[a].balance = Opening[a]
      BY <2>1, NewUserType
    <2>3. ~ A!IsOdd(LogSize(a))
      BY <2>2, Parity DEF LogSize
    <2>4. Fits(users[a])
      BY <2>1, <2>2 DEF Fits
    <2>5. Left(users[a]) = users[a].balance
      BY <2>2, <2>3 DEF Left, LogSize, A!DebitBase, A!OpeningOf, A!Update
    <2>6. users[a].balance \in Nat
      BY <2>1, <2>2, NodeAccountsAssumption
    <2> QED
      BY <2>2, <2>3, <2>4, <2>5, <2>6
  <1>3. EvenLogs /\ DebitsFit
    BY <1>1, <1>2 DEF EvenLogs, DebitsFit
  <1>4. \A a \in Addresses : Debited(a) = {}
    BY <1>1, LogInvInit, DebitedInLog
  <1>5. SumFunctionOnSet(AmountOf, {}) = 0 /\ IsFiniteSet({})
    BY SumOfNone, FS_EmptySet
  <1>6. SpentIsGone /\ FewDebited
    <2>1. \A n \in Nat : n - n = 0 /\ n >= 0
      OBVIOUS
    <2> QED
      BY <1>2, <1>4, <1>5, <2>1 DEF SpentIsGone, FewDebited
  <1>7. NoOverspending
    <2> SUFFICES ASSUME NEW a \in Addresses, Known(a)
                 PROVE  SumFunctionOnSet(AmountOf, {t \in Executed : Request[t].from = a})
                           <= users[a].balance
      BY DEF NoOverspending, Known
    <2>1. {t \in Executed : Request[t].from = a} = {}
      BY <1>4, ExecutedIsDebited
    <2>2. users[a].balance \in Nat
      BY <1>2
    <2> QED
      BY <1>5, <2>1, <2>2
  <1> QED
    BY <1>3, <1>6, <1>7 DEF MoneyInv

LEMMA MoneyInvNext ==
    ASSUME IInv, LogInv, LogInv', MoneyInv, [NodeNext]_allVars
    PROVE  MoneyInv'
  <1>1. FewDebited'
    BY FewDebitedNext DEF MoneyInv
  <1>2. CASE Regular'
    BY <1>1, <1>2, MoneyNext, OverspendingNext DEF MoneyInv
  <1>3. CASE ~ Regular'
    BY <1>1, <1>3 DEF MoneyInv, EvenLogs, DebitsFit, SpentIsGone, NoOverspending
  <1> QED
    BY <1>2, <1>3

LEMMA MoneyInvHolds == NodeSpec => []MoneyInv
  <1>1. IInv /\ LogInv /\ LogInv' /\ MoneyInv /\ [NodeNext]_allVars => MoneyInv'
    BY MoneyInvNext
  <1> QED
    BY <1>1, MoneyInvInit, NodeInv, LogInvHolds, PTL DEF NodeSpec

\* As long as no call fails and no transfer of a negative amount is debited:
\* clients that are told the same nonce, or a wrong one, cannot together spend
\* more of an account than its opening balance, however many transfers there are
\* and however the batches divide them.
THEOREM NodeNeverOverspends == NodeSpec => []NoOverspending
  BY MoneyInvHolds, PTL DEF MoneyInv
---------------------------------------------------------------------------
(* The invariant of the state roots.                                       *)

\* The steps outside of the accounts, with what they do to the badges.
RootCases ==
    \/ LoseBlock /\ lost' = lost \cup Range(batch) /\ stateRoots' = stateRoots
    \/ InsertBadge /\ stateRoots' = Append(stateRoots, tree) /\ lost' = lost
    \/ Boot /\ stateRoots' = Append(stateRoots, NoRoot) /\ lost' = lost
    \/ /\ \/ Aside \/ FindFails \/ MarkFails \/ BlockStepFails
          \/ ConsumerTake \/ FindBatch \/ MarkIncluded \/ StampBatch \/ BuildBlock \/ AdvancePointer
       /\ UNCHANGED <<stateRoots, lost>>

LEMMA NodeRootCases ==
    ASSUME IInv, LogInv, [NodeNext]_allVars
    PROVE  \/ ApplyTransfer
           \/ \E d \in Deposits : DepositLeaf(d) \/ DepositUser(d)
           \/ Stops
           \/ Elsewhere /\ RootCases
  <1>1. CASE \/ \E t \in Transfers : GetNonce(t) \/ NonceRefused(t) \/ Submit(t)
             \/ \E d \in Deposits : HandleEvent(d) \/ TransactionInsertEnds(d)
             \/ Background \/ NodeEnd \/ UNCHANGED allVars
    <2>1. UNCHANGED <<stateRoots, lost>>
      BY <1>1 DEF GetNonce, NonceRefused, Submit, HandleEvent, TransactionInsertEnds, Background,
                  NodeEnd, allVars, nodeVars
    <2>2. Aside
      BY <1>1 DEF GetNonce, NonceRefused, Submit, HandleEvent, TransactionInsertEnds, Background,
                  NodeEnd, allVars, Aside, ListenerStep
    <2> QED
      BY <1>1, <2>1, <2>2, ElsewhereCases DEF RootCases
  <1>2. CASE BatchStep \/ DropBlock \/ StoreBadge \/ BatchFault \/ NodeBoot
    <2>1. RootCases
      BY <1>2 DEF BatchStep, DropBlock, StoreBadge, BatchFault, NodeBoot, RootCases, nodeVars
    <2> QED
      BY <1>2, <2>1, ElsewhereCases
  <1>3. NodeCrash => Stops
    BY DEF NodeCrash, A!Crash, A!Finish, Stops
  <1>4. NodeStep \/ UNCHANGED allVars
    BY DEF NodeNext
  <1> QED
    BY <1>1, <1>2, <1>3, <1>4, DepositCases DEF NodeStep, Consume

\* Entries stay where they are, so a credit that did not fit is never forgotten.
LEMMA CreditsFitBack ==
    ASSUME IInv, LogInv, [NodeNext]_allVars, CreditsFit'
    PROVE  CreditsFit
  <1> SUFFICES ASSUME NEW a \in Addresses, users[a] # NoUser, NEW i \in DOMAIN users[a].updates
               PROVE  IsDebit(users[a].updates[i]) \/ A!FitsLeaf(users[a].updates[i].after)
    BY DEF CreditsFit
  <1>1. /\ users'[a] # NoUser /\ i \in DOMAIN users'[a].updates
        /\ users'[a].updates[i] = users[a].updates[i]
    <2>1. CASE users' = users
      BY <2>1
    <2>2. CASE accountPc # "idle" /\ \E e : Pushes(e)
      <3>1. PICK e : Pushes(e)
        BY <2>2
      <3>2. CASE a = tx.from
        <4>1. /\ e \in A!UpdateRecord /\ users'[a] # NoUser
              /\ users[a] \in A!UserRecord /\ users'[a] \in A!UserRecord
              /\ users'[a].updates = Append(users[a].updates, e)
          BY <2>2, <3>1, <3>2, PushedDocument
        <4> DEFINE n == Len(users[a].updates)
        <4>2. /\ n \in Nat /\ DOMAIN users[a].updates = 1 .. n
              /\ DOMAIN users'[a].updates = 1 .. n + 1
              /\ \A k \in 1 .. n : users'[a].updates[k] = users[a].updates[k]
          BY <4>1, Lengthened
        <4> HIDE DEF n
        <4>3. i \in 1 .. n /\ i \in 1 .. n + 1
          BY <4>2
        <4> QED
          BY <4>1, <4>2, <4>3
      <3>3. CASE a # tx.from
        BY <2>2, <3>1, <3>3, PushedDocument
      <3> QED
        BY <3>2, <3>3
    <2>3. CASE \E d \in Deposits : DepositUser(d)
      <3>1. users \in Users
        BY DEF LogInv, AccountTypes
      <3>2. users'[a] = users[a]
        BY <2>3, <3>1 DEF DepositUser, Users, Known
      <3> QED
        BY <3>2
    <2> QED
      BY <2>1, <2>2, <2>3, NodeCases, TransferCases DEF TakesUp, SkipsOrRefuses, Debits, Credits,
         Breaks, DepositLeaf, Stops, Elsewhere
  <1>2. \A b \in Addresses : users'[b] # NoUser =>
            \A k \in DOMAIN users'[b].updates :
                IsDebit(users'[b].updates[k]) \/ A!FitsLeaf(users'[b].updates[k].after)
    BY DEF CreditsFit, IsDebit
  <1> QED
    BY <1>1, <1>2

\* The parent of the next block stays the same where the pointer stays.
LEMMA TipStays ==
    ASSUME IInv, RootsStored, curr' = curr,
           stateRoots' = stateRoots \/ \E r : stateRoots' = Append(stateRoots, r)
    PROVE  TipRoot' = TipRoot
  <1>1. curr # <<>> => curr[1] \in DOMAIN stateRoots
    <2>1. curr # <<>> => 1 \in DOMAIN curr
      BY Lengths DEF IInv
    <2>2. DOMAIN badges = DOMAIN stateRoots
      <3>1. stateRoots \in Seq(Roots) /\ badges \in Seq(BadgeRecord) /\ Len(stateRoots) = Len(badges)
        BY DEF IInv, TypeOK, RootsStored
      <3> QED
        BY <3>1
    <2> QED
      BY <2>1, <2>2 DEF IInv, TypeOK
  <1>2. \A i \in DOMAIN stateRoots : stateRoots'[i] = stateRoots[i]
    <2>1. stateRoots \in Seq(Roots)
      BY DEF RootsStored
    <2> QED
      BY <2>1
  <1> QED
    BY <1>1, <1>2 DEF TipRoot, RootOf

LEMMA ExplainedOn ==
    ASSUME TreeExplained, Undisturbed, CreditsFit, pc # "advance", TipRoot' = TipRoot,
           Touched \cup lost \subseteq Touched' \cup lost',
           \A a \in Addresses : tree'[a] = tree[a] \/ \E d \in Touched' \cup lost' : a \in Parties(d)
    PROVE  TreeExplained'
  <1> SUFFICES ASSUME NEW a \in Addresses, tree'[a] # TipRoot'[a]
               PROVE  \E d \in Touched' \cup lost' : a \in Parties(d)
    BY DEF TreeExplained, Parties
  <1>1. tree'[a] = tree[a] => \E d \in Touched \cup lost : a \in Parties(d)
    BY DEF TreeExplained
  <1> QED
    BY <1>1

LEMMA TreeTransfer ==
    ASSUME IInv, LogInv, RootInv, ApplyTransfer, Undisturbed, Undisturbed', CreditsFit,
           CreditsFit', callFaults' = callFaults, faults' = faults
    PROVE  TreeExplained'
  <1>0. /\ pc = "apply" /\ pos <= Len(batch) /\ batch[pos] \in Transfers
        /\ UNCHANGED <<stateRoots, lost>>
    BY TransferCases DEF ApplyTransfer
  <1>1. TakesUp \/ SkipsOrRefuses \/ Debits \/ Credits
    <2>1. ~ Breaks
      BY DEF Breaks, LogInv, AccountTypes
    <2> QED
      BY <2>1, TransferCases
  <1>2. ~ BlockStepFails
    BY DEF BlockStepFails, Fault, IInv, TypeOK
  <1>3. UNCHANGED vars \/ ApplyOk \/ ApplyFailed
    BY <1>1, <1>2 DEF TakesUp, SkipsOrRefuses, Debits, Credits
  <1>4. /\ pc' = "apply" /\ curr' = curr
        /\ Range(kept') = Range(kept) \cup (IF ApplyOk THEN {batch[pos]} ELSE {})
    <2>1. kept \in Seq(Docs) /\ batch[pos] \in Docs
      BY <1>0 DEF IInv, TypeOK, Docs
    <2>2. Range(Append(kept, batch[pos])) = Range(kept) \cup {batch[pos]}
      BY <2>1, AppendRange
    <2>3. CASE ApplyOk
      BY <1>0, <2>2, <2>3 DEF ApplyOk, dbVars
    <2>4. CASE ~ ApplyOk
      BY <1>0, <1>3, <2>4 DEF ApplyFailed, KeptAfterFailure, vars, dbVars, blockVars
    <2> QED
      BY <2>3, <2>4
  <1>5. TipRoot' = TipRoot
    BY <1>0, <1>4, TipStays DEF RootInv
  <1>6. pc # "advance" /\ Touched = Range(kept) \cup (IF accountPc = "debited" THEN {batch[pos]} ELSE {})
    BY <1>0 DEF Touched
  <1>7. Touched' = Range(kept') \cup (IF accountPc' = "debited" THEN {batch'[pos']} ELSE {})
    BY <1>4 DEF Touched, Range
  <1>8. accountPc = "idle" \/ (tx.from \in Parties(batch[pos]) /\ tx.to \in Parties(batch[pos]))
    BY <1>0, InHandTypes, DocsAssumption DEF Parties
  <1>9. CASE TakesUp \/ SkipsOrRefuses
    <2>1. accountPc = "idle" /\ tree' = tree
      BY <1>9 DEF TakesUp, SkipsOrRefuses
    <2>2. Touched \cup lost \subseteq Touched' \cup lost'
      BY <1>0, <1>4, <1>6, <1>7, <2>1
    <2> QED
      BY <1>5, <1>6, <2>1, <2>2, ExplainedOn DEF RootInv
  <1>10. CASE Debits
    <2>1. accountPc = "checked"
      BY <1>10 DEF Debits
    <2>2. Touched \cup lost \subseteq Touched' \cup lost'
      BY <1>0, <1>4, <1>6, <1>7, <2>1
    <2>3. CASE tree' = tree
      BY <1>5, <1>6, <2>2, <2>3, ExplainedOn DEF RootInv
    <2>4. CASE tree' # tree
      <3>1. /\ accountPc' = "debited" /\ batch'[pos'] = batch[pos]
            /\ tree' = [tree EXCEPT ![tx.from] = A!Leaf(A!DebitEntry.after, A!DebitEntry.nonceAfter)]
        BY <1>10, <2>4 DEF Debits, vars, blockVars
      <3>2. tree \in [Addresses -> Leaves]
        BY DEF LogInv, AccountTypes
      <3>3. batch[pos] \in Touched' \cup lost'
        BY <1>7, <3>1
      <3>4. \A a \in Addresses : tree'[a] = tree[a] \/ a = tx.from
        BY <3>1, <3>2
      <3>5. \A a \in Addresses : tree'[a] = tree[a] \/ \E d \in Touched' \cup lost' : a \in Parties(d)
        BY <1>8, <2>1, <3>3, <3>4
      <3> QED
        BY <1>5, <1>6, <2>2, <3>5, ExplainedOn DEF RootInv
    <2> QED
      BY <2>3, <2>4
  <1>11. CASE Credits
    <2>1. accountPc = "debited" /\ Pushes(A!CreditEntry)
      BY <1>11 DEF Credits
    <2>2. A!FitsLeaf(A!CreditEntry.after)
      <3> DEFINE e == A!CreditEntry
      <3> DEFINE u == users[tx.from]
      <3> DEFINE v == users'[tx.from]
      <3>1. /\ u \in A!UserRecord /\ v \in A!UserRecord /\ e \in A!UpdateRecord
            /\ v.updates = Append(u.updates, e) /\ v # NoUser /\ tx.from \in Addresses
        BY <2>1, PushedDocument
      <3>2. \A i \in DOMAIN v.updates : IsDebit(v.updates[i]) \/ A!FitsLeaf(v.updates[i].after)
        BY <3>1 DEF CreditsFit, IsDebit
      <3>3. ~ IsDebit(e)
        BY <2>1, EntryKinds
      <3> HIDE DEF e, u, v
      <3>4. /\ Len(u.updates) \in Nat /\ DOMAIN v.updates = 1 .. Len(u.updates) + 1
            /\ v.updates[Len(u.updates) + 1] = e
        BY <3>1, Lengthened
      <3>5. Len(u.updates) + 1 \in DOMAIN v.updates
        BY <3>4
      <3>6. A!FitsLeaf(e.after)
        BY <3>2, <3>3, <3>4, <3>5
      <3> QED
        BY <3>6 DEF e
    <2>3. /\ ApplyOk
          /\ tree' = [tree EXCEPT ![tx.to] = A!Leaf(A!CreditEntry.after, A!CreditEntry.nonceAfter)]
      BY <1>11, <2>2 DEF Credits
    <2>4. tree \in [Addresses -> Leaves]
      BY DEF LogInv, AccountTypes
    <2>5. Touched \cup lost \subseteq Touched' \cup lost' /\ batch[pos] \in Touched' \cup lost'
      BY <1>0, <1>4, <1>6, <1>7, <2>3
    <2>6. \A a \in Addresses : tree'[a] = tree[a] \/ a = tx.to
      BY <2>3, <2>4
    <2>7. \A a \in Addresses : tree'[a] = tree[a] \/ \E d \in Touched' \cup lost' : a \in Parties(d)
      BY <1>8, <2>1, <2>5, <2>6
    <2> QED
      BY <1>5, <1>6, <2>5, <2>7, ExplainedOn DEF RootInv
  <1> QED
    BY <1>1, <1>9, <1>10, <1>11

LEMMA TreeDeposit ==
    ASSUME IInv, LogInv, RootInv, Undisturbed, CreditsFit, NEW d \in Deposits,
           DepositLeaf(d) \/ DepositUser(d)
    PROVE  TreeExplained'
  <1>1. CASE DepositUser(d)
    <2>1. UNCHANGED <<tree, accountPc, stateRoots, lost, pc, curr, batch, pos, kept, block>>
      BY <1>1 DEF DepositUser, vars, dbVars, blockVars
    <2>2. TipRoot' = TipRoot /\ Touched' = Touched
      BY <2>1 DEF TipRoot, RootOf, Touched, Range
    <2> QED
      BY <2>1, <2>2, ExplainedOn DEF RootInv, TreeExplained
  <1>2. CASE DepositLeaf(d)
    <2>1. /\ pc = "apply" /\ pos <= Len(batch) /\ d = batch[pos] /\ accountPc = "idle" /\ ApplyOk
          /\ tree' = [tree EXCEPT ![DepositInfo[d].account] = A!Leaf(DepositInfo[d].amount, 0)]
          /\ UNCHANGED <<accountPc, stateRoots, lost>>
      BY <1>2 DEF DepositLeaf
    <2>2. /\ pc' = "apply" /\ curr' = curr /\ kept' = Append(kept, d)
      BY <2>1 DEF ApplyOk, dbVars
    <2>3. TipRoot' = TipRoot
      BY <2>1, <2>2, TipStays DEF RootInv
    <2>4. Range(kept') = Range(kept) \cup {d}
      <3>1. kept \in Seq(Docs) /\ d \in Docs
        BY DEF IInv, TypeOK, Docs
      <3> QED
        BY <2>2, <3>1, AppendRange
    <2>5. Touched = Range(kept) /\ Touched' = Range(kept')
      BY <2>1, <2>2 DEF Touched, Range
    <2>6. \A a \in Addresses : tree'[a] = tree[a] \/ a = DepositInfo[d].account
      BY <2>1 DEF LogInv, AccountTypes
    <2>7. \A a \in Addresses : tree'[a] = tree[a] \/ \E e \in Touched' \cup lost' : a \in Parties(e)
      BY <2>4, <2>5, <2>6 DEF Parties
    <2> QED
      BY <2>1, <2>3, <2>4, <2>5, <2>7, ExplainedOn DEF RootInv
  <1> QED
    BY <1>1, <1>2

\* What a batch passed on is part of it.
LEMMA KeptOfBatch ==
    ASSUME IInv, pc = "apply"
    PROVE  Range(kept) \subseteq Range(batch)
  BY DEF IInv, KeptInHand, Range

LEMMA TreeElsewhere ==
    ASSUME IInv, LogInv, RootInv, Undisturbed, CreditsFit, faults' = faults, Elsewhere, RootCases
    PROVE  TreeExplained'
  <1>0. /\ tree' = tree /\ accountPc' = accountPc
        /\ accountPc # "idle" => UNCHANGED <<pc, batch, pos>>
        /\ accountPc # "idle" => pc = "apply"
    BY DEF Elsewhere, LogInv, TransferInHand
  <1>1. \A c \in Nat : c # c + 1
    OBVIOUS
  <1>2. ~ FindFails /\ ~ MarkFails /\ ~ BlockStepFails
    BY <1>1 DEF FindFails, MarkFails, BlockStepFails, Fault, IInv, TypeOK
  <1>3. CASE LoseBlock /\ lost' = lost \cup Range(batch) /\ stateRoots' = stateRoots
    <2>1. pc = "apply" /\ pc' = "idle" /\ curr' = curr
      BY <1>3 DEF LoseBlock, dbVars
    <2>2. accountPc = "idle"
      BY <1>0, <2>1
    <2>3. Touched \subseteq Range(batch)
      BY <2>1, <2>2, KeptOfBatch DEF Touched
    <2>4. TipRoot' = TipRoot
      BY <1>3, <2>1, TipStays DEF RootInv
    <2> QED
      BY <1>0, <1>3, <2>1, <2>3, <2>4, ExplainedOn DEF RootInv
  <1>4. CASE InsertBadge
    BY <1>4 DEF InsertBadge, TreeExplained
  <1>5. CASE Boot /\ stateRoots' = Append(stateRoots, NoRoot) /\ lost' = lost
    <2>1. pc = "boot" /\ pc' = "idle" /\ curr' = curr
      BY <1>5 DEF Boot
    <2>2. TipRoot' = TipRoot
      BY <1>5, <2>1, TipStays DEF RootInv
    <2>3. Touched = {}
      BY <2>1 DEF Touched
    <2> QED
      BY <1>0, <1>5, <2>1, <2>2, <2>3, ExplainedOn DEF RootInv
  <1>6. CASE UNCHANGED <<stateRoots, lost>> /\ (ConsumerTake \/ FindBatch \/ MarkIncluded \/ StampBatch)
    <2>1. pc \in {"idle", "find", "mark", "stamp"} /\ curr' = curr
      BY <1>6 DEF ConsumerTake, FindBatch, MarkIncluded, StampBatch, dbVars
    <2>2. TipRoot' = TipRoot
      BY <1>6, <2>1, TipStays DEF RootInv
    <2>3. Touched = {}
      BY <2>1 DEF Touched
    <2> QED
      BY <1>0, <1>6, <2>1, <2>2, <2>3, ExplainedOn DEF RootInv
  <1>7. CASE UNCHANGED <<stateRoots, lost>> /\ BuildBlock
    <2>1. pc = "apply" /\ pc' = "insert" /\ curr' = curr /\ block'.txs = kept
      BY <1>7 DEF BuildBlock, Badge, dbVars
    <2>2. TipRoot' = TipRoot
      BY <1>7, <2>1, TipStays DEF RootInv
    <2>3. accountPc = "idle"
      BY <1>0, <2>1
    <2>4. Touched' = Touched
      BY <2>1, <2>3 DEF Touched, Range
    <2> QED
      BY <1>0, <1>7, <2>1, <2>2, <2>4, ExplainedOn DEF RootInv
  <1>8. CASE UNCHANGED <<stateRoots, lost>> /\ AdvancePointer
    <2>1. /\ pc = "advance" /\ curr' = [curr EXCEPT ![1] = Len(badges)]
          /\ curr # <<>> /\ stateRoots[Len(badges)] = tree
      BY <1>8 DEF AdvancePointer, NewBadgeId, RootInv, ParentInHand
    <2>2. curr' # <<>> /\ curr'[1] = Len(badges)
      BY <2>1, Lengths DEF IInv, TypeOK
    <2>3. tree # NoRoot
      BY RootAssumption DEF LogInv, AccountTypes, Leaves
    <2>4. TipRoot' = tree
      BY <1>8, <2>1, <2>2, <2>3 DEF TipRoot, RootOf
    <2> QED
      BY <1>0, <2>4 DEF TreeExplained
  <1>9. CASE UNCHANGED <<stateRoots, lost>> /\ Aside
    <2>1. UNCHANGED <<badges, pc, batch, pos, kept, block>>
      BY <1>9, AsideKeeps
    <2>2. CASE pc = "advance"
      BY <2>1, <2>2 DEF TreeExplained
    <2>3. TipRoot' = TipRoot
      <3>1. CASE curr' = curr
        BY <1>9, <3>1, TipStays DEF RootInv
      <3>2. CASE PointerLands
        <4>1. pointer # 0 /\ curr' = Append(curr, pointer) /\ stateRoots[pointer] = NoRoot
          BY <3>2 DEF PointerLands, RootInv, RootsStored
        <4>2. curr \in Seq(Nat) /\ pointer \in Nat
          BY DEF IInv, TypeOK
        <4>3. curr' # <<>> /\ curr'[1] = IF curr = <<>> THEN pointer ELSE curr[1]
          <5>1. /\ Len(curr) \in Nat /\ curr' # <<>> /\ curr'[Len(curr) + 1] = pointer
                /\ \A k \in 1 .. Len(curr) : curr'[k] = curr[k]
            BY <4>1, <4>2, AppendFacts
          <5>2. curr = <<>> <=> Len(curr) = 0
            BY <4>2
          <5>3. Len(curr) # 0 => 1 \in 1 .. Len(curr)
            BY <5>1
          <5> QED
            BY <5>1, <5>2, <5>3
        <4> QED
          BY <1>9, <4>1, <4>3 DEF TipRoot, RootOf
      <3>3. curr' = curr \/ PointerLands
        BY <1>9 DEF Aside, Tick, ClientStep, ReceiveSubmission, InsertTransaction,
           InsertTransactionFails, CountSubmission, ListenerStep, ListenerHandle, DepositLands,
           DepositInsertFails, ProduceTimeout, dbVars, vars
      <3> QED
        BY <3>1, <3>2, <3>3
    <2>4. Touched' = Touched
      BY <1>0, <2>1 DEF Touched, Range
    <2> QED
      BY <1>0, <1>9, <2>2, <2>3, <2>4, ExplainedOn DEF RootInv
  <1> QED
    BY <1>2, <1>3, <1>4, <1>5, <1>6, <1>7, <1>8, <1>9 DEF RootCases

---------------------------------------------------------------------------
\* Roots and badges are stored together; the genesis badge has none.
LEMMA RootsStoredNext ==
    ASSUME IInv, LogInv, RootInv, [NodeNext]_allVars
    PROVE  RootsStored'
  <1>1. /\ stateRoots \in Seq(Roots) /\ badges \in Seq(BadgeRecord) /\ Len(stateRoots) = Len(badges)
        /\ pointer # 0 => stateRoots[pointer] = NoRoot /\ pointer \in 1 .. Len(badges)
    BY Lengths DEF RootInv, RootsStored, IInv, TypeOK
  <1>2. tree \in Roots /\ NoRoot \in Roots
    BY DEF Roots, LogInv, AccountTypes
  <1>3. \A r \in Roots : /\ Append(stateRoots, r) \in Seq(Roots)
                         /\ Len(Append(stateRoots, r)) = Len(badges) + 1
                         /\ Append(stateRoots, r)[Len(badges) + 1] = r
                         /\ \A i \in 1 .. Len(badges) : Append(stateRoots, r)[i] = stateRoots[i]
    BY <1>1, AppendFacts
  <1>4. CASE UNCHANGED <<stateRoots, badges>> /\ (pointer' = pointer \/ pointer' = 0)
    BY <1>1, <1>4 DEF RootsStored
  <1>5. CASE InsertBadge /\ stateRoots' = Append(stateRoots, tree)
    <2>1. badges' = Append(badges, block) /\ pointer' = pointer /\ block \in BadgeRecord
      BY <1>5 DEF InsertBadge, IInv, TypeOK
    <2>2. Len(badges') = Len(badges) + 1
      BY <1>1, <2>1
    <2> QED
      BY <1>1, <1>2, <1>3, <1>5, <2>1, <2>2 DEF RootsStored
  <1>6. CASE Boot /\ stateRoots' = Append(stateRoots, NoRoot)
    <2>1. badges' = Append(badges, Genesis) /\ pointer' = Len(badges) + 1 /\ Genesis \in BadgeRecord
      BY <1>6, GenesisType DEF Boot
    <2>2. Len(badges') = Len(badges) + 1
      BY <1>1, <2>1
    <2> QED
      BY <1>1, <1>2, <1>3, <1>6, <2>1, <2>2 DEF RootsStored
  <1>7. CASE ApplyTransfer
    <2>1. UNCHANGED vars \/ ApplyOk \/ ApplyFailed \/ BlockStepFails
      BY <1>7 DEF ApplyTransfer
    <2>2. UNCHANGED <<badges, pointer>>
      BY <2>1 DEF vars, dbVars, ApplyOk, ApplyFailed, BlockStepFails
    <2> QED
      BY <1>4, <1>7, <2>2 DEF ApplyTransfer
  <1>8. CASE \E d \in Deposits : DepositLeaf(d) \/ DepositUser(d)
    BY <1>4, <1>8 DEF DepositLeaf, DepositUser, ApplyOk, vars, dbVars
  <1>9. CASE Stops
    BY <1>4, <1>9 DEF Stops, Crash, dbVars
  <1>10. CASE /\ stateRoots' = stateRoots
              /\ \/ LoseBlock \/ Aside \/ FindFails \/ MarkFails \/ BlockStepFails
                 \/ ConsumerTake \/ FindBatch \/ MarkIncluded \/ StampBatch \/ BuildBlock \/ AdvancePointer
    <2>1. badges' = badges /\ (pointer' = pointer \/ pointer' = 0)
      BY <1>10 DEF LoseBlock, Aside, PointerLands, Tick, ClientStep, ReceiveSubmission,
         InsertTransaction, InsertTransactionFails, CountSubmission, ListenerStep, ListenerHandle,
         DepositLands, DepositInsertFails, ProduceTimeout, FindFails, MarkFails, BlockStepFails,
         ConsumerTake, FindBatch, MarkIncluded, StampBatch, BuildBlock, AdvancePointer, dbVars, vars
    <2> QED
      BY <1>4, <1>10, <2>1
  <1> QED
    BY <1>5, <1>6, <1>7, <1>8, <1>9, <1>10, NodeRootCases DEF RootCases

\* The block in hand builds on the badge that the pointer names.
LEMMA ParentInHandNext ==
    ASSUME IInv, LogInv, RootInv, [NodeNext]_allVars
    PROVE  ParentInHand'
  <1>1. /\ stateRoots \in Seq(Roots) /\ badges \in Seq(BadgeRecord) /\ Len(stateRoots) = Len(badges)
        /\ curr \in Seq(Nat)
    BY DEF RootInv, RootsStored, IInv, TypeOK
  <1>2. CASE pc' \notin {"insert", "advance"}
    BY <1>2 DEF ParentInHand
  <1>3. CASE UNCHANGED <<pc, curr, block, badges, stateRoots, tree>>
    BY <1>3 DEF RootInv, ParentInHand
  <1>4. CASE ApplyTransfer
    <2>1. pc = "apply" /\ (UNCHANGED vars \/ ApplyOk \/ ApplyFailed \/ BlockStepFails)
      BY <1>4 DEF ApplyTransfer
    <2> QED
      BY <1>2, <2>1 DEF vars, ApplyOk, ApplyFailed, BlockStepFails
  <1>5. CASE \E d \in Deposits : DepositLeaf(d)
    BY <1>2, <1>5 DEF DepositLeaf, ApplyOk
  <1>6. CASE \E d \in Deposits : DepositUser(d)
    BY <1>3, <1>6 DEF DepositUser, vars, dbVars, blockVars
  <1>7. CASE Stops
    BY <1>2, <1>7 DEF Stops, Crash
  <1>8. CASE Elsewhere /\ RootCases
    <2>1. tree' = tree
      BY <1>8 DEF Elsewhere
    <2>2. CASE InsertBadge /\ stateRoots' = Append(stateRoots, tree)
      <3>1. /\ pc = "insert" /\ pc' = "advance" /\ curr' = curr /\ curr # <<>>
            /\ badges' = Append(badges, block) /\ block \in BadgeRecord
        BY <2>2 DEF InsertBadge, RootInv, ParentInHand, IInv, TypeOK
      <3>2. Len(badges') = Len(badges) + 1 /\ badges' # <<>>
        BY <1>1, <3>1, AppendFacts
      <3>3. tree \in Roots
        BY DEF Roots, LogInv, AccountTypes
      <3>4. stateRoots'[Len(badges) + 1] = tree
        BY <1>1, <2>2, <3>3, AppendFacts
      <3> QED
        BY <2>1, <3>1, <3>2, <3>4 DEF ParentInHand
    <2>3. CASE BuildBlock
      BY <2>3 DEF BuildBlock, BlockBuildable, Badge, dbVars, ParentInHand
    <2>4. CASE Aside /\ UNCHANGED stateRoots
      <3>1. UNCHANGED <<badges, pc, block>>
        BY <2>4, AsideKeeps
      <3>2. curr # <<>> => curr' # <<>> /\ curr'[1] = curr[1]
        <4>1. curr' = curr \/ (pointer \in Nat /\ curr' = Append(curr, pointer))
          BY <2>4 DEF Aside, PointerLands, Tick, ClientStep, ReceiveSubmission, InsertTransaction,
             InsertTransactionFails, CountSubmission, ListenerStep, ListenerHandle, DepositLands,
             DepositInsertFails, ProduceTimeout, dbVars, vars, IInv, TypeOK
        <4>2. curr # <<>> => 1 \in 1 .. Len(curr)
          BY <1>1
        <4> QED
          BY <1>1, <4>1, <4>2, AppendFacts
      <3> QED
        BY <2>1, <2>4, <3>1, <3>2 DEF RootInv, ParentInHand
    <2>5. CASE \/ LoseBlock \/ Boot \/ FindFails \/ MarkFails \/ BlockStepFails
               \/ ConsumerTake \/ FindBatch \/ MarkIncluded \/ StampBatch \/ AdvancePointer
      BY <1>2, <2>5 DEF LoseBlock, Boot, FindFails, MarkFails, BlockStepFails, ConsumerTake,
         FindBatch, MarkIncluded, StampBatch, AdvancePointer
    <2> QED
      BY <1>8, <2>2, <2>3, <2>4, <2>5 DEF RootCases
  <1> QED
    BY <1>4, <1>5, <1>6, <1>7, <1>8, NodeRootCases

LEMMA TreeExplainedNext ==
    ASSUME IInv, LogInv, RootInv, [NodeNext]_allVars
    PROVE  TreeExplained'
  <1>1. CASE ~ (Undisturbed' /\ CreditsFit')
    BY <1>1 DEF TreeExplained
  <1>2. CASE Undisturbed' /\ CreditsFit'
    <2>1. Undisturbed /\ faults' = faults /\ ~ Crash /\ callFaults' = callFaults /\ CreditsFit
      BY <1>2, Quieter, CreditsFitBack
    <2> QED
      BY <1>2, <2>1, NodeRootCases, TreeTransfer, TreeDeposit, TreeElsewhere DEF Stops
  <1> QED
    BY <1>1, <1>2

---------------------------------------------------------------------------
\* Badges and roots are only added, and nothing that was lost comes back.
LEMMA BadgesGrow ==
    ASSUME IInv, LogInv, RootInv, [NodeNext]_allVars
    PROVE  /\ lost \subseteq lost'
           /\ \/ badges' = badges /\ stateRoots' = stateRoots
              \/ badges' = Append(badges, Genesis) /\ stateRoots' = Append(stateRoots, NoRoot)
              \/ InsertBadge /\ stateRoots' = Append(stateRoots, tree) /\ UNCHANGED <<lost, tree>>
  <1>1. CASE ApplyTransfer
    <2>1. UNCHANGED vars \/ ApplyOk \/ ApplyFailed \/ BlockStepFails
      BY <1>1 DEF ApplyTransfer
    <2> QED
      BY <1>1, <2>1 DEF ApplyTransfer, vars, dbVars, ApplyOk, ApplyFailed, BlockStepFails
  <1>2. CASE \E d \in Deposits : DepositLeaf(d) \/ DepositUser(d)
    BY <1>2 DEF DepositLeaf, DepositUser, ApplyOk, vars, dbVars
  <1>3. CASE Stops
    BY <1>3 DEF Stops, Crash, dbVars
  <1>4. CASE Elsewhere /\ RootCases
    <2>1. tree' = tree
      BY <1>4 DEF Elsewhere
    <2>2. Boot => badges' = Append(badges, Genesis)
      BY DEF Boot
    <2>3. \/ LoseBlock \/ Aside \/ FindFails \/ MarkFails \/ BlockStepFails
          \/ ConsumerTake \/ FindBatch \/ MarkIncluded \/ StampBatch \/ BuildBlock \/ AdvancePointer
          => badges' = badges
      BY AsideKeeps DEF LoseBlock, FindFails, MarkFails, BlockStepFails, ConsumerTake, FindBatch,
         MarkIncluded, StampBatch, BuildBlock, AdvancePointer, dbVars
    <2> QED
      BY <1>4, <2>1, <2>2, <2>3 DEF RootCases
  <1> QED
    BY <1>1, <1>2, <1>3, <1>4, NodeRootCases

LEMMA RootExplainedNext ==
    ASSUME IInv, LogInv, RootInv, [NodeNext]_allVars
    PROVE  RootExplained'
  <1> SUFFICES ASSUME Undisturbed', CreditsFit', NEW i \in DOMAIN badges', badges'[i].number # 0,
                      NEW a \in Addresses, stateRoots'[i][a] # RootOfParent(i)'[a]
               PROVE  \E d \in Range(badges'[i].txs) \cup lost' : a \in Parties(d)
    BY DEF RootExplained, Parties, Range
  <1>1. Undisturbed /\ CreditsFit
    BY Quieter, CreditsFitBack
  <1>2. /\ badges \in Seq(BadgeRecord) /\ stateRoots \in Seq(Roots) /\ Len(stateRoots) = Len(badges)
        /\ Len(badges) \in Nat /\ DOMAIN badges = 1 .. Len(badges)
        /\ DOMAIN stateRoots = 1 .. Len(badges)
    BY Lengths DEF IInv, TypeOK, RootInv, RootsStored
  <1>3. lost \subseteq lost'
    BY BadgesGrow
  <1>4. /\ \A k \in 1 .. Len(badges) : badges'[k] = badges[k] /\ stateRoots'[k] = stateRoots[k]
        /\ i \in 1 .. Len(badges) \/ i = Len(badges) + 1
    <2>1. CASE badges' = badges /\ stateRoots' = stateRoots
      BY <1>2, <2>1
    <2>2. CASE \E b \in BadgeRecord : \E r \in Roots :
                   badges' = Append(badges, b) /\ stateRoots' = Append(stateRoots, r)
      <3>1. PICK b \in BadgeRecord : \E r \in Roots :
                   badges' = Append(badges, b) /\ stateRoots' = Append(stateRoots, r)
        BY <2>2
      <3>2. PICK r \in Roots : badges' = Append(badges, b) /\ stateRoots' = Append(stateRoots, r)
        BY <3>1
      <3>3. /\ DOMAIN badges' = 1 .. Len(badges) + 1
            /\ \A k \in 1 .. Len(badges) : badges'[k] = badges[k]
        BY <1>2, <3>2, AppendFacts
      <3>4. \A k \in 1 .. Len(badges) : stateRoots'[k] = stateRoots[k]
        BY <1>2, <3>2, AppendFacts
      <3>5. \A n \in Nat : 1 .. n + 1 = (1 .. n) \cup {n + 1}
        OBVIOUS
      <3> QED
        BY <1>2, <3>3, <3>4, <3>5
    <2>3. tree \in Roots /\ NoRoot \in Roots /\ Genesis \in BadgeRecord /\ block \in BadgeRecord
      BY GenesisType DEF Roots, LogInv, AccountTypes, IInv, TypeOK
    <2> QED
      BY <2>1, <2>2, <2>3, BadgesGrow DEF InsertBadge
  <1>5. CASE i \in 1 .. Len(badges)
    <2>1. badges'[i] = badges[i] /\ stateRoots'[i] = stateRoots[i] /\ badges[i].number # 0
      BY <1>4, <1>5
    <2>2. badges[i].prev \in 1 .. i - 1
      BY <1>2, <1>5, <2>1 DEF IInv, BadgesSound, ParentLink
    <2>3. \A n \in Nat : \A k \in 1 .. n : 1 .. k - 1 \subseteq 1 .. n
      OBVIOUS
    <2>4. stateRoots'[badges[i].prev] = stateRoots[badges[i].prev]
      BY <1>2, <1>4, <1>5, <2>2, <2>3
    <2>5. RootOfParent(i)' = RootOfParent(i)
      BY <2>1, <2>4 DEF RootOfParent
    <2>6. \E d \in Range(badges[i].txs) \cup lost : a \in Parties(d)
      BY <1>1, <1>2, <1>5, <2>1, <2>5 DEF RootInv, RootExplained
    <2> QED
      BY <1>3, <2>1, <2>6
  <1>6. CASE i = Len(badges) + 1
    <2>1. badges' # badges
      <3>1. Len(badges) + 1 \notin 1 .. Len(badges)
        BY <1>2
      <3> QED
        BY <1>2, <1>6, <3>1
    <2>2. \A n \in Nat : n + 1 \notin 1 .. n
      OBVIOUS
    <2>3. badges' # Append(badges, Genesis)
      <3>1. Genesis.number = 0 /\ Genesis \in BadgeRecord
        BY GenesisType DEF Genesis, Badge
      <3>2. Append(badges, Genesis)[Len(badges) + 1] = Genesis
        BY <1>2, <3>1, AppendFacts
      <3> QED
        BY <1>6, <3>1, <3>2
    <2>4. InsertBadge /\ stateRoots' = Append(stateRoots, tree) /\ UNCHANGED <<lost, tree>>
      BY <2>1, <2>3, BadgesGrow
    <2>5. /\ pc = "insert" /\ badges' = Append(badges, block) /\ block \in BadgeRecord
          /\ curr # <<>> /\ block.prev = curr[1]
      BY <2>4 DEF InsertBadge, IInv, TypeOK, RootInv, ParentInHand
    <2>6. badges'[i] = block
      BY <1>2, <1>6, <2>5, AppendFacts
    <2>7. stateRoots'[i] = tree
      <3>1. tree \in Roots
        BY DEF Roots, LogInv, AccountTypes
      <3> QED
        BY <1>2, <1>6, <2>4, <3>1, AppendFacts
    <2>8. block.prev \in 1 .. Len(badges)
      BY <1>2, <2>5 DEF IInv, BlockInHand
    <2>9. stateRoots'[block.prev] = stateRoots[curr[1]]
      BY <1>4, <2>5, <2>8
    <2>10. RootOfParent(i)' = TipRoot
      BY <2>5, <2>6, <2>9 DEF RootOfParent, TipRoot, RootOf
    <2>11. tree[a] # TipRoot[a]
      BY <2>7, <2>10
    <2>12. \E d \in Range(block.txs) \cup lost : a \in Parties(d)
      BY <1>1, <2>5, <2>11 DEF RootInv, TreeExplained, Touched
    <2> QED
      BY <2>4, <2>6, <2>12
  <1> QED
    BY <1>4, <1>5, <1>6

LEMMA RootInvInit == NodeInit => RootInv
  <1> SUFFICES ASSUME NodeInit PROVE RootInv
    OBVIOUS
  <1>1. /\ stateRoots = <<>> /\ badges = <<>> /\ pointer = 0 /\ pc = "boot" /\ curr = <<>>
        /\ tree = A!FundedTree
    BY DEF NodeInit, Init, A!Init
  <1>2. RootsStored
    BY <1>1 DEF RootsStored
  <1>3. ParentInHand
    BY <1>1 DEF ParentInHand
  <1>4. TreeExplained
    BY <1>1 DEF TreeExplained, TipRoot
  <1>5. RootExplained
    BY <1>1 DEF RootExplained
  <1> QED
    BY <1>2, <1>3, <1>4, <1>5 DEF RootInv

LEMMA RootInvNext ==
    ASSUME IInv, LogInv, RootInv, [NodeNext]_allVars
    PROVE  RootInv'
  BY RootsStoredNext, ParentInHandNext, TreeExplainedNext, RootExplainedNext DEF RootInv

\* The state root of a block is explained by its transactions: from the root of
\* its parent only leaves of their parties differ, and of the parties of
\* transactions whose own block was lost, as long as no call fails, the node does
\* not stop and no leaf refuses a credit.
THEOREM NodeRootsAreExplained == NodeSpec => []RootExplained
  <1>1. IInv /\ LogInv /\ RootInv /\ [NodeNext]_allVars => RootInv'
    BY RootInvNext
  <1>2. NodeSpec => []RootInv
    BY <1>1, RootInvInit, NodeInv, LogInvHolds, PTL DEF NodeSpec
  <1>3. RootInv => RootExplained
    BY DEF RootInv
  <1> QED
    BY <1>2, <1>3, PTL
=============================================================================
