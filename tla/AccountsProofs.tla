---------------------------- MODULE AccountsProofs ----------------------------
(***************************************************************************)
(* What the change logs and the tree keep, for all accounts, transfers and *)
(* deposits, and any number of errors and restarts.                        *)
(*                                                                         *)
(* The receiver's entries go to the sender's log, so the debits of an      *)
(* account are every second entry of its log.  DebitsChain is inductive    *)
(* with EvenLogs: as long as nothing was written after a refused debit, a  *)
(* log has an even length between two transfers, unless its last debit was *)
(* refused.  A debit on top of that one leaves the property's hypothesis;  *)
(* InHandSound says when it is possible: only for an amount at or below    *)
(* what the log ends with.                                                 *)
(***************************************************************************)
EXTENDS Accounts, TLAPS

\* The transfer in hand is between known accounts, and the log of its sender
\* ends with its amount or more; once debited, with no less than zero.
InHandSound ==
    pc # "idle" =>
        /\ tx \in Requests /\ tx.to \in Accounts
        /\ users[tx.from] # NoUser /\ users[tx.to] # NoUser
        /\ pc = "checked" => Latest(users[tx.from]).after >= tx.amount
        /\ pc = "debited" => ~ Overdrawn(users[tx.from].updates)

Undisturbed == faults = 0 /\ crashes = 0

Even(a) ==
    LET log == users[a].updates IN
    NothingAfterRefusal(log) =>
        /\ IsOdd(Len(log)) =>
              ~ FitsLeaf(Closing(log)) \/ (pc = "debited" /\ tx.from = a)
        /\ pc = "debited" /\ tx.from = a => IsOdd(Len(log))

EvenLogs == Undisturbed => \A a \in Accounts : users[a] # NoUser => Even(a)

\* DebitsChain for one document.
Chained(u) ==
    \A k \in DebitPlaces(u.updates) :
        LET base == IF k = 1 THEN OpeningOf(u) ELSE u.updates[k - 2] IN
        /\ u.updates[k].before = base.after
        /\ u.updates[k].nonceBefore = base.nonceAfter
        /\ u.updates[k].nonceAfter = base.nonceAfter + 1

LogsSound ==
    Undisturbed =>
        \A a \in Accounts :
            users[a] # NoUser /\ NothingAfterRefusal(users[a].updates) => Chained(users[a])

IInv == TypeOK /\ InHandSound /\ EvenLogs /\ LogsSound

---------------------------------------------------------------------------
(* Reading and writing a user document.                                    *)

Users == [Accounts -> UserRecord \cup {NoUser}]

LEMMA UserFields ==
    ASSUME NEW u \in UserRecord
    PROVE  /\ u.balance \in Int /\ u.nonce \in Nat /\ u.updates \in Seq(UpdateRecord)
           /\ DOMAIN u.updates = 1 .. Len(u.updates) /\ Len(u.updates) \in Nat
           /\ \A k \in DOMAIN u.updates : u.updates[k] \in UpdateRecord
  <1>1. u.balance \in Int /\ u.nonce \in Nat /\ u.updates \in Seq(UpdateRecord)
    BY DEF UserRecord
  <1> QED
    BY <1>1

LEMMA UpdateFields ==
    ASSUME NEW e \in UpdateRecord
    PROVE  e.before \in Int /\ e.after \in Int /\ e.nonceBefore \in Nat /\ e.nonceAfter \in Nat
  BY DEF UpdateRecord

LEMMA UpdateType ==
    ASSUME NEW b \in Int, NEW a \in Int, NEW n \in Nat, NEW m \in Nat
    PROVE  Update(b, a, n, m) \in UpdateRecord
  BY DEF Update, UpdateRecord

\* Whatever entry is read, or stands for the opening values, has its type.
LEMMA BaseType ==
    ASSUME NEW u \in UserRecord
    PROVE  Latest(u) \in UpdateRecord /\ DebitBase(u) \in UpdateRecord /\ OpeningOf(u) \in UpdateRecord
  <1>1. OpeningOf(u) \in UpdateRecord
    BY UserFields, UpdateType DEF OpeningOf
  <1>2. u.updates # <<>> => Len(u.updates) \in DOMAIN u.updates
    BY UserFields
  <1>3. u.updates # <<>> /\ Len(u.updates) # 1 =>
            Len(u.updates) - 1 \in DOMAIN u.updates /\ 1 \in DOMAIN u.updates
    <2> SUFFICES ASSUME u.updates # <<>>, Len(u.updates) # 1
                 PROVE  Len(u.updates) - 1 \in DOMAIN u.updates /\ 1 \in DOMAIN u.updates
      OBVIOUS
    <2>1. \A n \in Nat : n \in 1 .. n /\ n # 1 => n - 1 \in 1 .. n /\ 1 \in 1 .. n
      OBVIOUS
    <2>2. DOMAIN u.updates = 1 .. Len(u.updates) /\ Len(u.updates) \in Nat
      BY UserFields
    <2> QED
      BY <1>2, <2>1, <2>2
  <1>4. Latest(u) \in UpdateRecord
    BY <1>1, <1>2, UserFields DEF Latest
  <1>5. DebitBase(u) \in UpdateRecord
    <2>1. CASE u.updates = <<>>
      BY <1>1, <2>1 DEF DebitBase
    <2>2. CASE u.updates # <<>> /\ Len(u.updates) = 1
      BY <1>2, <2>2, UserFields DEF DebitBase
    <2>3. CASE u.updates # <<>> /\ Len(u.updates) # 1
      <3>1. DebitBase(u) = u.updates[Len(u.updates) - 1]
        BY <2>3 DEF DebitBase
      <3> QED
        BY <1>3, <2>3, <3>1, UserFields
    <2> QED
      BY <2>1, <2>2, <2>3
  <1> QED
    BY <1>1, <1>4, <1>5

\* A push changes one log, at its end.
LEMMA PushFacts ==
    ASSUME users \in Users, NEW a \in Accounts, users[a] # NoUser, NEW e \in UpdateRecord
    PROVE  /\ Push(a, e) \in Users
           /\ Push(a, e)[a] # NoUser
           /\ Push(a, e)[a].updates = Append(users[a].updates, e)
           /\ OpeningOf(Push(a, e)[a]) = OpeningOf(users[a])
           /\ \A b \in Accounts \ {a} : Push(a, e)[b] = users[b]
  <1>1. users[a] \in UserRecord
    BY DEF Users
  <1> DEFINE u == users[a]
  <1> DEFINE v == [u EXCEPT !.updates = Append(@, e)]
  <1>2. Append(u.updates, e) \in Seq(UpdateRecord)
    BY <1>1, UserFields
  <1>3. /\ v \in UserRecord /\ v.updates = Append(u.updates, e)
        /\ v.balance = u.balance /\ v.nonce = u.nonce
    BY <1>1, <1>2 DEF UserRecord
  <1>4. Push(a, e) = [users EXCEPT ![a] = v]
    BY DEF Push, Users
  <1>5. Push(a, e)[a] = v /\ \A b \in Accounts \ {a} : Push(a, e)[b] = users[b]
    BY <1>4 DEF Users
  <1>6. Push(a, e) \in Users
    BY <1>3, <1>4 DEF Users
  <1>7. v # NoUser
    BY <1>3, UnknownAssumption
  <1> QED
    BY <1>3, <1>5, <1>6, <1>7 DEF OpeningOf

---------------------------------------------------------------------------
(* The entries of the transfer in hand.                                    *)

LEMMA RequestFields ==
    ASSUME NEW t \in Requests
    PROVE  t.from \in Accounts /\ t.to \in Accounts \cup {Zero} /\ t.amount \in Int
  BY AccountsAssumption DEF Transfer

LEMMA EntryTypes ==
    ASSUME TypeOK, InHandSound, pc # "idle"
    PROVE  /\ tx.from \in Accounts /\ tx.to \in Accounts /\ tx.amount \in Int
           /\ users[tx.from] \in UserRecord /\ users[tx.to] \in UserRecord
           /\ DebitEntry \in UpdateRecord /\ CreditEntry \in UpdateRecord
  <1>1. tx.from \in Accounts /\ tx.to \in Accounts /\ tx.amount \in Int
    BY RequestFields DEF InHandSound
  <1>2. users[tx.from] \in UserRecord /\ users[tx.to] \in UserRecord
    BY <1>1 DEF TypeOK, InHandSound
  <1>3. DebitEntry \in UpdateRecord
    <2> DEFINE b == DebitBase(users[tx.from])
    <2>1. b.after \in Int /\ b.nonceAfter \in Nat
      BY <1>2, BaseType, UpdateFields
    <2>2. b.after - tx.amount \in Int /\ b.nonceAfter + 1 \in Nat
      BY <1>1, <2>1
    <2> HIDE DEF b
    <2>3. Update(b.after, b.after - tx.amount, b.nonceAfter, b.nonceAfter + 1) \in UpdateRecord
      BY <2>1, <2>2, UpdateType
    <2> QED
      BY <2>3 DEF DebitEntry, b
  <1>4. CreditEntry \in UpdateRecord
    <2> DEFINE b == Latest(users[tx.to])
    <2>1. b.after \in Int /\ b.nonceAfter \in Nat
      BY <1>2, BaseType, UpdateFields
    <2>2. b.after + tx.amount \in Int
      BY <1>1, <2>1
    <2> HIDE DEF b
    <2>3. Update(b.after, b.after + tx.amount, b.nonceAfter, b.nonceAfter) \in UpdateRecord
      BY <2>1, <2>2, UpdateType
    <2> QED
      BY <2>3 DEF CreditEntry, b
  <1> QED
    BY <1>1, <1>2, <1>3, <1>4

\* What the fields of the two entries are.
LEMMA EntryFields ==
    /\ DebitEntry.after = DebitBase(users[tx.from]).after - tx.amount
    /\ DebitEntry.before = DebitBase(users[tx.from]).after
    /\ DebitEntry.nonceBefore = DebitBase(users[tx.from]).nonceAfter
    /\ DebitEntry.nonceAfter = DebitBase(users[tx.from]).nonceAfter + 1
  BY DEF DebitEntry, Update

---------------------------------------------------------------------------
(* Types, and the transfer in hand.                                        *)

Base == TypeOK /\ InHandSound

LEMMA NewUserType == ASSUME NEW n \in Int PROVE NewUser(n) \in UserRecord
  <1>1. <<>> \in Seq(UpdateRecord)
    OBVIOUS
  <1> QED
    BY <1>1 DEF NewUser, UserRecord

LEMMA FundedTreeType ==
    FundedTree \in [Accounts -> [balance : 0 .. LeafMax, nonce : Nat] \cup {NoLeaf}]
  BY AccountsAssumption DEF FundedTree, Leaf

LEMMA InitBase == Init => Base
  <1> SUFFICES ASSUME Init PROVE Base
    OBVIOUS
  <1>1. \A a \in Funded : NewUser(Opening[a]) \in UserRecord
    BY NewUserType, AccountsAssumption
  <1>2. users \in [Accounts -> UserRecord \cup {NoUser}]
    BY <1>1 DEF Init
  <1> QED
    BY <1>2, FundedTreeType DEF Init, Base, TypeOK, InHandSound, NoTransfer

\* A new leaf that fits keeps the tree typed.
LEMMA LeafKeeps ==
    ASSUME TypeOK, NEW a \in Accounts, NEW b \in 0 .. LeafMax, NEW n \in Nat
    PROVE  [tree EXCEPT ![a] = Leaf(b, n)] \in
               [Accounts -> [balance : 0 .. LeafMax, nonce : Nat] \cup {NoLeaf}]
  <1>1. Leaf(b, n) \in [balance : 0 .. LeafMax, nonce : Nat]
    BY DEF Leaf
  <1>2. tree \in [Accounts -> [balance : 0 .. LeafMax, nonce : Nat] \cup {NoLeaf}]
    BY DEF TypeOK
  <1> QED
    BY <1>1, <1>2

LEMMA TakeUpBase == ASSUME Base, TakeUpAny PROVE Base'
  <1> USE DEF Base
  <1>1. PICK t \in Requests : TakeUp(t)
    BY DEF TakeUpAny
  <1>2. UNCHANGED <<users, tree, landed, leafed, faults, crashes>> /\ handled' \in Nat
    BY <1>1 DEF TakeUp, TakeUpAny, TypeOK
  <1>3. CASE Finish("ok") \/ Finish("failed")
    BY <1>2, <1>3 DEF Finish, TypeOK, InHandSound
  <1>4. CASE t.to # Zero /\ InvariantsHold(t) /\ tx' = t /\ pc' = "checked" /\ result' = "none"
    <2>1. t.from \in Accounts /\ t.to \in Accounts /\ t.amount \in Int
      BY <1>4, RequestFields
    <2>2. t # NoTransfer
      BY <1>4, AccountsAssumption, RequestFields DEF NoTransfer
    <2>3. users[t.from] \in UserRecord /\ users[t.from] # NoUser /\ users[t.to] # NoUser
      BY <1>4, <2>1 DEF InvariantsHold, TypeOK
    <2>4. Latest(users[t.from]).after >= t.amount
      BY <1>4 DEF InvariantsHold
    <2>5. TypeOK'
      BY <1>2, <1>4, <2>2 DEF TypeOK
    <2> QED
      BY <1>2, <1>4, <2>1, <2>3, <2>4, <2>5 DEF InHandSound
  <1> QED
    BY <1>1, <1>3, <1>4 DEF TakeUp

LEMMA DebitBaseKept == ASSUME Base, Debit PROVE Base'
  <1> USE DEF Base
  <1>1. pc = "checked" /\ users' = Push(tx.from, DebitEntry)
    BY DEF Debit
  <1>2. /\ tx.from \in Accounts /\ tx.to \in Accounts /\ users[tx.from] \in UserRecord
        /\ DebitEntry \in UpdateRecord
    BY <1>1, EntryTypes
  <1>3. users \in Users /\ users[tx.from] # NoUser /\ users[tx.to] # NoUser
    BY <1>1 DEF TypeOK, InHandSound, Users
  <1>4. /\ users' \in Users /\ users'[tx.from] # NoUser /\ users'[tx.to] # NoUser
        /\ users'[tx.from].updates = Append(users[tx.from].updates, DebitEntry)
    BY <1>1, <1>2, <1>3, PushFacts
  <1>5. CASE FitsLeaf(DebitEntry.after) /\ pc' = "debited" /\ UNCHANGED <<tx, result>>
             /\ tree' = [tree EXCEPT ![tx.from] = Leaf(DebitEntry.after, DebitEntry.nonceAfter)]
    <2>1. DebitEntry.after \in 0 .. LeafMax /\ DebitEntry.nonceAfter \in Nat
      BY <1>2, <1>5, UpdateFields DEF FitsLeaf
    <2>2. tree' \in [Accounts -> [balance : 0 .. LeafMax, nonce : Nat] \cup {NoLeaf}]
      BY <1>2, <1>5, <2>1, LeafKeeps
    <2>3. TypeOK'
      BY <1>1, <1>4, <1>5, <2>2 DEF TypeOK, Users, Debit
    <2>4. ~ Overdrawn(users'[tx.from].updates)
      <3> DEFINE log == users[tx.from].updates
      <3>1. log \in Seq(UpdateRecord)
        BY <1>2, UserFields
      <3>2. Append(log, DebitEntry)[Len(Append(log, DebitEntry))] = DebitEntry
        BY <1>2, <3>1
      <3> QED
        BY <1>4, <2>1, <3>2, AccountsAssumption DEF Overdrawn, Closing
    <2> QED
      BY <1>1, <1>4, <1>5, <2>3, <2>4 DEF InHandSound
  <1>6. CASE tree' = tree /\ Finish("failed")
    BY <1>4, <1>6 DEF Finish, TypeOK, InHandSound, Users, Debit
  <1> QED
    BY <1>5, <1>6 DEF Debit

LEMMA CreditBaseKept == ASSUME Base, Credit PROVE Base'
  <1> USE DEF Base
  <1>1. pc = "debited" /\ users' = Push(tx.from, CreditEntry)
    BY DEF Credit, CreditLog
  <1>2. tx.from \in Accounts /\ tx.to \in Accounts /\ CreditEntry \in UpdateRecord
    BY <1>1, EntryTypes
  <1>3. users \in Users /\ users[tx.from] # NoUser
    BY <1>1 DEF TypeOK, InHandSound, Users
  <1>4. users' \in Users
    BY <1>1, <1>2, <1>3, PushFacts
  <1>5. pc' = "idle" /\ tx' = NoTransfer /\ result' \in {"ok", "failed"}
    BY DEF Credit, Finish
  <1>6. tree' \in [Accounts -> [balance : 0 .. LeafMax, nonce : Nat] \cup {NoLeaf}]
    <2>1. CASE FitsLeaf(CreditEntry.after)
               /\ tree' = [tree EXCEPT ![tx.to] = Leaf(CreditEntry.after, CreditEntry.nonceAfter)]
      <3>1. CreditEntry.after \in 0 .. LeafMax /\ CreditEntry.nonceAfter \in Nat
        BY <1>2, <2>1, UpdateFields DEF FitsLeaf
      <3> QED
        BY <1>2, <2>1, <3>1, LeafKeeps
    <2>2. CASE tree' = tree
      BY <2>2 DEF TypeOK
    <2> QED
      BY <2>1, <2>2 DEF Credit
  <1> QED
    BY <1>4, <1>5, <1>6 DEF Credit, TypeOK, InHandSound, Users

LEMMA FailsBase == ASSUME Base, DatabaseFails PROVE Base'
  <1> USE DEF Base
  <1>1. pc' = "idle" /\ tx' = NoTransfer /\ result' = "failed" /\ pc # "idle"
    BY DEF DatabaseFails, Finish
  <1>2. users' \in Users
    <2>1. users \in Users /\ users[tx.from] # NoUser
      BY <1>1 DEF TypeOK, InHandSound, Users
    <2>2. tx.from \in Accounts /\ DebitEntry \in UpdateRecord /\ CreditEntry \in UpdateRecord
      BY <1>1, EntryTypes
    <2> QED
      BY <2>1, <2>2, PushFacts DEF DatabaseFails, CreditLog
  <1> QED
    BY <1>1, <1>2 DEF DatabaseFails, Fault, TypeOK, InHandSound, Users

LEMMA DepositBase ==
    ASSUME Base, NEW d \in Deposits, DepositUserLands(d) \/ HandleDeposit(d)
    PROVE  Base'
  <1> USE DEF Base
  <1>1. d.account \in Accounts /\ d.amount \in 0 .. LeafMax
    BY AccountsAssumption
  <1>2. CASE DepositUserLands(d)
    <2>1. NewUser(d.amount) \in UserRecord
      BY <1>1, NewUserType
    <2>2. /\ users' \in [Accounts -> UserRecord \cup {NoUser}]
          /\ \A a \in Accounts : users[a] # NoUser => users'[a] = users[a]
      BY <1>1, <1>2, <2>1 DEF DepositUserLands, TypeOK
    <2>3. TypeOK'
      BY <1>2, <2>2 DEF DepositUserLands, TypeOK
    <2>4. pc # "idle" => tx.from \in Accounts
      BY EntryTypes
    <2> QED
      BY <1>2, <2>2, <2>3, <2>4 DEF DepositUserLands, InHandSound
  <1>3. CASE HandleDeposit(d)
    <2>1. [tree EXCEPT ![d.account] = Leaf(d.amount, 0)] \in
              [Accounts -> [balance : 0 .. LeafMax, nonce : Nat] \cup {NoLeaf}]
      BY <1>1, LeafKeeps
    <2> QED
      BY <1>3, <2>1 DEF HandleDeposit, TypeOK, InHandSound
  <1> QED
    BY <1>2, <1>3

LEMMA CrashBase == ASSUME Base, Crash PROVE Base'
  BY FundedTreeType DEF Base, Crash, Finish, TypeOK, InHandSound

LEMMA NextBase == ASSUME Base, [Next]_vars PROVE Base'
  <1>1. CASE EndOfRun \/ UNCHANGED vars
    BY <1>1 DEF EndOfRun, vars, Base, TypeOK, InHandSound
  <1> QED
    BY <1>1, TakeUpBase, DebitBaseKept, CreditBaseKept, FailsBase, DepositBase, CrashBase DEF Next

LEMMA BaseHolds == Spec => []Base
  <1>1. Base /\ [Next]_vars => Base'
    BY NextBase
  <1> QED
    BY InitBase, <1>1, PTL DEF Spec

---------------------------------------------------------------------------
\* For all accounts, transfers and errors, documents and leaves keep their
\* types: no leaf holds a number that its bytes cannot.
THEOREM TypeCorrect == Spec => []TypeOK
  BY BaseHolds, PTL DEF Base

\* A document changes only by a push to the log of the transfer in hand, or by
\* being inserted.
LEMMA UserChange ==
    ASSUME Base, [Next]_vars, NEW a \in Accounts, users[a] # NoUser, users'[a] # users[a]
    PROVE  pc # "idle" /\ tx.from = a
  <1>1. users \in Users
    BY DEF Base, TypeOK, Users
  <1>2. CASE Debit \/ Credit \/ DatabaseFails
    <2>1. pc # "idle"
      BY <1>2 DEF Debit, Credit, DatabaseFails
    <2>2. /\ tx.from \in Accounts /\ users[tx.from] # NoUser
          /\ DebitEntry \in UpdateRecord /\ CreditEntry \in UpdateRecord
      BY <2>1, EntryTypes DEF Base, InHandSound
    <2>3. users' \in {users, Push(tx.from, DebitEntry), Push(tx.from, CreditEntry)}
      BY <1>2 DEF Debit, Credit, DatabaseFails, CreditLog
    <2> QED
      BY <1>1, <2>1, <2>2, <2>3, PushFacts
  <1>3. CASE \E d \in Deposits : DepositUserLands(d)
    BY <1>1, <1>3 DEF DepositUserLands, Users
  <1>4. CASE \/ TakeUpAny \/ Crash \/ EndOfRun \/ UNCHANGED vars
             \/ \E d \in Deposits : HandleDeposit(d)
    BY <1>4 DEF TakeUpAny, TakeUp, Crash, EndOfRun, HandleDeposit, vars
  <1> QED
    BY <1>2, <1>3, <1>4 DEF Next

\* Whatever transfers come, with amounts of any sign: an account whose log ends
\* below zero moves only by a transfer of its own of an amount at or below that.
THEOREM OverdrawnAccountsFreeze == Spec => OverdrawnIsFrozen
  <1>1. ASSUME Base, [Next]_vars, NEW a \in Accounts, users[a] # NoUser,
               Overdrawn(users[a].updates), users'[a] # users[a]
        PROVE  tx.from = a /\ tx.amount <= Closing(users[a].updates)
    <2>1. pc # "idle" /\ tx.from = a
      BY <1>1, UserChange
    <2>2. pc = "checked" /\ Latest(users[a]).after >= tx.amount
      BY <1>1, <2>1 DEF Base, InHandSound, TypeOK
    <2>3. Latest(users[a]).after = Closing(users[a].updates)
      BY <1>1 DEF Overdrawn, Latest, Closing
    <2>4. Latest(users[a]).after \in Int /\ tx.amount \in Int
      <3>1. users[a] \in UserRecord
        BY <1>1 DEF Base, TypeOK
      <3> QED
        BY <1>1, <2>1, <3>1, BaseType, UpdateFields, EntryTypes DEF Base
    <2> QED
      BY <2>1, <2>2, <2>3, <2>4
  <1>2. Base /\ [Next]_vars =>
          [\A a \in Accounts :
              users[a] # NoUser /\ Overdrawn(users[a].updates) =>
                  \/ users'[a] = users[a]
                  \/ tx.from = a /\ tx.amount <= Closing(users[a].updates)]_vars
    BY <1>1
  <1> QED
    BY BaseHolds, <1>2, PTL DEF Spec, OverdrawnIsFrozen
---------------------------------------------------------------------------
(* The chain of debits.                                                    *)

LEMMA Parity ==
    /\ ~ IsOdd(0) /\ IsOdd(1)
    /\ \A n \in Nat : IsOdd(n + 1) <=> ~ IsOdd(n)
    /\ \A n \in Nat : IsOdd(n) => n = 1 \/ n - 2 \in Nat \ {0}
  BY DEF IsOdd

\* The odd places of a log, and the ones before them.
LEMMA OddPlaces ==
    ASSUME NEW n \in Nat, NEW k \in 1 .. n + 1, IsOdd(k)
    PROVE  k = n + 1 \/ (k \in 1 .. n /\ (k = 1 \/ k - 2 \in 1 .. n))
  <1>1. k \in Nat /\ (k = 1 \/ k - 2 \in Nat \ {0})
    BY Parity
  <1> QED
    BY <1>1

\* A pushed entry, and the hypothesis of the longer log, which holds of the
\* shorter one, whose last debit, if its end is one, was then not refused.
LEMMA Pushed ==
    ASSUME NEW u \in UserRecord, NEW v \in UserRecord, NEW e \in UpdateRecord,
           v.updates = Append(u.updates, e)
    PROVE  LET n == Len(u.updates) IN
           /\ n \in Nat /\ DOMAIN u.updates = 1 .. n /\ DOMAIN v.updates = 1 .. n + 1
           /\ Len(v.updates) = n + 1 /\ v.updates[n + 1] = e /\ Closing(v.updates) = e.after
           /\ \A k \in 1 .. n : v.updates[k] = u.updates[k]
           /\ NothingAfterRefusal(v.updates) =>
                 NothingAfterRefusal(u.updates) /\ (IsOdd(n) => FitsLeaf(Closing(u.updates)))
  <1> DEFINE n == Len(u.updates)
  <1>1. /\ u.updates \in Seq(UpdateRecord) /\ n \in Nat /\ DOMAIN u.updates = 1 .. n
        /\ DOMAIN v.updates = 1 .. n + 1
        /\ Len(v.updates) = n + 1 /\ v.updates[n + 1] = e
        /\ \A k \in 1 .. n : v.updates[k] = u.updates[k]
    BY UserFields
  <1>2. ASSUME NothingAfterRefusal(v.updates)
        PROVE  NothingAfterRefusal(u.updates) /\ (IsOdd(n) => FitsLeaf(Closing(u.updates)))
    <2> HIDE DEF n
    <2>1. \A k \in 1 .. n : IsOdd(k) => FitsLeaf(u.updates[k].after)
      <3> SUFFICES ASSUME NEW k \in 1 .. n, IsOdd(k) PROVE FitsLeaf(u.updates[k].after)
        OBVIOUS
      <3>1. k \in 1 .. n + 1 /\ k < n + 1
        BY <1>1
      <3>2. k \in DebitPlaces(v.updates) /\ k < Len(v.updates) /\ v.updates[k] = u.updates[k]
        BY <1>1, <3>1 DEF DebitPlaces
      <3> QED
        BY <1>2, <3>2 DEF NothingAfterRefusal
    <2>2. NothingAfterRefusal(u.updates)
      BY <1>1, <2>1 DEF NothingAfterRefusal, DebitPlaces
    <2>3. IsOdd(n) => n \in 1 .. n
      BY <1>1, Parity
    <2>4. n = Len(u.updates)
      BY DEF n
    <2> QED
      BY <2>1, <2>2, <2>3, <2>4 DEF Closing
  <1>3. Closing(v.updates) = e.after
    BY <1>1 DEF Closing
  <1> QED
    BY <1>1, <1>2, <1>3

\* An entry in an even place disturbs nothing.
LEMMA AppendCredit ==
    ASSUME NEW u \in UserRecord, NEW v \in UserRecord, NEW e \in UpdateRecord,
           v.updates = Append(u.updates, e), OpeningOf(v) = OpeningOf(u),
           IsOdd(Len(u.updates)), Chained(u)
    PROVE  Chained(v)
  <1> DEFINE n == Len(u.updates)
  <1>1. /\ n \in Nat /\ DOMAIN u.updates = 1 .. n /\ DOMAIN v.updates = 1 .. n + 1
        /\ \A k \in 1 .. n : v.updates[k] = u.updates[k]
        /\ IsOdd(n)
    BY Pushed
  <1> HIDE DEF n
  <1>2. ~ IsOdd(n + 1)
    BY <1>1, Parity
  <1>3. \A k \in DebitPlaces(v.updates) :
            k \in DebitPlaces(u.updates) /\ (k = 1 \/ k - 2 \in 1 .. n) /\ k \in 1 .. n
    BY <1>1, <1>2, OddPlaces DEF DebitPlaces
  <1> QED
    BY <1>1, <1>3 DEF Chained

\* A debit in an odd place continues the chain.
LEMMA AppendDebit ==
    ASSUME NEW u \in UserRecord, NEW v \in UserRecord, NEW e \in UpdateRecord,
           v.updates = Append(u.updates, e), OpeningOf(v) = OpeningOf(u),
           ~ IsOdd(Len(u.updates)), Chained(u),
           e.before = DebitBase(u).after,
           e.nonceBefore = DebitBase(u).nonceAfter, e.nonceAfter = DebitBase(u).nonceAfter + 1
    PROVE  Chained(v)
  <1> DEFINE n == Len(u.updates)
  <1>1. /\ u.updates \in Seq(UpdateRecord) /\ n \in Nat /\ DOMAIN u.updates = 1 .. n
        /\ DOMAIN v.updates = 1 .. n + 1
        /\ \A k \in 1 .. n : v.updates[k] = u.updates[k]
        /\ v.updates[n + 1] = e
        /\ ~ IsOdd(n)
    BY Pushed, UserFields
  <1>2. n = 0 \/ n - 1 \in Nat \ {0}
    <2>1. n # 1
      BY <1>1, Parity
    <2>2. \A k \in Nat : k # 1 => k = 0 \/ k - 1 \in Nat \ {0}
      OBVIOUS
    <2> HIDE DEF n
    <2> QED
      BY <1>1, <2>1, <2>2
  <1>3. DebitBase(u) = IF n + 1 = 1 THEN OpeningOf(v) ELSE v.updates[(n + 1) - 2]
    <2>1. CASE n = 0
      BY <1>1, <2>1 DEF DebitBase
    <2>2. CASE n - 1 \in Nat \ {0}
      <3>1. DebitBase(u) = u.updates[n - 1]
        BY <1>1, <2>2 DEF DebitBase
      <3> HIDE DEF n
      <3>2. n - 1 \in 1 .. n /\ (n + 1) - 2 = n - 1 /\ n + 1 # 1
        BY <1>1, <2>2
      <3> QED
        BY <1>1, <2>2, <3>1, <3>2
    <2> QED
      BY <1>2, <2>1, <2>2
  <1>4. \A k \in DebitPlaces(v.updates) :
            k = n + 1 \/ (k \in DebitPlaces(u.updates) /\ k \in 1 .. n /\ (k = 1 \/ k - 2 \in 1 .. n))
    BY <1>1, OddPlaces DEF DebitPlaces
  <1> SUFFICES ASSUME NEW k \in DebitPlaces(v.updates)
               PROVE  LET base == IF k = 1 THEN OpeningOf(v) ELSE v.updates[k - 2] IN
                      /\ v.updates[k].before = base.after
                      /\ v.updates[k].nonceBefore = base.nonceAfter
                      /\ v.updates[k].nonceAfter = base.nonceAfter + 1
    BY DEF Chained
  <1>5. CASE k = n + 1
    BY <1>1, <1>3, <1>5
  <1>6. CASE k \in DebitPlaces(u.updates) /\ k \in 1 .. n /\ (k = 1 \/ k - 2 \in 1 .. n)
    BY <1>1, <1>6 DEF Chained
  <1> QED
    BY <1>4, <1>5, <1>6

LEMMA FreshLog ==
    ASSUME NEW m
    PROVE  Chained(NewUser(m)) /\ ~ IsOdd(Len(NewUser(m).updates))
  BY Parity DEF NewUser, Chained, DebitPlaces

LEMMA InitLogs == Init => EvenLogs /\ LogsSound
  <1> SUFFICES ASSUME Init PROVE EvenLogs /\ LogsSound
    OBVIOUS
  <1>1. \A a \in Accounts : users[a] # NoUser => users[a] = NewUser(Opening[a])
    BY DEF Init
  <1>2. \A a \in Accounts : users[a] # NoUser =>
            Chained(users[a]) /\ ~ IsOdd(Len(users[a].updates))
    BY <1>1, FreshLog
  <1> QED
    BY <1>2 DEF EvenLogs, Even, LogsSound, Init

LEMMA DebitLogs == ASSUME IInv, Debit PROVE EvenLogs' /\ LogsSound'
  <1> SUFFICES ASSUME Undisturbed PROVE EvenLogs' /\ LogsSound'
    BY DEF EvenLogs, LogsSound, Undisturbed, Debit
  <1>0. PICK a \in Accounts : a = tx.from
    BY EntryTypes DEF Debit, IInv
  <1>1. pc = "checked" /\ users' = Push(a, DebitEntry)
    BY <1>0 DEF Debit
  <1>2. /\ users[a] \in UserRecord
        /\ DebitEntry \in UpdateRecord /\ users \in Users /\ users[a] # NoUser
    BY <1>0, <1>1, EntryTypes DEF IInv, TypeOK, InHandSound, Users
  <1>3. /\ users' \in Users /\ users'[a] # NoUser
        /\ users'[a].updates = Append(users[a].updates, DebitEntry)
        /\ OpeningOf(users'[a]) = OpeningOf(users[a])
        /\ \A b \in Accounts \ {a} : users'[b] = users[b]
    BY <1>1, <1>2, PushFacts
  <1>4. users'[a] \in UserRecord
    BY <1>2, <1>3 DEF Users
  <1>5. \/ pc' = "debited" /\ tx' = tx
        \/ pc' = "idle" /\ ~ FitsLeaf(DebitEntry.after)
    BY DEF Debit, Finish
  <1>6. ASSUME NothingAfterRefusal(users'[a].updates)
        PROVE  /\ NothingAfterRefusal(users[a].updates)
               /\ ~ IsOdd(Len(users[a].updates)) /\ IsOdd(Len(users'[a].updates))
    <2>1. /\ NothingAfterRefusal(users[a].updates)
          /\ IsOdd(Len(users[a].updates)) => FitsLeaf(Closing(users[a].updates))
          /\ Len(users[a].updates) \in Nat
          /\ Len(users'[a].updates) = Len(users[a].updates) + 1
      <3> DEFINE u == users[a]
                 v == users'[a]
      <3>1. u \in UserRecord /\ v \in UserRecord /\ v.updates = Append(u.updates, DebitEntry)
        BY <1>2, <1>3, <1>4
      <3> HIDE DEF u, v
      <3>2. /\ Len(u.updates) \in Nat /\ Len(v.updates) = Len(u.updates) + 1
            /\ NothingAfterRefusal(v.updates) =>
                  /\ NothingAfterRefusal(u.updates)
                  /\ IsOdd(Len(u.updates)) => FitsLeaf(Closing(u.updates))
        BY <1>2, <3>1, Pushed
      <3> QED
        BY <1>6, <3>2 DEF u, v
    <2>2. ~ IsOdd(Len(users[a].updates))
      BY <1>0, <1>1, <1>2, <2>1 DEF IInv, EvenLogs, Even
    <2> QED
      BY <2>1, <2>2, Parity
  <1>7. LogsSound'
    <2>1. NothingAfterRefusal(users'[a].updates) => Chained(users'[a])
      BY <1>2, <1>3, <1>4, <1>6, AppendDebit, EntryFields, <1>0 DEF IInv, LogsSound
    <2> QED
      BY <1>3, <2>1 DEF IInv, LogsSound
  <1>8. Even(a)'
    <2>1. Closing(users'[a].updates) = DebitEntry.after
      BY <1>2, <1>3, <1>4, Pushed
    <2> QED
      BY <1>0, <1>5, <1>6, <2>1 DEF Even
  <1>9. ASSUME NEW b \in Accounts \ {a}, users'[b] # NoUser PROVE Even(b)'
    BY <1>0, <1>1, <1>3, <1>5, <1>9 DEF IInv, EvenLogs, Even
  <1> QED
    BY <1>7, <1>8, <1>9 DEF EvenLogs

LEMMA CreditLogs == ASSUME IInv, Credit PROVE EvenLogs' /\ LogsSound'
  <1> SUFFICES ASSUME Undisturbed PROVE EvenLogs' /\ LogsSound'
    BY DEF EvenLogs, LogsSound, Undisturbed, Credit
  <1>0. PICK a \in Accounts : a = tx.from
    BY EntryTypes DEF Credit, IInv
  <1>1. pc = "debited" /\ pc' = "idle" /\ users' = Push(a, CreditEntry)
    BY <1>0 DEF Credit, CreditLog, Finish
  <1>2. /\ users[a] \in UserRecord
        /\ CreditEntry \in UpdateRecord /\ users \in Users /\ users[a] # NoUser
    BY <1>0, <1>1, EntryTypes DEF IInv, TypeOK, InHandSound, Users
  <1>3. /\ users' \in Users /\ users'[a] # NoUser
        /\ users'[a].updates = Append(users[a].updates, CreditEntry)
        /\ OpeningOf(users'[a]) = OpeningOf(users[a])
        /\ \A b \in Accounts \ {a} : users'[b] = users[b]
    BY <1>1, <1>2, PushFacts
  <1>4. users'[a] \in UserRecord
    BY <1>2, <1>3 DEF Users
  <1>5. ASSUME NothingAfterRefusal(users'[a].updates)
        PROVE  /\ NothingAfterRefusal(users[a].updates)
               /\ IsOdd(Len(users[a].updates)) /\ ~ IsOdd(Len(users'[a].updates))
    <2>1. /\ NothingAfterRefusal(users[a].updates)
          /\ Len(users[a].updates) \in Nat
          /\ Len(users'[a].updates) = Len(users[a].updates) + 1
      <3> DEFINE u == users[a]
                 v == users'[a]
      <3>1. u \in UserRecord /\ v \in UserRecord /\ v.updates = Append(u.updates, CreditEntry)
        BY <1>2, <1>3, <1>4
      <3> HIDE DEF u, v
      <3>2. /\ Len(u.updates) \in Nat /\ Len(v.updates) = Len(u.updates) + 1
            /\ NothingAfterRefusal(v.updates) =>
                  /\ NothingAfterRefusal(u.updates)
                  /\ IsOdd(Len(u.updates)) => FitsLeaf(Closing(u.updates))
        BY <1>2, <3>1, Pushed
      <3> QED
        BY <1>5, <3>2 DEF u, v
    <2>2. IsOdd(Len(users[a].updates))
      BY <1>0, <1>1, <1>2, <2>1 DEF IInv, EvenLogs, Even
    <2> QED
      BY <2>1, <2>2, Parity
  <1>6. LogsSound'
    <2>1. NothingAfterRefusal(users'[a].updates) => Chained(users'[a])
      BY <1>2, <1>3, <1>4, <1>5, AppendCredit DEF IInv, LogsSound
    <2> QED
      BY <1>3, <2>1 DEF IInv, LogsSound
  <1>7. Even(a)'
    BY <1>1, <1>5 DEF Even
  <1>8. ASSUME NEW b \in Accounts \ {a}, users'[b] # NoUser PROVE Even(b)'
    BY <1>0, <1>1, <1>3, <1>8 DEF IInv, EvenLogs, Even
  <1> QED
    BY <1>6, <1>7, <1>8 DEF EvenLogs

LEMMA NextLogs == ASSUME IInv, [Next]_vars PROVE EvenLogs' /\ LogsSound'
  <1>1. CASE TakeUpAny
    <2>1. pc = "idle" /\ pc' \in {"idle", "checked"} /\ UNCHANGED <<users, faults, crashes>>
      BY <1>1 DEF TakeUpAny, TakeUp, Finish
    <2> QED
      BY <2>1 DEF IInv, EvenLogs, Even, LogsSound, Undisturbed
  <1>2. CASE DatabaseFails \/ Crash
    <2>1. faults \in Nat /\ crashes \in Nat
      BY DEF IInv, TypeOK
    <2>2. faults' = faults + 1 \/ crashes' = crashes + 1
      BY <1>2 DEF DatabaseFails, Fault, Crash
    <2>3. ~ Undisturbed'
      BY <1>2, <2>1, <2>2 DEF Undisturbed
    <2> QED
      BY <2>3 DEF EvenLogs, LogsSound
  <1>3. ASSUME NEW d \in Deposits, DepositUserLands(d) PROVE EvenLogs' /\ LogsSound'
    <2>1. \A a \in Accounts : users'[a] # NoUser =>
              \/ users[a] # NoUser /\ users'[a] = users[a]
              \/ users[a] = NoUser /\ users'[a] = NewUser(d.amount)
      BY <1>3, AccountsAssumption DEF DepositUserLands, IInv, TypeOK
    <2>2. UNCHANGED <<pc, tx, faults, crashes>>
      BY <1>3 DEF DepositUserLands
    <2>3. pc # "idle" => users[tx.from] # NoUser
      BY DEF IInv, InHandSound
    <2>4. ASSUME NEW a \in Accounts, users'[a] # NoUser, users[a] = NoUser PROVE Even(a)'
      BY <2>1, <2>2, <2>3, <2>4, FreshLog DEF Even, IInv, TypeOK
    <2>5. ASSUME Undisturbed, NEW a \in Accounts, users'[a] # NoUser, users[a] # NoUser PROVE Even(a)'
      BY <2>1, <2>2, <2>5 DEF Even, IInv, EvenLogs
    <2> QED
      BY <2>1, <2>2, <2>4, <2>5, FreshLog DEF IInv, EvenLogs, LogsSound, Undisturbed
  <1>4. CASE EndOfRun \/ UNCHANGED vars \/ \E d \in Deposits : HandleDeposit(d)
    <2>1. UNCHANGED <<users, pc, tx, faults, crashes>>
      BY <1>4 DEF EndOfRun, vars, HandleDeposit
    <2> QED
      BY <2>1 DEF IInv, EvenLogs, Even, LogsSound, Undisturbed
  <1> QED
    BY <1>1, <1>2, <1>3, <1>4, DebitLogs, CreditLogs DEF Next

\* As long as no call fails, the process runs and nothing is debited from an
\* account after a refused debit: its debits form one chain of balances and
\* nonces, however they are mixed with others, and whatever the amounts.
THEOREM DebitsFormChains == Spec => []DebitsChain
  <1>1. Init => IInv
    BY InitBase, InitLogs DEF Base, IInv
  <1>2. IInv /\ [Next]_vars => IInv'
    BY NextBase, NextLogs DEF Base, IInv
  <1>3. IInv => DebitsChain
    BY DEF IInv, LogsSound, Chained, DebitsChain, Undisturbed
  <1> QED
    BY <1>1, <1>2, <1>3, PTL DEF Spec
=============================================================================
