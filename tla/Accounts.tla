------------------------------ MODULE Accounts ------------------------------
(***************************************************************************)
(* MerkleTreeController: how one transaction of a batch changes the users  *)
(* collection and the sparse Merkle tree, and what get_nonce_for_account   *)
(* reports.  A user document keeps its opening balance and nonce and a     *)
(* change log, account_updates; the tree keeps one leaf per account and    *)
(* lives in memory only.                                                   *)
(*                                                                         *)
(* The consumer handles one transaction at a time; between its database    *)
(* calls the listener may insert user documents, clients may ask for a     *)
(* nonce, a call may fail and the process may stop.                        *)
(***************************************************************************)
EXTENDS Integers, Sequences, FiniteSets, FiniteSetsExt

CONSTANTS
    Accounts,       \* addresses
    Opening,        \* funded_accounts.json: the balance of each funded address
    Zero,           \* ZERO_ADDRESS, the receiver that marks a withdrawal
    Requests,       \* the transfers that the batches hold
    Deposits,       \* deposit events, records with account and amount
    LeafMax,        \* largest number the eight bytes of a leaf field can hold
    NoUser, NoLeaf, \* what find_one and the tree give for an unknown address
    MaxTransfers, MaxFaults, MaxCrashes     \* bounds

Funded == DOMAIN Opening

\* The fields of a TransactionRequest; no code looks at the sign of the amount.
Transfer == [from : Accounts, to : Accounts \cup {Zero}, amount : Int, nonce : Int]

ASSUME AccountsAssumption ==
    /\ Zero \notin Accounts
    /\ Funded \subseteq Accounts
    /\ LeafMax \in Nat
    /\ \A a \in Funded : Opening[a] \in 0 .. LeafMax
    /\ Requests \subseteq Transfer
    /\ \A d \in Deposits : d.account \in Accounts /\ d.amount \in 0 .. LeafMax
ASSUME AccountsBounds == MaxTransfers \in Nat /\ MaxFaults \in Nat /\ MaxCrashes \in Nat

VARIABLES
    users,          \* database: first document of each address, or NoUser
    tree,           \* sparse_merkle_tree: leaf of each address, or NoLeaf
    pc,             \* progress of the transaction in hand
    tx,             \* the transaction in hand
    result,         \* how the last transaction ended
    landed,         \* deposits whose user document is inserted
    leafed,         \* deposits that a batch has handled
    handled, faults, crashes

vars == <<users, tree, pc, tx, result, landed, leafed, handled, faults, crashes>>

\* Between two transactions.
NoTransfer == [from |-> Zero, to |-> Zero, amount |-> 0, nonce |-> 0]

\* One element of account_updates.
Update(before, after, nonceBefore, nonceAfter) ==
    [before |-> before, after |-> after, nonceBefore |-> nonceBefore, nonceAfter |-> nonceAfter]

UpdateRecord == [before : Int, after : Int, nonceBefore : Nat, nonceAfter : Nat]

UserRecord == [balance : Int, nonce : Nat, updates : Seq(UpdateRecord)]

NewUser(amount) == [balance |-> amount, nonce |-> 0, updates |-> <<>>]

ASSUME UnknownAssumption == NoUser \notin UserRecord

Leaf(balance, nonce) == [balance |-> balance, nonce |-> nonce]

\* Seeded defect: the sign is not looked at.
FitsAbove(balance) == balance <= LeafMax

\* leaf_to_bytes raises OverflowError outside of this range.
FitsLeaf(balance) == balance \in 0 .. LeafMax

\* initilize_sparse_merkle_tree
FundedTree == [a \in Accounts |-> IF a \in Funded THEN Leaf(Opening[a], 0) ELSE NoLeaf]

Init ==
    /\ users = [a \in Accounts |-> IF a \in Funded THEN NewUser(Opening[a]) ELSE NoUser]
    /\ tree = FundedTree
    /\ pc = "idle"
    /\ tx = NoTransfer
    /\ result = "none"
    /\ landed = {}
    /\ leafed = {}
    /\ handled = 0
    /\ faults = 0
    /\ crashes = 0

---------------------------------------------------------------------------
(* Seeded defects, which the properties must reject.                       *)

LogOfReceiver == tx.to
OpeningOnly(u) == Update(u.balance, u.balance, u.nonce, u.nonce)

---------------------------------------------------------------------------
(* Reading a user document.                                                *)

\* The change-log entry that stands for the opening values.
OpeningOf(u) == Update(u.balance, u.balance, u.nonce, u.nonce)

\* account_updates[-1], or the opening values: what the invariant check, the
\* credit and get_nonce_for_account take for the account's state.
Latest(u) == IF u.updates = <<>> THEN OpeningOf(u) ELSE u.updates[Len(u.updates)]

\* What the debit takes for it: account_updates[len - 2], which for a log of
\* length 1 is the last entry.
DebitBase(u) ==
    CASE u.updates = <<>>     -> OpeningOf(u)
      [] Len(u.updates) = 1   -> u.updates[1]
      [] OTHER                -> u.updates[Len(u.updates) - 1]

\* get_nonce_for_account
ReportedNonce(a) == Latest(users[a]).nonceAfter

\* $push to the account_updates of the document of a.
Push(a, update) == [users EXCEPT ![a].updates = Append(@, update)]

\* _check_tree_invariants_for_update
InvariantsHold(t) ==
    /\ users[t.from] # NoUser
    /\ Latest(users[t.from]).after >= t.amount
    /\ Latest(users[t.from]).nonceAfter = t.nonce
    /\ users[t.to] # NoUser

\* The transaction in hand is done with.
Finish(r) ==
    /\ pc' = "idle"
    /\ tx' = NoTransfer
    /\ result' = r

Fault == faults < MaxFaults /\ faults' = faults + 1

---------------------------------------------------------------------------
(* make_rollup_transaction_between_existing_users                          *)

\* The next transaction of a batch; a withdrawal is passed over unchecked.
TakeUp(t) ==
    /\ pc = "idle"
    /\ \/ t.to = Zero /\ Finish("ok")
       \/ t.to # Zero /\ InvariantsHold(t) /\ tx' = t /\ pc' = "checked" /\ result' = "none"
       \/ t.to # Zero /\ ~ InvariantsHold(t) /\ Finish("failed")
    /\ UNCHANGED <<users, tree, landed, leafed, faults, crashes>>

\* The batches hold any transfers.
TakeUpAny ==
    /\ handled < MaxTransfers
    /\ handled' = handled + 1
    /\ \E t \in Requests : TakeUp(t)

DebitEntry ==
    LET base == DebitBase(users[tx.from])
    IN  Update(base.after, base.after - tx.amount, base.nonceAfter, base.nonceAfter + 1)

CreditEntry ==
    LET base == Latest(users[tx.to])
    IN  Update(base.after, base.after + tx.amount, base.nonceAfter, base.nonceAfter)

\* update_sender_leaf_return_bytes: the log is written first, then the leaf is
\* encoded, and only an encoded leaf reaches the tree.
Debit ==
    /\ pc = "checked"
    /\ users' = Push(tx.from, DebitEntry)
    /\ \/ /\ FitsLeaf(DebitEntry.after)
          /\ tree' = [tree EXCEPT ![tx.from] = Leaf(DebitEntry.after, DebitEntry.nonceAfter)]
          /\ pc' = "debited"
          /\ UNCHANGED <<tx, result>>
       \/ ~ FitsLeaf(DebitEntry.after) /\ tree' = tree /\ Finish("failed")
    /\ UNCHANGED <<landed, leafed, handled, faults, crashes>>

\* Whose log update_receiver_bytes_return_bytes writes: the filter of its
\* update_one names the sender.
CreditLog == tx.from

\* update_receiver_bytes_return_bytes
Credit ==
    /\ pc = "debited"
    /\ users' = Push(CreditLog, CreditEntry)
    /\ \/ /\ FitsLeaf(CreditEntry.after)
          /\ tree' = [tree EXCEPT ![tx.to] = Leaf(CreditEntry.after, CreditEntry.nonceAfter)]
          /\ Finish("ok")
       \/ ~ FitsLeaf(CreditEntry.after) /\ tree' = tree /\ Finish("failed")
    /\ UNCHANGED <<landed, leafed, handled, faults, crashes>>

\* A database call of the transaction in hand raises, before it took effect or
\* after; the transaction is marked FAILED and nothing is undone.
DatabaseFails ==
    /\ Fault
    /\ \/ pc # "idle" /\ users' = users
       \/ pc = "checked" /\ users' = Push(tx.from, DebitEntry)
       \/ pc = "debited" /\ users' = Push(CreditLog, CreditEntry)
    /\ Finish("failed")
    /\ UNCHANGED <<tree, landed, leafed, handled, crashes>>

---------------------------------------------------------------------------
(* Deposits, crash.                                                        *)

\* The user document that insert_deposit_transaction does not wait for. For a
\* known address a second document is inserted, which find_one never returns.
DepositUserLands(d) ==
    /\ d \notin landed
    /\ landed' = landed \cup {d}
    /\ users' = IF users[d.account] = NoUser
                  THEN [users EXCEPT ![d.account] = NewUser(d.amount)] ELSE users
    /\ UNCHANGED <<tree, pc, tx, result, leafed, handled, faults, crashes>>

\* handle_deposit_transaction: the leaf is replaced, whatever it was.
HandleDeposit(d) ==
    /\ pc = "idle"
    /\ d \notin leafed
    /\ leafed' = leafed \cup {d}
    /\ tree' = [tree EXCEPT ![d.account] = Leaf(d.amount, 0)]
    /\ result' = "ok"
    /\ UNCHANGED <<users, pc, tx, landed, handled, faults, crashes>>

\* The process stops and starts again: the tree is rebuilt from the file. The
\* funded users are inserted once more, behind the documents that find_one returns.
Crash ==
    /\ crashes < MaxCrashes
    /\ crashes' = crashes + 1
    /\ tree' = FundedTree
    /\ Finish("none")
    /\ UNCHANGED <<users, landed, leafed, handled, faults>>

\* The bounded run is over.
EndOfRun ==
    /\ pc = "idle"
    /\ handled = MaxTransfers
    /\ landed = Deposits /\ leafed = Deposits
    /\ UNCHANGED vars

Next ==
    \/ TakeUpAny
    \/ Debit
    \/ Credit
    \/ DatabaseFails
    \/ \E d \in Deposits : DepositUserLands(d) \/ HandleDeposit(d)
    \/ Crash
    \/ EndOfRun

Spec == Init /\ [][Next]_vars

---------------------------------------------------------------------------
(* Properties.                                                             *)

\* Documents and leaves have their types; no leaf holds a number that the
\* eight bytes of its field cannot.
TypeOK ==
    /\ users \in [Accounts -> UserRecord \cup {NoUser}]
    /\ tree \in [Accounts -> [balance : 0 .. LeafMax, nonce : Nat] \cup {NoLeaf}]
    /\ pc \in {"idle", "checked", "debited"}
    /\ tx \in Requests \cup {NoTransfer}
    /\ tx = NoTransfer <=> pc = "idle"
    /\ result \in {"none", "ok", "failed"}
    /\ landed \subseteq Deposits /\ leafed \subseteq Deposits
    /\ handled \in Nat /\ faults \in Nat /\ crashes \in Nat

IsOdd(n) == n % 2 = 1

\* The places of the debits in a log, when every debit was credited.
DebitPlaces(log) == {k \in DOMAIN log : IsOdd(k)}

\* No transfer was debited after a debit that its leaf had refused: such a debit
\* stays in the log, and no credit follows it.
NothingAfterRefusal(log) ==
    \A k \in DebitPlaces(log) : k < Len(log) => FitsLeaf(log[k].after)

\* The debits of an account, every second entry of its log, form one chain:
\* each starts from the balance and the nonce that the one before it left.
DebitsChain ==
    faults = 0 /\ crashes = 0 =>
        \A a \in {b \in Accounts : users[b] # NoUser /\ NothingAfterRefusal(users[b].updates)} :
            LET log == users[a].updates IN
            \A k \in DebitPlaces(log) :
                LET base == IF k = 1 THEN OpeningOf(users[a]) ELSE log[k - 2] IN
                /\ log[k].before = base.after
                /\ log[k].nonceBefore = base.nonceAfter
                /\ log[k].nonceAfter = base.nonceAfter + 1

\* What a log ends with.
Closing(log) == log[Len(log)].after

Overdrawn(log) == log # <<>> /\ Closing(log) < 0

\* A log whose last entry is negative is frozen for every amount that is not
\* negative: nothing is written to it, not even by a transfer to the account,
\* except by a transfer of its own of an amount at or below what the log ends with.
OverdrawnIsFrozen ==
    [][\A a \in Accounts :
          users[a] # NoUser /\ Overdrawn(users[a].updates) =>
              \/ users'[a] = users[a]
              \/ tx.from = a /\ tx.amount <= Closing(users[a].updates)]_vars

---------------------------------------------------------------------------
(* What the documentation says and the code does not do.                   *)

Balance(a) == IF tree[a] = NoLeaf THEN 0 ELSE tree[a].balance

\* "from_account.balance -= (amount + fee)", "to_acccount.balance += amount"
\* (doc.md; there is no fee): transfers move balances and create none.
TotalConserved ==
    pc = "idle" => MapThenSumSet(Balance, Accounts) = MapThenSumSet(LAMBDA a : Opening[a], Funded)
=============================================================================
