--------------------------------- MODULE Guest ---------------------------------
(***************************************************************************)
(* The guest program (executor/methods/guest/src/main.rs): it rebuilds the *)
(* state tree from a batch, checks the signatures, credits the deposits,   *)
(* applies the transfers in order until one is not valid, and commits a    *)
(* journal.  One action per iteration of its loops.                        *)
(*                                                                         *)
(* Hashes do not collide, so the root of a tree is the tree: a function    *)
(* from addresses to leaves, where an address without an account has the   *)
(* zero leaf.  Numbers have Modulus values; the release build of the guest *)
(* wraps around.                                                           *)
(***************************************************************************)
EXTENDS Integers, Sequences, FiniteSets, FiniteSetsExt, Functions

CONSTANTS
    Addresses,
    Modulus,        \* 2^64
    Batches         \* the batches that may be given to the program

LeafData == [balance : 0 .. Modulus - 1, nonce : 0 .. Modulus - 1]
Tree == [Addresses -> LeafData]
DepositInfo == [depositId : Nat, user : Addresses, amount : 0 .. Modulus - 1]

\* signed: the signature recovers to from, and pubKey is from.
Transaction == [from : Addresses, to : Addresses, amount : 0 .. Modulus - 1,
                nonce : 0 .. Modulus - 1, signed : BOOLEAN]

Batch ==
    [oldRoot : Tree, newRoot : Tree, leafData : Seq(LeafData), addresses : Seq(Addresses),
     transactions : Seq(Transaction), deposits : Seq(DepositInfo), badgeId : Nat]

\* An address has twenty bytes. A batch gives a leaf with every address that it
\* names; nothing refuses one that names an address again.
ASSUME GuestAssumption ==
    /\ IsFiniteSet(Addresses)
    /\ Modulus \in Nat \ {0}
    /\ Batches \subseteq Batch
    /\ \A b \in Batches : Len(b.leafData) = Len(b.addresses)

\* No nonce comes near the largest number.
ASSUME NonceAssumption ==
    \A b \in Batches : \A i \in DOMAIN b.leafData :
       b.leafData[i].nonce + Len(b.transactions) < Modulus

VARIABLES
    batch,
    pc,                     \* the loop that the program is in
    tree,
    workingAccounts,
    depositsProcessed,      \* FALSE once a deposit has no account
    credited,               \* deposits credited: the length of processed_deposit_ids
    transactionsProcessed,
    journal

vars == <<batch, pc, tree, workingAccounts, depositsProcessed, credited,
          transactionsProcessed, journal>>

ZeroLeaf == [balance |-> 0, nonce |-> 0]
EmptyTree == [a \in Addresses |-> ZeroLeaf]

Places(b, a) == {i \in DOMAIN b.addresses : b.addresses[i] = a}
NamedOnce(b, a) == \A i, j \in Places(b, a) : i = j

HasAccount(a) == Places(batch, a) # {}

\* find_account_index: the first place of the address.
Index(a) == Min(Places(batch, a))

\* The leaf that was written last is the one that stays in the tree.
TreeOf(b) ==
    [a \in Addresses |->
        IF Places(b, a) # {} THEN b.leafData[Max(Places(b, a))] ELSE ZeroLeaf]

Init ==
    /\ batch \in Batches
    /\ pc = "load"
    /\ tree = EmptyTree
    /\ workingAccounts = <<>>
    /\ depositsProcessed = TRUE
    /\ credited = 0
    /\ transactionsProcessed = 0
    /\ journal = <<>>

---------------------------------------------------------------------------
(* Seeded defects, which the properties must reject.                       *)

SenderOnly(from, to) == [a \in {from} |-> workingAccounts'[Index(from)]]
NonceAhead(tx) ==
    LET sender == workingAccounts[Index(tx.from)]
    IN  sender.balance >= tx.amount /\ sender.nonce <= tx.nonce
NonceOnly(tx) == workingAccounts[Index(tx.from)].nonce = tx.nonce
CreditsOnly(tx) ==
    [workingAccounts EXCEPT ![Index(tx.from)].nonce = (@ + 1) % Modulus,
                            ![Index(tx.to)].balance = (@ + tx.amount) % Modulus]
ReceiverReadFirst(tx) ==
    LET received == (workingAccounts[Index(tx.to)].balance + tx.amount) % Modulus
    IN  [workingAccounts EXCEPT
           ![Index(tx.from)] = [balance |-> @.balance - tx.amount,
                                nonce |-> (@.nonce + 1) % Modulus],
           ![Index(tx.to)].balance = received]
AnyCount == TRUE

---------------------------------------------------------------------------
(* The program.                                                            *)

\* Rebuild the tree and clone the leaves.
Load ==
    /\ pc = "load"
    /\ tree' = TreeOf(batch)
    /\ workingAccounts' = batch.leafData
    /\ pc' = "deposits"
    /\ UNCHANGED <<batch, depositsProcessed, credited, transactionsProcessed, journal>>

\* verify_metamask_signature: the key that is recovered is the sender's; and
\* pubKey names the sender.
Verified(tx) == tx.signed

\* Every transaction, before any of them is applied.
SignaturesVerified ==
    \A k \in DOMAIN batch.transactions : Verified(batch.transactions[k])

\* The loop over the deposits ends, with or without an unknown account.
StartTransactions ==
    /\ pc' = IF depositsProcessed' /\ SignaturesVerified THEN "transactions" ELSE "commit"
    /\ UNCHANGED <<batch, tree, workingAccounts, credited, transactionsProcessed, journal>>

CreditDeposit ==
    /\ pc = "deposits"
    /\ credited < Len(batch.deposits)
    /\ LET d == batch.deposits[credited + 1] IN
          /\ HasAccount(d.user)
          /\ workingAccounts' =
                [workingAccounts EXCEPT ![Index(d.user)].balance = (@ + d.amount) % Modulus]
          /\ tree' = [tree EXCEPT ![d.user] = workingAccounts'[Index(d.user)]]
          /\ credited' = credited + 1
    /\ UNCHANGED <<batch, pc, depositsProcessed, transactionsProcessed, journal>>

DepositWithoutAccount ==
    /\ pc = "deposits"
    /\ credited < Len(batch.deposits)
    /\ ~ HasAccount(batch.deposits[credited + 1].user)
    /\ depositsProcessed' = FALSE
    /\ StartTransactions

DepositsDone ==
    /\ pc = "deposits"
    /\ credited = Len(batch.deposits)
    /\ depositsProcessed' = depositsProcessed
    /\ StartTransactions

Valid(tx) ==
    LET sender == workingAccounts[Index(tx.from)]
    IN  sender.balance >= tx.amount /\ sender.nonce = tx.nonce

\* The accounts after a transfer; one to oneself changes the nonce only.
Applied(tx) ==
    IF tx.from = tx.to
      THEN [workingAccounts EXCEPT ![Index(tx.from)].nonce = (@ + 1) % Modulus]
      ELSE [workingAccounts EXCEPT
              ![Index(tx.from)] = [balance |-> @.balance - tx.amount,
                                   nonce |-> (@.nonce + 1) % Modulus],
              ![Index(tx.to)].balance = (@ + tx.amount) % Modulus]

\* The leaves that the tree is updated with.
UpdatedLeaves(from, to) == [a \in {from, to} |-> workingAccounts'[Index(a)]]

ApplyTransaction ==
    /\ pc = "transactions"
    /\ transactionsProcessed < Len(batch.transactions)
    /\ LET tx == batch.transactions[transactionsProcessed + 1] IN
          /\ HasAccount(tx.from)
          /\ HasAccount(tx.to)
          /\ Valid(tx)
          /\ workingAccounts' = Applied(tx)
          /\ LET leaves == UpdatedLeaves(tx.from, tx.to)
             IN  tree' = [a \in Addresses |-> IF a \in DOMAIN leaves THEN leaves[a] ELSE tree[a]]
    /\ transactionsProcessed' = transactionsProcessed + 1
    /\ UNCHANGED <<batch, pc, depositsProcessed, credited, journal>>

TransactionsEnd ==
    /\ pc = "transactions"
    /\ transactionsProcessed < Len(batch.transactions) =>
          LET tx == batch.transactions[transactionsProcessed + 1]
          IN  ~ (HasAccount(tx.from) /\ HasAccount(tx.to) /\ Valid(tx))
    /\ pc' = "commit"
    /\ UNCHANGED <<batch, tree, workingAccounts, depositsProcessed, credited,
                   transactionsProcessed, journal>>

AllProcessed == transactionsProcessed = Len(batch.transactions)

Success ==
    /\ TreeOf(batch) = batch.oldRoot
    /\ tree = batch.newRoot
    /\ SignaturesVerified
    /\ depositsProcessed
    /\ AllProcessed

Commit ==
    /\ pc = "commit"
    /\ pc' = "done"
    /\ journal' = <<[success |-> Success, oldRoot |-> TreeOf(batch), newRoot |-> tree,
                     badgeId |-> batch.badgeId, transactions |-> transactionsProcessed,
                     deposits |-> credited]>>
    /\ UNCHANGED <<batch, tree, workingAccounts, depositsProcessed, credited, transactionsProcessed>>

Done == pc = "done" /\ UNCHANGED vars

Next ==
    \/ Load
    \/ CreditDeposit
    \/ DepositWithoutAccount
    \/ DepositsDone
    \/ ApplyTransaction
    \/ TransactionsEnd
    \/ Commit
    \/ Done

Spec == Init /\ [][Next]_vars

---------------------------------------------------------------------------
(* Properties.                                                             *)

TypeOK ==
    /\ batch \in Batch
    /\ pc \in {"load", "deposits", "transactions", "commit", "done"}
    /\ tree \in Tree
    /\ workingAccounts \in Seq(LeafData)
    /\ depositsProcessed \in BOOLEAN
    /\ credited \in 0 .. Len(batch.deposits)
    /\ transactionsProcessed \in 0 .. Len(batch.transactions)

\* The tree, whose root is committed, and the working accounts, which the
\* checks read, are two copies of one state. They differ only for an address
\* that the batch names twice: as long as no deposit and no transfer touches it
\* the tree has the last of its leaves, and the checks read the first.
TreeHoldsAccounts ==
    pc # "load" =>
       /\ Len(workingAccounts) = Len(batch.addresses)
       /\ \A a \in Addresses : HasAccount(a) =>
             \/ tree[a] = workingAccounts[Index(a)]
             \/ ~ NamedOnce(batch, a) /\ tree[a] = TreeOf(batch)[a]
       /\ \A a \in Addresses : ~ HasAccount(a) => tree[a] = ZeroLeaf

\* The signed transactions that were applied: no nonce of a sender twice.
NoReplay ==
    \A j, k \in 1 .. transactionsProcessed :
       LET s == batch.transactions[j]
           t == batch.transactions[k]
       IN  j # k /\ s.from = t.from => s.nonce # t.nonce

\* A journal that reports success stands for the whole batch: every deposit and
\* every transaction of it was applied, each transaction signed by its sender,
\* and the roots are those that the batch claims.
SuccessIsComplete ==
    \A n \in DOMAIN journal :
       journal[n].success =>
          /\ journal[n].deposits = Len(batch.deposits)
          /\ journal[n].transactions = Len(batch.transactions)
          /\ \A k \in DOMAIN batch.transactions : batch.transactions[k].signed
          /\ journal[n].oldRoot = batch.oldRoot
          /\ journal[n].newRoot = batch.newRoot

BalanceOf(t) == [a \in Addresses |-> t[a].balance]
AmountOf(b) == [k \in DOMAIN b.deposits |-> b.deposits[k].amount]
LeafBalanceOf(b) == [i \in DOMAIN b.leafData |-> b.leafData[i].balance]

Balances(t) == SumFunctionOnSet(BalanceOf(t), Addresses)

Credited == SumFunctionOnSet(AmountOf(batch), 1 .. credited)

\* All the money of a batch fits into one balance. Without this the additions
\* of the program, which nothing guards, may wrap around.
Fits(b) ==
    SumFunctionOnSet(LeafBalanceOf(b), DOMAIN b.leafData)
      + SumFunctionOnSet(AmountOf(b), DOMAIN b.deposits) < Modulus

\* A batch that names each account once and whose money fits. Of an account that
\* is named twice, a deposit or a transfer replaces the last leaf by the first.
Regular(b) == (\A a \in Addresses : NamedOnce(b, a)) /\ Fits(b)

\* "from_account.balance -= amount", "to_acccount.balance += amount" (doc.md), "Add
\* deposit amount to the account balance" (guest): the tree of a regular batch holds
\* the money of the old state and the credited deposits, no more and no less.
Conserved ==
    pc # "load" /\ Regular(batch) => Balances(tree) = Balances(TreeOf(batch)) + Credited

\* The state tree of the program moves as the ledger does, on a regular batch: no
\* balance changes but by a credit or by a transfer that its sender could pay. (The
\* other batches are mapped to a ledger that stands still.)
L == INSTANCE Ledger WITH
        account <- IF pc = "load" \/ ~ Regular(batch) THEN TreeOf(batch) ELSE tree

ImplementsLedger == L!LedgerSpec
=============================================================================
