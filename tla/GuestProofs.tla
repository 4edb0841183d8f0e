------------------------------ MODULE GuestProofs ------------------------------
(***************************************************************************)
(* What the guest program guarantees of every batch: the tree it commits   *)
(* is the state it checked against, except for an account that is named    *)
(* twice and that nothing has touched; no nonce is used twice; and success *)
(* stands for the whole batch.                                             *)
(*                                                                         *)
(* The invariant adds to these how the numbers grow: an account's nonce is *)
(* above every nonce it has used, and no further from the one it started   *)
(* with than there were transactions, so it never wraps around.            *)
(*                                                                         *)
(* Of a regular batch, which names each account once and whose money fits  *)
(* into a balance: as long as the tree has the old balances and what was   *)
(* credited, no balance can wrap around either; so money is conserved, and *)
(* the program implements the ledger.                                      *)
(***************************************************************************)
EXTENDS Guest, Sums

Typed ==
    /\ batch \in Batches
    /\ pc \in {"load", "deposits", "transactions", "commit", "done"}
    /\ workingAccounts \in Seq(LeafData)
    /\ tree \in Tree
    /\ depositsProcessed \in BOOLEAN
    /\ credited \in 0 .. Len(batch.deposits)
    /\ transactionsProcessed \in 0 .. Len(batch.transactions)

\* Each account of the batch has its place.
Lengths == pc # "load" => Len(workingAccounts) = Len(batch.addresses)

NoncesGrow ==
    pc # "load" =>
       /\ \A i \in DOMAIN batch.addresses :
             workingAccounts[i].nonce <= batch.leafData[i].nonce + transactionsProcessed
       /\ \A j \in 1 .. transactionsProcessed :
             /\ HasAccount(batch.transactions[j].from)
             /\ batch.transactions[j].nonce
                   < workingAccounts[Index(batch.transactions[j].from)].nonce

Stages ==
    /\ pc \in {"load", "deposits"} => depositsProcessed /\ transactionsProcessed = 0
    /\ pc \notin {"load", "deposits"} /\ depositsProcessed => credited = Len(batch.deposits)
    /\ pc # "done" => journal = <<>>

GuestInv ==
    Typed /\ Lengths /\ TreeHoldsAccounts /\ NoncesGrow /\ NoReplay /\ Stages /\ SuccessIsComplete

---------------------------------------------------------------------------
(* Batches and indices.                                                    *)

LEMMA BatchFields ==
    ASSUME NEW b \in Batches
    PROVE  /\ b.leafData \in Seq(LeafData) /\ b.addresses \in Seq(Addresses)
           /\ b.transactions \in Seq(Transaction) /\ b.deposits \in Seq(DepositInfo)
           /\ DOMAIN b.addresses = 1 .. Len(b.addresses) /\ Len(b.addresses) \in Nat
           /\ DOMAIN b.leafData = DOMAIN b.addresses
           /\ Len(b.leafData) = Len(b.addresses)
           /\ DOMAIN b.transactions = 1 .. Len(b.transactions) /\ Len(b.transactions) \in Nat
           /\ DOMAIN b.deposits = 1 .. Len(b.deposits) /\ Len(b.deposits) \in Nat
  <1>1. /\ b.leafData \in Seq(LeafData) /\ b.addresses \in Seq(Addresses)
        /\ b.transactions \in Seq(Transaction) /\ b.deposits \in Seq(DepositInfo)
        /\ Len(b.leafData) = Len(b.addresses)
    BY GuestAssumption DEF Batch
  <1> QED
    BY <1>1

\* A set of places, not empty, has a first and a last: by induction on the set.
LEMMA PlacesHaveEnds ==
    ASSUME NEW b \in Batches, NEW a, Places(b, a) # {}
    PROVE  /\ Min(Places(b, a)) \in Places(b, a) /\ Max(Places(b, a)) \in Places(b, a)
           /\ Places(b, a) \subseteq DOMAIN b.addresses
  <1> DEFINE D == 1 .. Len(b.addresses)
  <1> DEFINE HasEnds(s) == /\ \E m \in s : \A k \in s : m <= k
                           /\ \E m \in s : \A k \in s : m >= k
  <1> DEFINE H == {s \in SUBSET D : s = {} \/ HasEnds(s)}
  <1>1. D = DOMAIN b.addresses /\ Len(b.addresses) \in Nat /\ Places(b, a) \in SUBSET D
    BY BatchFields DEF Places
  <1>2. IsFiniteSet(D)
    <2>1. 1 \in Int /\ Len(b.addresses) \in Int
      BY <1>1
    <2> QED
      BY <2>1, FS_Interval
  <1>3. \A s \in SUBSET D : s \in H <=> s = {} \/ HasEnds(s)
    OBVIOUS
  <1>4. D \subseteq Int
    BY <1>1
  <1> HIDE DEF D, H
  <1>5. ASSUME NEW s \in SUBSET D, \A t \in SUBSET s : t # s => t \in H
        PROVE  s \in H
    <2>1. CASE s = {}
      BY <1>3, <2>1
    <2>2. CASE s # {}
      <3>1. PICK x \in s : TRUE
        BY <2>2
      <3>2. x \in Int /\ \A k \in s : k \in Int
        BY <1>4, <3>1
      <3> DEFINE t == s \ {x}
      <3>3. t \in SUBSET s /\ t # s /\ t \in SUBSET D
        BY <3>1
      <3>4. t = {} \/ HasEnds(t)
        BY <1>3, <1>5, <3>3
      <3>5. \A k \in s : k = x \/ k \in t
        OBVIOUS
      <3>6. CASE t = {}
        <4>1. HasEnds(s)
          BY <3>1, <3>2, <3>5, <3>6
        <4> QED
          BY <1>3, <4>1
      <3>7. CASE HasEnds(t)
        <4>1. PICK m \in t : \A k \in t : m <= k
          BY <3>7
        <4>2. PICK n \in t : \A k \in t : n >= k
          BY <3>7
        <4>3. m \in s /\ n \in s
          BY <3>3
        <4> HIDE DEF t
        <4>4. \E l \in s : \A k \in s : l <= k
          <5>1. CASE x <= m
            BY <3>1, <3>2, <3>5, <4>1, <4>3, <5>1
          <5>2. CASE m <= x
            BY <3>2, <3>5, <4>1, <4>3, <5>2
          <5> QED
            BY <3>2, <4>3, <5>1, <5>2
        <4>5. \E l \in s : \A k \in s : l >= k
          <5>1. CASE x >= n
            BY <3>1, <3>2, <3>5, <4>2, <4>3, <5>1
          <5>2. CASE n >= x
            BY <3>2, <3>5, <4>2, <4>3, <5>2
          <5> QED
            BY <3>2, <4>3, <5>1, <5>2
        <4> QED
          BY <1>3, <4>4, <4>5
      <3> QED
        BY <3>4, <3>6, <3>7
    <2> QED
      BY <2>1, <2>2
  <1>6. \A s \in SUBSET D : s \in H
    BY <1>2, <1>5, SubsetInduction
  <1>7. HasEnds(Places(b, a))
    BY <1>1, <1>3, <1>6
  <1> QED
    BY <1>1, <1>7 DEF Min, Max

\* find_account_index finds a place of an account, and the only one of an account
\* that is named once.
LEMMA IndexFinds ==
    ASSUME batch \in Batches
    PROVE  /\ \A a : HasAccount(a) => /\ Index(a) \in DOMAIN batch.addresses
                                      /\ batch.addresses[Index(a)] = a
           /\ \A i \in DOMAIN batch.addresses : HasAccount(batch.addresses[i])
           /\ \A a : HasAccount(a) /\ NamedOnce(batch, a) =>
                 Max(Places(batch, a)) = Index(a)
  <1>1. \A a : HasAccount(a) => /\ Index(a) \in Places(batch, a)
                                /\ Max(Places(batch, a)) \in Places(batch, a)
    BY PlacesHaveEnds DEF HasAccount, Index
  <1>2. \A a : HasAccount(a) => Index(a) \in DOMAIN batch.addresses /\ batch.addresses[Index(a)] = a
    BY <1>1 DEF Places
  <1>3. \A i \in DOMAIN batch.addresses : HasAccount(batch.addresses[i])
    BY DEF HasAccount, Places
  <1>4. \A a : HasAccount(a) /\ NamedOnce(batch, a) => Max(Places(batch, a)) = Index(a)
    BY <1>1 DEF NamedOnce
  <1> QED
    BY <1>2, <1>3, <1>4

\* Nothing writes the batch, so its places stay.
LEMMA SamePlaces ==
    ASSUME batch' = batch
    PROVE  /\ \A a : (HasAccount(a)' <=> HasAccount(a)) /\ Index(a)' = Index(a)
           /\ TreeHoldsAccounts' <=>
                 (pc' # "load" =>
                    /\ Len(workingAccounts') = Len(batch.addresses)
                    /\ \A a \in Addresses : HasAccount(a) =>
                          \/ tree'[a] = workingAccounts'[Index(a)]
                          \/ ~ NamedOnce(batch, a) /\ tree'[a] = TreeOf(batch)[a]
                    /\ \A a \in Addresses : ~ HasAccount(a) => tree'[a] = ZeroLeaf)
  <1>1. \A a : (HasAccount(a)' <=> HasAccount(a)) /\ Index(a)' = Index(a)
    BY DEF HasAccount, Index, Places
  <1>2. TreeOf(batch)' = TreeOf(batch)
    BY DEF TreeOf, Places
  <1>3. \A a : NamedOnce(batch, a)' <=> NamedOnce(batch, a)
    BY DEF NamedOnce, Places
  <1> QED
    BY <1>1, <1>2, <1>3 DEF TreeHoldsAccounts

\* The tree that is rebuilt holds the leaves of the batch.
LEMMA TreeOfHolds ==
    ASSUME NEW b \in Batches
    PROVE  /\ TreeOf(b) \in Tree
           /\ \A a \in Addresses : Places(b, a) # {} =>
                 /\ Max(Places(b, a)) \in DOMAIN b.addresses
                 /\ b.addresses[Max(Places(b, a))] = a
                 /\ TreeOf(b)[a] = b.leafData[Max(Places(b, a))]
           /\ \A a \in Addresses : Places(b, a) = {} => TreeOf(b)[a] = ZeroLeaf
  <1>1. \A i \in DOMAIN b.addresses : b.leafData[i] \in LeafData
    BY BatchFields
  <1>2. ZeroLeaf \in LeafData
    BY GuestAssumption DEF ZeroLeaf, LeafData
  <1>3. \A a \in Addresses : Places(b, a) # {} =>
           Max(Places(b, a)) \in DOMAIN b.addresses /\ b.addresses[Max(Places(b, a))] = a
    <2>1. \A a \in Addresses : Places(b, a) # {} => Max(Places(b, a)) \in Places(b, a)
      BY PlacesHaveEnds
    <2> QED
      BY <2>1 DEF Places
  <1>4. /\ \A a \in Addresses : Places(b, a) # {} => TreeOf(b)[a] = b.leafData[Max(Places(b, a))]
        /\ \A a \in Addresses : Places(b, a) = {} => TreeOf(b)[a] = ZeroLeaf
    BY DEF TreeOf
  <1>5. \A a \in Addresses : TreeOf(b)[a] \in LeafData
    BY <1>1, <1>2, <1>3, <1>4
  <1>6. TreeOf(b) \in Tree
    BY <1>5 DEF TreeOf, Tree
  <1> QED
    BY <1>3, <1>4, <1>6

LEMMA Wraps == \A n \in Nat : n % Modulus \in 0 .. Modulus - 1 /\ (n < Modulus => n % Modulus = n)
  BY GuestAssumption

LEMMA LeafNumbers ==
    /\ \A leaf \in LeafData : /\ leaf.balance \in Nat /\ leaf.balance < Modulus
                              /\ leaf.nonce \in Nat /\ leaf.nonce < Modulus
    /\ \A tx \in Transaction : /\ tx.amount \in Nat /\ tx.nonce \in Nat
                                /\ tx.from \in Addresses /\ tx.to \in Addresses
    /\ \A d \in DepositInfo : d.amount \in Nat /\ d.user \in Addresses
  BY GuestAssumption DEF LeafData, Transaction, DepositInfo

\* The nonce w of an account that began at l, after t of len transactions.
LEMMA NonceRoom ==
    \A w, l, t, len, m \in Nat : l + len < m /\ w <= l + t /\ t < len => w + 1 < m
  OBVIOUS

LEMMA NonceStep ==
    \A w, v, l, t \in Nat : w <= l + t /\ v <= w + 1 => v <= l + (t + 1)
  OBVIOUS

\* While transactions are left, no nonce is the largest number.
LEMMA NonceFits ==
    ASSUME GuestInv, pc = "transactions", transactionsProcessed < Len(batch.transactions),
           NEW i \in DOMAIN batch.addresses
    PROVE  (workingAccounts[i].nonce + 1) % Modulus = workingAccounts[i].nonce + 1
  <1> USE DEF GuestInv
  <1>1. /\ batch \in Batches /\ transactionsProcessed \in 0 .. Len(batch.transactions)
        /\ workingAccounts \in Seq(LeafData) /\ Len(workingAccounts) = Len(batch.addresses)
    BY DEF Typed, Lengths
  <1>2. /\ DOMAIN batch.addresses = 1 .. Len(batch.addresses) /\ i \in DOMAIN batch.leafData
        /\ batch.leafData \in Seq(LeafData) /\ Len(batch.transactions) \in Nat
    BY <1>1, BatchFields
  <1>3. workingAccounts[i] \in LeafData /\ batch.leafData[i] \in LeafData
    BY <1>1, <1>2
  <1>4. /\ workingAccounts[i].nonce \in Nat /\ batch.leafData[i].nonce \in Nat
        /\ transactionsProcessed \in Nat /\ Modulus \in Nat
    BY <1>1, <1>2, <1>3, LeafNumbers, GuestAssumption
  <1>5. batch.leafData[i].nonce + Len(batch.transactions) < Modulus
    BY <1>1, <1>2, NonceAssumption
  <1>6. workingAccounts[i].nonce <= batch.leafData[i].nonce + transactionsProcessed
    BY DEF NoncesGrow
  <1>7. workingAccounts[i].nonce + 1 < Modulus
    BY <1>2, <1>4, <1>5, <1>6, NonceRoom
  <1>8. workingAccounts[i].nonce + 1 \in Nat
    BY <1>4
  <1> QED
    BY <1>7, <1>8, Wraps

---------------------------------------------------------------------------
(* The two updates.                                                        *)

\* A deposit changes a balance, in both copies.
LEMMA CreditKeeps ==
    ASSUME GuestInv, CreditDeposit
    PROVE  GuestInv'
  <1> USE DEF GuestInv
  <1> DEFINE d == batch.deposits[credited + 1]
  <1> DEFINE i == Index(d.user)
  <1> DEFINE w == [workingAccounts[i] EXCEPT !.balance = (workingAccounts[i].balance + d.amount) % Modulus]
  <1>1. /\ pc = "deposits" /\ pc' = pc /\ batch' = batch
        /\ credited < Len(batch.deposits) /\ credited' = credited + 1
        /\ HasAccount(d.user)
        /\ workingAccounts' = [workingAccounts EXCEPT ![i] = w]
        /\ tree' = [tree EXCEPT ![d.user] = workingAccounts'[i]]
        /\ UNCHANGED <<depositsProcessed, transactionsProcessed, journal>>
    BY DEF CreditDeposit
  <1>2. batch \in Batches /\ credited \in 0 .. Len(batch.deposits)
    BY DEF Typed
  <1>3. i \in DOMAIN batch.addresses /\ batch.addresses[i] = d.user
    BY <1>1, <1>2, IndexFinds
  <1>4. DOMAIN batch.addresses = 1 .. Len(batch.addresses) /\ Len(batch.addresses) \in Nat
    BY <1>2, BatchFields
  <1>5. /\ workingAccounts \in Seq(LeafData)
        /\ DOMAIN workingAccounts = DOMAIN batch.addresses
    BY <1>1, <1>4 DEF Typed, Lengths
  <1>6. d \in DepositInfo
    BY <1>1, <1>2, BatchFields
  <1>7. d.user \in Addresses /\ d.amount \in Nat
    BY <1>6, LeafNumbers
  <1>8. workingAccounts[i] \in LeafData
    BY <1>3, <1>5
  <1>9. (workingAccounts[i].balance + d.amount) % Modulus \in 0 .. Modulus - 1
    <2>1. workingAccounts[i].balance + d.amount \in Nat
      BY <1>7, <1>8, LeafNumbers
    <2> QED
      BY <2>1, Wraps
  <1>10. w \in LeafData /\ w.nonce = workingAccounts[i].nonce
    BY <1>8, <1>9 DEF LeafData
  <1>11. /\ workingAccounts' \in Seq(LeafData) /\ Len(workingAccounts') = Len(workingAccounts)
         /\ workingAccounts'[i] = w
         /\ \A k \in DOMAIN batch.addresses : k # i => workingAccounts'[k] = workingAccounts[k]
    BY <1>1, <1>3, <1>5, <1>10
  <1>12. /\ tree' \in Tree /\ tree'[d.user] = w
         /\ \A a \in Addresses : a # d.user => tree'[a] = tree[a]
    BY <1>1, <1>7, <1>10, <1>11 DEF Typed, Tree
  <1> HIDE DEF w, i, d
  <1>13. Typed'
    BY <1>1, <1>2, <1>11, <1>12 DEF Typed
  <1>14. Lengths'
    BY <1>1, <1>11 DEF Lengths
  <1>15. TreeHoldsAccounts'
    <2>1. ASSUME NEW a \in Addresses, HasAccount(a)
          PROVE  \/ tree'[a] = workingAccounts'[Index(a)]
                 \/ ~ NamedOnce(batch, a) /\ tree'[a] = TreeOf(batch)[a]
      <3>1. CASE a = d.user
        BY <1>11, <1>12, <3>1 DEF i
      <3>2. CASE a # d.user
        <4>1. Index(a) \in DOMAIN batch.addresses /\ Index(a) # i
          BY <1>2, <1>3, <2>1, <3>2, IndexFinds
        <4> QED
          BY <1>1, <1>11, <1>12, <2>1, <3>2, <4>1 DEF TreeHoldsAccounts
      <3> QED
        BY <3>1, <3>2
    <2>2. \A a \in Addresses : ~ HasAccount(a) => tree'[a] = ZeroLeaf
      BY <1>1, <1>12 DEF TreeHoldsAccounts
    <2> QED
      BY <1>1, <1>11, <2>1, <2>2, SamePlaces DEF Lengths
  <1>16. \A k \in DOMAIN batch.addresses : workingAccounts'[k].nonce = workingAccounts[k].nonce
    BY <1>10, <1>11
  <1>17. NoncesGrow'
    <2>1. \A a : HasAccount(a) => Index(a) \in DOMAIN batch.addresses
      BY <1>2, IndexFinds
    <2>2. \A k \in DOMAIN batch.addresses :
             workingAccounts'[k].nonce <= batch.leafData[k].nonce + transactionsProcessed
      BY <1>1, <1>16 DEF NoncesGrow
    <2>3. \A j \in 1 .. transactionsProcessed :
             /\ HasAccount(batch.transactions[j].from)
             /\ batch.transactions[j].nonce
                   < workingAccounts'[Index(batch.transactions[j].from)].nonce
      BY <1>1, <1>16, <2>1 DEF NoncesGrow
    <2> QED
      BY <1>1, <2>2, <2>3 DEF NoncesGrow, HasAccount, Index, Places
  <1>18. NoReplay' /\ Stages' /\ SuccessIsComplete'
    BY <1>1 DEF NoReplay, Stages, SuccessIsComplete
  <1> QED
    BY <1>13, <1>14, <1>15, <1>17, <1>18

\* What a valid transfer does to the accounts, at the places of its sender and
\* its receiver.
LEMMA AppliedDoes ==
    ASSUME batch \in Batches, workingAccounts \in Seq(LeafData),
           Len(workingAccounts) = Len(batch.addresses),
           NEW tx \in Transaction, HasAccount(tx.from), HasAccount(tx.to), Valid(tx)
    PROVE  /\ Applied(tx) \in Seq(LeafData)
           /\ Len(Applied(tx)) = Len(workingAccounts)
           /\ Applied(tx)[Index(tx.from)].nonce
                 = (workingAccounts[Index(tx.from)].nonce + 1) % Modulus
           /\ \A k \in DOMAIN batch.addresses : k # Index(tx.from) =>
                 Applied(tx)[k].nonce = workingAccounts[k].nonce
           /\ \A k \in DOMAIN batch.addresses :
                 k \notin {Index(tx.from), Index(tx.to)} => Applied(tx)[k] = workingAccounts[k]
  <1> DEFINE f == Index(tx.from)
  <1> DEFINE t == Index(tx.to)
  <1> DEFINE W == workingAccounts
  <1>1. /\ f \in DOMAIN batch.addresses /\ t \in DOMAIN batch.addresses
        /\ tx.from # tx.to => f # t
    BY IndexFinds
  <1>2. DOMAIN W = DOMAIN batch.addresses
    BY BatchFields
  <1>3. W[f] \in LeafData /\ W[t] \in LeafData
    BY <1>1, <1>2
  <1>4. /\ W[f].balance \in Nat /\ W[f].nonce \in Nat /\ W[t].balance \in Nat
        /\ W[f].balance < Modulus /\ tx.amount \in Nat /\ W[f].balance >= tx.amount
    BY <1>3, LeafNumbers DEF Valid
  <1>5. /\ (W[f].nonce + 1) % Modulus \in 0 .. Modulus - 1
        /\ (W[t].balance + tx.amount) % Modulus \in 0 .. Modulus - 1
        /\ W[f].balance - tx.amount \in 0 .. Modulus - 1
    <2>1. W[f].nonce + 1 \in Nat /\ W[t].balance + tx.amount \in Nat
      BY <1>4
    <2>2. /\ (W[f].nonce + 1) % Modulus \in 0 .. Modulus - 1
          /\ (W[t].balance + tx.amount) % Modulus \in 0 .. Modulus - 1
      BY <2>1, Wraps
    <2>3. W[f].balance - tx.amount \in 0 .. Modulus - 1
      BY <1>4, GuestAssumption
    <2> QED
      BY <2>2, <2>3
  <1>6. CASE tx.from = tx.to
    <2> DEFINE x == [W[f] EXCEPT !.nonce = (W[f].nonce + 1) % Modulus]
    <2>1. Applied(tx) = [W EXCEPT ![f] = x]
      BY <1>6 DEF Applied
    <2>2. x \in LeafData /\ x.nonce = (W[f].nonce + 1) % Modulus
      BY <1>3, <1>5 DEF LeafData
    <2> HIDE DEF x
    <2>3. [W EXCEPT ![f] = x] \in Seq(LeafData) /\ Len([W EXCEPT ![f] = x]) = Len(W)
      BY <1>1, <1>2, <2>2
    <2>4. /\ Applied(tx)[f] = x
          /\ \A k \in DOMAIN batch.addresses : k # f => Applied(tx)[k] = W[k]
      BY <1>1, <1>2, <2>1
    <2> QED
      BY <2>1, <2>2, <2>3, <2>4
  <1>7. CASE tx.from # tx.to
    <2> DEFINE x == [balance |-> W[f].balance - tx.amount, nonce |-> (W[f].nonce + 1) % Modulus]
    <2> DEFINE y == [W[t] EXCEPT !.balance = (W[t].balance + tx.amount) % Modulus]
    <2>1. Applied(tx) = [[W EXCEPT ![f] = x] EXCEPT ![t] = y]
      BY <1>1, <1>2, <1>7 DEF Applied
    <2>2. x \in LeafData /\ x.nonce = (W[f].nonce + 1) % Modulus
      BY <1>5 DEF LeafData
    <2>3. y \in LeafData /\ y.nonce = W[t].nonce
      BY <1>3, <1>5 DEF LeafData
    <2>4. f # t
      BY <1>1, <1>7
    <2> HIDE DEF x, y
    <2>5. [W EXCEPT ![f] = x] \in Seq(LeafData) /\ Len([W EXCEPT ![f] = x]) = Len(W)
      BY <1>1, <1>2, <2>2
    <2>6. Applied(tx) \in Seq(LeafData) /\ Len(Applied(tx)) = Len(W)
      BY <1>1, <1>2, <2>1, <2>3, <2>5
    <2>7. /\ Applied(tx)[f] = x /\ Applied(tx)[t] = y
          /\ \A k \in DOMAIN batch.addresses : k \notin {f, t} => Applied(tx)[k] = W[k]
      BY <1>1, <1>2, <2>1, <2>4
    <2> QED
      BY <2>2, <2>3, <2>6, <2>7
  <1> QED
    BY <1>6, <1>7

\* A transfer moves the two accounts, in both copies, and uses a nonce.
LEMMA ApplyKeeps ==
    ASSUME GuestInv, ApplyTransaction
    PROVE  GuestInv'
  <1> USE DEF GuestInv
  <1> DEFINE n == transactionsProcessed + 1
  <1> DEFINE tx == batch.transactions[n]
  <1> DEFINE f == Index(tx.from)
  <1> DEFINE leaves == UpdatedLeaves(tx.from, tx.to)
  <1>1. /\ pc = "transactions" /\ pc' = pc /\ batch' = batch
        /\ transactionsProcessed < Len(batch.transactions) /\ transactionsProcessed' = n
        /\ HasAccount(tx.from) /\ HasAccount(tx.to) /\ Valid(tx)
        /\ workingAccounts' = Applied(tx)
        /\ tree' = [a \in Addresses |-> IF a \in DOMAIN leaves THEN leaves[a] ELSE tree[a]]
        /\ UNCHANGED <<depositsProcessed, credited, journal>>
    BY DEF ApplyTransaction
  <1>2. /\ batch \in Batches /\ transactionsProcessed \in 0 .. Len(batch.transactions)
        /\ workingAccounts \in Seq(LeafData) /\ Len(workingAccounts) = Len(batch.addresses)
    BY <1>1 DEF Typed, Lengths
  <1>3. /\ DOMAIN batch.addresses = 1 .. Len(batch.addresses) /\ Len(batch.addresses) \in Nat
        /\ DOMAIN batch.leafData = DOMAIN batch.addresses /\ batch.leafData \in Seq(LeafData)
        /\ Len(batch.transactions) \in Nat
        /\ \A k \in DOMAIN batch.addresses : batch.addresses[k] \in Addresses
    BY <1>2, BatchFields
  <1>4. n \in Nat /\ n \in 1 .. Len(batch.transactions) /\ tx \in Transaction
    BY <1>1, <1>2, BatchFields
  <1>5. /\ f \in DOMAIN batch.addresses /\ batch.addresses[f] = tx.from
        /\ Index(tx.to) \in DOMAIN batch.addresses /\ batch.addresses[Index(tx.to)] = tx.to
        /\ \A a : HasAccount(a) =>
              Index(a) \in DOMAIN batch.addresses /\ batch.addresses[Index(a)] = a
    BY <1>1, <1>2, IndexFinds
  <1>6. /\ workingAccounts' \in Seq(LeafData) /\ Len(workingAccounts') = Len(batch.addresses)
        /\ workingAccounts'[f].nonce = (workingAccounts[f].nonce + 1) % Modulus
        /\ \A k \in DOMAIN batch.addresses : k # f =>
              workingAccounts'[k].nonce = workingAccounts[k].nonce
        /\ \A k \in DOMAIN batch.addresses :
              k \notin {f, Index(tx.to)} => workingAccounts'[k] = workingAccounts[k]
    BY <1>1, <1>2, <1>4, AppliedDoes
  <1>7. /\ DOMAIN leaves = {tx.from, tx.to}
        /\ \A a \in {tx.from, tx.to} : leaves[a] = workingAccounts'[Index(a)]
    BY DEF UpdatedLeaves
  <1>8. /\ DOMAIN workingAccounts' = DOMAIN batch.addresses
        /\ \A k \in DOMAIN batch.addresses : workingAccounts'[k] \in LeafData
    BY <1>3, <1>6
  <1>9. tree' \in Tree
    BY <1>1, <1>5, <1>7, <1>8 DEF Typed, Tree
  <1>10. /\ \A a \in {tx.from, tx.to} \cap Addresses : tree'[a] = workingAccounts'[Index(a)]
         /\ \A a \in Addresses : a \notin {tx.from, tx.to} => tree'[a] = tree[a]
    BY <1>1, <1>7
  <1>11. Typed'
    BY <1>1, <1>2, <1>4, <1>6, <1>9 DEF Typed
  <1>12. Lengths'
    BY <1>1, <1>6 DEF Lengths
  <1>13. TreeHoldsAccounts'
    <2>1. ASSUME NEW a \in Addresses, HasAccount(a)
          PROVE  \/ tree'[a] = workingAccounts'[Index(a)]
                 \/ ~ NamedOnce(batch, a) /\ tree'[a] = TreeOf(batch)[a]
      <3>1. CASE a \in {tx.from, tx.to}
        BY <1>10, <3>1
      <3>2. CASE a \notin {tx.from, tx.to}
        <4>1. Index(a) \in DOMAIN batch.addresses /\ Index(a) \notin {f, Index(tx.to)}
          BY <1>5, <2>1, <3>2
        <4>2. tree'[a] = tree[a] /\ workingAccounts'[Index(a)] = workingAccounts[Index(a)]
          BY <1>6, <1>10, <3>2, <4>1
        <4> QED
          BY <1>1, <2>1, <4>2 DEF TreeHoldsAccounts
      <3> QED
        BY <3>1, <3>2
    <2>2. \A a \in Addresses : ~ HasAccount(a) => tree'[a] = ZeroLeaf
      BY <1>1, <1>10 DEF TreeHoldsAccounts
    <2>3. batch' = batch /\ Len(workingAccounts') = Len(batch.addresses)
      BY <1>1, <1>6
    <2> QED
      BY <2>1, <2>2, <2>3, SamePlaces
  <1>14. /\ workingAccounts[f].nonce \in Nat /\ workingAccounts[f].nonce = tx.nonce
         /\ \A k \in DOMAIN batch.addresses :
               workingAccounts[k].nonce \in Nat /\ batch.leafData[k].nonce \in Nat
    <2>1. \A k \in DOMAIN batch.addresses :
             workingAccounts[k] \in LeafData /\ batch.leafData[k] \in LeafData
      BY <1>2, <1>3
    <2>2. workingAccounts[f].nonce = tx.nonce
      BY <1>1 DEF Valid
    <2> QED
      BY <1>5, <2>1, <2>2, LeafNumbers
  <1>15. workingAccounts'[f].nonce = tx.nonce + 1
    <2>1. (workingAccounts[f].nonce + 1) % Modulus = workingAccounts[f].nonce + 1
      BY <1>1, <1>5, NonceFits
    <2> QED
      BY <1>6, <1>14, <2>1
  <1>16. \A k \in DOMAIN batch.addresses :
            /\ workingAccounts'[k].nonce \in Nat
            /\ workingAccounts[k].nonce <= workingAccounts'[k].nonce
            /\ workingAccounts'[k].nonce <= workingAccounts[k].nonce + 1
    BY <1>6, <1>14, <1>15
  <1>17. \A j \in 1 .. transactionsProcessed :
            /\ HasAccount(batch.transactions[j].from)
            /\ batch.transactions[j].nonce
                  < workingAccounts[Index(batch.transactions[j].from)].nonce
            /\ batch.transactions[j].nonce \in Nat
    <2>1. \A j \in 1 .. transactionsProcessed : batch.transactions[j] \in Transaction
      BY <1>2, BatchFields
    <2> QED
      BY <1>1, <2>1, LeafNumbers DEF NoncesGrow
  <1> HIDE DEF tx, f, leaves
  <1>18. NoncesGrow'
    <2>1. \A k \in DOMAIN batch.addresses :
             workingAccounts'[k].nonce <= batch.leafData[k].nonce + n
      <3> SUFFICES ASSUME NEW k \in DOMAIN batch.addresses
                   PROVE  workingAccounts'[k].nonce <= batch.leafData[k].nonce + n
        OBVIOUS
      <3>1. workingAccounts[k].nonce <= batch.leafData[k].nonce + transactionsProcessed
        BY <1>1 DEF NoncesGrow
      <3>2. transactionsProcessed \in Nat
        BY <1>2, <1>3
      <3> QED
        BY <1>14, <1>16, <3>1, <3>2, NonceStep
    <2>2. ASSUME NEW j \in 1 .. n
          PROVE  /\ HasAccount(batch.transactions[j].from)
                 /\ batch.transactions[j].nonce
                       < workingAccounts'[Index(batch.transactions[j].from)].nonce
      <3>1. CASE j = n
        BY <1>1, <1>14, <1>15, <3>1 DEF tx, f
      <3>2. CASE j \in 1 .. transactionsProcessed
        BY <1>5, <1>14, <1>16, <1>17, <3>2
      <3> QED
        BY <1>2, <3>1, <3>2
    <2> QED
      BY <1>1, <2>1, <2>2 DEF NoncesGrow, HasAccount, Index, Places
  <1>19. NoReplay'
    <2>1. \A j \in 1 .. transactionsProcessed :
             batch.transactions[j].from = tx.from => batch.transactions[j].nonce < tx.nonce
      BY <1>14, <1>17 DEF f
    <2>2. \A j \in 1 .. transactionsProcessed :
             batch.transactions[j].from = tx.from => batch.transactions[j].nonce # tx.nonce
      BY <1>14, <1>17, <2>1
    <2>3. \A j \in 1 .. n : j = n \/ j \in 1 .. transactionsProcessed
      BY <1>2
    <2>4. \A j, k \in 1 .. n :
             j # k /\ batch.transactions[j].from = batch.transactions[k].from
                => batch.transactions[j].nonce # batch.transactions[k].nonce
      BY <2>2, <2>3 DEF NoReplay, tx
    <2> QED
      BY <1>1, <2>4 DEF NoReplay
  <1>20. Stages' /\ SuccessIsComplete'
    BY <1>1 DEF Stages, SuccessIsComplete
  <1> QED
    BY <1>11, <1>12, <1>13, <1>18, <1>19, <1>20

---------------------------------------------------------------------------
(* The invariant.                                                          *)

LEMMA GuestInvInit == Init => GuestInv
  <1> SUFFICES ASSUME Init PROVE GuestInv
    OBVIOUS
  <1>1. Len(batch.deposits) \in Nat /\ Len(batch.transactions) \in Nat
    BY BatchFields DEF Init
  <1>2. EmptyTree \in Tree
    BY GuestAssumption DEF EmptyTree, Tree, ZeroLeaf, LeafData
  <1>3. Typed
    BY <1>1, <1>2 DEF Init, Typed
  <1> QED
    BY <1>3 DEF Init, GuestInv, Lengths, TreeHoldsAccounts, NoncesGrow, NoReplay, Stages,
                SuccessIsComplete

LEMMA LoadKeeps == ASSUME GuestInv, Load PROVE GuestInv'
  <1> USE DEF GuestInv
  <1>1. /\ pc = "load" /\ pc' = "deposits" /\ tree' = TreeOf(batch) /\ batch' = batch
        /\ workingAccounts' = batch.leafData
        /\ UNCHANGED <<depositsProcessed, credited, transactionsProcessed, journal>>
        /\ transactionsProcessed = 0
    BY DEF Load, Stages
  <1>2. batch \in Batches
    BY DEF Typed
  <1>3. /\ batch.leafData \in Seq(LeafData) /\ Len(batch.leafData) = Len(batch.addresses)
        /\ DOMAIN batch.leafData = DOMAIN batch.addresses
        /\ \A i \in DOMAIN batch.leafData : batch.leafData[i] \in LeafData
    BY <1>2, BatchFields
  <1>4. Typed'
    BY <1>1, <1>2, <1>3, TreeOfHolds DEF Typed
  <1>5. Lengths' /\ TreeHoldsAccounts'
    <2>1. \A a \in Addresses : HasAccount(a) =>
             \/ TreeOf(batch)[a] = batch.leafData[Index(a)]
             \/ ~ NamedOnce(batch, a)
      BY <1>2, IndexFinds, TreeOfHolds DEF HasAccount
    <2>2. \A a \in Addresses : ~ HasAccount(a) => TreeOf(batch)[a] = ZeroLeaf
      BY <1>2, TreeOfHolds DEF HasAccount
    <2> QED
      BY <1>1, <1>3, <2>1, <2>2, SamePlaces DEF Lengths
  <1>6. NoncesGrow'
    BY <1>1, <1>3, GuestAssumption DEF NoncesGrow, LeafData
  <1>7. NoReplay' /\ Stages' /\ SuccessIsComplete'
    BY <1>1 DEF NoReplay, Stages, SuccessIsComplete
  <1> QED
    BY <1>4, <1>5, <1>6, <1>7

\* A step that leaves the accounts alone.
LEMMA IdleKeeps ==
    ASSUME GuestInv, pc # "load", pc' # "load", Stages', SuccessIsComplete',
           pc' \in {"deposits", "transactions", "commit", "done"},
           depositsProcessed' \in BOOLEAN,
           UNCHANGED <<batch, tree, workingAccounts, credited, transactionsProcessed>>
    PROVE  GuestInv'
  <1>1. TreeHoldsAccounts'
    BY SamePlaces DEF GuestInv, TreeHoldsAccounts
  <1>2. NoncesGrow'
    BY DEF GuestInv, NoncesGrow, HasAccount, Index, Places
  <1> QED
    BY <1>1, <1>2 DEF GuestInv, Typed, Lengths, NoReplay

LEMMA CommitKeeps == ASSUME GuestInv, Commit PROVE GuestInv'
  <1> USE DEF GuestInv
  <1>1. /\ pc = "commit" /\ pc' = "done"
        /\ UNCHANGED <<batch, tree, workingAccounts, depositsProcessed, credited,
                       transactionsProcessed>>
        /\ journal' = <<[success |-> Success, oldRoot |-> TreeOf(batch), newRoot |-> tree,
                         badgeId |-> batch.badgeId, transactions |-> transactionsProcessed,
                         deposits |-> credited]>>
    BY DEF Commit
  <1>2. Stages'
    BY <1>1 DEF Stages
  <1>3. Success => /\ credited = Len(batch.deposits)
                   /\ transactionsProcessed = Len(batch.transactions)
                   /\ \A k \in DOMAIN batch.transactions : batch.transactions[k].signed
                   /\ TreeOf(batch) = batch.oldRoot
                   /\ tree = batch.newRoot
    BY <1>1 DEF Success, Stages, AllProcessed, SignaturesVerified, Verified
  <1>4. DOMAIN journal' = {1}
    BY <1>1
  <1>5. /\ journal'[1].success = Success /\ journal'[1].deposits = credited
        /\ journal'[1].transactions = transactionsProcessed
        /\ journal'[1].oldRoot = TreeOf(batch) /\ journal'[1].newRoot = tree
    BY <1>1
  <1>6. SuccessIsComplete'
    BY <1>1, <1>3, <1>4, <1>5 DEF SuccessIsComplete
  <1> QED
    BY <1>1, <1>2, <1>6, IdleKeeps DEF Typed

LEMMA GuestInvNext == GuestInv /\ [Next]_vars => GuestInv'
  <1> SUFFICES ASSUME GuestInv, [Next]_vars PROVE GuestInv'
    OBVIOUS
  <1>1. CASE DepositWithoutAccount
    BY <1>1, IdleKeeps
    DEF DepositWithoutAccount, StartTransactions, GuestInv, Stages, SuccessIsComplete
  <1>2. CASE DepositsDone
    BY <1>2, IdleKeeps
    DEF DepositsDone, StartTransactions, GuestInv, Stages, SuccessIsComplete, Typed
  <1>3. CASE TransactionsEnd
    BY <1>3, IdleKeeps DEF TransactionsEnd, GuestInv, Stages, SuccessIsComplete, Typed
  <1>4. CASE Done \/ UNCHANGED vars
    <2>1. UNCHANGED vars
      BY <1>4 DEF Done
    <2>2. Typed' /\ Lengths' /\ Stages'
      BY <2>1 DEF vars, GuestInv, Typed, Lengths, Stages
    <2>3. TreeHoldsAccounts' /\ NoncesGrow'
      <3>1. TreeHoldsAccounts'
        BY <2>1, SamePlaces DEF vars, GuestInv, TreeHoldsAccounts
      <3>2. NoncesGrow'
        BY <2>1 DEF vars, GuestInv, NoncesGrow, HasAccount, Index, Places
      <3> QED
        BY <3>1, <3>2
    <2>4. NoReplay' /\ SuccessIsComplete'
      BY <2>1 DEF vars, GuestInv, NoReplay, SuccessIsComplete
    <2> QED
      BY <2>2, <2>3, <2>4 DEF GuestInv
  <1> QED
    BY <1>1, <1>2, <1>3, <1>4, LoadKeeps, CreditKeeps, ApplyKeeps, CommitKeeps DEF Next

LEMMA GuestInvHolds == Spec => []GuestInv
  BY GuestInvInit, GuestInvNext, PTL DEF Spec

---------------------------------------------------------------------------
(* The money.                                                              *)

\* A tree of unbounded numbers: an account of the ledger for each address.
NatTree == [Addresses -> L!Account]

LEMMA TreeIsNat == Tree \subseteq NatTree
  <1>1. \A leaf \in LeafData : leaf \in L!Account
    BY GuestAssumption DEF LeafData, L!Account
  <1> QED
    BY <1>1 DEF Tree, NatTree

LEMMA BalanceType ==
    ASSUME NEW t \in NatTree
    PROVE  /\ \A a \in Addresses : /\ t[a].balance \in Nat /\ t[a].nonce \in Nat
                                   /\ BalanceOf(t)[a] = t[a].balance
                                   /\ BalanceOf(t)[a] <= Balances(t)
           /\ Balances(t) \in Nat
  <1>1. \A a \in Addresses : t[a] \in L!Account
    BY DEF NatTree
  <1>2. \A a \in Addresses : /\ t[a].balance \in Nat /\ t[a].nonce \in Nat
                             /\ BalanceOf(t)[a] = t[a].balance
    BY <1>1 DEF BalanceOf, L!Account
  <1>3. \A a \in Addresses : BalanceOf(t)[a] \in Nat
    BY <1>2
  <1>4. Balances(t) \in Nat /\ \A a \in Addresses : BalanceOf(t)[a] <= Balances(t)
    BY <1>3, GuestAssumption, SumType, SumHasElement DEF Balances
  <1> QED
    BY <1>2, <1>4

\* A change of one balance changes the sum by as much.
LEMMA OneBalance ==
    ASSUME NEW t \in NatTree, NEW u \in NatTree, NEW a \in Addresses,
           \A b \in Addresses : b # a => u[b].balance = t[b].balance
    PROVE  Balances(u) = Balances(t) + (u[a].balance - t[a].balance)
  <1>1. \A b \in Addresses : /\ BalanceOf(t)[b] = t[b].balance /\ t[b].balance \in Nat
                             /\ BalanceOf(u)[b] = u[b].balance /\ u[b].balance \in Nat
    BY BalanceType
  <1>2. /\ \A b \in Addresses : BalanceOf(t)[b] \in Int /\ BalanceOf(u)[b] \in Int
        /\ \A b \in Addresses : b # a => BalanceOf(t)[b] = BalanceOf(u)[b]
    BY <1>1
  <1>3. Balances(u) = Balances(t) + (BalanceOf(u)[a] - BalanceOf(t)[a])
    BY <1>2, GuestAssumption, SumMoves DEF Balances
  <1> QED
    BY <1>1, <1>3

\* What a transfer does to unbounded accounts: the ledger's Pay.
Sent(t, tx) ==
    [t EXCEPT ![tx.from] = [balance |-> t[tx.from].balance - tx.amount,
                            nonce |-> t[tx.from].nonce + 1]]
Moved(t, tx) ==
    [Sent(t, tx) EXCEPT ![tx.to] = [balance |-> Sent(t, tx)[tx.to].balance + tx.amount,
                                    nonce |-> Sent(t, tx)[tx.to].nonce]]

LEMMA MovedKeepsSum ==
    ASSUME NEW t \in NatTree, NEW tx \in Transaction, tx.amount <= t[tx.from].balance
    PROVE  /\ Sent(t, tx) \in NatTree /\ Moved(t, tx) \in NatTree
           /\ Balances(Moved(t, tx)) = Balances(t)
  <1> DEFINE s == Sent(t, tx)
  <1> DEFINE m == Moved(t, tx)
  <1>1. tx.from \in Addresses /\ tx.to \in Addresses /\ tx.amount \in Nat
    BY LeafNumbers
  <1>2. t[tx.from].balance \in Nat /\ t[tx.from].nonce \in Nat /\ Balances(t) \in Nat
    BY <1>1, BalanceType
  <1>3. /\ s \in NatTree /\ s[tx.from].balance = t[tx.from].balance - tx.amount
        /\ \A b \in Addresses : b # tx.from => s[b].balance = t[b].balance
    BY <1>1, <1>2 DEF Sent, NatTree, L!Account
  <1> HIDE DEF s
  <1>4. s[tx.to].balance \in Nat /\ s[tx.to].nonce \in Nat
    BY <1>1, <1>3, BalanceType
  <1>5. /\ m \in NatTree /\ m[tx.to].balance = s[tx.to].balance + tx.amount
        /\ \A b \in Addresses : b # tx.to => m[b].balance = s[b].balance
    BY <1>1, <1>3, <1>4 DEF Moved, s, NatTree, L!Account
  <1> HIDE DEF m
  <1>6. Balances(s) = Balances(t) + (s[tx.from].balance - t[tx.from].balance)
    BY <1>1, <1>3, OneBalance
  <1>7. Balances(m) = Balances(s) + (m[tx.to].balance - s[tx.to].balance)
    BY <1>1, <1>3, <1>5, OneBalance
  <1>8. Balances(m) = Balances(t)
    BY <1>1, <1>2, <1>3, <1>4, <1>5, <1>6, <1>7
  <1> QED
    BY <1>3, <1>5, <1>8 DEF s, m

\* The tree that a batch describes holds no more than its leaves.
LEMMA OpeningBalances ==
    ASSUME NEW b \in Batches
    PROVE  /\ Balances(TreeOf(b)) \in Nat
           /\ Balances(TreeOf(b)) <= SumFunctionOnSet(LeafBalanceOf(b), DOMAIN b.leafData)
           /\ SumFunctionOnSet(LeafBalanceOf(b), DOMAIN b.leafData) \in Nat
  <1> DEFINE t == TreeOf(b)
  <1> DEFINE D == DOMAIN b.leafData
  <1> DEFINE S == {a \in Addresses : Places(b, a) # {}}
  <1> DEFINE h == [a \in S |-> Max(Places(b, a))]
  <1>1. /\ t \in Tree /\ t \in NatTree /\ D = DOMAIN b.addresses
        /\ \A a \in S : h[a] \in D /\ b.addresses[h[a]] = a /\ t[a] = b.leafData[h[a]]
        /\ \A a \in Addresses \ S : t[a] = ZeroLeaf
    BY TreeOfHolds, BatchFields, TreeIsNat
  <1>2. IsFiniteSet(D) /\ IsFiniteSet(S)
    <2>1. 1 \in Int /\ Len(b.addresses) \in Int /\ D = 1 .. Len(b.addresses)
      BY <1>1, BatchFields
    <2>2. IsFiniteSet(D)
      BY <2>1, FS_Interval
    <2>3. IsFiniteSet(S)
      BY GuestAssumption, FS_Subset
    <2> QED
      BY <2>2, <2>3
  <1>3. /\ \A a \in Addresses : BalanceOf(t)[a] = t[a].balance /\ BalanceOf(t)[a] \in Nat
        /\ Balances(t) \in Nat
    BY <1>1, BalanceType
  <1>4. \A i \in D : LeafBalanceOf(b)[i] = b.leafData[i].balance /\ LeafBalanceOf(b)[i] \in Nat
    <2>1. \A i \in D : b.leafData[i] \in LeafData
      BY BatchFields
    <2> QED
      BY <2>1, LeafNumbers DEF LeafBalanceOf
  <1>5. \A a \in S : h[a] \in D /\ b.addresses[h[a]] = a
    BY <1>1
  <1>6. \A a \in S : BalanceOf(t)[a] <= LeafBalanceOf(b)[h[a]]
    <2> SUFFICES ASSUME NEW a \in S PROVE BalanceOf(t)[a] <= LeafBalanceOf(b)[h[a]]
      OBVIOUS
    <2>1. h[a] \in D /\ t[a] = b.leafData[h[a]] /\ a \in Addresses
      BY <1>1, <1>5
    <2> HIDE DEF h, t
    <2>2. BalanceOf(t)[a] = LeafBalanceOf(b)[h[a]] /\ BalanceOf(t)[a] \in Nat
      BY <1>3, <1>4, <2>1
    <2> QED
      BY <2>2
  <1>7. \A a, c \in S : h[a] = h[c] => a = c
    BY <1>5
  <1>8. \A a \in Addresses \ S : BalanceOf(t)[a] = 0
    BY <1>1, <1>3 DEF ZeroLeaf
  <1>9. S \subseteq Addresses
    OBVIOUS
  <1> HIDE DEF S, h, D, t
  <1>10. SumFunctionOnSet(BalanceOf(t), S) <= SumFunctionOnSet(LeafBalanceOf(b), D)
    <2>1. /\ \A a \in S : BalanceOf(t)[a] \in Nat
          /\ \A a \in S : h[a] \in D /\ BalanceOf(t)[a] <= LeafBalanceOf(b)[h[a]]
          /\ \A i \in D : LeafBalanceOf(b)[i] \in Nat
      BY <1>3, <1>4, <1>5, <1>6, <1>9
    <2> QED
      BY <1>2, <1>7, <2>1, SumPlaced
  <1>11. SumFunctionOnSet(BalanceOf(t), S) = Balances(t)
    BY <1>3, <1>8, <1>9, GuestAssumption, SumOfPart DEF Balances
  <1>12. SumFunctionOnSet(LeafBalanceOf(b), D) \in Nat
    BY <1>2, <1>4, SumType
  <1> QED
    BY <1>3, <1>10, <1>11, <1>12 DEF t, D

\* One credited deposit more.
LEMMA CreditedGrows ==
    ASSUME NEW b \in Batches, NEW n \in 0 .. Len(b.deposits)
    PROVE  /\ SumFunctionOnSet(AmountOf(b), 1 .. n) \in Nat
           /\ SumFunctionOnSet(AmountOf(b), DOMAIN b.deposits) \in Nat
           /\ SumFunctionOnSet(AmountOf(b), 1 .. n)
                 <= SumFunctionOnSet(AmountOf(b), DOMAIN b.deposits)
           /\ n = 0 => SumFunctionOnSet(AmountOf(b), 1 .. n) = 0
           /\ n < Len(b.deposits) =>
                 /\ n + 1 \in 0 .. Len(b.deposits)
                 /\ SumFunctionOnSet(AmountOf(b), 1 .. (n + 1))
                       = SumFunctionOnSet(AmountOf(b), 1 .. n) + b.deposits[n + 1].amount
  <1> DEFINE D == DOMAIN b.deposits
  <1>1. D = 1 .. Len(b.deposits) /\ Len(b.deposits) \in Nat /\ \A k \in D : b.deposits[k] \in DepositInfo
    BY BatchFields
  <1>2. \A k \in D : AmountOf(b)[k] = b.deposits[k].amount /\ AmountOf(b)[k] \in Nat
    BY <1>1, LeafNumbers DEF AmountOf
  <1>3. IsFiniteSet(D)
    <2>1. 1 \in Int /\ Len(b.deposits) \in Int
      BY <1>1
    <2> QED
      BY <1>1, <2>1, FS_Interval
  <1>4. 1 .. n \subseteq D /\ IsFiniteSet(1 .. n)
    <2>1. 1 .. n \subseteq D
      BY <1>1
    <2> QED
      BY <1>3, <2>1, FS_Subset
  <1>5. /\ SumFunctionOnSet(AmountOf(b), 1 .. n) \in Nat
        /\ SumFunctionOnSet(AmountOf(b), D) \in Nat
    <2>1. \A k \in 1 .. n : AmountOf(b)[k] \in Nat
      BY <1>2, <1>4
    <2> QED
      BY <1>2, <1>3, <1>4, <2>1, SumType
  <1>6. SumFunctionOnSet(AmountOf(b), 1 .. n) <= SumFunctionOnSet(AmountOf(b), D)
    BY <1>2, <1>3, <1>4, SumOfPart
  <1>7. n = 0 => SumFunctionOnSet(AmountOf(b), 1 .. n) = 0
    <2>1. 1 .. 0 = {}
      OBVIOUS
    <2> QED
      BY <2>1, SumOfNone
  <1>8. ASSUME n < Len(b.deposits)
        PROVE  /\ n + 1 \in 0 .. Len(b.deposits)
               /\ SumFunctionOnSet(AmountOf(b), 1 .. (n + 1))
                     = SumFunctionOnSet(AmountOf(b), 1 .. n) + b.deposits[n + 1].amount
    <2>1. /\ n + 1 \in D /\ n + 1 \notin 1 .. n /\ n + 1 \in 0 .. Len(b.deposits)
          /\ 1 .. (n + 1) = (1 .. n) \cup {n + 1}
      BY <1>1, <1>8
    <2>2. \A k \in (1 .. n) \cup {n + 1} : AmountOf(b)[k] \in Int
      BY <1>2, <1>4, <2>1
    <2>3. SumFunctionOnSet(AmountOf(b), (1 .. n) \cup {n + 1})
             = SumFunctionOnSet(AmountOf(b), 1 .. n) + AmountOf(b)[n + 1]
      BY <1>4, <2>1, <2>2, SumAdds
    <2> QED
      BY <1>2, <2>1, <2>3
  <1> QED
    BY <1>5, <1>6, <1>7, <1>8

\* The money in the tree, with a deposit that is still to be credited, fits.
LEMMA TotalFits ==
    ASSUME GuestInv, Conserved, pc # "load", Regular(batch)
    PROVE  /\ tree \in NatTree /\ Balances(tree) \in Nat /\ Balances(tree) < Modulus
           /\ credited < Len(batch.deposits) =>
                 Balances(tree) + batch.deposits[credited + 1].amount < Modulus
  <1> DEFINE leaves == SumFunctionOnSet(LeafBalanceOf(batch), DOMAIN batch.leafData)
  <1> DEFINE all == SumFunctionOnSet(AmountOf(batch), DOMAIN batch.deposits)
  <1> DEFINE next == SumFunctionOnSet(AmountOf(batch), 1 .. (credited + 1))
  <1>1. batch \in Batches /\ credited \in 0 .. Len(batch.deposits) /\ tree \in NatTree
    BY TreeIsNat DEF GuestInv, Typed
  <1>2. /\ Balances(TreeOf(batch)) \in Nat /\ Balances(TreeOf(batch)) <= leaves /\ leaves \in Nat
    BY <1>1, OpeningBalances
  <1>3. /\ Credited \in Nat /\ all \in Nat /\ Credited <= all
        /\ credited < Len(batch.deposits) =>
              next \in Nat /\ next <= all /\ next = Credited + batch.deposits[credited + 1].amount
    <2>1. credited < Len(batch.deposits) => credited + 1 \in 0 .. Len(batch.deposits)
      BY <1>1, CreditedGrows
    <2> QED
      BY <1>1, <2>1, CreditedGrows DEF Credited
  <1>4. leaves + all < Modulus /\ Modulus \in Nat
    BY GuestAssumption DEF Regular, Fits
  <1>5. Balances(tree) = Balances(TreeOf(batch)) + Credited
    BY DEF Conserved
  <1>6. credited < Len(batch.deposits) => batch.deposits[credited + 1].amount \in Nat
    BY <1>1, BatchFields, LeafNumbers
  <1> HIDE DEF leaves, all, next
  <1>7. Balances(tree) \in Nat /\ Balances(tree) < Modulus
    BY <1>2, <1>3, <1>4, <1>5
  <1>8. credited < Len(batch.deposits) =>
           Balances(tree) + batch.deposits[credited + 1].amount < Modulus
    BY <1>2, <1>3, <1>4, <1>5, <1>6
  <1> QED
    BY <1>1, <1>7, <1>8

\* Where the money fits, a credit is a credit of unbounded numbers.
LEMMA CreditMoves ==
    ASSUME GuestInv, Conserved, Regular(batch), CreditDeposit,
           NEW d, d = batch.deposits[credited + 1]
    PROVE  /\ d.user \in Addresses /\ d.amount \in Nat
           /\ tree' = [tree EXCEPT ![d.user] = [balance |-> tree[d.user].balance + d.amount,
                                                nonce |-> tree[d.user].nonce]]
  <1> DEFINE i == Index(d.user)
  <1> DEFINE x == workingAccounts[i]
  <1>1. /\ pc = "deposits" /\ credited < Len(batch.deposits) /\ HasAccount(d.user)
        /\ workingAccounts' = [workingAccounts EXCEPT ![i] =
                                 [x EXCEPT !.balance = (x.balance + d.amount) % Modulus]]
        /\ tree' = [tree EXCEPT ![d.user] = workingAccounts'[i]]
    BY DEF CreditDeposit
  <1>2. batch \in Batches /\ credited \in 0 .. Len(batch.deposits)
    BY DEF GuestInv, Typed
  <1>3. d \in DepositInfo
    BY <1>1, <1>2, BatchFields
  <1>4. d.user \in Addresses /\ d.amount \in Nat
    BY <1>3, LeafNumbers
  <1>5. i \in DOMAIN batch.addresses /\ batch.addresses[i] = d.user
    BY <1>1, <1>2, IndexFinds
  <1>6. i \in DOMAIN workingAccounts /\ x \in LeafData /\ tree[d.user] = x
    BY <1>1, <1>2, <1>4, <1>5, BatchFields DEF GuestInv, Typed, Lengths, TreeHoldsAccounts, Regular
  <1>7. x.balance \in Nat /\ x.balance <= Balances(tree)
    BY <1>1, <1>4, <1>6, BalanceType, TotalFits
  <1>8. (x.balance + d.amount) % Modulus = x.balance + d.amount
    <2>1. /\ Balances(tree) + d.amount < Modulus /\ Balances(tree) \in Nat /\ Modulus \in Nat
      BY <1>1, TotalFits, GuestAssumption
    <2> HIDE DEF x
    <2>2. x.balance + d.amount \in Nat /\ x.balance + d.amount < Modulus
      BY <1>4, <1>7, <2>1
    <2> QED
      BY <2>2, Wraps
  <1>9. workingAccounts'[i] = [balance |-> x.balance + d.amount, nonce |-> x.nonce]
    BY <1>1, <1>6, <1>8 DEF LeafData
  <1> QED
    BY <1>1, <1>4, <1>6, <1>9

\* The accounts of the sender and of the receiver after a transfer.
LEMMA AppliedIs ==
    ASSUME batch \in Batches, workingAccounts \in Seq(LeafData),
           Len(workingAccounts) = Len(batch.addresses),
           NEW tx \in Transaction, HasAccount(tx.from), HasAccount(tx.to),
           NEW x, x = workingAccounts[Index(tx.from)],
           NEW y, y = workingAccounts[Index(tx.to)]
    PROVE  /\ x \in LeafData /\ y \in LeafData
           /\ tx.from = tx.to =>
                 Applied(tx)[Index(tx.from)]
                    = [balance |-> x.balance, nonce |-> (x.nonce + 1) % Modulus]
           /\ tx.from # tx.to =>
                 /\ Applied(tx)[Index(tx.from)]
                       = [balance |-> x.balance - tx.amount, nonce |-> (x.nonce + 1) % Modulus]
                 /\ Applied(tx)[Index(tx.to)]
                       = [balance |-> (y.balance + tx.amount) % Modulus, nonce |-> y.nonce]
  <1> DEFINE f == Index(tx.from)
  <1> DEFINE t == Index(tx.to)
  <1> DEFINE W == workingAccounts
  <1>1. /\ f \in DOMAIN batch.addresses /\ t \in DOMAIN batch.addresses
        /\ tx.from # tx.to => f # t
    BY IndexFinds
  <1>2. DOMAIN W = DOMAIN batch.addresses
    BY BatchFields
  <1>3. x \in LeafData /\ y \in LeafData
    BY <1>1, <1>2
  <1>4. CASE tx.from = tx.to
    <2>1. Applied(tx) = [W EXCEPT ![f] = [x EXCEPT !.nonce = (x.nonce + 1) % Modulus]]
      BY <1>4 DEF Applied
    <2> QED
      BY <1>1, <1>2, <1>3, <1>4, <2>1 DEF LeafData
  <1>5. CASE tx.from # tx.to
    <2> DEFINE v == [balance |-> x.balance - tx.amount, nonce |-> (x.nonce + 1) % Modulus]
    <2> DEFINE w == [y EXCEPT !.balance = (y.balance + tx.amount) % Modulus]
    <2>1. Applied(tx) = [[W EXCEPT ![f] = v] EXCEPT ![t] = w]
      BY <1>1, <1>2, <1>5 DEF Applied
    <2>2. w = [balance |-> (y.balance + tx.amount) % Modulus, nonce |-> y.nonce]
      BY <1>3 DEF LeafData
    <2> HIDE DEF v, w
    <2>3. Applied(tx)[f] = v /\ Applied(tx)[t] = w
      BY <1>1, <1>2, <1>5, <2>1
    <2> QED
      BY <1>3, <1>5, <2>2, <2>3 DEF v
  <1> QED
    BY <1>3, <1>4, <1>5

\* Where the money fits, a transfer is a transfer of unbounded numbers.
LEMMA TransferMoves ==
    ASSUME GuestInv, Conserved, Regular(batch), ApplyTransaction,
           NEW tx, tx = batch.transactions[transactionsProcessed + 1]
    PROVE  /\ tx \in Transaction /\ tx.amount <= tree[tx.from].balance
           /\ tree' = Moved(tree, tx)
  <1> DEFINE f == Index(tx.from)
  <1> DEFINE t == Index(tx.to)
  <1> DEFINE x == workingAccounts[f]
  <1> DEFINE y == workingAccounts[t]
  <1> DEFINE leaves == UpdatedLeaves(tx.from, tx.to)
  <1>1. /\ pc = "transactions" /\ transactionsProcessed < Len(batch.transactions)
        /\ HasAccount(tx.from) /\ HasAccount(tx.to) /\ Valid(tx)
        /\ workingAccounts' = Applied(tx)
        /\ tree' = [a \in Addresses |-> IF a \in DOMAIN leaves THEN leaves[a] ELSE tree[a]]
        /\ batch' = batch
    BY DEF ApplyTransaction
  <1>2. /\ batch \in Batches /\ transactionsProcessed \in 0 .. Len(batch.transactions)
        /\ workingAccounts \in Seq(LeafData) /\ Len(workingAccounts) = Len(batch.addresses)
    BY <1>1 DEF GuestInv, Typed, Lengths
  <1>3. tx \in Transaction
    BY <1>1, <1>2, BatchFields
  <1>4. tx.from \in Addresses /\ tx.to \in Addresses /\ tx.amount \in Nat
    BY <1>3, LeafNumbers
  <1>5. /\ f \in DOMAIN batch.addresses /\ batch.addresses[f] = tx.from
        /\ t \in DOMAIN batch.addresses /\ batch.addresses[t] = tx.to
    BY <1>1, <1>2, IndexFinds
  <1>6. tree[tx.from] = x /\ tree[tx.to] = y
    BY <1>1, <1>4 DEF GuestInv, TreeHoldsAccounts, Regular
  <1>7. tx.amount <= x.balance
    BY <1>1 DEF Valid
  <1>8. /\ x \in LeafData /\ y \in LeafData
        /\ tx.from = tx.to =>
              Applied(tx)[f] = [balance |-> x.balance, nonce |-> (x.nonce + 1) % Modulus]
        /\ tx.from # tx.to =>
              /\ Applied(tx)[f] = [balance |-> x.balance - tx.amount,
                                   nonce |-> (x.nonce + 1) % Modulus]
              /\ Applied(tx)[t] = [balance |-> (y.balance + tx.amount) % Modulus,
                                   nonce |-> y.nonce]
    BY <1>1, <1>2, <1>3, AppliedIs
  <1>9. /\ x.balance \in Nat /\ x.nonce \in Nat /\ y.balance \in Nat /\ y.nonce \in Nat
    BY <1>8, LeafNumbers
  <1>10. (x.nonce + 1) % Modulus = x.nonce + 1
    BY <1>1, <1>5, NonceFits
  <1>11. /\ DOMAIN leaves = {tx.from, tx.to}
         /\ leaves[tx.from] = Applied(tx)[f] /\ leaves[tx.to] = Applied(tx)[t]
    BY <1>1 DEF UpdatedLeaves, Index
  <1>12. tree \in NatTree /\ Balances(tree) \in Nat /\ Balances(tree) < Modulus /\ Modulus \in Nat
    BY <1>1, TotalFits, GuestAssumption
  <1>13. /\ Sent(tree, tx) = [tree EXCEPT ![tx.from] = [balance |-> x.balance - tx.amount,
                                                       nonce |-> x.nonce + 1]]
         /\ Moved(tree, tx) \in NatTree /\ Balances(Moved(tree, tx)) = Balances(tree)
    BY <1>3, <1>6, <1>7, <1>12, MovedKeepsSum DEF Sent
  <1>14. CASE tx.from = tx.to
    <2>1. Applied(tx)[f] = [balance |-> x.balance, nonce |-> x.nonce + 1]
      BY <1>8, <1>10, <1>14
    <2>2. Sent(tree, tx)[tx.to] = [balance |-> x.balance - tx.amount, nonce |-> x.nonce + 1]
      BY <1>4, <1>12, <1>13, <1>14 DEF NatTree
    <2>3. (x.balance - tx.amount) + tx.amount = x.balance
      BY <1>4, <1>9
    <2>4. Moved(tree, tx) = [Sent(tree, tx) EXCEPT ![tx.to] = [balance |-> x.balance,
                                                               nonce |-> x.nonce + 1]]
      BY <2>2, <2>3 DEF Moved
    <2>5. \A a \in Addresses : Moved(tree, tx)[a] = tree'[a]
      <3> HIDE DEF x, y, f, t, leaves
      <3>1. /\ Moved(tree, tx)[tx.from] = [balance |-> x.balance, nonce |-> x.nonce + 1]
            /\ \A a \in Addresses : a # tx.from => Moved(tree, tx)[a] = tree[a]
        BY <1>4, <1>12, <1>13, <1>14, <2>4 DEF NatTree
      <3>2. /\ tree'[tx.from] = leaves[tx.from]
            /\ \A a \in Addresses : a # tx.from => tree'[a] = tree[a]
        BY <1>1, <1>4, <1>11, <1>14
      <3> QED
        BY <1>4, <1>11, <2>1, <3>1, <3>2
    <2> QED
      BY <1>1, <1>3, <1>6, <1>7, <1>13, <2>5 DEF NatTree
  <1>15. CASE tx.from # tx.to
    <2>1. Sent(tree, tx)[tx.to] = y
      BY <1>4, <1>6, <1>12, <1>13, <1>15 DEF NatTree
    <2>2. Moved(tree, tx) = [Sent(tree, tx) EXCEPT ![tx.to] = [balance |-> y.balance + tx.amount,
                                                               nonce |-> y.nonce]]
      BY <2>1 DEF Moved
    <2>3. Moved(tree, tx)[tx.to] = [balance |-> y.balance + tx.amount, nonce |-> y.nonce]
      BY <1>4, <1>12, <1>13, <2>2 DEF NatTree
    <2>4. Moved(tree, tx)[tx.to].balance <= Balances(tree)
      BY <1>4, <1>13, BalanceType
    <2>5. (y.balance + tx.amount) % Modulus = y.balance + tx.amount
      <3>1. y.balance + tx.amount <= Balances(tree)
        BY <2>3, <2>4
      <3> HIDE DEF y
      <3>2. y.balance + tx.amount \in Nat /\ y.balance + tx.amount < Modulus
        BY <1>4, <1>9, <1>12, <3>1
      <3> QED
        BY <3>2, Wraps
    <2>6. /\ Applied(tx)[f] = [balance |-> x.balance - tx.amount, nonce |-> x.nonce + 1]
          /\ Applied(tx)[t] = [balance |-> y.balance + tx.amount, nonce |-> y.nonce]
      BY <1>8, <1>10, <1>15, <2>5
    <2> HIDE DEF x, y, f, t, leaves
    <2>7. \A a \in Addresses : Moved(tree, tx)[a] = tree'[a]
      BY <1>1, <1>4, <1>11, <1>12, <1>13, <1>15, <2>2, <2>6 DEF NatTree
    <2> QED
      BY <1>1, <1>3, <1>6, <1>7, <1>13, <2>7 DEF NatTree
  <1> QED
    BY <1>14, <1>15

\* Credits begin after the tree is loaded.
MoneyInv == Conserved /\ (pc = "load" => credited = 0)

LEMMA BatchStays == [Next]_vars => UNCHANGED <<batch, Regular(batch), TreeOf(batch), AmountOf(batch)>>
  <1> SUFFICES ASSUME [Next]_vars
               PROVE  UNCHANGED <<batch, Regular(batch), TreeOf(batch), AmountOf(batch)>>
    OBVIOUS
  <1>1. batch' = batch
    BY DEF Next, vars, Load, CreditDeposit, DepositWithoutAccount, DepositsDone, StartTransactions,
           ApplyTransaction, TransactionsEnd, Commit, Done
  <1> QED
    BY <1>1 DEF Regular, NamedOnce, Fits, LeafBalanceOf, TreeOf, Places, AmountOf

LEMMA MoneyInvNext ==
    ASSUME GuestInv, MoneyInv, [Next]_vars
    PROVE  MoneyInv'
  <1>1. UNCHANGED <<batch, Regular(batch), TreeOf(batch), AmountOf(batch)>>
    BY BatchStays
  <1>2. batch \in Batches /\ credited \in 0 .. Len(batch.deposits) /\ tree \in NatTree
    BY TreeIsNat DEF GuestInv, Typed
  <1>3. (pc = "load" => credited = 0)'
    BY DEF MoneyInv, Next, vars, Load, CreditDeposit, DepositWithoutAccount, DepositsDone,
           StartTransactions, ApplyTransaction, TransactionsEnd, Commit, Done
  <1>4. ASSUME pc' # "load", Regular(batch)
        PROVE  Balances(tree') = Balances(TreeOf(batch)) + SumFunctionOnSet(AmountOf(batch), 1 .. credited')
    <2>1. CASE Load
      <3>1. tree' = TreeOf(batch) /\ credited' = 0
        BY <2>1 DEF Load, MoneyInv
      <3>2. 0 \in 0 .. Len(batch.deposits)
        BY <1>2
      <3>3. SumFunctionOnSet(AmountOf(batch), 1 .. 0) = 0 /\ Balances(TreeOf(batch)) \in Nat
        BY <1>2, <3>2, CreditedGrows, OpeningBalances
      <3> QED
        BY <3>1, <3>3
    <2>2. CASE CreditDeposit
      <3> DEFINE d == batch.deposits[credited + 1]
      <3>1. pc # "load" /\ credited < Len(batch.deposits) /\ credited' = credited + 1
        BY <2>2 DEF CreditDeposit
      <3>2. /\ d.user \in Addresses /\ d.amount \in Nat
            /\ tree' = [tree EXCEPT ![d.user] = [balance |-> tree[d.user].balance + d.amount,
                                                 nonce |-> tree[d.user].nonce]]
        BY <1>4, <2>2, CreditMoves DEF MoneyInv
      <3>3. tree[d.user].balance \in Nat /\ tree[d.user].nonce \in Nat
        BY <1>2, <3>2, BalanceType
      <3> HIDE DEF d
      <3>4. /\ tree' \in NatTree /\ tree'[d.user].balance = tree[d.user].balance + d.amount
            /\ \A b \in Addresses : b # d.user => tree'[b].balance = tree[b].balance
        BY <1>2, <3>2, <3>3 DEF NatTree, L!Account
      <3>5. Balances(tree') = Balances(tree) + (tree'[d.user].balance - tree[d.user].balance)
        BY <1>2, <3>2, <3>4, OneBalance
      <3>6. Balances(tree) = Balances(TreeOf(batch)) + Credited
        BY <1>4, <3>1 DEF MoneyInv, Conserved
      <3>7. SumFunctionOnSet(AmountOf(batch), 1 .. (credited + 1)) = Credited + d.amount /\ Credited \in Nat
        BY <1>2, <3>1, CreditedGrows DEF Credited, d
      <3>8. Balances(TreeOf(batch)) \in Nat
        BY <1>2, OpeningBalances
      <3> QED
        BY <3>1, <3>2, <3>3, <3>4, <3>5, <3>6, <3>7, <3>8
    <2>3. CASE ApplyTransaction
      <3> DEFINE tx == batch.transactions[transactionsProcessed + 1]
      <3>1. pc # "load" /\ credited' = credited
        BY <2>3 DEF ApplyTransaction
      <3>2. tx \in Transaction /\ tx.amount <= tree[tx.from].balance /\ tree' = Moved(tree, tx)
        BY <1>4, <2>3, TransferMoves DEF MoneyInv
      <3>3. Balances(tree') = Balances(tree)
        BY <1>2, <3>2, MovedKeepsSum
      <3> QED
        BY <1>4, <3>1, <3>3 DEF MoneyInv, Conserved, Credited
    <2>4. CASE UNCHANGED <<tree, credited>> /\ pc # "load"
      BY <1>4, <2>4 DEF MoneyInv, Conserved, Credited
    <2>5. (DepositWithoutAccount \/ DepositsDone \/ TransactionsEnd \/ Commit \/ Done \/ UNCHANGED vars)
             => UNCHANGED <<tree, credited>> /\ pc # "load"
      BY <1>4 DEF DepositWithoutAccount, DepositsDone, StartTransactions, TransactionsEnd, Commit,
                  Done, vars
    <2> QED
      BY <2>1, <2>2, <2>3, <2>4, <2>5 DEF Next
  <1>5. Conserved'
    BY <1>1, <1>4 DEF Conserved, Credited, Balances, BalanceOf
  <1> QED
    BY <1>3, <1>5 DEF MoneyInv

LEMMA MoneyInvHolds == Spec => [](GuestInv /\ MoneyInv)
  <1>1. Init => MoneyInv
    BY DEF Init, MoneyInv, Conserved
  <1>2. GuestInv /\ MoneyInv /\ [Next]_vars => MoneyInv'
    BY MoneyInvNext
  <1> QED
    BY <1>1, <1>2, GuestInvHolds, PTL DEF Spec

---------------------------------------------------------------------------
(* The ledger.                                                             *)

\* The accounts of the ledger: those that the batch describes, then the tree.
account == IF pc = "load" \/ ~ Regular(batch) THEN TreeOf(batch) ELSE tree

LEMMA StepIsLedgerStep ==
    ASSUME GuestInv, MoneyInv, [Next]_vars
    PROVE  [L!LedgerNext]_account
  <1>1. UNCHANGED <<batch, Regular(batch), TreeOf(batch)>>
    BY BatchStays
  <1>2. tree \in NatTree
    BY TreeIsNat DEF GuestInv, Typed
  <1>3. CASE Load
    BY <1>1, <1>3 DEF Load, account
  <1>4. CASE CreditDeposit /\ Regular(batch)
    <2> DEFINE d == batch.deposits[credited + 1]
    <2>1. account = tree /\ account' = tree'
      BY <1>1, <1>4 DEF CreditDeposit, account
    <2>2. /\ d.user \in Addresses /\ d.amount \in Nat
          /\ tree' = [tree EXCEPT ![d.user] = [balance |-> tree[d.user].balance + d.amount,
                                               nonce |-> tree[d.user].nonce]]
      BY <1>4, CreditMoves DEF MoneyInv
    <2>3. tree[d.user].balance \in Nat /\ tree[d.user] \in L!Account
      BY <1>2, <2>2, BalanceType DEF NatTree
    <2> HIDE DEF d
    <2>4. /\ tree'[d.user].balance = tree[d.user].balance + d.amount
          /\ tree' = [tree EXCEPT ![d.user].balance = tree'[d.user].balance]
      BY <1>2, <2>2, <2>3 DEF NatTree, L!Account
    <2>5. tree'[d.user].balance \in Nat /\ tree'[d.user].balance >= tree[d.user].balance
      BY <2>2, <2>3, <2>4
    <2>6. L!Credit(d.user)
      BY <2>1, <2>4, <2>5 DEF L!Credit, account
    <2> QED
      BY <2>2, <2>6 DEF L!LedgerNext
  <1>5. CASE ApplyTransaction /\ Regular(batch)
    <2> DEFINE tx == batch.transactions[transactionsProcessed + 1]
    <2>1. account = tree /\ account' = tree'
      BY <1>1, <1>5 DEF ApplyTransaction, account
    <2>2. tx \in Transaction /\ tx.amount <= tree[tx.from].balance /\ tree' = Moved(tree, tx)
      BY <1>5, TransferMoves DEF MoneyInv
    <2> HIDE DEF tx
    <2>3. tx.from \in Addresses /\ tx.to \in Addresses /\ tx.amount \in Nat
      BY <2>2, LeafNumbers
    <2>4. tree[tx.from] \in L!Account /\ tree[tx.from].balance \in Nat /\ Sent(tree, tx) \in NatTree
      BY <1>2, <2>2, <2>3, BalanceType, MovedKeepsSum DEF NatTree
    <2>5. Sent(tree, tx) = [tree EXCEPT ![tx.from].balance = @ - tx.amount,
                                        ![tx.from].nonce = @ + 1]
      BY <1>2, <2>3, <2>4 DEF Sent, NatTree, L!Account
    <2>6. Sent(tree, tx)[tx.to] \in L!Account
      BY <2>3, <2>4 DEF NatTree
    <2>7. Moved(tree, tx) = [Sent(tree, tx) EXCEPT ![tx.to].balance = @ + tx.amount]
      BY <2>3, <2>4, <2>6 DEF Moved, NatTree, L!Account
    <2>8. tx.amount \in 0 .. tree[tx.from].balance
      BY <2>2, <2>3, <2>4
    <2>9. L!Pay(tx.from, tx.to)
      BY <2>1, <2>2, <2>5, <2>7, <2>8 DEF L!Pay, account
    <2> QED
      BY <2>3, <2>9 DEF L!LedgerNext
  <1>6. (DepositWithoutAccount \/ DepositsDone \/ TransactionsEnd \/ Commit \/ Done \/ UNCHANGED vars)
           => UNCHANGED account
    BY <1>1 DEF DepositWithoutAccount, DepositsDone, StartTransactions, TransactionsEnd, Commit,
                Done, vars, account
  <1>7. CASE ~ Regular(batch)
    BY <1>1, <1>7 DEF account
  <1> QED
    BY <1>3, <1>4, <1>5, <1>6, <1>7 DEF Next

---------------------------------------------------------------------------
(* What follows.                                                           *)

\* The working accounts keep their width, and no loop passes its last element.
THEOREM TypeCorrect == Spec => []TypeOK
  <1>1. GuestInv => TypeOK
    BY GuestAssumption DEF GuestInv, Typed, TypeOK
  <1> QED
    BY <1>1, GuestInvHolds, PTL

\* The root that the guest commits is the root of the accounts it checked, except
\* for an account that the batch names twice and that nothing has touched.
THEOREM CommittedStateIsChecked == Spec => []TreeHoldsAccounts
  <1>1. GuestInv => TreeHoldsAccounts
    BY DEF GuestInv
  <1> QED
    BY <1>1, GuestInvHolds, PTL

\* The guest applies no two transactions of one sender with one nonce.
THEOREM NoncesAreUsedOnce == Spec => []NoReplay
  <1>1. GuestInv => NoReplay
    BY DEF GuestInv
  <1> QED
    BY <1>1, GuestInvHolds, PTL

\* success in the journal stands for the whole batch.
THEOREM SuccessCoversBatch == Spec => []SuccessIsComplete
  <1>1. GuestInv => SuccessIsComplete
    BY DEF GuestInv
  <1> QED
    BY <1>1, GuestInvHolds, PTL

\* On a regular batch the guest neither makes nor loses money: the tree whose root
\* it commits holds the old balances and the credited deposits.
THEOREM MoneyIsConserved == Spec => []Conserved
  <1>1. MoneyInv => Conserved
    BY DEF MoneyInv
  <1> QED
    BY <1>1, MoneyInvHolds, PTL

\* On a batch that names each account once and whose money fits into a balance the
\* guest is the ledger: every step credits one account, or is a transfer that its
\* sender can pay.
THEOREM GuestIsLedger == Spec => ImplementsLedger
  <1>1. Init => L!LedgerInit
    <2> SUFFICES ASSUME Init PROVE L!LedgerInit
      OBVIOUS
    <2>1. TreeOf(batch) \in NatTree
      BY TreeOfHolds, TreeIsNat DEF Init
    <2> QED
      BY <2>1 DEF Init, L!LedgerInit, NatTree
  <1>2. GuestInv /\ MoneyInv /\ [Next]_vars => [L!LedgerNext]_account
    BY StepIsLedgerStep
  <1> QED
    BY <1>1, <1>2, MoneyInvHolds, PTL DEF Spec, ImplementsLedger, L!LedgerSpec, account
=============================================================================
