------------------------- MODULE DepositManagerProofs -------------------------
(***************************************************************************)
(* What the storage of DepositManager keeps, for all users, amounts and    *)
(* timeouts, all nestings of forced withdrawals and all reverts.           *)
(*                                                                         *)
(* The inductive invariant says of every storage that a revert may bring   *)
(* back what it says of the present one; without that, a revert could      *)
(* undo the properties.                                                    *)
(***************************************************************************)
EXTENDS DepositManager, Sums

Good(s) == OneOutcome(s) /\ PaidOnce(s) /\ Covered(s)

ManagerInv ==
    /\ Typed
    /\ Good(store)
    /\ \A k \in DOMAIN calls : Good(calls[k])

---------------------------------------------------------------------------
(* What is owed.                                                           *)

LEMMA Owed ==
    ASSUME NEW s \in Storage
    PROVE  /\ IsFiniteSet(Unpaid(s)) /\ Unpaid(s) \subseteq Ids(s)
           /\ Ids(s) = 1 .. Len(s.deposits) /\ Len(s.deposits) \in Nat
           /\ \A id \in Ids(s) : AmountOf(s)[id] = s.deposits[id].amount /\ AmountOf(s)[id] \in Nat
           /\ SumFunctionOnSet(AmountOf(s), Unpaid(s)) \in Nat
  <1>1. /\ s.deposits \in Seq(DepositInfo) /\ Ids(s) = 1 .. Len(s.deposits)
        /\ Len(s.deposits) \in Nat
    BY DEF Storage, Ids
  <1>2. Unpaid(s) \subseteq Ids(s)
    BY DEF Unpaid
  <1>3. IsFiniteSet(Ids(s))
    <2>1. 1 \in Int /\ Len(s.deposits) \in Int
      BY <1>1
    <2> QED
      BY <1>1, <2>1, FS_Interval
  <1>4. \A id \in Ids(s) : s.deposits[id] \in DepositInfo
    BY <1>1
  <1>5. \A id \in Ids(s) : AmountOf(s)[id] = s.deposits[id].amount /\ AmountOf(s)[id] \in Nat
    BY <1>4 DEF AmountOf, DepositInfo
  <1>6. IsFiniteSet(Unpaid(s))
    BY <1>2, <1>3, FS_Subset
  <1>7. SumFunctionOnSet(AmountOf(s), Unpaid(s)) \in Nat
    BY <1>2, <1>5, <1>6, SumType
  <1> QED
    BY <1>1, <1>2, <1>5, <1>6, <1>7

\* A storage that has the deposits of another owes the same.
LEMMA SameOwed ==
    ASSUME NEW s, NEW t, Covered(s), t.deposits = s.deposits, t.balance = s.balance
    PROVE  Covered(t)
  BY DEF Covered, Unpaid, AmountOf, Ids

\* A deposit adds its amount to what is owed.
LEMMA DepositOwes ==
    ASSUME NEW s \in Storage, NEW t \in Storage, NEW d \in DepositInfo,
           Covered(s), ~ d.withdrawn,
           t.deposits = Append(s.deposits, d),
           t.balance = s.balance + d.amount
    PROVE  Covered(t)
  <1> DEFINE n == Len(s.deposits) + 1
  <1> DEFINE U == Unpaid(s)
  <1>1. /\ s.deposits \in Seq(DepositInfo) /\ Len(s.deposits) \in Nat
        /\ Ids(s) = 1 .. Len(s.deposits) /\ IsFiniteSet(U) /\ U \subseteq Ids(s)
    BY Owed DEF Storage
  <1>2. /\ Ids(t) = Ids(s) \cup {n} /\ n \notin Ids(s)
        /\ \A id \in Ids(s) : t.deposits[id] = s.deposits[id]
        /\ t.deposits[n] = d
    BY <1>1 DEF Ids
  <1>3. Unpaid(t) = U \cup {n} /\ n \notin U
    BY <1>1, <1>2 DEF Unpaid
  <1>4. /\ \A id \in U : AmountOf(t)[id] = AmountOf(s)[id]
        /\ \A id \in U \cup {n} : AmountOf(t)[id] \in Int
        /\ AmountOf(t)[n] = d.amount
    <2>1. \A id \in Ids(t) : AmountOf(t)[id] = t.deposits[id].amount /\ AmountOf(t)[id] \in Nat
      BY Owed
    <2>2. \A id \in Ids(s) : AmountOf(s)[id] = s.deposits[id].amount
      BY Owed
    <2>3. \A id \in U \cup {n} : id \in Ids(t)
      BY <1>1, <1>2
    <2> QED
      BY <1>1, <1>2, <2>1, <2>2, <2>3
  <1>5. SumFunctionOnSet(AmountOf(t), U \cup {n}) = SumFunctionOnSet(AmountOf(t), U) + d.amount
    BY <1>1, <1>3, <1>4, SumAdds
  <1>6. SumFunctionOnSet(AmountOf(t), U) = SumFunctionOnSet(AmountOf(s), U)
    BY <1>1, <1>4, SumsCompare
  <1> QED
    BY <1>3, <1>5, <1>6 DEF Covered

\* A payment is of one amount that was owed.
LEMMA PaymentOwes ==
    ASSUME NEW s \in Storage, NEW t \in Storage, NEW id \in Ids(s),
           Covered(s), ~ s.deposits[id].withdrawn, Ids(t) = Ids(s),
           \A j \in Ids(s) : j # id => t.deposits[j] = s.deposits[j],
           t.deposits[id].withdrawn,
           t.balance = s.balance - s.deposits[id].amount
    PROVE  Covered(t)
  <1> DEFINE U == Unpaid(s)
  <1> DEFINE V == Unpaid(t)
  <1>1. /\ IsFiniteSet(U) /\ U \subseteq Ids(s) /\ SumFunctionOnSet(AmountOf(s), U) \in Nat
        /\ \A j \in Ids(s) : AmountOf(s)[j] = s.deposits[j].amount /\ AmountOf(s)[j] \in Nat
    BY Owed
  <1>2. /\ IsFiniteSet(V) /\ SumFunctionOnSet(AmountOf(t), V) \in Nat
        /\ \A j \in Ids(t) : AmountOf(t)[j] = t.deposits[j].amount
    BY Owed
  <1>3. id \in U /\ V = U \ {id}
    BY DEF Unpaid
  <1>4. SumFunctionOnSet(AmountOf(s), U) = s.deposits[id].amount + SumFunctionOnSet(AmountOf(s), V)
    <2>1. SumFunctionOnSet(AmountOf(s), U) = AmountOf(s)[id] + SumFunctionOnSet(AmountOf(s), U \ {id})
      BY <1>1, <1>3, SumTakesOut
    <2> QED
      BY <1>1, <1>3, <2>1
  <1>5. SumFunctionOnSet(AmountOf(s), V) = SumFunctionOnSet(AmountOf(t), V)
    <2>1. \A j \in V : j \in Ids(s) /\ j # id
      BY <1>1, <1>3
    <2>2. \A j \in V : AmountOf(s)[j] = AmountOf(t)[j]
      BY <1>1, <1>2, <2>1
    <2> QED
      BY <1>2, <2>2, SumsCompare
  <1>6. s.deposits[id].amount \in Nat
    BY <1>1
  <1>7. s.balance - s.deposits[id].amount = SumFunctionOnSet(AmountOf(t), V)
    BY <1>2, <1>4, <1>5, <1>6 DEF Covered
  <1> QED
    BY <1>7 DEF Covered

---------------------------------------------------------------------------
(* The three ways in which a call changes the storage.                     *)

\* Deposit: the ids that there were keep their outcomes, the new one has none.
LEMMA DepositKeeps ==
    ASSUME NEW s \in Storage, NEW t \in Storage, NEW d \in DepositInfo,
           Good(s), ~ d.withdrawn,
           t.deposits = Append(s.deposits, d),
           t.depositProcessed = s.depositProcessed,
           t.balance = s.balance + d.amount,
           t.paid = s.paid
    PROVE  Good(t)
  <1>1. s.deposits \in Seq(DepositInfo) /\ s.paid \in Seq(Nat)
    BY DEF Storage
  <1>2. /\ DOMAIN s.deposits = 1 .. Len(s.deposits)
        /\ DOMAIN t.deposits = 1 .. (Len(s.deposits) + 1)
        /\ \A id \in 1 .. Len(s.deposits) : t.deposits[id] = s.deposits[id]
        /\ t.deposits[Len(s.deposits) + 1] = d
        /\ Len(s.deposits) \in Nat
    BY <1>1
  <1>3. OneOutcome(t)
    BY <1>2 DEF OneOutcome, Good, Ids
  <1>4. PaidOnce(t)
    BY <1>2 DEF PaidOnce, Good, Ids
  <1> QED
    BY <1>3, <1>4, DepositOwes DEF Good

\* markDepositsProcessed: only deposits without an outcome are marked.
LEMMA MarkKeeps ==
    ASSUME NEW s \in Storage, NEW t \in Storage, NEW ids,
           Good(s), \A id \in ids : Markable(s, id),
           t.deposits = s.deposits,
           t.depositProcessed = s.depositProcessed \cup ids,
           t.balance = s.balance,
           t.paid = s.paid
    PROVE  Good(t)
  <1>1. OneOutcome(t) /\ PaidOnce(t)
    BY DEF Good, OneOutcome, PaidOnce, Ids, Markable
  <1> QED
    BY <1>1, SameOwed DEF Good

\* forceWithdraw: a deposit without an outcome is paid, and marked first.
LEMMA PayKeeps ==
    ASSUME NEW s \in Storage, NEW id, Good(s), Forceable(s, id)
    PROVE  PayBack(s, id) \in Storage /\ Good(PayBack(s, id))
  <1> DEFINE t == PayBack(s, id)
  <1> DEFINE w == [s.deposits[id] EXCEPT !.withdrawn = TRUE]
  <1>1. /\ s.deposits \in Seq(DepositInfo) /\ s.paid \in Seq(Nat)
        /\ s.depositProcessed \in SUBSET Nat /\ s.balance \in Int
        /\ s.rollupContract \in Contracts
    BY DEF Storage
  <1>2. /\ id \in 1 .. Len(s.deposits) /\ DOMAIN s.deposits = 1 .. Len(s.deposits)
        /\ ~ s.deposits[id].withdrawn /\ id \notin s.depositProcessed
    BY <1>1 DEF Forceable, Ids
  <1>3. s.deposits[id] \in DepositInfo
    BY <1>1, <1>2
  <1>4. w \in DepositInfo /\ w.withdrawn = TRUE
    BY <1>3 DEF DepositInfo
  <1>5. [s.deposits EXCEPT ![id] = w] \in Seq(DepositInfo)
    BY <1>1, <1>2, <1>4
  <1>6. s.balance - s.deposits[id].amount \in Int
    BY <1>1, <1>3 DEF DepositInfo
  <1>7. Append(s.paid, id) \in Seq(Nat)
    BY <1>1, <1>2
  <1>8. t = [s EXCEPT !.deposits = [s.deposits EXCEPT ![id] = w],
                      !.balance = s.balance - s.deposits[id].amount,
                      !.paid = Append(s.paid, id)]
    BY DEF PayBack
  <1>9. t \in Storage
    BY <1>1, <1>5, <1>6, <1>7, <1>8 DEF Storage
  <1>10. /\ t.deposits = [s.deposits EXCEPT ![id] = w]
         /\ t.depositProcessed = s.depositProcessed
         /\ t.balance = s.balance - s.deposits[id].amount
         /\ t.paid = Append(s.paid, id)
    BY <1>8 DEF Storage
  <1>11. /\ DOMAIN t.deposits = DOMAIN s.deposits
         /\ \A j \in DOMAIN s.deposits : j # id => t.deposits[j] = s.deposits[j]
         /\ t.deposits[id].withdrawn
    BY <1>2, <1>4, <1>10
  <1>12. OneOutcome(t)
    BY <1>2, <1>10, <1>11 DEF OneOutcome, Good, Ids
  <1>13. \A j \in DOMAIN s.paid : s.paid[j] # id
    BY <1>2 DEF Good, PaidOnce, Ids
  <1>14. /\ DOMAIN s.paid = 1 .. Len(s.paid) /\ Len(s.paid) \in Nat
         /\ DOMAIN t.paid = 1 .. (Len(s.paid) + 1)
         /\ \A j \in 1 .. Len(s.paid) : t.paid[j] = s.paid[j]
         /\ t.paid[Len(s.paid) + 1] = id
    BY <1>1, <1>2, <1>10
  <1>15. PaidOnce(t)
    <2>1. \A j, k \in DOMAIN t.paid : t.paid[j] = t.paid[k] => j = k
      BY <1>13, <1>14 DEF Good, PaidOnce
    <2>2. \A j \in DOMAIN t.paid : t.paid[j] \in Ids(t) /\ t.deposits[t.paid[j]].withdrawn
      <3> SUFFICES ASSUME NEW j \in DOMAIN t.paid
                   PROVE  t.paid[j] \in Ids(t) /\ t.deposits[t.paid[j]].withdrawn
        OBVIOUS
      <3>1. CASE j = Len(s.paid) + 1
        BY <1>2, <1>11, <1>14, <3>1 DEF Ids
      <3>2. CASE j \in DOMAIN s.paid
        <4>1. t.paid[j] = s.paid[j] /\ s.paid[j] # id
          BY <1>13, <1>14, <3>2
        <4>2. s.paid[j] \in DOMAIN s.deposits /\ s.deposits[s.paid[j]].withdrawn
          BY <3>2 DEF Good, PaidOnce, Ids
        <4> HIDE DEF t
        <4> QED
          BY <1>11, <4>1, <4>2 DEF Ids
      <3> QED
        BY <1>14, <3>1, <3>2
    <2>3. \A i \in Ids(t) : t.deposits[i].withdrawn => \E j \in DOMAIN t.paid : t.paid[j] = i
      <3> SUFFICES ASSUME NEW i \in Ids(t), t.deposits[i].withdrawn
                   PROVE  \E j \in DOMAIN t.paid : t.paid[j] = i
        OBVIOUS
      <3>1. CASE i = id
        BY <1>14, <3>1
      <3>2. CASE i # id
        BY <1>11, <1>14, <3>2 DEF Good, PaidOnce, Ids
      <3> QED
        BY <3>1, <3>2
    <2> QED
      BY <2>1, <2>2, <2>3 DEF PaidOnce
  <1>16. Covered(t)
    <2>1. /\ t.balance = s.balance - s.deposits[id].amount
          /\ ~ s.deposits[id].withdrawn /\ t \in Storage
      BY <1>2, <1>9, <1>10
    <2>2. Ids(t) = Ids(s) /\ id \in Ids(s) /\ Covered(s)
      BY <1>2, <1>11 DEF Ids, Good
    <2> HIDE DEF t, w
    <2> QED
      BY <1>11, <2>1, <2>2, PaymentOwes DEF Ids
  <1> QED
    BY <1>9, <1>12, <1>15, <1>16 DEF Good

---------------------------------------------------------------------------
(* The invariant.                                                          *)

LEMMA ManagerInvInit == ManagerInit => ManagerInv
  <1> SUFFICES ASSUME ManagerInit PROVE ManagerInv
    OBVIOUS
  <1>1. store \in Storage /\ calls \in Seq(Storage) /\ block \in Nat
    BY ManagerAssumption DEF ManagerInit, Storage
  <1>2. Good(store)
    <2>1. Unpaid(store) = {} /\ store.balance = 0
      BY DEF ManagerInit, Unpaid, Ids
    <2>2. Covered(store)
      BY <2>1, SumOfNone DEF Covered
    <2> QED
      BY <2>2 DEF ManagerInit, Good, OneOutcome, PaidOnce, Ids
  <1>3. \A k \in DOMAIN calls : Good(calls[k])
    BY DEF ManagerInit
  <1> QED
    BY <1>1, <1>2, <1>3 DEF ManagerInv, Typed

\* The innermost waiting withdrawal is taken off the stack.
LEMMA PopKeeps ==
    ASSUME calls \in Seq(Storage), calls # <<>>, \A k \in DOMAIN calls : Good(calls[k])
    PROVE  /\ calls[Len(calls)] \in Storage /\ Good(calls[Len(calls)])
           /\ SubSeq(calls, 1, Len(calls) - 1) \in Seq(Storage)
           /\ \A k \in DOMAIN SubSeq(calls, 1, Len(calls) - 1) :
                 Good(SubSeq(calls, 1, Len(calls) - 1)[k])
  <1> DEFINE n == Len(calls)
  <1> DEFINE c == SubSeq(calls, 1, n - 1)
  <1>1. n \in Nat /\ n > 0 /\ DOMAIN calls = 1 .. n
    OBVIOUS
  <1>2. c \in Seq(Storage)
    BY <1>1
  <1>3. Len(c) = n - 1 /\ DOMAIN c = 1 .. (n - 1) /\ \A k \in 1 .. (n - 1) : c[k] = calls[k]
    BY <1>1
  <1> QED
    BY <1>1, <1>2, <1>3

LEMMA ManagerInvNext == ManagerInv /\ [ManagerNext]_managerVars => ManagerInv'
  <1> SUFFICES ASSUME ManagerInv, [ManagerNext]_managerVars PROVE ManagerInv'
    OBVIOUS
  <1> USE DEF ManagerInv, Typed
  <1>1. ASSUME NEW u \in Users, NEW amount \in Amounts, Deposit(u, amount)
        PROVE  ManagerInv'
    <2> DEFINE d == [user |-> u, amount |-> amount, blockNumber |-> block, withdrawn |-> FALSE]
    <2>1. d \in DepositInfo /\ ~ d.withdrawn /\ amount \in Nat
      BY ManagerAssumption DEF DepositInfo
    <2>2. store' = [store EXCEPT !.deposits = Append(store.deposits, d),
                                 !.balance = store.balance + amount]
      BY <1>1 DEF Deposit
    <2>3. Append(store.deposits, d) \in Seq(DepositInfo) /\ store.balance + amount \in Int
      BY <2>1 DEF Storage
    <2>4. store' \in Storage
      BY <2>2, <2>3 DEF Storage
    <2>5. /\ store'.deposits = Append(store.deposits, d)
          /\ store'.depositProcessed = store.depositProcessed
          /\ store'.balance = store.balance + d.amount
          /\ store'.paid = store.paid
      BY <2>2 DEF Storage
    <2>6. Good(store')
      BY <2>1, <2>4, <2>5, DepositKeeps
    <2> QED
      BY <1>1, <2>4, <2>6 DEF Deposit, Good, OneOutcome, PaidOnce, Ids
  <1>2. ASSUME NEW u \in Users, NEW id \in Ids(store), ForceWithdraw(u, id)
        PROVE  ManagerInv'
    <2>1. store' \in Storage /\ Good(store')
      BY <1>2, PayKeeps DEF ForceWithdraw
    <2>2. calls' \in Seq(Storage) /\ block' \in Nat
      BY <1>2 DEF ForceWithdraw
    <2>3. \A k \in DOMAIN calls' : Good(calls'[k])
      BY <1>2 DEF ForceWithdraw
    <2> QED
      BY <2>1, <2>2, <2>3 DEF Good, OneOutcome, PaidOnce, Ids
  <1>3. CASE TransferSucceeds
    BY <1>3, PopKeeps DEF TransferSucceeds, Good, OneOutcome, PaidOnce, Ids
  <1>4. CASE TransferFails
    BY <1>4, PopKeeps DEF TransferFails, Restored, Good, OneOutcome, PaidOnce, Ids
  <1>5. ASSUME NEW c \in Contracts, NEW ids \in (SUBSET Ids(store)) \ {{}},
               MarkDepositsProcessed(c, ids)
        PROVE  ManagerInv'
    <2>1. store' = [store EXCEPT !.depositProcessed = store.depositProcessed \cup ids]
      BY <1>5 DEF MarkDepositsProcessed
    <2>2. store.depositProcessed \cup ids \in SUBSET Nat
      BY DEF Storage, Ids
    <2>3. store' \in Storage
      BY <2>1, <2>2 DEF Storage
    <2>4. /\ store'.deposits = store.deposits
          /\ store'.depositProcessed = store.depositProcessed \cup ids
          /\ store'.balance = store.balance
          /\ store'.paid = store.paid
      BY <2>1 DEF Storage
    <2>5. Good(store')
      BY <1>5, <2>3, <2>4, MarkKeeps DEF MarkDepositsProcessed
    <2> QED
      BY <1>5, <2>3, <2>5 DEF MarkDepositsProcessed, Good, OneOutcome, PaidOnce, Ids
  <1>6. ASSUME NEW c \in Contracts, UpdateRollupContract(Deployer, c)
        PROVE  ManagerInv'
    <2>1. store' = [store EXCEPT !.rollupContract = c]
      BY <1>6 DEF UpdateRollupContract
    <2>2. store' \in Storage
      BY <2>1 DEF Storage
    <2>3. /\ store'.deposits = store.deposits
          /\ store'.depositProcessed = store.depositProcessed
          /\ store'.balance = store.balance
          /\ store'.paid = store.paid
      BY <2>1 DEF Storage
    <2>4. OneOutcome(store') /\ PaidOnce(store')
      BY <2>3 DEF Good, OneOutcome, PaidOnce, Ids
    <2>5. Good(store')
      BY <2>3, <2>4, SameOwed DEF Good
    <2> QED
      BY <1>6, <2>2, <2>5 DEF UpdateRollupContract, Good, OneOutcome, PaidOnce, Ids
  <1>7. CASE NewBlock
    BY <1>7 DEF NewBlock, Good, OneOutcome, PaidOnce, Ids
  <1>8. CASE UNCHANGED managerVars
    BY <1>8 DEF managerVars, Good, OneOutcome, PaidOnce, Ids
  <1> QED
    BY <1>1, <1>2, <1>3, <1>4, <1>5, <1>6, <1>7, <1>8
    DEF ManagerNext, UserStep, RollupStep, OwnerStep

LEMMA ManagerInvHolds == ManagerSpec => []ManagerInv
  BY ManagerInvInit, ManagerInvNext, PTL DEF ManagerSpec

---------------------------------------------------------------------------
(* What follows.                                                           *)

\* forceWithdraw and markDepositsProcessed exclude each other.
THEOREM OneOutcomePerDeposit == ManagerSpec => []NoDoubleOutcome
  <1>1. ManagerInv => NoDoubleOutcome
    BY DEF ManagerInv, Good, NoDoubleOutcome
  <1> QED
    BY <1>1, ManagerInvHolds, PTL

\* forceWithdraw pays each deposit at most once.
THEOREM OnePaymentPerDeposit == ManagerSpec => []NoDoublePayment
  <1>1. ManagerInv => NoDoublePayment
    BY DEF ManagerInv, Good, NoDoublePayment
  <1> QED
    BY <1>1, ManagerInvHolds, PTL

\* The contract holds what was deposited and not paid back, at every moment of
\* every withdrawal, those within a withdrawal and those reverted included.
THEOREM OwedIsHeld == ManagerSpec => []Solvent
  <1>1. ManagerInv => Solvent
    BY DEF ManagerInv, Good, Solvent
  <1> QED
    BY <1>1, ManagerInvHolds, PTL

\* No payment that the contract lets through overdraws it.
THEOREM NeverOverdrawn == ManagerSpec => []ManagerTypeOK
  <1>1. ManagerInv => ManagerTypeOK
    <2> SUFFICES ASSUME ManagerInv PROVE ManagerTypeOK
      OBVIOUS
    <2>1. store.balance \in Nat
      BY Owed DEF ManagerInv, Typed, Good, Covered
    <2> QED
      BY <2>1 DEF ManagerInv, ManagerTypeOK
  <1> QED
    BY <1>1, ManagerInvHolds, PTL
=============================================================================
