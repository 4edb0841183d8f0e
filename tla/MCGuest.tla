-------------------------------- MODULE MCGuest --------------------------------
(* Instances of Guest for TLC. *)
EXTENDS Guest, TLC

CONSTANTS a1, a2, a3

TwoAndUnknown == {a1, a2, a3}

L0(balance, nonce) == [balance |-> balance, nonce |-> nonce]
Leaves == { <<L0(2, 0), L0(1, 1)>>, <<L0(0, 1), L0(3, 0)>> }

D(id, user, amount) == [depositId |-> id, user |-> user, amount |-> amount]
DepositLists == { <<>>, <<D(1, a1, 1)>>, <<D(1, a2, 2), D(2, a2, 1)>>, <<D(1, a1, 1), D(2, a3, 1)>> }

T(from, to, amount, nonce, signed) ==
    [from |-> from, to |-> to, amount |-> amount, nonce |-> nonce, signed |-> signed]
Transfers ==
    {T(f, t, amount, nonce, TRUE) :
        f \in {a1, a2}, t \in TwoAndUnknown, amount \in {1, 3}, nonce \in {0, 1}}
    \cup {T(a1, a2, 1, 0, FALSE)}
Lists == {<<>>} \cup {<<s>> : s \in Transfers} \cup {<<s, t>> : s, t \in Transfers}

\* The root that a builder of batches computes, who moves the balances at once.
TreeFrom(addresses, leaves) ==
    [a \in TwoAndUnknown |->
        IF \E i \in DOMAIN addresses : addresses[i] = a
          THEN leaves[CHOOSE i \in DOMAIN addresses : addresses[i] = a] ELSE L0(0, 0)]

SumOf(S, Value(_)) == MapThenSumSet(Value, S)

Claimed(leaves, deposits, transactions) ==
    [a \in TwoAndUnknown |->
        LET old == TreeFrom(<<a1, a2>>, leaves)[a]
            In == SumOf({k \in DOMAIN transactions : transactions[k].to = a},
                        LAMBDA k : transactions[k].amount)
            Out == SumOf({k \in DOMAIN transactions : transactions[k].from = a},
                         LAMBDA k : transactions[k].amount)
            Dep == SumOf({k \in DOMAIN deposits : deposits[k].user = a}, LAMBDA k : deposits[k].amount)
        IN  L0((old.balance + In + Dep - Out) % Modulus,
               (old.nonce + Cardinality({k \in DOMAIN transactions : transactions[k].from = a})) % Modulus)]

B(leaves, deposits, transactions, claim) ==
    [oldRoot |-> TreeFrom(<<a1, a2>>, leaves), newRoot |-> claim, leafData |-> leaves,
     addresses |-> <<a1, a2>>, transactions |-> transactions, deposits |-> deposits, badgeId |-> 1]

\* The claim of the batch is the root above, or that of the old state.
NamedOnceEach ==
    {B(l, d, t, Claimed(l, d, t)) : l \in Leaves, d \in DepositLists, t \in Lists}
    \cup {B(l, d, t, TreeFrom(<<a1, a2>>, l)) : l \in Leaves, d \in {<<>>}, t \in Lists}

\* The account a1 a second time, with another leaf, which is the one in the old tree.
NamedTwice ==
    {[B(l, d, t, Claimed(l, d, t)) EXCEPT
        !.addresses = <<a1, a2, a1>>,
        !.leafData = Append(l, again),
        !.oldRoot = [TreeFrom(<<a1, a2>>, l) EXCEPT ![a1] = again]] :
        l \in Leaves, d \in DepositLists, t \in Lists, again \in {L0(1, 1)}}

\* A claim of another old state, and deposits that wrap around.
WrongOldRoot == {[b EXCEPT !.oldRoot = EmptyTree] : b \in {c \in NamedOnceEach : c.deposits = <<>>}}
TooMuch == {B(l, <<D(1, a1, 7)>>, t, Claimed(l, <<D(1, a1, 7)>>, t)) : l \in Leaves, t \in Lists}

SmallBatches == NamedOnceEach \cup NamedTwice \cup WrongOldRoot \cup TooMuch
=============================================================================
