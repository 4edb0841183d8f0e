---------------------------- MODULE ListenerProofs ----------------------------
(***************************************************************************)
(* What the polling loop keeps, for all events, all blocks of L1, all      *)
(* errors and any number of restarts.                                      *)
(*                                                                         *)
(* HandledInOrder speaks of what has been handled; it is inductive         *)
(* together with InHand, which says that the entries in hand continue it.  *)
(* RepeatsOneBlock is about the logs that two filters have handled, and    *)
(* the older of two filters handles nothing more: OneBlock fixes, when the *)
(* later one is created, that what it may repeat is of the latest block.   *)
(* CreditIsBacked sums over the documents: without a restart there is one  *)
(* filter, so that each document is of an event of its own (MoneyInv).     *)
(***************************************************************************)
EXTENDS Listener, Sums

BlocksBounded == \A i \in DOMAIN chain : chain[i].block <= height

InHand ==
    /\ pc \in {"poll", "handle"} => starts # <<>>
    /\ pc # "handle" => entries = <<>>
    /\ pc = "handle" =>
          /\ entries # <<>>
          /\ \A k \in 1 .. Len(entries) :
                entries[k] = chain[NextOf(Len(starts)) + k - 1]

OneBlock ==
    \A g, h \in DOMAIN starts : g < h =>
        \A i, j \in DOMAIN chain :
            Handles(g, i) /\ Handles(g, j) /\ i >= starts[h] /\ j >= starts[h] =>
                chain[i].block = chain[j].block

IInv == TypeOK /\ BlocksBounded /\ HandledInOrder /\ InHand /\ OneBlock

---------------------------------------------------------------------------
\* The numbers that the steps below compute with.
LEMMA Numbers ==
    ASSUME TypeOK
    PROVE  /\ DOMAIN chain = 1 .. Len(chain) /\ Len(chain) \in Nat
           /\ DOMAIN starts = 1 .. Len(starts) /\ Len(starts) \in Nat
           /\ \A i \in DOMAIN chain : chain[i] \in Log /\ chain[i].block \in Nat
           /\ \A g \in DOMAIN starts :
                 /\ starts[g] \in Nat \ {0}
                 /\ handled[g] \in Seq(Events) /\ Len(handled[g]) \in Nat
                 /\ NextOf(g) \in Nat \ {0}
  <1>1. /\ chain \in Seq(Log) /\ starts \in Seq(Nat \ {0})
        /\ handled \in Seq(Seq(Events)) /\ Len(handled) = Len(starts)
    BY DEF TypeOK
  <1>2. \A i \in DOMAIN chain : chain[i] \in Log
    BY <1>1
  <1>3. \A i \in DOMAIN chain : chain[i].block \in Nat
    BY <1>2 DEF Log
  <1>4. \A g \in DOMAIN starts :
           starts[g] \in Nat \ {0} /\ handled[g] \in Seq(Events) /\ Len(handled[g]) \in Nat
    BY <1>1
  <1> QED
    BY <1>1, <1>2, <1>3, <1>4 DEF NextOf

LEMMA InitIInv == Init => IInv
  BY DEF Init, IInv, TypeOK, BlocksBounded, HandledInOrder, InHand, OneBlock

\* Logs are only added, behind those that are there.
LEMMA MineGrows ==
    ASSUME TypeOK, MineBlock
    PROVE  /\ chain' \in Seq(Log)
           /\ Len(chain) <= Len(chain')
           /\ \A i \in 1 .. Len(chain) : chain'[i] = chain[i]
           /\ \A i \in Len(chain) + 1 .. Len(chain') : chain'[i].block = height + 1
  <1>1. PICK n \in 0 .. MaxBlockSize : \E b \in [1 .. n -> Events \ EventsOf(chain)] :
           chain' = chain \o [i \in 1 .. n |-> [event |-> b[i], block |-> height + 1]]
    BY DEF MineBlock
  <1>2. PICK b \in [1 .. n -> Events \ EventsOf(chain)] :
           chain' = chain \o [i \in 1 .. n |-> [event |-> b[i], block |-> height + 1]]
    BY <1>1
  <1> DEFINE new == [i \in 1 .. n |-> [event |-> b[i], block |-> height + 1]]
  <1>3. n \in Nat
    BY ListenerAssumption
  <1>4. \A i \in 1 .. n : new[i] \in Log
    BY DEF Log, TypeOK
  <1>5. new \in Seq(Log) /\ Len(new) = n
    BY <1>3, <1>4
  <1>6. chain \in Seq(Log)
    BY DEF TypeOK
  <1>7. /\ chain' = chain \o new
        /\ \A i \in 1 .. n : new[i].block = height + 1
    BY <1>2
  <1> HIDE DEF new
  <1> QED
    BY <1>3, <1>5, <1>6, <1>7

LEMMA MineKeeps == ASSUME IInv, MineBlock PROVE IInv'
  <1> USE DEF IInv
  <1>1. /\ chain' \in Seq(Log)
        /\ Len(chain) <= Len(chain')
        /\ \A i \in 1 .. Len(chain) : chain'[i] = chain[i]
        /\ \A i \in Len(chain) + 1 .. Len(chain') : chain'[i].block = height + 1
    BY MineGrows
  <1>2. /\ height \in Nat /\ height' = height + 1
        /\ chain \in Seq(Log) /\ starts \in Seq(Nat \ {0}) /\ handled \in Seq(Seq(Events))
        /\ entries \in Seq(Log) /\ cursor \in 1 .. Len(chain) + 1
        /\ Len(handled) = Len(starts)
        /\ UNCHANGED <<pc, cursor, entries, handled, starts, inFlight, stored, faults, crashes>>
    BY DEF MineBlock, TypeOK
  <1>3. \A g \in DOMAIN starts :
           /\ starts[g] \in Nat \ {0}
           /\ handled[g] \in Seq(Events) /\ Len(handled[g]) \in Nat
           /\ NextOf(g) <= Len(chain) + 1
           /\ NextOf(g)' = NextOf(g)
    BY <1>2, Numbers DEF HandledInOrder, NextOf
  <1>4. TypeOK'
    BY <1>1, <1>2 DEF TypeOK
  <1>5. BlocksBounded'
    <2> SUFFICES ASSUME NEW i \in DOMAIN chain' PROVE chain'[i].block <= height'
      BY DEF BlocksBounded
    <2>1. CASE i \in 1 .. Len(chain)
      <3>1. chain[i].block <= height /\ chain[i].block \in Nat
        BY <2>1, Numbers DEF BlocksBounded
      <3> QED
        BY <1>1, <1>2, <2>1, <3>1
    <2>2. CASE i \in Len(chain) + 1 .. Len(chain')
      BY <1>1, <1>2, <2>2
    <2>3. i \in 1 .. Len(chain') /\ Len(chain') \in Nat /\ Len(chain) \in Nat
      BY <1>1, <1>2
    <2> QED
      BY <2>1, <2>2, <2>3
  <1>6. \A g \in DOMAIN starts : \A i : Handles(g, i) => i \in 1 .. Len(chain)
    BY <1>2, <1>3 DEF Handles, NextOf
  <1>7. HandledInOrder'
    <2> SUFFICES ASSUME NEW g \in DOMAIN starts
                 PROVE  /\ NextOf(g) <= Len(chain') + 1
                        /\ \A k \in 1 .. Len(handled[g]) :
                              handled[g][k] = chain'[starts[g] + k - 1].event
                        /\ g = Len(starts) /\ pc \in {"poll", "handle"} =>
                              NextOf(g) + Len(entries) = cursor
      BY <1>2, <1>3 DEF HandledInOrder
    <2>1. NextOf(g) <= Len(chain') + 1
      BY <1>1, <1>2, <1>3, Numbers
    <2>2. \A k \in 1 .. Len(handled[g]) : starts[g] + k - 1 \in 1 .. Len(chain)
      <3>1. /\ starts[g] \in Nat \ {0} /\ Len(handled[g]) \in Nat /\ Len(chain) \in Nat
            /\ starts[g] + Len(handled[g]) <= Len(chain) + 1
        BY <1>3, Numbers DEF NextOf
      <3> QED
        BY <3>1
    <2> QED
      BY <1>1, <2>1, <2>2 DEF HandledInOrder
  <1>8. InHand'
    <2>1. CASE pc = "handle"
      <3> DEFINE first == NextOf(Len(starts))
      <3>1. Len(starts) \in DOMAIN starts
        BY <1>2, <2>1 DEF InHand
      <3>2. first + Len(entries) = cursor /\ first \in Nat \ {0} /\ Len(entries) \in Nat
        BY <1>2, <2>1, <3>1, Numbers DEF HandledInOrder
      <3>3. \A k \in 1 .. Len(entries) : first + k - 1 \in 1 .. Len(chain)
        BY <1>2, <3>2
      <3>4. \A k \in 1 .. Len(entries) : entries[k] = chain'[first + k - 1]
        BY <1>1, <2>1, <3>3 DEF InHand
      <3> QED
        BY <1>2, <1>3, <2>1, <3>1, <3>4 DEF InHand
    <2>2. CASE pc # "handle"
      BY <1>2, <2>2 DEF InHand
    <2> QED
      BY <2>1, <2>2
  <1>9. OneBlock'
    <2> SUFFICES ASSUME NEW g \in DOMAIN starts, NEW h \in DOMAIN starts, g < h,
                        NEW i \in DOMAIN chain', NEW j \in DOMAIN chain',
                        Handles(g, i)', Handles(g, j)', i >= starts[h], j >= starts[h]
                 PROVE  chain'[i].block = chain'[j].block
      BY <1>2 DEF OneBlock
    <2>0. Handles(g, i) /\ Handles(g, j)
      BY <1>2 DEF Handles, NextOf
    <2>1. i \in 1 .. Len(chain) /\ j \in 1 .. Len(chain)
      BY <1>6, <2>0
    <2>2. chain[i].block = chain[j].block
      BY <2>0, <2>1, Numbers DEF OneBlock
    <2> QED
      BY <1>1, <2>1, <2>2
  <1> QED
    BY <1>4, <1>5, <1>7, <1>8, <1>9

LEMMA CreateKeeps == ASSUME IInv, CreateFilter PROVE IInv'
  <1> USE DEF IInv
  <1>1. PICK from \in FilterStarts : cursor' = from /\ starts' = Append(starts, from)
    BY DEF CreateFilter
  <1>2. /\ chain \in Seq(Log) /\ height \in Nat
        /\ starts \in Seq(Nat \ {0}) /\ handled \in Seq(Seq(Events))
        /\ Len(handled) = Len(starts) /\ entries = <<>>
        /\ pc = "start" /\ pc' = "poll" /\ handled' = Append(handled, <<>>)
        /\ UNCHANGED <<chain, height, entries, inFlight, stored, faults, crashes>>
    BY DEF CreateFilter, TypeOK, InHand
  <1>3. /\ from \in 1 .. Len(chain) + 1
        /\ from = Len(chain) + 1 \/ \A i \in DOMAIN chain : i < from <=> chain[i].block < height
    BY DEF FilterStarts
  <1> DEFINE new == Len(starts) + 1
  <1>4. /\ new \in Nat /\ DOMAIN starts = 1 .. Len(starts) /\ DOMAIN starts' = 1 .. new
        /\ Len(starts') = new /\ Len(handled') = new
        /\ starts'[new] = from /\ handled'[new] = <<>>
        /\ \A g \in DOMAIN starts : starts'[g] = starts[g] /\ handled'[g] = handled[g]
    BY <1>1, <1>2
  <1>5. starts' \in Seq(Nat \ {0}) /\ handled' \in Seq(Seq(Events))
    BY <1>1, <1>2, <1>3
  <1>6. TypeOK'
    <2>1. \A i \in inFlight' \cup stored' :
             i[1] \in DOMAIN handled' /\ i[2] \in DOMAIN handled'[i[1]]
      <3>1. \A i \in inFlight \cup stored :
               i[1] \in DOMAIN handled /\ i[2] \in DOMAIN handled[i[1]]
        BY DEF TypeOK
      <3>2. DOMAIN handled = DOMAIN starts /\ DOMAIN handled \subseteq DOMAIN handled'
        BY <1>2, <1>4
      <3>3. inFlight' \cup stored' = inFlight \cup stored
        BY <1>2
      <3> QED
        BY <1>4, <3>1, <3>2, <3>3
    <2> QED
      BY <1>1, <1>2, <1>3, <1>4, <1>5, <2>1 DEF TypeOK
  <1>7. BlocksBounded'
    BY <1>2 DEF BlocksBounded
  <1>8. HandledInOrder'
    <2> SUFFICES ASSUME NEW g \in DOMAIN starts'
                 PROVE  /\ starts'[g] + Len(handled'[g]) <= Len(chain') + 1
                        /\ \A k \in 1 .. Len(handled'[g]) :
                              handled'[g][k] = chain'[starts'[g] + k - 1].event
                        /\ g = Len(starts') /\ pc' \in {"poll", "handle"} =>
                              starts'[g] + Len(handled'[g]) + Len(entries') = cursor'
      BY DEF HandledInOrder, NextOf
    <2>1. CASE g = new
      <3>1. Len(handled'[g]) = 0 /\ starts'[g] = from
        BY <1>4, <2>1
      <3>2. Len(entries') = 0 /\ cursor' = from /\ chain' = chain
        BY <1>1, <1>2
      <3>3. from \in Nat /\ from <= Len(chain) + 1 /\ Len(chain) \in Nat
        BY <1>3, Numbers
      <3> QED
        BY <3>1, <3>2, <3>3
    <2>2. CASE g \in DOMAIN starts
      <3>1. starts'[g] = starts[g] /\ handled'[g] = handled[g] /\ chain' = chain
        BY <1>2, <1>4, <2>2
      <3>2. g # Len(starts')
        BY <1>4, <2>2, Numbers
      <3>3. /\ starts[g] + Len(handled[g]) <= Len(chain) + 1
            /\ \A k \in 1 .. Len(handled[g]) : handled[g][k] = chain[starts[g] + k - 1].event
        BY <2>2 DEF HandledInOrder, NextOf
      <3> QED
        BY <3>1, <3>2, <3>3
    <2> QED
      BY <1>4, <2>1, <2>2
  <1>9. InHand'
    BY <1>2, <1>4 DEF InHand
  <1>10. OneBlock'
    <2> SUFFICES ASSUME NEW g \in DOMAIN starts', NEW h \in DOMAIN starts', g < h,
                        NEW i \in DOMAIN chain, NEW j \in DOMAIN chain,
                        Handles(g, i)', Handles(g, j)', i >= starts'[h], j >= starts'[h]
                 PROVE  chain[i].block = chain[j].block
      BY <1>2 DEF OneBlock
    <2>1. g \in DOMAIN starts /\ Handles(g, i) /\ Handles(g, j)
      BY <1>4 DEF Handles, NextOf
    <2>2. CASE h \in DOMAIN starts
      BY <1>4, <2>1, <2>2 DEF OneBlock
    <2>3. CASE h = new
      <3>1. i >= from /\ j >= from /\ i \in 1 .. Len(chain) /\ j \in 1 .. Len(chain)
        BY <1>2, <1>4, <2>3
      <3>2. ~ (chain[i].block < height) /\ ~ (chain[j].block < height)
        BY <1>3, <3>1
      <3>3. chain[i].block \in Nat /\ chain[j].block \in Nat
        BY Numbers
      <3> QED
        BY <1>2, <3>2, <3>3 DEF BlocksBounded
    <2> QED
      BY <1>4, <2>2, <2>3
  <1> QED
    BY <1>6, <1>7, <1>8, <1>9, <1>10

LEMMA PollKeeps == ASSUME IInv, Poll PROVE IInv'
  <1> USE DEF IInv
  <1>1. /\ chain \in Seq(Log) /\ starts \in Seq(Nat \ {0}) /\ handled \in Seq(Seq(Events))
        /\ Len(handled) = Len(starts) /\ starts # <<>> /\ entries = <<>>
        /\ cursor \in 1 .. Len(chain)
        /\ pc = "poll" /\ pc' = "handle" /\ cursor' = Len(chain) + 1
        /\ entries' = SubSeq(chain, cursor, Len(chain))
        /\ UNCHANGED <<chain, height, starts, handled, inFlight, stored, faults, crashes>>
    BY DEF Poll, NextCursor, TypeOK, InHand
  <1>2. /\ entries' \in Seq(Log)
        /\ Len(entries') = Len(chain) + 1 - cursor
        /\ \A k \in 1 .. Len(entries') : entries'[k] = chain[cursor + k - 1]
    BY <1>1
  <1> DEFINE last == Len(starts)
  <1>3. last \in DOMAIN starts /\ NextOf(last) \in Nat
    BY <1>1, Numbers
  <1>4. NextOf(last) = cursor /\ Len(entries) = 0
    BY <1>1, <1>3 DEF HandledInOrder
  <1>5. TypeOK'
    BY <1>1, <1>2 DEF TypeOK
  <1>6. \A g : NextOf(g)' = NextOf(g)
    BY <1>1 DEF NextOf
  <1>7. HandledInOrder'
    <2>1. NextOf(last) + Len(entries') = cursor'
      BY <1>1, <1>2, <1>4
    <2> QED
      BY <1>1, <1>6, <2>1 DEF HandledInOrder
  <1>8. InHand'
    <2>1. Len(entries') \in Nat \ {0}
      BY <1>1, <1>2, Numbers
    <2>2. entries' # <<>>
      BY <2>1
    <2>3. \A k \in 1 .. Len(entries') : entries'[k] = chain[NextOf(last) + k - 1]
      BY <1>2, <1>4
    <2> QED
      BY <1>1, <2>2, <2>3 DEF InHand, NextOf
  <1>9. BlocksBounded' /\ OneBlock'
    BY <1>1, <1>6 DEF BlocksBounded, OneBlock, Handles
  <1> QED
    BY <1>5, <1>7, <1>8, <1>9

LEMMA HandleKeeps == ASSUME IInv, HandleEntry PROVE IInv'
  <1> USE DEF IInv
  <1> DEFINE last == Len(starts)
  <1> DEFINE n == Len(handled[last])
  <1>1. /\ chain \in Seq(Log) /\ starts \in Seq(Nat \ {0}) /\ handled \in Seq(Seq(Events))
        /\ Len(handled) = Len(starts) /\ starts # <<>> /\ entries # <<>>
        /\ entries \in Seq(Log) /\ cursor \in 1 .. Len(chain) + 1
        /\ pc = "handle" /\ pc' = (IF entries' = <<>> THEN "poll" ELSE "handle")
        /\ handled' = [handled EXCEPT ![last] = Append(@, Head(entries).event)]
        /\ entries' = Tail(entries)
        /\ inFlight' = inFlight \cup {<<last, n + 1, kind>> : kind \in Kinds}
        /\ UNCHANGED <<chain, height, cursor, starts, stored, faults, crashes>>
    BY DEF HandleEntry, TypeOK, InHand
  <1>2. /\ last \in DOMAIN starts /\ last \in DOMAIN handled
        /\ starts[last] \in Nat \ {0} /\ handled[last] \in Seq(Events) /\ n \in Nat
    BY <1>1
  <1>3. /\ Head(entries) = entries[1] /\ Head(entries) \in Log /\ Head(entries).event \in Events
        /\ Tail(entries) \in Seq(Log) /\ Len(Tail(entries)) = Len(entries) - 1
        /\ \A k \in 1 .. Len(entries) - 1 : Tail(entries)[k] = entries[k + 1]
        /\ Len(entries) \in Nat \ {0}
    <2>1. /\ Head(entries) = entries[1] /\ Head(entries) \in Log
          /\ Tail(entries) \in Seq(Log) /\ Len(Tail(entries)) = Len(entries) - 1
          /\ \A k \in 1 .. Len(entries) - 1 : Tail(entries)[k] = entries[k + 1]
          /\ Len(entries) \in Nat \ {0}
      BY <1>1
    <2> QED
      BY <2>1 DEF Log
  <1>4. /\ handled' \in Seq(Seq(Events)) /\ Len(handled') = Len(handled)
        /\ \A g \in DOMAIN starts : g # last => handled'[g] = handled[g]
        /\ handled'[last] = Append(handled[last], Head(entries).event)
    BY <1>1, <1>2, <1>3
  <1>5. /\ Len(handled'[last]) = n + 1
        /\ handled'[last][n + 1] = Head(entries).event
        /\ \A k \in 1 .. n : handled'[last][k] = handled[last][k]
    BY <1>2, <1>3, <1>4
  <1>6. starts[last] + n + Len(entries) = cursor
    BY <1>1, <1>2 DEF HandledInOrder, NextOf
  <1>7. \A k \in 1 .. Len(entries) : entries[k] = chain[starts[last] + n + k - 1]
    BY <1>1 DEF InHand, NextOf
  <1>8. TypeOK'
    <2>1. \A i \in inFlight' \cup stored' :
             i[1] \in DOMAIN handled' /\ i[2] \in DOMAIN handled'[i[1]]
      <3> SUFFICES ASSUME NEW i \in inFlight' \cup stored'
                   PROVE  i[1] \in DOMAIN handled' /\ i[2] \in DOMAIN handled'[i[1]]
        OBVIOUS
      <3>1. CASE i \in inFlight \cup stored
        <4>1. i[1] \in DOMAIN handled /\ i[2] \in DOMAIN handled[i[1]]
          BY <3>1 DEF TypeOK
        <4>2. i[1] \in DOMAIN handled'
          BY <1>1, <1>4, <4>1
        <4>3. CASE i[1] = last
          BY <1>2, <1>4, <1>5, <4>1, <4>2, <4>3
        <4>4. CASE i[1] # last
          BY <1>1, <1>4, <4>1, <4>2, <4>4
        <4> QED
          BY <4>3, <4>4
      <3>2. CASE i \in {<<last, n + 1, kind>> : kind \in Kinds}
        BY <1>1, <1>2, <1>4, <1>5, <3>2
      <3> QED
        BY <1>1, <3>1, <3>2
    <2>2. inFlight' \cap stored' = {}
      <3> SUFFICES ASSUME NEW kind \in Kinds, <<last, n + 1, kind>> \in stored PROVE FALSE
        BY <1>1 DEF TypeOK
      <3>1. n + 1 \in DOMAIN handled[last]
        BY DEF TypeOK
      <3> QED
        BY <1>2, <3>1
    <2>3. /\ height' \in Nat /\ faults' \in Nat /\ crashes' \in Nat
          /\ pc' \in {"start", "poll", "handle", "dead"}
      BY <1>1 DEF TypeOK
    <2> QED
      BY <1>1, <1>3, <1>4, <2>1, <2>2, <2>3 DEF TypeOK
  <1>9. HandledInOrder'
    <2> DEFINE InOrder(g) ==
           /\ starts[g] + Len(handled'[g]) <= Len(chain) + 1
           /\ \A k \in 1 .. Len(handled'[g]) : handled'[g][k] = chain[starts[g] + k - 1].event
           /\ g = last => starts[g] + Len(handled'[g]) + Len(entries') = cursor
    <2>0. (\A g \in DOMAIN starts : InOrder(g)) => HandledInOrder'
      <3>1. \A g : NextOf(g)' = starts[g] + Len(handled'[g])
        BY <1>1 DEF NextOf
      <3>2. chain' = chain /\ cursor' = cursor /\ starts' = starts
        BY <1>1
      <3> QED
        BY <3>1, <3>2 DEF HandledInOrder
    <2> SUFFICES ASSUME NEW g \in DOMAIN starts PROVE InOrder(g)
      BY <2>0
    <2>1. CASE g # last
      BY <1>1, <1>4, <2>1 DEF HandledInOrder, NextOf
    <2>2. CASE g = last
      <3>1. starts[last] + (n + 1) + Len(entries') = cursor
        BY <1>1, <1>2, <1>3, <1>6
      <3>2. starts[last] + (n + 1) <= Len(chain) + 1
        BY <1>1, <1>2, <1>3, <1>6
      <3>3. \A k \in 1 .. n : handled'[last][k] = chain[starts[last] + k - 1].event
        BY <1>2, <1>5 DEF HandledInOrder
      <3>4. handled'[last][n + 1] = chain[starts[last] + (n + 1) - 1].event
        BY <1>2, <1>3, <1>5, <1>7
      <3>5. \A k \in 1 .. n + 1 : k = n + 1 \/ k \in 1 .. n
        BY <1>2
      <3> QED
        BY <1>5, <2>2, <3>1, <3>2, <3>3, <3>4, <3>5
    <2> QED
      BY <2>1, <2>2
  <1>10. InHand'
    <2>1. \A k \in 1 .. Len(entries') : entries'[k] = chain[starts[last] + (n + 1) + k - 1]
      <3> SUFFICES ASSUME NEW k \in 1 .. Len(entries) - 1
                   PROVE  Tail(entries)[k] = chain[starts[last] + (n + 1) + k - 1]
        BY <1>1, <1>3
      <3>1. Tail(entries)[k] = entries[k + 1] /\ k + 1 \in 1 .. Len(entries)
        BY <1>3
      <3>2. entries[k + 1] = chain[starts[last] + n + (k + 1) - 1]
        BY <1>7, <3>1
      <3>3. starts[last] + n + (k + 1) - 1 = starts[last] + (n + 1) + k - 1
        BY <1>2
      <3> QED
        BY <3>1, <3>2, <3>3
    <2>2. \A k \in 1 .. Len(entries') :
             entries'[k] = chain[starts[last] + Len(handled'[last]) + k - 1]
      BY <1>5, <2>1
    <2> QED
      BY <1>1, <2>2 DEF InHand, NextOf
  <1>11. BlocksBounded'
    BY <1>1 DEF BlocksBounded
  <1>12. OneBlock'
    <2> SUFFICES ASSUME NEW g \in DOMAIN starts, NEW h \in DOMAIN starts, g < h,
                        NEW i \in DOMAIN chain, NEW j \in DOMAIN chain,
                        Handles(g, i)', Handles(g, j)', i >= starts[h], j >= starts[h]
                 PROVE  chain[i].block = chain[j].block
      BY <1>1 DEF OneBlock
    <2>1. g # last
      BY <1>1
    <2>2. Handles(g, i) /\ Handles(g, j)
      BY <1>1, <1>4, <2>1 DEF Handles, NextOf
    <2> QED
      BY <2>2 DEF OneBlock
  <1> QED
    BY <1>8, <1>9, <1>10, <1>11, <1>12

\* The other steps leave the logs and what was handled alone; a task that dies
\* or starts anew has nothing in hand.
LEMMA OtherKeeps ==
    ASSUME IInv,
           \/ TaskDies \/ Restart \/ EndOfRun
           \/ \E i \in Inserts : InsertLands(i) \/ InsertFails(i)
           \/ UNCHANGED vars
    PROVE  IInv'
  <1> USE DEF IInv
  <1>1. UNCHANGED <<chain, height, cursor, starts, handled>>
    BY DEF TaskDies, Restart, EndOfRun, InsertLands, InsertFails, vars
  <1>2. \/ pc' \in {"dead", "start"} /\ entries' = <<>>
        \/ UNCHANGED <<pc, entries>>
    BY DEF TaskDies, Restart, EndOfRun, InsertLands, InsertFails, vars
  <1>3. /\ inFlight' \cup stored' \subseteq inFlight \cup stored
        /\ inFlight' \cap stored' = {}
    BY DEF TaskDies, Restart, EndOfRun, InsertLands, InsertFails, vars, TypeOK
  <1>4. faults' \in Nat /\ crashes' \in Nat
    <2>1. faults \in Nat /\ crashes \in Nat
      BY DEF TypeOK
    <2>2. faults' \in {faults, faults + 1} /\ crashes' \in {crashes, crashes + 1}
      BY DEF TaskDies, Restart, EndOfRun, InsertLands, InsertFails, vars, Fault
    <2> QED
      BY <2>1, <2>2
  <1>5. TypeOK'
    <2>1. pc' \in {"start", "poll", "handle", "dead"} /\ entries' \in Seq(Log)
      <3>1. pc \in {"start", "poll", "handle", "dead"} /\ entries \in Seq(Log)
        BY DEF TypeOK
      <3>2. <<>> \in Seq(Log)
        OBVIOUS
      <3> QED
        BY <1>2, <3>1, <3>2
    <2>2. \A i \in inFlight' \cup stored' :
             i[1] \in DOMAIN handled' /\ i[2] \in DOMAIN handled'[i[1]]
      BY <1>1, <1>3 DEF TypeOK
    <2> QED
      BY <1>1, <1>3, <1>4, <2>1, <2>2 DEF TypeOK
  <1>6. \A g : NextOf(g)' = NextOf(g)
    BY <1>1 DEF NextOf
  <1>7. HandledInOrder' /\ InHand'
    BY <1>1, <1>2, <1>6 DEF HandledInOrder, InHand
  <1>8. BlocksBounded' /\ OneBlock'
    BY <1>1, <1>6 DEF BlocksBounded, OneBlock, Handles
  <1> QED
    BY <1>5, <1>7, <1>8

LEMMA NextIInv == ASSUME IInv, [Next]_vars PROVE IInv'
  <1>1. CASE MineBlock
    BY <1>1, MineKeeps
  <1>2. CASE CreateFilter
    BY <1>2, CreateKeeps
  <1>3. CASE Poll
    BY <1>3, PollKeeps
  <1>4. CASE HandleEntry
    BY <1>4, HandleKeeps
  <1> QED
    BY <1>1, <1>2, <1>3, <1>4, OtherKeeps DEF Next

LEMMA Inductive == Spec => []IInv
  <1>1. IInv /\ [Next]_vars => IInv'
    BY NextIInv
  <1> QED
    BY InitIInv, <1>1, PTL DEF Spec

---------------------------------------------------------------------------
\* Every variable keeps its type, and no filter gets ahead of the chain.
THEOREM TypeCorrect == Spec => []TypeOK
  BY Inductive, PTL DEF IInv

\* For any events, errors and restarts, every filter handles an unbroken run of
\* the logs, each once and in their order.
THEOREM EventsAreHandledInOrder == Spec => []HandledInOrder
  BY Inductive, PTL DEF IInv

\* However often the sequencer restarts, two filters share the logs of one
\* block at the most.
THEOREM RestartRepeatsOneBlock == Spec => []RepeatsOneBlock
  <1>1. IInv => RepeatsOneBlock
    <2> SUFFICES ASSUME IInv, NEW g \in DOMAIN starts, NEW h \in DOMAIN starts, g < h,
                        NEW i \in DOMAIN chain, NEW j \in DOMAIN chain,
                        Handles(g, i), Handles(h, i), Handles(g, j), Handles(h, j)
                 PROVE  chain[i].block = chain[j].block
      BY DEF RepeatsOneBlock
    <2>1. i >= starts[h] /\ j >= starts[h]
      BY DEF Handles, IInv, TypeOK
    <2> QED
      BY <2>1 DEF OneBlock, IInv
  <1> QED
    BY Inductive, <1>1, PTL

---------------------------------------------------------------------------
(* The money in the mempool.                                               *)

DistinctEvents == \A i, j \in DOMAIN chain : chain[i].event = chain[j].event => i = j

\* Only a restart asks for a second filter.
OneFilter ==
    crashes = 0 => /\ Len(starts) <= 1
                   /\ pc = "start" => starts = <<>>

FewInserts ==
    /\ IsFiniteSet(inFlight) /\ IsFiniteSet(stored)
    /\ \A i \in inFlight \cup stored : i = <<i[1], i[2], i[3]>> /\ i[3] \in Kinds

MoneyInv == DistinctEvents /\ OneFilter /\ FewInserts

LEMMA MoneyInvInit == Init => MoneyInv
  <1>1. IsFiniteSet({})
    BY FS_EmptySet
  <1> QED
    BY <1>1 DEF Init, MoneyInv, DistinctEvents, OneFilter, FewInserts

\* A deposit is mined once.
LEMMA MineDistinct ==
    ASSUME TypeOK, DistinctEvents, MineBlock
    PROVE  DistinctEvents'
  <1>1. PICK n \in 0 .. MaxBlockSize : \E b \in [1 .. n -> Events \ EventsOf(chain)] :
           /\ IsInjective(b)
           /\ chain' = chain \o [i \in 1 .. n |-> [event |-> b[i], block |-> height + 1]]
    BY DEF MineBlock
  <1>2. PICK b \in [1 .. n -> Events \ EventsOf(chain)] :
           /\ IsInjective(b)
           /\ chain' = chain \o [i \in 1 .. n |-> [event |-> b[i], block |-> height + 1]]
    BY <1>1
  <1> DEFINE new == [i \in 1 .. n |-> [event |-> b[i], block |-> height + 1]]
  <1> DEFINE m == Len(chain)
  <1>3. n \in Nat /\ m \in Nat /\ DOMAIN chain = 1 .. m /\ chain \in Seq(Log)
    BY ListenerAssumption, Numbers DEF TypeOK
  <1>4. /\ \A i \in 1 .. n : new[i].event = b[i] /\ b[i] \notin EventsOf(chain)
        /\ \A i \in 1 .. n : new[i] \in Log
    BY DEF Log, TypeOK
  <1>5. \A i, j \in 1 .. n : b[i] = b[j] => i = j
    BY <1>2 DEF IsInjective
  <1>6. new \in Seq(Log) /\ Len(new) = n /\ chain' = chain \o new
    BY <1>2, <1>3, <1>4
  <1> HIDE DEF new
  <1>7. /\ DOMAIN chain' = 1 .. m + n
        /\ \A i \in 1 .. m : chain'[i] = chain[i]
        /\ \A i \in 1 .. m + n : i \notin 1 .. m => i - m \in 1 .. n /\ chain'[i] = new[i - m]
    <2>1. \A i \in 1 .. m + n : i \notin 1 .. m => i - m \in 1 .. n
      BY <1>3
    <2>2. DOMAIN chain' = 1 .. m + n
      <3>1. \A s, t \in Seq(Log) : DOMAIN (s \o t) = 1 .. Len(s) + Len(t)
        OBVIOUS
      <3>2. DOMAIN (chain \o new) = 1 .. Len(chain) + Len(new)
        BY <1>3, <1>6, <3>1
      <3> QED
        BY <1>6, <3>2
    <2>3. \A i \in 1 .. m + n : i \notin 1 .. m => chain'[i] = new[i - m]
      BY <1>3, <1>6
    <2>4. \A i \in 1 .. m : chain'[i] = chain[i]
      BY <1>3, <1>6
    <2> QED
      BY <2>1, <2>2, <2>3, <2>4
  <1>8. \A i \in 1 .. m : chain'[i].event \in EventsOf(chain)
    BY <1>3, <1>7 DEF EventsOf
  <1>9. \A i \in 1 .. m + n : i \notin 1 .. m => /\ chain'[i].event = b[i - m]
                                                 /\ chain'[i].event \notin EventsOf(chain)
    BY <1>4, <1>7
  <1> SUFFICES ASSUME NEW i \in 1 .. m + n, NEW j \in 1 .. m + n,
                      chain'[i].event = chain'[j].event
               PROVE  i = j
    BY <1>7 DEF DistinctEvents
  <1>10. CASE i \in 1 .. m /\ j \in 1 .. m
    BY <1>3, <1>7, <1>10 DEF DistinctEvents
  <1>11. CASE i \notin 1 .. m /\ j \notin 1 .. m
    <2>1. b[i - m] = b[j - m] /\ i - m \in 1 .. n /\ j - m \in 1 .. n
      BY <1>7, <1>9, <1>11
    <2>2. i - m = j - m
      BY <1>5, <2>1
    <2> QED
      BY <1>3, <2>2
  <1>12. CASE ~ (i \in 1 .. m <=> j \in 1 .. m)
    BY <1>8, <1>9, <1>12
  <1> QED
    BY <1>10, <1>11, <1>12

LEMMA FewInsertsNext ==
    ASSUME FewInserts, [Next]_vars
    PROVE  FewInserts'
  <1>1. CASE HandleEntry
    <2> DEFINE g == Len(starts)
    <2> DEFINE n == Len(handled[g]) + 1
    <2>1. /\ inFlight' = inFlight \cup {<<g, n, kind>> : kind \in Kinds}
          /\ stored' = stored
      BY <1>1 DEF HandleEntry
    <2>2. inFlight' = (inFlight \cup {<<g, n, "user">>}) \cup {<<g, n, "transaction">>}
      BY <2>1 DEF Kinds
    <2>3. IsFiniteSet(inFlight')
      BY <2>2, FS_AddElement DEF FewInserts
    <2>4. \A i \in {<<g, n, kind>> : kind \in Kinds} : i = <<i[1], i[2], i[3]>> /\ i[3] \in Kinds
      OBVIOUS
    <2> QED
      BY <2>1, <2>3, <2>4 DEF FewInserts
  <1>2. ASSUME NEW i, i \in inFlight, inFlight' = inFlight \ {i},
               stored' = stored \/ stored' = stored \cup {i}
        PROVE  FewInserts'
    BY <1>2, FS_AddElement, FS_RemoveElement DEF FewInserts
  <1>3. CASE Restart
    <2>1. PICK S \in SUBSET inFlight : stored' = stored \cup S
      BY <1>3 DEF Restart
    <2>2. IsFiniteSet(S) /\ IsFiniteSet({}) /\ inFlight' = {}
      BY <1>3, FS_Subset, FS_EmptySet DEF FewInserts, Restart
    <2>3. IsFiniteSet(stored')
      BY <2>1, <2>2, FS_Union DEF FewInserts
    <2> QED
      BY <2>1, <2>2, <2>3 DEF FewInserts
  <1>4. CASE \E i \in Inserts : InsertLands(i) \/ InsertFails(i)
    BY <1>2, <1>4 DEF InsertLands, InsertFails
  <1>5. CASE UNCHANGED <<inFlight, stored>>
    BY <1>5 DEF FewInserts
  <1>6. MineBlock \/ CreateFilter \/ Poll \/ TaskDies \/ EndOfRun \/ UNCHANGED vars
           => UNCHANGED <<inFlight, stored>>
    BY DEF MineBlock, CreateFilter, Poll, TaskDies, EndOfRun, vars
  <1> QED
    BY <1>1, <1>3, <1>4, <1>5, <1>6 DEF Next

LEMMA OneFilterNext ==
    ASSUME TypeOK, OneFilter, [Next]_vars
    PROVE  OneFilter'
  <1>1. CASE CreateFilter
    <2>1. PICK from : starts' = Append(starts, from)
      BY <1>1 DEF CreateFilter
    <2>2. crashes' = crashes /\ pc = "start" /\ pc' = "poll"
      BY <1>1 DEF CreateFilter
    <2>3. starts = <<>> => Len(starts') = 1
      BY <2>1
    <2>4. crashes = 0 => Len(starts') = 1
      BY <2>2, <2>3 DEF OneFilter
    <2>5. Len(starts') = 1 => Len(starts') <= 1
      OBVIOUS
    <2> QED
      BY <2>2, <2>4, <2>5 DEF OneFilter
  <1>2. CASE Restart
    <2>1. crashes' # 0
      BY <1>2 DEF Restart, TypeOK
    <2> QED
      BY <2>1 DEF OneFilter
  <1>3. ASSUME UNCHANGED <<starts, crashes>>, pc' = "start" => pc = "start"
        PROVE  OneFilter'
    BY <1>3 DEF OneFilter
  <1>4. (\/ MineBlock \/ Poll \/ HandleEntry \/ TaskDies \/ EndOfRun \/ UNCHANGED vars
         \/ \E i \in Inserts : InsertLands(i) \/ InsertFails(i))
           => UNCHANGED <<starts, crashes>> /\ (pc' = "start" => pc = "start")
    BY DEF MineBlock, Poll, HandleEntry, TaskDies, EndOfRun, vars, InsertLands, InsertFails
  <1> QED
    BY <1>1, <1>2, <1>3, <1>4 DEF Next

LEMMA MoneyInvNext ==
    ASSUME IInv, MoneyInv, [Next]_vars
    PROVE  MoneyInv'
  <1>1. DistinctEvents'
    <2>1. CASE MineBlock
      BY <2>1, MineDistinct DEF IInv, MoneyInv
    <2>2. CASE chain' = chain
      BY <2>2 DEF DistinctEvents, MoneyInv
    <2>3. MineBlock \/ chain' = chain
      BY DEF Next, CreateFilter, Poll, HandleEntry, TaskDies, Restart, EndOfRun, vars,
             InsertLands, InsertFails
    <2> QED
      BY <2>1, <2>2, <2>3
  <1> QED
    BY <1>1, FewInsertsNext, OneFilterNext DEF IInv, MoneyInv

LEMMA MoneyInvHolds == Spec => [](IInv /\ MoneyInv)
  <1>1. IInv /\ MoneyInv /\ [Next]_vars => (IInv /\ MoneyInv)'
    BY NextIInv, MoneyInvNext
  <1> QED
    BY InitIInv, MoneyInvInit, <1>1, PTL DEF Spec

\* Whole ether are never more than the wei they were.
LEMMA RoundedDown ==
    ASSUME NEW wei \in Nat
    PROVE  InEther(wei) * Ether \in Nat /\ InEther(wei) * Ether <= wei
  <1>1. Ether \in Nat \ {0}
    BY ListenerAssumption
  <1>2. \A w \in Nat, e \in Nat \ {0} : w \div e \in Nat
    OBVIOUS
  <1>3. \A w \in Nat, e \in Nat \ {0} : (w \div e) * e <= w
    OBVIOUS
  <1>4. \A q \in Nat, e \in Nat : q * e \in Nat
    OBVIOUS
  <1> QED
    BY <1>1, <1>2, <1>3, <1>4 DEF InEther

LEMMA EventsAreFew == TypeOK => IsFiniteSet(EventsOf(chain)) /\ EventsOf(chain) \subseteq Events
  <1> SUFFICES ASSUME TypeOK
               PROVE  IsFiniteSet(EventsOf(chain)) /\ EventsOf(chain) \subseteq Events
    OBVIOUS
  <1> DEFINE n == Len(chain)
  <1> DEFINE e == [i \in 1 .. n |-> chain[i].event]
  <1>1. DOMAIN chain = 1 .. n /\ n \in Nat /\ \A i \in 1 .. n : chain[i].event \in Events
    BY Numbers DEF Log
  <1>2. e \in Surjection(1 .. n, EventsOf(chain))
    BY <1>1 DEF EventsOf, Surjection
  <1>3. IsFiniteSet(1 .. n)
    BY <1>1, FS_Interval
  <1>4. IsFiniteSet(EventsOf(chain))
    BY <1>2, <1>3, FS_Surjection
  <1> QED
    BY <1>1, <1>4 DEF EventsOf

\* Each document of a transaction is of an event of its own.
LEMMA Backed == IInv /\ MoneyInv => CreditIsBacked
  <1> SUFFICES ASSUME IInv, MoneyInv, crashes = 0
               PROVE  SumFunctionOnSet(Credit, {i \in stored : i[3] = "transaction"})
                         <= SumFunctionOnSet(Wei, EventsOf(chain))
    BY DEF CreditIsBacked
  <1> DEFINE S == {i \in stored : i[3] = "transaction"}
  <1> DEFINE event == [i \in S |-> handled[i[1]][i[2]]]
  <1>1. TypeOK
    BY DEF IInv
  <1>2. IsFiniteSet(S) /\ \A i \in S : i = <<i[1], i[2], "transaction">>
    BY FS_Subset DEF MoneyInv, FewInserts
  <1>3. IsFiniteSet(EventsOf(chain)) /\ EventsOf(chain) \subseteq Events
    BY <1>1, EventsAreFew
  <1>4. \A i \in S : /\ i[1] = 1 /\ 1 \in DOMAIN starts
                     /\ i[2] \in 1 .. Len(handled[1])
    <2> SUFFICES ASSUME NEW i \in S
                 PROVE  i[1] = 1 /\ 1 \in DOMAIN starts /\ i[2] \in 1 .. Len(handled[1])
      OBVIOUS
    <2>1. i[1] \in DOMAIN handled /\ i[2] \in DOMAIN handled[i[1]]
      BY <1>1 DEF TypeOK
    <2>2. DOMAIN handled = 1 .. Len(starts) /\ DOMAIN starts = 1 .. Len(starts) /\ Len(starts) \in Nat
      BY <1>1, Numbers DEF TypeOK
    <2>3. Len(starts) <= 1
      BY DEF MoneyInv, OneFilter
    <2>4. i[1] = 1 /\ 1 \in DOMAIN starts
      BY <2>1, <2>2, <2>3
    <2>5. handled[1] \in Seq(Events)
      BY <1>1, <2>4, Numbers
    <2> QED
      BY <2>1, <2>4, <2>5
  <1>5. \A i \in S : /\ starts[1] + i[2] - 1 \in DOMAIN chain
                     /\ event[i] = chain[starts[1] + i[2] - 1].event
    <2> SUFFICES ASSUME NEW i \in S
                 PROVE  /\ starts[1] + i[2] - 1 \in DOMAIN chain
                        /\ handled[1][i[2]] = chain[starts[1] + i[2] - 1].event
      BY <1>4
    <2>1. /\ i[2] \in 1 .. Len(handled[1]) /\ 1 \in DOMAIN starts
          /\ starts[1] \in Nat \ {0} /\ Len(handled[1]) \in Nat
          /\ Len(chain) \in Nat /\ DOMAIN chain = 1 .. Len(chain)
      BY <1>1, <1>4, Numbers
    <2>2. /\ starts[1] + Len(handled[1]) <= Len(chain) + 1
          /\ handled[1][i[2]] = chain[starts[1] + i[2] - 1].event
      BY <2>1 DEF IInv, HandledInOrder, NextOf
    <2> QED
      BY <2>1, <2>2
  <1>6. \A i \in S : event[i] \in EventsOf(chain)
    BY <1>5 DEF EventsOf
  <1>7. ASSUME NEW i \in S, NEW j \in S, event[i] = event[j]
        PROVE  i = j
    <2>1. starts[1] + i[2] - 1 = starts[1] + j[2] - 1
      <3>1. DistinctEvents
        BY DEF MoneyInv
      <3> DEFINE a == starts[1] + i[2] - 1
      <3> DEFINE b == starts[1] + j[2] - 1
      <3>2. a \in DOMAIN chain /\ b \in DOMAIN chain /\ chain[a].event = chain[b].event
        BY <1>5, <1>7
      <3> HIDE DEF a, b
      <3>3. a = b
        BY <3>1, <3>2 DEF DistinctEvents
      <3> QED
        BY <3>3 DEF a, b
    <2>2. starts[1] \in Nat /\ i[2] \in Nat /\ j[2] \in Nat
      BY <1>1, <1>4, Numbers
    <2>3. i[2] = j[2]
      BY <2>1, <2>2
    <2> QED
      BY <1>2, <1>4, <2>3
  <1>8. \A e \in EventsOf(chain) : Wei[e] \in Nat
    BY <1>3, ListenerAssumption
  <1>9. \A i \in S : Credit[i] \in Nat /\ Credit[i] <= Wei[event[i]]
    BY <1>6, <1>8, RoundedDown DEF Credit
  <1> HIDE DEF S, event
  <1> QED
    BY <1>2, <1>3, <1>6, <1>7, <1>8, <1>9, SumPlaced DEF S

\* As long as the process was not restarted, the deposit transactions in the
\* mempool, of whatever events and amounts, credit no more than the events brought.
THEOREM CreditNeverExceedsDeposits == Spec => []CreditIsBacked
  BY MoneyInvHolds, Backed, PTL
=============================================================================
