-------------------------- MODULE StructuresProofs --------------------------
(***************************************************************************)
(* The data structures, and the monitor's buffer that stands between an    *)
(* arbiter and its monitor, proved for any capacity and data.              *)
(***************************************************************************)
EXTENDS QueueSpsc, LinkedList, EmbeddedList, Vectors,
        MonitorBuffer, SequenceTheorems, TLAPS

LOCAL INSTANCE SequencesExt

-----------------------------------------------------------------------------
(* The old queue: the inductive invariant.                                 *)

\* The place in the array that x stands for.
Wrap(x) == IF x >= QCapacity THEN x - QCapacity ELSE x

\* The number of elements that are published and not consumed.
Held == elem_num - qrdec

\* Element i counted from 0, from tail on.
QSlot(i) == qslots[Wrap(qtail + i)]

\* Head is as far from tail as the counter says, once both sides have caught up
\* with it; the writer owns the slot after the published ones.
HeadInv ==
  /\ qhead = Wrap(qtail + Held + (IF qwpc = "inc" THEN 1 ELSE 0))
  /\ qwpc # "idle" => wmax < QCapacity

\* The published slots hold data, and so does the one being published.
SlotsInv ==
  /\ \A i \in 0..(Held - 1) : QSlot(i) \in QData
  /\ qwpc \in {"filled", "inc"} => QSlot(Held) \in QData

qInv == queueTypeOK /\ HeadInv /\ SlotsInv

-----------------------------------------------------------------------------
(* Places in the array.                                                    *)

\* The operator % and Wrap agree on what occurs.
LEMMA WrapIsMod ==
  ASSUME NEW x \in 0..(2 * QCapacity - 1)
  PROVE  x % QCapacity = Wrap(x) /\ Wrap(x) \in QOffsets
  <1>1. CASE x < QCapacity
    BY <1>1, QueueAssumption DEF Wrap, QOffsets
  <1>2. CASE x >= QCapacity
    <2>1. x \in QCapacity..(2 * QCapacity - 1)
      BY <1>2, QueueAssumption
    <2>2. \A y \in QCapacity..(2 * QCapacity - 1) : y % QCapacity = y - QCapacity
      BY QueueAssumption
    <2>. QED BY <2>1, <2>2, QueueAssumption DEF Wrap, QOffsets
  <1>. QED BY <1>1, <1>2, QueueAssumption

\* A place after at most one round is in the array.
LEMMA WrapType ==
  ASSUME NEW o \in QOffsets, NEW i \in 0..QCapacity
  PROVE  Wrap(o + i) \in QOffsets
  BY QueueAssumption DEF Wrap, QOffsets

\* Going m places and then i places is going m + i places.
LEMMA WrapAdd ==
  ASSUME NEW o \in QOffsets, NEW m \in 0..QCapacity, NEW i \in 0..(QCapacity - m)
  PROVE  Wrap(Wrap(o + m) + i) = Wrap(o + (m + i))
  BY QueueAssumption DEF Wrap, QOffsets

\* Places less than a round apart are different.
LEMMA WrapInj ==
  ASSUME NEW o \in QOffsets, NEW i \in 0..(QCapacity - 1), NEW j \in 0..(QCapacity - 1),
         Wrap(o + i) = Wrap(o + j)
  PROVE  i = j
  BY QueueAssumption DEF Wrap, QOffsets

-----------------------------------------------------------------------------
(* The old queue: every step preserves the invariant.                      *)

\* The bounds of the counter and of what both sides may load of it.
LEMMA QueueBounds ==
  ASSUME queueTypeOK
  PROVE  /\ Held \in 0..QCapacity /\ elem_num \in 0..QCapacity
         /\ qrdec \in 0..elem_num /\ wmax \in elem_num..QCapacity
         /\ rmin \in 0..elem_num /\ qtail \in QOffsets /\ qhead \in QOffsets
  BY QueueAssumption DEF queueTypeOK, Held

\* A step of the counters only.
LEMMA CounterStep ==
  ASSUME qInv,
         \/ \E num \in 0..QCapacity : write_offset(num)
         \/ \E num \in 0..QCapacity : load_num(num)
         \/ elem_num_dec
  PROVE  qInv' /\ QContents' = QContents
  <1>. USE QueueAssumption DEF qInv
  <1>1. UNCHANGED <<qhead, qtail, qslots>>
    BY DEF write_offset, load_num, elem_num_dec
  <1>2. /\ Held \in 0..QCapacity /\ elem_num \in 0..QCapacity
        /\ qrdec \in 0..elem_num /\ wmax \in elem_num..QCapacity
        /\ rmin \in 0..elem_num
    BY QueueBounds
  <1>3. Held' = Held
    BY <1>2 DEF Held, write_offset, load_num, elem_num_dec
  <1>4. queueTypeOK'
    <2>1. CASE \E num \in 0..QCapacity : write_offset(num)
      BY <2>1, <1>1, <1>2 DEF write_offset, queueTypeOK
    <2>2. CASE \E num \in 0..QCapacity : load_num(num)
      BY <2>2, <1>1, <1>2 DEF load_num, queueTypeOK
    <2>3. CASE elem_num_dec
      BY <2>3, <1>1, <1>2 DEF elem_num_dec, queueTypeOK
    <2>. QED BY <2>1, <2>2, <2>3
  <1>5. /\ qwpc' = "inc" <=> qwpc = "inc"
        /\ qwpc' = "filled" <=> qwpc = "filled"
        /\ qwpc' # "idle" => wmax' < QCapacity
    BY <1>2 DEF HeadInv, write_offset, load_num, elem_num_dec
  <1>6. HeadInv'
    BY <1>1, <1>3, <1>5 DEF HeadInv, Wrap
  <1>7. SlotsInv'
    BY <1>1, <1>3, <1>5 DEF SlotsInv, QSlot, Wrap
  <1>8. QContents' = QContents
    BY <1>1, <1>3 DEF QContents, Held
  <1>. QED BY <1>4, <1>6, <1>7, <1>8

\* What is published is a sequence of data.
LEMMA QContentsSeq ==
  ASSUME qInv
  PROVE  /\ QContents = [i \in 1..Held |-> QSlot(i - 1)]
         /\ QContents \in [1..Held -> QData]
         /\ QContents \in Seq(QData) /\ Len(QContents) = Held
  <1>1. Held \in 0..QCapacity /\ qtail \in QOffsets
    BY QueueBounds DEF qInv
  <1>2. ASSUME NEW i \in 1..Held
        PROVE  qslots[(qtail + i - 1) % QCapacity] = QSlot(i - 1)
    <2>1. qtail + i - 1 \in 0..(2 * QCapacity - 1) /\ qtail + i - 1 = qtail + (i - 1)
      BY <1>1, QueueAssumption DEF QOffsets
    <2>. QED BY <2>1, WrapIsMod DEF QSlot
  <1>3. QContents = [i \in 1..Held |-> QSlot(i - 1)]
    BY <1>2 DEF QContents, Held
  <1>4. ASSUME NEW i \in 1..Held PROVE QSlot(i - 1) \in QData
    <2>1. i - 1 \in 0..(Held - 1)
      BY <1>1
    <2>. QED BY <2>1 DEF qInv, SlotsInv
  <1>5. QContents \in [1..Held -> QData]
    BY <1>3, <1>4
  <1>6. Held \in Nat
    BY <1>1
  <1>. QED BY <1>3, <1>5, <1>6

\* The writer's slot is none of the published ones.
LEMMA FillStep ==
  ASSUME qInv, NEW d \in QData, fill(d)
  PROVE  qInv' /\ QContents' = QContents
  <1>. USE QueueAssumption DEF qInv
  <1>1. /\ qwpc = "granted" /\ qwpc' = "filled"
        /\ qslots' = [qslots EXCEPT ![qhead] = d]
        /\ UNCHANGED <<qhead, qtail, elem_num, wmax, rmin, qrdec>>
    BY DEF fill
  <1>2. /\ Held \in 0..(QCapacity - 1) /\ qtail \in QOffsets /\ qhead \in QOffsets
        /\ qslots \in [QOffsets -> QData \cup {QNone}]
    <2>1. /\ Held \in 0..QCapacity /\ elem_num \in 0..QCapacity
          /\ qrdec \in 0..elem_num /\ wmax \in elem_num..QCapacity
          /\ wmax < QCapacity
      BY <1>1, QueueBounds DEF HeadInv
    <2>2. Held < QCapacity
      BY <2>1 DEF Held
    <2>. QED BY <2>1, <2>2 DEF queueTypeOK
  <1>3. qhead = Wrap(qtail + Held)
    <2>1. qhead = Wrap(qtail + Held + 0)
      BY <1>1 DEF HeadInv
    <2>2. qtail + Held + 0 = qtail + Held
      BY <1>2 DEF QOffsets
    <2>. QED BY <2>1, <2>2
  <1>4. Held' = Held
    BY <1>1 DEF Held
  <1>5. QSlot(Held)' = d
    BY <1>1, <1>2, <1>3, <1>4 DEF QSlot, Wrap
  <1>6. ASSUME NEW i \in 0..(Held - 1) PROVE QSlot(i)' = QSlot(i)
    <2>1. i \in 0..(QCapacity - 1) /\ i # Held
      BY <1>2
    <2>2. Wrap(qtail + i) # qhead
      BY <1>2, <1>3, <2>1, WrapInj
    <2>. QED BY <1>1, <1>2, <2>2 DEF QSlot, Wrap
  <1>7. queueTypeOK'
    BY <1>1, <1>2 DEF queueTypeOK
  <1>8. HeadInv'
    BY <1>1, <1>4 DEF HeadInv, Wrap
  <1>9. SlotsInv'
    BY <1>1, <1>4, <1>5, <1>6 DEF SlotsInv
  <1>10. QContents' = QContents
    <2>1. /\ QContents = [i \in 1..Held |-> QSlot(i - 1)]
          /\ QContents' = [i \in 1..Held' |-> QSlot(i - 1)']
      <3>1. (qInv => QContents = [i \in 1..Held |-> QSlot(i - 1)])'
        BY QContentsSeq, PTL
      <3>. QED BY <3>1, <1>7, <1>8, <1>9, QContentsSeq
    <2>2. \A i \in 1..Held : i - 1 \in 0..(Held - 1)
      BY <1>2
    <2>. QED BY <1>4, <1>6, <2>1, <2>2
  <1>. QED BY <1>7, <1>8, <1>9, <1>10

\* The writer moves its head; the element is published by the counter later.
LEMMA FinishStep ==
  ASSUME qInv, writes_finish
  PROVE  qInv' /\ QContents' = QContents
  <1>. USE QueueAssumption DEF qInv
  <1>1. /\ qwpc = "filled" /\ qwpc' = "inc"
        /\ qhead' = (IF qhead + 1 = QCapacity THEN 0 ELSE qhead + 1)
        /\ UNCHANGED <<qtail, elem_num, qslots, wmax, rmin, qrdec>>
    BY DEF writes_finish
  <1>2. Held \in 0..(QCapacity - 1) /\ qtail \in QOffsets /\ qhead \in QOffsets
    <2>1. /\ Held \in 0..QCapacity /\ elem_num \in 0..QCapacity
          /\ qrdec \in 0..elem_num /\ wmax \in elem_num..QCapacity
          /\ wmax < QCapacity
      BY <1>1, QueueBounds DEF HeadInv
    <2>2. Held < QCapacity
      BY <2>1 DEF Held
    <2>. QED BY <2>1, <2>2 DEF queueTypeOK
  <1>3. qhead' \in QOffsets /\ qhead' = Wrap(qtail + Held + 1)
    <2>1. qhead = Wrap(qtail + Held + 0)
      BY <1>1 DEF HeadInv
    <2>. QED BY <1>1, <1>2, <2>1 DEF Wrap, QOffsets
  <1>4. Held' = Held /\ QContents' = QContents
    BY <1>1 DEF Held, QContents
  <1>5. queueTypeOK'
    BY <1>1, <1>3 DEF queueTypeOK
  <1>6. HeadInv'
    BY <1>1, <1>3, <1>4 DEF HeadInv, Wrap
  <1>7. SlotsInv'
    BY <1>1, <1>4 DEF SlotsInv, QSlot, Wrap
  <1>. QED BY <1>4, <1>5, <1>6, <1>7

\* Raising the counter publishes the element: a push of one element.
LEMMA IncStep ==
  ASSUME qInv, elem_num_inc
  PROVE  qInv' /\ QFifo!Push
  <1>. USE QueueAssumption DEF qInv
  <1>1. /\ qwpc = "inc" /\ qwpc' = "idle"
        /\ elem_num' = elem_num + 1 /\ wmax' = elem_num + 1
        /\ UNCHANGED <<qhead, qtail, qslots, rmin, qrdec>>
    BY DEF elem_num_inc
  <1>2. /\ elem_num \in 0..(QCapacity - 1) /\ Held \in 0..(QCapacity - 1)
        /\ qrdec \in 0..elem_num /\ rmin \in 0..elem_num /\ Held' = Held + 1
        /\ qtail \in QOffsets
    <2>1. /\ Held \in 0..QCapacity /\ elem_num \in 0..QCapacity
          /\ qrdec \in 0..elem_num /\ wmax \in elem_num..QCapacity
          /\ wmax < QCapacity /\ rmin \in 0..elem_num
      BY <1>1, QueueBounds DEF HeadInv
    <2>2. elem_num < QCapacity /\ Held < QCapacity /\ Held' = Held + 1
      BY <1>1, <2>1 DEF Held
    <2>. QED BY <2>1, <2>2 DEF queueTypeOK
  <1>3. queueTypeOK'
    <2>1. /\ elem_num' \in 0..QCapacity /\ wmax' \in elem_num'..QCapacity
          /\ rmin' \in 0..elem_num' /\ qrdec' \in 0..elem_num'
      BY <1>1, <1>2
    <2>. QED BY <1>1, <2>1 DEF queueTypeOK
  <1>4. HeadInv'
    <2>1. qhead = Wrap(qtail + Held + 1)
      BY <1>1 DEF HeadInv
    <2>2. qtail + Held' + 0 = qtail + Held + 1
      BY <1>2 DEF QOffsets
    <2>. QED BY <1>1, <2>1, <2>2 DEF HeadInv, Wrap
  <1>5. ASSUME NEW i PROVE QSlot(i)' = QSlot(i)
    BY <1>1 DEF QSlot, Wrap
  <1>6. SlotsInv'
    <2>1. \A i \in 0..(Held' - 1) : i \in 0..(Held - 1) \/ i = Held
      BY <1>2
    <2>. QED BY <1>1, <1>5, <2>1 DEF SlotsInv
  <1>7. qInv'
    BY <1>3, <1>4, <1>6
  <1>. DEFINE x == QSlot(Held)
              s == <<x>>
  <1>8. x \in QData
    BY <1>1 DEF SlotsInv
  <1>9. /\ QContents = [i \in 1..Held |-> QSlot(i - 1)]
        /\ QContents \in Seq(QData) /\ Len(QContents) = Held
        /\ QContents' = [i \in 1..Held' |-> QSlot(i - 1)']
        /\ QContents' \in Seq(QData) /\ Len(QContents') = Held'
    <2>1. (qInv => /\ QContents = [i \in 1..Held |-> QSlot(i - 1)]
                   /\ QContents \in Seq(QData) /\ Len(QContents) = Held)'
      BY QContentsSeq, PTL
    <2>. QED BY <2>1, <1>7, QContentsSeq
  <1>10. /\ QContents \o s \in Seq(QData) /\ Len(QContents \o s) = Held + 1
         /\ \A i \in 1..(Held + 1) :
              (QContents \o s)[i] = IF i <= Held THEN QContents[i] ELSE s[i - Held]
    <2>1. s \in Seq(QData) /\ Len(s) = 1
      BY <1>8
    <2>. HIDE DEF s
    <2>2. QContents \in Seq(QData) /\ Len(QContents) = Held
      BY <1>9
    <2>3. /\ QContents \o s \in Seq(QData)
          /\ Len(QContents \o s) = Len(QContents) + Len(s)
          /\ \A i \in 1..(Len(QContents) + Len(s)) :
               (QContents \o s)[i] = IF i <= Len(QContents) THEN QContents[i]
                                     ELSE s[i - Len(QContents)]
      BY <2>1, <2>2, ConcatProperties
    <2>. QED BY <2>1, <2>2, <2>3
  <1>11. ASSUME NEW i \in 1..(Held + 1) PROVE QContents'[i] = (QContents \o s)[i]
    <2>1. QContents'[i] = QSlot(i - 1)
      BY <1>2, <1>5, <1>9
    <2>2. CASE i <= Held
      <3>1. i \in 1..Held
        BY <2>2, <1>2
      <3>. QED BY <2>1, <2>2, <3>1, <1>9, <1>10
    <2>3. CASE ~(i <= Held)
      <3>1. i - Held = 1 /\ i - 1 = Held
        BY <2>3, <1>2
      <3>. QED BY <2>1, <2>3, <3>1, <1>10
    <2>. QED BY <2>2, <2>3
  <1>12. QContents' = QContents \o s
    <2>. HIDE DEF s
    <2>1. Len(QContents') = Held + 1
      BY <1>2, <1>9
    <2>. QED BY <1>9, <1>10, <1>11, <2>1, SeqEqual
  <1>13. s \in QFifo!Batches(QCapacity - Len(QContents))
    <2>1. 1 \in 1..(QCapacity - Len(QContents))
      BY <1>2, <1>9
    <2>2. s \in [1..1 -> QData]
      BY <1>8
    <2>. QED BY <2>1, <2>2 DEF QFifo!Batches
  <1>. QED BY <1>7, <1>12, <1>13 DEF QFifo!Push

\* Moving tail takes the elements out, although the counter is lowered later: a
\* pop, or nothing for an empty queue.
LEMMA ConsumeStep ==
  ASSUME qInv, NEW k \in 1..(QCapacity + 1), NEW num \in 0..QCapacity,
         queue_consume(k, num)
  PROVE  qInv' /\ (QFifo!Pop \/ QContents' = QContents)
  <1>. USE QueueAssumption DEF qInv
  <1>. DEFINE m == IF num < k THEN num ELSE k
  <1>1. /\ qrdec = 0 /\ num \in rmin..elem_num /\ qrdec' = m /\ rmin' = num
        /\ qtail' = (IF qtail + m >= QCapacity THEN qtail + m - QCapacity
                     ELSE qtail + m)
        /\ UNCHANGED <<qhead, elem_num, qslots, wmax, qwpc>>
    BY DEF queue_consume
  <1>2. /\ Held \in 0..QCapacity /\ elem_num \in 0..QCapacity /\ Held = elem_num
        /\ wmax \in elem_num..QCapacity /\ rmin \in 0..elem_num
        /\ qtail \in QOffsets /\ qhead \in QOffsets
    BY <1>1, QueueBounds DEF Held
  <1>3. m \in 0..Held /\ m \in 0..QCapacity /\ num \in 0..elem_num
    BY <1>1, <1>2
  <1>. HIDE DEF m
  <1>4. Held' = Held - m /\ Held' \in 0..QCapacity
    BY <1>1, <1>2, <1>3 DEF Held
  <1>5. qtail' = Wrap(qtail + m) /\ qtail' \in QOffsets
    <2>1. qtail \in Int /\ m \in Int /\ QCapacity \in Int
      BY <1>2, <1>3 DEF QOffsets
    <2>2. qtail' = Wrap(qtail + m)
      <3>1. CASE qtail + m >= QCapacity
        BY <1>1, <2>1, <3>1 DEF Wrap
      <3>2. CASE ~(qtail + m >= QCapacity)
        BY <1>1, <2>1, <3>2 DEF Wrap
      <3>. QED BY <3>1, <3>2
    <2>3. Wrap(qtail + m) \in QOffsets
      BY <1>2, <1>3, WrapType
    <2>. QED BY <2>2, <2>3
  <1>6. ASSUME NEW i \in 0..(QCapacity - m)
        PROVE  /\ Wrap(qtail' + i) = Wrap(qtail + (m + i))
               /\ qslots[Wrap(qtail' + i)] = QSlot(m + i)
               /\ QSlot(i)' = QSlot(m + i)
    <2>1. Wrap(qtail' + i) = Wrap(qtail + (m + i))
      BY <1>2, <1>3, <1>5, WrapAdd
    <2>2. QSlot(i)' = qslots[Wrap(qtail' + i)]
      BY <1>1 DEF QSlot, Wrap
    <2>. QED BY <2>1, <2>2 DEF QSlot
  <1>7. queueTypeOK'
    <2>1. rmin' \in 0..elem_num /\ qrdec' \in 0..elem_num
      BY <1>1, <1>2, <1>3
    <2>. QED BY <1>1, <1>5, <2>1 DEF queueTypeOK
  <1>8. HeadInv'
    <2>. DEFINE e == IF qwpc = "inc" THEN 1 ELSE 0
    <2>1. qwpc = "inc" => Held < QCapacity
      BY <1>2 DEF HeadInv
    <2>2. Held - m + e \in 0..(QCapacity - m) /\ e \in 0..1
      BY <1>2, <1>3, <2>1
    <2>3. qhead = Wrap(qtail + Held + e)
      BY DEF HeadInv
    <2>. HIDE DEF e
    <2>4. /\ qtail' + Held' + e = qtail' + (Held - m + e)
          /\ qtail + Held + e = qtail + (m + (Held - m + e))
      BY <1>2, <1>3, <1>4, <1>5, <2>2 DEF QOffsets
    <2>5. Wrap(qtail' + (Held - m + e)) = Wrap(qtail + (m + (Held - m + e)))
      BY <2>2, <1>6
    <2>6. qhead = Wrap(qtail' + Held' + e)
      BY <2>3, <2>4, <2>5
    <2>7. Wrap(qtail + Held + e)' = Wrap(qtail' + Held' + e)
      BY <1>1 DEF Wrap, e
    <2>. QED BY <1>1, <2>6, <2>7 DEF HeadInv, e
  <1>9. SlotsInv'
    <2>1. ASSUME NEW i \in 0..(Held' - 1) PROVE QSlot(i)' \in QData
      <3>1. i \in 0..(QCapacity - m) /\ m + i \in 0..(Held - 1)
        BY <1>2, <1>3, <1>4
      <3>. QED BY <3>1, <1>6 DEF SlotsInv
    <2>2. ASSUME qwpc \in {"filled", "inc"} PROVE QSlot(Held)' \in QData
      <3>1. Held - m \in 0..(QCapacity - m) /\ m + (Held - m) = Held
        BY <1>2, <1>3
      <3>2. qslots[Wrap(qtail' + (Held - m))] = QSlot(m + (Held - m))
        BY <3>1, <1>6
      <3>3. QSlot(Held)' = qslots[Wrap(qtail' + Held')]
        BY <1>1 DEF QSlot, Wrap
      <3>. QED BY <2>2, <3>1, <3>2, <3>3, <1>4 DEF SlotsInv
    <2>. QED BY <1>1, <2>1, <2>2 DEF SlotsInv
  <1>10. qInv'
    BY <1>7, <1>8, <1>9
  <1>11. /\ QContents = [i \in 1..Held |-> QSlot(i - 1)]
         /\ QContents \in [1..Held -> QData]
         /\ QContents \in Seq(QData) /\ Len(QContents) = Held
         /\ QContents' = [i \in 1..Held' |-> QSlot(i - 1)']
    <2>1. (qInv => QContents = [i \in 1..Held |-> QSlot(i - 1)])'
      BY QContentsSeq, PTL
    <2>. QED BY <2>1, <1>10, QContentsSeq
  <1>12. QContents' = [i \in 1..(Held - m) |-> QContents[i + m]]
    <2>1. ASSUME NEW i \in 1..(Held - m) PROVE QSlot(i - 1)' = QContents[i + m]
      <3>1. /\ i - 1 \in 0..(QCapacity - m) /\ i + m \in 1..Held
            /\ m + (i - 1) = (i + m) - 1
        BY <1>2, <1>3
      <3>2. QSlot(i - 1)' = QSlot(m + (i - 1))
        BY <3>1, <1>6
      <3>. QED BY <3>1, <3>2, <1>11
    <2>. QED BY <2>1, <1>4, <1>11
  <1>13. CASE m = 0
    <2>1. Held - m = Held /\ \A i \in 1..Held : i + m = i
      BY <1>2, <1>13
    <2>. QED BY <2>1, <1>10, <1>11, <1>12
  <1>14. CASE m > 0
    <2>1. SubSeq(QContents, m + 1, Len(QContents))
            = [i \in 1..(Held - m) |-> QContents[i + m]]
      BY <1>2, <1>3, <1>11, <1>14
    <2>2. m \in 1..Len(QContents)
      <3>1. Len(QContents) = Held
        BY <1>11
      <3>2. m \in 1..Held
        BY <1>2, <1>3, <1>14
      <3>. QED BY <3>1, <3>2
    <2>. QED BY <2>1, <2>2, <1>10, <1>12 DEF QFifo!Pop
  <1>. QED BY <1>3, <1>13, <1>14

\* The invariant holds initially, in an empty queue.
LEMMA qInitInv == queueInit => qInv /\ QContents = << >>
  <1>. SUFFICES ASSUME queueInit PROVE qInv /\ QContents = << >>
    OBVIOUS
  <1>. USE QueueAssumption DEF queueInit
  <1>1. queueTypeOK
    BY DEF queueTypeOK, QOffsets
  <1>2. HeadInv /\ SlotsInv /\ Held = 0
    BY DEF HeadInv, SlotsInv, Held, Wrap
  <1>3. qInv
    BY <1>1, <1>2 DEF qInv
  <1>. HIDE DEF queueInit
  <1>4. QContents \in Seq(QData) /\ Len(QContents) = 0
    BY <1>2, <1>3, QContentsSeq
  <1>. QED BY <1>3, <1>4, EmptySeq

\* Every step keeps it, and is a push, a pop or no step of the bounded queue.
LEMMA qNextInv ==
  ASSUME qInv, [queueNext]_queueVars
  PROVE  qInv' /\ [QFifo!Next]_QContents
  <1>1. CASE queueNext
    BY <1>1, CounterStep, FillStep, FinishStep, IncStep, ConsumeStep
    DEF queueNext, QFifo!Next
  <1>2. CASE UNCHANGED queueVars
    BY <1>2 DEF queueVars, qInv, queueTypeOK, HeadInv, SlotsInv, Held, QSlot, Wrap,
                QContents
  <1>. QED BY <1>1, <1>2

\* So it always holds.
LEMMA qInvAlways == queueSpec => []qInv
  <1>1. qInv /\ [queueNext]_queueVars => qInv'
    BY qNextInv
  <1>. QED BY <1>1, qInitInv, PTL DEF queueSpec

-----------------------------------------------------------------------------
(* The old queue: the properties.                                          *)

\* Positions stay in the array and the counter in its bounds, although both sides
\* change it without looking.
THEOREM QueueTypeCorrect == queueSpec => []queueTypeOK
  <1>1. qInv => queueTypeOK
    BY DEF qInv
  <1>. QED BY <1>1, qInvAlways, PTL

\* vms_queue_spsc is a bounded queue that uses every slot, for any capacity: no
\* element is overwritten before it is consumed, lost or seen twice, whatever the
\* relaxed loads of the counter return.
THEOREM QueueImplementsFifo == queueSpec => QueueIsFifo
  <1>1. queueInit => QFifo!Init
    BY qInitInv DEF QFifo!Init
  <1>2. qInv /\ [queueNext]_queueVars => [QFifo!Next]_QContents
    BY qNextInv
  <1>. QED BY <1>1, <1>2, qInvAlways, PTL DEF queueSpec, QueueIsFifo, QFifo!Spec

\* What peek and peek_atmost_at return is the oldest elements in order, for every
\* number that the load of the counter may return.
THEOREM QueuePeekAlwaysRight == queueSpec => []QueuePeekRight
  <1>1. qInv => QueuePeekRight
    <2>. SUFFICES ASSUME qInv, qrdec = 0, NEW num \in rmin..elem_num
                  PROVE
           /\ \A n \in 0..(QCapacity + 1) :
                LET p == queue_peek(n, num)
                    m == IF n > num THEN num ELSE n
                IN  /\ p.len1 + p.len2 = m /\ qtail + p.len1 <= QCapacity
                    /\ \A i \in 1..m :
                         QContents[i] = qslots[IF i <= p.len1 THEN qtail + i - 1
                                               ELSE i - p.len1 - 1]
           /\ num > 0 =>
                \A k \in 0..(QCapacity + 1) :
                  QContents[IF k < num THEN k + 1 ELSE num]
                    = qslots[queue_peek_atmost_at(k, num).offset]
      BY DEF QueuePeekRight
    <2>. USE QueueAssumption
    <2>1. /\ elem_num \in 0..QCapacity /\ Held = elem_num /\ num \in 0..elem_num
          /\ num \in 0..QCapacity /\ qtail \in 0..(QCapacity - 1)
      <3>1. /\ Held \in 0..QCapacity /\ elem_num \in 0..QCapacity
            /\ rmin \in 0..elem_num /\ qtail \in QOffsets
        BY QueueBounds DEF qInv
      <3>. QED BY <3>1 DEF Held, QOffsets
    <2>2. ASSUME NEW i \in 1..num
          PROVE  QContents[i] = qslots[Wrap(qtail + (i - 1))]
      <3>1. i \in 1..Held
        BY <2>1
      <3>. QED BY <3>1, QContentsSeq DEF QSlot
    <2>3. ASSUME NEW n \in 0..(QCapacity + 1)
          PROVE  LET p == queue_peek(n, num)
                     m == IF n > num THEN num ELSE n
                 IN  /\ p.len1 + p.len2 = m /\ qtail + p.len1 <= QCapacity
                     /\ \A i \in 1..m :
                          QContents[i] = qslots[IF i <= p.len1 THEN qtail + i - 1
                                                ELSE i - p.len1 - 1]
      <3>. DEFINE m == IF n > num THEN num ELSE n
                  p == queue_peek(n, num)
      <3>1. m \in 0..num /\ m \in 0..QCapacity
        BY <2>1
      <3>2. p = IF m + qtail >= QCapacity
                THEN [len1 |-> QCapacity - qtail, len2 |-> m + qtail - QCapacity]
                ELSE [len1 |-> m, len2 |-> 0]
        BY DEF queue_peek
      <3>. HIDE DEF m, p
      <3>3. /\ p.len1 \in 0..QCapacity /\ p.len1 + p.len2 = m
            /\ qtail + p.len1 <= QCapacity
            /\ p.len1 < m => qtail + p.len1 = QCapacity
        BY <2>1, <3>1, <3>2
      <3>4. ASSUME NEW i \in 1..m
            PROVE  QContents[i] = qslots[IF i <= p.len1 THEN qtail + i - 1
                                         ELSE i - p.len1 - 1]
        <4>1. i \in 1..num /\ i <= m
          BY <2>1, <3>1
        <4>2. Wrap(qtail + (i - 1)) = IF i <= p.len1 THEN qtail + i - 1
                                      ELSE i - p.len1 - 1
          BY <2>1, <3>1, <3>3, <4>1 DEF Wrap
        <4>. QED BY <4>1, <4>2, <2>2
      <3>. QED BY <3>3, <3>4 DEF m, p
    <2>4. ASSUME num > 0, NEW k \in 0..(QCapacity + 1)
          PROVE  QContents[IF k < num THEN k + 1 ELSE num]
                   = qslots[queue_peek_atmost_at(k, num).offset]
      <3>. DEFINE m == IF k < num THEN k + 1 ELSE num
                  r == queue_peek_atmost_at(k, num)
      <3>1. m \in 1..num
        BY <2>1, <2>4
      <3>2. r.offset = Wrap(qtail + (m - 1))
        BY <2>1, <2>4 DEF queue_peek_atmost_at, Wrap
      <3>. QED BY <3>1, <3>2, <2>2
    <2>. QED BY <2>3, <2>4
  <1>. QED BY <1>1, qInvAlways, PTL


-----------------------------------------------------------------------------
(* Sequences with an element more or less.                                 *)

\* t is s with e at place q; t is s without place q.
Inserted(s, t, q, e) ==
  /\ Len(t) = Len(s) + 1
  /\ \A i \in 1..(Len(s) + 1) :
       t[i] = IF i < q THEN s[i] ELSE IF i = q THEN e ELSE s[i - 1]
Removed(s, t, q) ==
  /\ Len(t) = Len(s) - 1
  /\ \A i \in 1..(Len(s) - 1) : t[i] = IF i < q THEN s[i] ELSE s[i + 1]

Injective(s) == \A i, j \in 1..Len(s) : s[i] = s[j] => i = j

\* What InsertAt returns, place by place.
LEMMA InsertAtRight ==
  ASSUME NEW S, NEW s \in Seq(S), NEW e \in S, NEW q \in 1..(Len(s) + 1)
  PROVE  InsertAt(s, q, e) \in Seq(S) /\ Inserted(s, InsertAt(s, q, e), q, e)
  <1>. DEFINE a == SubSeq(s, 1, q - 1)
              b == SubSeq(s, q, Len(s))
  <1>1. /\ a \in Seq(S) /\ Len(a) = q - 1 /\ \A i \in 1..(q - 1) : a[i] = s[i]
        /\ b \in Seq(S) /\ Len(b) = Len(s) - q + 1
        /\ \A i \in 1..(Len(s) - q + 1) : b[i] = s[q + i - 1]
    OBVIOUS
  <1>. HIDE DEF a, b
  <1>2. InsertAt(s, q, e) = a \o <<e>> \o b
    BY DEF InsertAt, a, b
  <1>3. a \o <<e>> \o b \in Seq(S) /\ Len(a \o <<e>> \o b) = Len(s) + 1
    <2>1. a \o <<e>> \in Seq(S) /\ Len(a \o <<e>>) = q
      BY <1>1
    <2>2. /\ a \o <<e>> \o b \in Seq(S)
          /\ Len(a \o <<e>> \o b) = Len(a \o <<e>>) + Len(b)
      BY <1>1, <2>1, ConcatProperties
    <2>3. q + (Len(s) - q + 1) = Len(s) + 1
      OBVIOUS
    <2>. QED BY <1>1, <2>1, <2>2, <2>3
  <1>4. ASSUME NEW i \in 1..(Len(s) + 1)
        PROVE  (a \o <<e>> \o b)[i]
                 = IF i < q THEN s[i] ELSE IF i = q THEN e ELSE s[i - 1]
    <2>. DEFINE c == a \o <<e>>
    <2>1. /\ c \in Seq(S) /\ Len(c) = q
          /\ \A j \in 1..q : c[j] = IF j < q THEN a[j] ELSE e
      BY <1>1
    <2>. HIDE DEF c
    <2>2. (c \o b)[i] = IF i <= q THEN c[i] ELSE b[i - q]
      BY <1>1, <2>1
    <2>3. i > q => i - q \in 1..(Len(s) - q + 1) /\ q + (i - q) - 1 = i - 1
      OBVIOUS
    <2>. QED BY <1>1, <2>1, <2>2, <2>3, SMTT(30) DEF c
  <1>. QED BY <1>2, <1>3, <1>4 DEF Inserted

\* What RemoveAt returns, place by place.
LEMMA RemoveAtRight ==
  ASSUME NEW S, NEW s \in Seq(S), NEW q \in 1..Len(s)
  PROVE  RemoveAt(s, q) \in Seq(S) /\ Removed(s, RemoveAt(s, q), q)
  <1>. DEFINE a == SubSeq(s, 1, q - 1)
              b == SubSeq(s, q + 1, Len(s))
  <1>1. /\ a \in Seq(S) /\ Len(a) = q - 1 /\ \A i \in 1..(q - 1) : a[i] = s[i]
        /\ b \in Seq(S) /\ Len(b) = Len(s) - q
        /\ \A i \in 1..(Len(s) - q) : b[i] = s[q + i]
    OBVIOUS
  <1>. HIDE DEF a, b
  <1>2. RemoveAt(s, q) = a \o b
    BY DEF RemoveAt, a, b
  <1>3. a \o b \in Seq(S) /\ Len(a \o b) = Len(s) - 1
    <2>1. Len(s) \in Nat /\ q - 1 + (Len(s) - q) = Len(s) - 1
      OBVIOUS
    <2>2. a \o b \in Seq(S) /\ Len(a \o b) = Len(a) + Len(b)
      BY <1>1, ConcatProperties
    <2>. QED BY <1>1, <2>1, <2>2
  <1>4. ASSUME NEW i \in 1..(Len(s) - 1)
        PROVE  (a \o b)[i] = IF i < q THEN s[i] ELSE s[i + 1]
    BY <1>1
  <1>. QED BY <1>2, <1>3, <1>4 DEF Removed

\* No element is twice in the sequence after an insertion of a new one.
LEMMA InsertedInjective ==
  ASSUME NEW S, NEW s \in Seq(S), NEW t, NEW q \in 1..(Len(s) + 1), NEW e,
         Injective(s), Inserted(s, t, q, e), \A i \in 1..Len(s) : s[i] # e
  PROVE  Injective(t)
  BY DEF Injective, Inserted

\* Nor after a removal, and the removed one is gone.
LEMMA RemovedInjective ==
  ASSUME NEW S, NEW s \in Seq(S), NEW t, NEW q \in 1..Len(s),
         Injective(s), Removed(s, t, q)
  PROVE  Injective(t) /\ \A i \in 1..Len(t) : t[i] # s[q]
  BY SMTT(30) DEF Injective, Removed

-----------------------------------------------------------------------------
(* The doubly linked list.                                                 *)

\* No element is twice in the list, and the links are elements.
OrderInv ==
  /\ order \in Seq(Elems) /\ Injective(order)
  /\ next \in [Elems -> Elems \cup {NULL}] /\ prev \in [Elems -> Elems \cup {NULL}]

listInv == OrderInv /\ ForwardRight /\ BackwardRight

\* What the invariant says of the list, place by place.
LEMMA ListFacts ==
  ASSUME listInv
  PROVE  /\ Len(order) \in Nat /\ DOMAIN order = 1..Len(order)
         /\ \A i \in 1..Len(order) : order[i] \in Elems /\ order[i] # NULL
         /\ order = << >> <=> Len(order) = 0
         /\ first = (IF Len(order) = 0 THEN NULL ELSE order[1])
         /\ last = (IF Len(order) = 0 THEN NULL ELSE order[Len(order)])
         /\ \A i \in 1..Len(order) :
              next[order[i]] = (IF i = Len(order) THEN NULL ELSE order[i + 1])
         /\ \A i \in 1..Len(order) :
              prev[order[i]] = (IF i = 1 THEN NULL ELSE order[i - 1])
  <1>1. order \in Seq(Elems) /\ Len(order) \in Nat /\ DOMAIN order = 1..Len(order)
    BY DEF listInv, OrderInv
  <1>2. \A i \in 1..Len(order) : order[i] \in Elems /\ order[i] # NULL
    BY <1>1, ListAssumption DEF NULL
  <1>3. order = << >> <=> Len(order) = 0
    BY <1>1, EmptySeq
  <1>. QED BY <1>1, <1>2, <1>3 DEF listInv, ForwardRight, BackwardRight

\* The place of an element.
LEMMA PosRight ==
  ASSUME listInv, NEW e \in InList
  PROVE  Pos(e) \in 1..Len(order) /\ order[Pos(e)] = e
  BY ListFacts DEF InList, Pos

\* What an insertion at place q does: it sets the links of the new element and
\* of its two neighbours.
InsertStep(q, new) ==
  /\ order' \in Seq(Elems) /\ Inserted(order, order', q, new)
  /\ lsize' = lsize + 1
  /\ first' = (IF q = 1 THEN new ELSE first)
  /\ last' = (IF q = Len(order) + 1 THEN new ELSE last)
  /\ next' \in [Elems -> Elems \cup {NULL}]
  /\ prev' \in [Elems -> Elems \cup {NULL}]
  /\ next'[new] = (IF q = Len(order) + 1 THEN NULL ELSE order[q])
  /\ prev'[new] = (IF q = 1 THEN NULL ELSE order[q - 1])
  /\ \A i \in 1..Len(order) :
       next'[order[i]] = IF i = q - 1 THEN new ELSE next[order[i]]
  /\ \A i \in 1..Len(order) :
       prev'[order[i]] = IF i = q THEN new ELSE prev[order[i]]

\* An insertion that sets the four links of its place keeps the invariant.
LEMMA InsertKeeps ==
  ASSUME listInv, NEW q \in 1..(Len(order) + 1), NEW new \in Elems \ InList,
         InsertStep(q, new)
  PROVE  listInv'
  <1>. DEFINE n == Len(order)
  <1>1. /\ n \in Nat /\ DOMAIN order = 1..n
        /\ \A i \in 1..n : order[i] \in Elems
        /\ order = << >> <=> n = 0
    BY ListFacts
  <1>2. /\ first = (IF n = 0 THEN NULL ELSE order[1])
        /\ last = (IF n = 0 THEN NULL ELSE order[n])
    BY ListFacts
  <1>3. \A i \in 1..n : next[order[i]] = (IF i = n THEN NULL ELSE order[i + 1])
    BY ListFacts
  <1>4. \A i \in 1..n :
          prev[order[i]] = (IF i = 1 THEN NULL ELSE order[i - 1])
    BY ListFacts
  <1>5. /\ order' \in Seq(Elems) /\ Len(order') = n + 1 /\ DOMAIN order' = 1..(n + 1)
        /\ Inserted(order, order', q, new) /\ q \in 1..(n + 1)
    BY DEF InsertStep, Inserted
  <1>6. \A i \in 1..(n + 1) :
          order'[i] = IF i < q THEN order[i]
                      ELSE IF i = q THEN new ELSE order[i - 1]
    BY <1>5 DEF Inserted
  <1>7. \A i \in 1..n : order[i] # new
    BY <1>1 DEF InList
  <1>8. /\ next'[new] = (IF q = n + 1 THEN NULL ELSE order[q])
        /\ \A i \in 1..n :
             next'[order[i]] = IF i = q - 1 THEN new ELSE next[order[i]]
    BY DEF InsertStep
  <1>9. /\ prev'[new] = (IF q = 1 THEN NULL ELSE order[q - 1])
        /\ \A i \in 1..n :
             prev'[order[i]] = IF i = q THEN new ELSE prev[order[i]]
    BY DEF InsertStep
  <1>11. order \in Seq(Elems) /\ Injective(order) /\ lsize = n
    BY <1>1 DEF listInv, OrderInv, ForwardRight
  <1>12. Injective(order)'
    <2>1. Injective(order')
      BY <1>5, <1>7, <1>11, InsertedInjective
    <2>. QED BY <2>1 DEF Injective
  <1>. HIDE DEF n
  <1>16. OrderInv'
    BY <1>5, <1>12 DEF OrderInv, NULL, InsertStep
  <1>17. ASSUME NEW i \in 1..(n + 1)
         PROVE  next'[order'[i]] = (IF i = n + 1 THEN NULL ELSE order'[i + 1])
    <2>1. CASE i < q
      <3>1. i \in 1..n /\ i # n + 1 /\ i + 1 \in 1..(n + 1)
        BY <1>1, <1>5, <2>1
      <3>2. order'[i] = order[i]
        BY <1>6, <2>1
      <3>3. CASE i = q - 1
        <4>1. order'[i + 1] = new
          BY <1>5, <1>6, <3>1, <3>3
        <4>. QED BY <1>8, <3>1, <3>2, <3>3, <4>1
      <3>4. CASE i # q - 1
        <4>1. i + 1 < q /\ i # n
          BY <1>1, <1>5, <2>1, <3>4
        <4>2. order'[i + 1] = order[i + 1]
          BY <1>6, <3>1, <4>1
        <4>. QED BY <1>3, <1>8, <3>1, <3>2, <3>4, <4>1, <4>2
      <3>. QED BY <3>3, <3>4
    <2>2. CASE i = q
      <3>1. order'[i] = new
        BY <1>6, <2>2
      <3>2. CASE i = n + 1
        BY <1>8, <2>2, <3>1, <3>2
      <3>3. CASE i # n + 1
        <4>1. i + 1 \in 1..(n + 1) /\ ~(i + 1 < q) /\ i + 1 # q /\ (i + 1) - 1 = q
          BY <1>1, <1>5, <2>2, <3>3
        <4>2. order'[i + 1] = order[q]
          BY <1>6, <4>1
        <4>. QED BY <1>8, <2>2, <3>1, <3>3, <4>2
      <3>. QED BY <3>2, <3>3
    <2>3. CASE i > q
      <3>1. /\ i - 1 \in 1..n /\ i - 1 # q - 1 /\ ~(i < q) /\ i # q
            /\ (i - 1 = n <=> i = n + 1) /\ (i - 1) + 1 = i
        BY <1>1, <1>5, <2>3
      <3>2. order'[i] = order[i - 1]
        BY <1>6, <3>1
      <3>3. next'[order'[i]] = IF i = n + 1 THEN NULL ELSE order[i]
        BY <1>3, <1>8, <3>1, <3>2
      <3>4. ASSUME i # n + 1 PROVE order'[i + 1] = order[i]
        <4>1. i + 1 \in 1..(n + 1) /\ ~(i + 1 < q) /\ i + 1 # q /\ (i + 1) - 1 = i
          BY <1>1, <1>5, <2>3, <3>4
        <4>. QED BY <1>6, <4>1
      <3>. QED BY <3>3, <3>4
    <2>. QED BY <1>1, <1>5, <2>1, <2>2, <2>3
  <1>18. ASSUME NEW i \in 1..(n + 1)
         PROVE  prev'[order'[i]] = (IF i = 1 THEN NULL ELSE order'[i - 1])
    <2>1. CASE i < q
      <3>1. i \in 1..n /\ i # q /\ (i # 1 => i - 1 \in 1..(n + 1) /\ i - 1 < q)
        BY <1>1, <1>5, <2>1
      <3>2. order'[i] = order[i] /\ (i # 1 => order'[i - 1] = order[i - 1])
        BY <1>6, <2>1, <3>1
      <3>. QED BY <1>4, <1>9, <3>1, <3>2
    <2>2. CASE i = q
      <3>1. order'[i] = new
        BY <1>6, <2>2
      <3>2. i # 1 => i - 1 \in 1..(n + 1) /\ i - 1 < q
        BY <1>1, <1>5, <2>2
      <3>3. i # 1 => order'[i - 1] = order[q - 1]
        BY <1>6, <2>2, <3>2
      <3>. QED BY <1>9, <2>2, <3>1, <3>3
    <2>3. CASE i = q + 1
      <3>1. /\ q \in 1..n /\ ~(i < q) /\ i # q /\ i - 1 = q /\ i # 1
            /\ q \in 1..(n + 1) /\ ~(q < q)
        BY <1>1, <1>5, <2>3
      <3>2. order'[i] = order[q] /\ order'[q] = new
        BY <1>6, <3>1
      <3>. QED BY <1>9, <3>1, <3>2
    <2>4. CASE i > q + 1
      <3>1. /\ i - 1 \in 1..n /\ i - 1 # q /\ i - 1 # 1 /\ i # 1
            /\ ~(i < q) /\ i # q
            /\ i - 1 \in 1..(n + 1) /\ ~(i - 1 < q)
        BY <1>1, <1>5, <2>4
      <3>2. order'[i] = order[i - 1] /\ order'[i - 1] = order[(i - 1) - 1]
        BY <1>6, <3>1
      <3>. QED BY <1>4, <1>9, <3>1, <3>2
    <2>. QED BY <1>1, <1>5, <2>1, <2>2, <2>3, <2>4
  <1>19. first' = order'[1] /\ last' = order'[n + 1] /\ lsize' = n + 1
    <2>1. /\ first' = (IF q = 1 THEN new ELSE first) /\ lsize' = lsize + 1
          /\ last' = (IF q = n + 1 THEN new ELSE last)
      BY DEF InsertStep, n
    <2>2. CASE q = 1
      BY <1>1, <1>2, <1>6, <1>11, <2>1, <2>2
    <2>3. CASE q # 1
      <3>1. 1 \in 1..(n + 1) /\ 1 < q /\ n # 0 /\ n + 1 \in 1..(n + 1)
        BY <1>1, <1>5, <2>3
      <3>2. order'[1] = order[1]
        BY <1>6, <3>1
      <3>3. order'[n + 1] = IF q = n + 1 THEN new ELSE order[n]
        BY <1>1, <1>5, <1>6, <3>1
      <3>. QED BY <1>2, <1>11, <2>1, <2>3, <3>1, <3>2, <3>3
    <2>. QED BY <2>2, <2>3
  <1>20. ForwardRight'
    <2>1. order' # << >>
      BY <1>1, <1>5
    <2>. QED BY <1>5, <1>17, <1>19, <2>1 DEF ForwardRight, NULL
  <1>21. BackwardRight'
    BY <1>5, <1>18 DEF BackwardRight, NULL
  <1>. QED BY <1>16, <1>20, <1>21 DEF listInv

\* Different places hold different elements.
LEMMA SamePlace ==
  ASSUME listInv, NEW i \in 1..Len(order), NEW j \in 1..Len(order)
  PROVE  order[i] = order[j] <=> i = j
  BY DEF listInv, OrderInv, Injective

\* A new element's own link v, and a link to it from c unless that is NULL.
Linked(f, g, new, v, c) ==
  /\ g \in [Elems -> Elems \cup {NULL}] /\ g[new] = v
  /\ \A x \in Elems \ {new} : g[x] = IF x = c THEN new ELSE f[x]

\* Setting a link of the new element and one of its neighbour, if there is one.
LEMMA SetLinks ==
  ASSUME NEW f \in [Elems -> Elems \cup {NULL}], NEW new \in Elems,
         NEW v \in Elems \cup {NULL}, NEW c \in Elems \cup {NULL}, c # new
  PROVE  Linked(f, Set([f EXCEPT ![new] = v], c, new), new, v, c)
  <1>. DEFINE g == Set([f EXCEPT ![new] = v], c, new)
  <1>1. CASE c = NULL
    <2>1. g = [f EXCEPT ![new] = v]
      BY <1>1 DEF Set
    <2>2. NULL \notin Elems
      BY ListAssumption DEF NULL
    <2>. HIDE DEF g
    <2>3. Linked(f, g, new, v, c)
      BY <1>1, <2>1, <2>2 DEF Linked
    <2>. QED BY <2>3 DEF g
  <1>2. CASE c \in Elems
    <2>1. c # NULL
      BY <1>2, ListAssumption DEF NULL
    <2>2. g = [f EXCEPT ![new] = v, ![c] = new]
      BY <2>1 DEF Set
    <2>. HIDE DEF g
    <2>3. Linked(f, g, new, v, c)
      BY <1>2, <2>2 DEF Linked
    <2>. QED BY <2>3 DEF g
  <1>. QED BY <1>1, <1>2

\* vms_list_insert_after.
LEMMA InsertAfterStep ==
  ASSUME listInv, NEW e \in Elems, NEW new \in Elems, insert_elem_after(e, new)
  PROVE  listInv'
  <1>. DEFINE n == Len(order)
              p == Pos(e)
  <1>1. /\ e \in InList /\ new \in Elems \ InList
        /\ next' = [next EXCEPT ![new] = next[e], ![e] = new]
        /\ prev' = Set([prev EXCEPT ![new] = e], next[e], new)
        /\ last' = (IF e = last THEN new ELSE last) /\ first' = first
        /\ lsize' = lsize + 1
        /\ order' = InsertAt(order, p + 1, new)
    BY DEF insert_elem_after
  <1>2. p \in 1..n /\ order[p] = e
    BY <1>1, PosRight
  <1>3. /\ n \in Nat /\ DOMAIN order = 1..n
        /\ \A i \in 1..n : order[i] \in Elems /\ order[i] # NULL
        /\ last = (IF n = 0 THEN NULL ELSE order[n])
        /\ next[e] = (IF p = n THEN NULL ELSE order[p + 1])
    BY <1>2, ListFacts
  <1>4. /\ order \in Seq(Elems)
        /\ next \in [Elems -> Elems \cup {NULL}]
        /\ prev \in [Elems -> Elems \cup {NULL}]
    BY DEF listInv, OrderInv
  <1>5. \A i \in 1..n : order[i] # new
    BY <1>1, <1>3 DEF InList
  <1>6. \A i, j \in 1..n : order[i] = order[j] <=> i = j
    BY SamePlace
  <1>. HIDE DEF n, p
  <1>7. p + 1 \in 1..(n + 1) /\ (p + 1) - 1 = p /\ p + 1 # 1 /\ n # 0
        /\ (p = n <=> p + 1 = n + 1) /\ (p # n => p + 1 \in 1..n)
    BY <1>2, <1>3
  <1>8. order' \in Seq(Elems) /\ Inserted(order, order', p + 1, new)
    BY <1>1, <1>4, <1>7, InsertAtRight DEF n
  <1>9. /\ next' \in [Elems -> Elems \cup {NULL}] /\ next'[new] = next[e]
        /\ \A i \in 1..n : next'[order[i]] = IF i = p THEN new ELSE next[order[i]]
    BY <1>1, <1>2, <1>3, <1>4, <1>5, <1>6
  <1>10. last' = (IF p + 1 = n + 1 THEN new ELSE last)
    BY <1>1, <1>2, <1>3, <1>6, <1>7
  <1>11. /\ prev' \in [Elems -> Elems \cup {NULL}] /\ prev'[new] = e
         /\ \A i \in 1..n :
              prev'[order[i]] = IF i = p + 1 THEN new ELSE prev[order[i]]
    <2>1. \A i \in 1..n : order[i] = next[e] <=> i = p + 1
      BY <1>3, <1>6, <1>7
    <2>2. next[e] \in Elems \cup {NULL} /\ next[e] # new /\ new \in Elems
          /\ e \in Elems \cup {NULL}
      BY <1>3, <1>4, <1>5, <1>7, ListAssumption DEF NULL
    <2>3. Linked(prev, prev', new, e, next[e])
      BY <1>1, <1>4, <2>2, SetLinks
    <2>4. \A i \in 1..n : order[i] \in Elems \ {new}
      BY <1>3, <1>5
    <2>. QED BY <1>1, <2>1, <2>3, <2>4 DEF Linked
  <1>13. InsertStep(p + 1, new)
    <2>2. next'[new] = (IF p + 1 = n + 1 THEN NULL ELSE order[p + 1])
      BY <1>3, <1>7, <1>9
    <2>3. \A i \in 1..n :
            next'[order[i]] = IF i = (p + 1) - 1 THEN new ELSE next[order[i]]
      BY <1>7, <1>9
    <2>4. prev'[new] = (IF p + 1 = 1 THEN NULL ELSE order[(p + 1) - 1])
      BY <1>2, <1>7, <1>11
    <2>. QED BY <1>1, <1>7, <1>8, <1>9, <1>10, <1>11, <2>2, <2>3, <2>4
         DEF InsertStep, n
  <1>. QED BY <1>1, <1>7, <1>13, InsertKeeps DEF n

\* vms_list_insert_before.
LEMMA InsertBeforeStep ==
  ASSUME listInv, NEW e \in Elems, NEW new \in Elems, insert_before(e, new)
  PROVE  listInv'
  <1>. DEFINE n == Len(order)
              p == Pos(e)
  <1>1. /\ e \in InList /\ new \in Elems \ InList
        /\ next' = Set([next EXCEPT ![new] = e], prev[e], new)
        /\ prev' = [prev EXCEPT ![new] = prev[e], ![e] = new]
        /\ first' = (IF e = first THEN new ELSE first) /\ last' = last
        /\ lsize' = lsize + 1
        /\ order' = InsertAt(order, p, new)
    BY DEF insert_before
  <1>2. p \in 1..n /\ order[p] = e
    BY <1>1, PosRight
  <1>3. /\ n \in Nat /\ DOMAIN order = 1..n
        /\ \A i \in 1..n : order[i] \in Elems /\ order[i] # NULL
        /\ first = (IF n = 0 THEN NULL ELSE order[1])
        /\ prev[e] = (IF p = 1 THEN NULL ELSE order[p - 1])
    BY <1>1, <1>2, ListFacts
  <1>4. /\ order \in Seq(Elems)
        /\ next \in [Elems -> Elems \cup {NULL}]
        /\ prev \in [Elems -> Elems \cup {NULL}]
    BY DEF listInv, OrderInv
  <1>5. \A i \in 1..n : order[i] # new
    BY <1>1, <1>3 DEF InList
  <1>6. \A i, j \in 1..n : order[i] = order[j] <=> i = j
    BY SamePlace
  <1>. HIDE DEF n, p
  <1>7. /\ p \in 1..(n + 1) /\ p # n + 1 /\ n # 0 /\ 1 \in 1..n
        /\ (p # 1 => p - 1 \in 1..n) /\ p - 1 \in Int
    BY <1>2, <1>3
  <1>8. order' \in Seq(Elems) /\ Inserted(order, order', p, new)
    BY <1>1, <1>4, <1>7, InsertAtRight DEF n
  <1>9. /\ prev' \in [Elems -> Elems \cup {NULL}] /\ prev'[new] = prev[e]
        /\ \A i \in 1..n : prev'[order[i]] = IF i = p THEN new ELSE prev[order[i]]
    BY <1>1, <1>2, <1>3, <1>4, <1>5, <1>6
  <1>10. first' = (IF p = 1 THEN new ELSE first)
    BY <1>1, <1>2, <1>3, <1>6, <1>7
  <1>11. /\ next' \in [Elems -> Elems \cup {NULL}] /\ next'[new] = e
         /\ \A i \in 1..n :
              next'[order[i]] = IF i = p - 1 THEN new ELSE next[order[i]]
    <2>1. \A i \in 1..n : order[i] = prev[e] <=> i = p - 1
      BY <1>3, <1>6, <1>7
    <2>2. prev[e] \in Elems \cup {NULL} /\ prev[e] # new /\ new \in Elems
          /\ e \in Elems \cup {NULL}
      BY <1>3, <1>4, <1>5, <1>7, ListAssumption DEF NULL
    <2>3. Linked(next, next', new, e, prev[e])
      BY <1>1, <1>4, <2>2, SetLinks
    <2>4. \A i \in 1..n : order[i] \in Elems \ {new}
      BY <1>3, <1>5
    <2>. QED BY <2>1, <2>3, <2>4 DEF Linked
  <1>12. InsertStep(p, new)
    BY <1>1, <1>2, <1>3, <1>4, <1>7, <1>8, <1>9, <1>10, <1>11 DEF InsertStep, n
  <1>. QED BY <1>1, <1>7, <1>12, InsertKeeps DEF n

\* vms_list_append.
LEMMA AppendStep ==
  ASSUME listInv, NEW new \in Elems, append(new)
  PROVE  listInv'
  <1>. DEFINE n == Len(order)
  <1>1. /\ new \in Elems \ InList
        /\ next' = Set([next EXCEPT ![new] = NULL], last, new)
        /\ prev' = [prev EXCEPT ![new] = last]
        /\ last' = new /\ first' = (IF first = NULL THEN new ELSE first)
        /\ lsize' = lsize + 1
        /\ order' = Append(order, new)
    BY DEF append
  <1>2. /\ n \in Nat /\ DOMAIN order = 1..n
        /\ \A i \in 1..n : order[i] \in Elems /\ order[i] # NULL
        /\ first = (IF n = 0 THEN NULL ELSE order[1])
        /\ last = (IF n = 0 THEN NULL ELSE order[n])
    BY ListFacts
  <1>3. /\ order \in Seq(Elems)
        /\ next \in [Elems -> Elems \cup {NULL}]
        /\ prev \in [Elems -> Elems \cup {NULL}]
    BY DEF listInv, OrderInv
  <1>4. \A i \in 1..n : order[i] # new
    BY <1>1, <1>2 DEF InList
  <1>5. \A i, j \in 1..n : order[i] = order[j] <=> i = j
    BY SamePlace
  <1>6. order' \in Seq(Elems) /\ Inserted(order, order', n + 1, new)
    <2>1. /\ order' \in Seq(Elems) /\ Len(order') = n + 1
          /\ \A i \in 1..(n + 1) : order'[i] = IF i < n + 1 THEN order[i] ELSE new
      BY <1>1, <1>3
    <2>2. \A i \in 1..(n + 1) :
            order'[i] = IF i < n + 1 THEN order[i]
                        ELSE IF i = n + 1 THEN new ELSE order[i - 1]
      BY <1>2, <2>1
    <2>. QED BY <2>1, <2>2 DEF Inserted
  <1>. HIDE DEF n
  <1>7. /\ (n + 1) - 1 = n /\ n + 1 \in 1..(n + 1) /\ (n + 1 = 1 <=> n = 0)
        /\ (n # 0 => n \in 1..n /\ 1 \in 1..n)
        /\ \A i \in 1..n : i # n + 1
    BY <1>2
  <1>8. first' = (IF n + 1 = 1 THEN new ELSE first)
    BY <1>1, <1>2, <1>7
  <1>9. last \in Elems \cup {NULL} /\ last # new /\ NULL \in Elems \cup {NULL}
    BY <1>2, <1>4, <1>7, ListAssumption DEF NULL
  <1>10. /\ next' \in [Elems -> Elems \cup {NULL}] /\ next'[new] = NULL
         /\ \A i \in 1..n : next'[order[i]] = IF i = n THEN new ELSE next[order[i]]
    <2>1. Linked(next, next', new, NULL, last)
      BY <1>1, <1>3, <1>9, SetLinks
    <2>2. \A i \in 1..n : order[i] \in Elems \ {new} /\ (order[i] = last <=> i = n)
      BY <1>2, <1>4, <1>5, <1>7
    <2>. QED BY <2>1, <2>2 DEF Linked
  <1>11. /\ prev' \in [Elems -> Elems \cup {NULL}] /\ prev'[new] = last
         /\ \A i \in 1..n : prev'[order[i]] = prev[order[i]]
    BY <1>1, <1>2, <1>3, <1>4, <1>9
  <1>12. InsertStep(n + 1, new)
    <2>1. \A i \in 1..n :
            prev'[order[i]] = IF i = n + 1 THEN new ELSE prev[order[i]]
      BY <1>7, <1>11
    <2>2. prev'[new] = (IF n + 1 = 1 THEN NULL ELSE order[(n + 1) - 1])
      BY <1>2, <1>7, <1>11
    <2>3. \A i \in 1..n :
            next'[order[i]] = IF i = (n + 1) - 1 THEN new ELSE next[order[i]]
      BY <1>7, <1>10
    <2>. QED BY <1>1, <1>3, <1>6, <1>8, <1>10, <1>11, <2>1, <2>2, <2>3
         DEF InsertStep, n
  <1>. QED BY <1>1, <1>7, <1>12, InsertKeeps DEF n

\* vms_list_prepend to the empty list does what append does.
LEMMA PrependStep ==
  ASSUME listInv, order = << >>, prepended = FALSE, NEW new \in Elems, prepend(new)
  PROVE  listInv'
  <1>1. first = NULL /\ last = NULL
    BY ListFacts
  <1>2. order' = Append(order, new)
    BY DEF prepend
  <1>3. Set([next EXCEPT ![new] = NULL], last, new) = [next EXCEPT ![new] = NULL]
    BY <1>1 DEF Set
  <1>4. append(new)
    BY <1>1, <1>2, <1>3 DEF prepend, append
  <1>. QED BY <1>4, AppendStep

\* vms_list_remove.
LEMMA RemoveStep ==
  ASSUME listInv, NEW e \in Elems, remove(e)
  PROVE  listInv'
  <1>. DEFINE n == Len(order)
              p == Pos(e)
  <1>1. /\ e \in InList
        /\ prev' = Set(prev, next[e], prev[e]) /\ next' = Set(next, prev[e], next[e])
        /\ first' = (IF e = first THEN next[e] ELSE first)
        /\ last' = (IF e = last THEN prev[e] ELSE last)
        /\ lsize' = lsize - 1
        /\ order' = RemoveAt(order, p)
    BY DEF remove
  <1>2. p \in 1..n /\ order[p] = e
    BY <1>1, PosRight
  <1>3. /\ n \in Nat /\ DOMAIN order = 1..n
        /\ \A i \in 1..n : order[i] \in Elems /\ order[i] # NULL
        /\ first = (IF n = 0 THEN NULL ELSE order[1])
        /\ last = (IF n = 0 THEN NULL ELSE order[n])
        /\ next[e] = (IF p = n THEN NULL ELSE order[p + 1])
        /\ prev[e] = (IF p = 1 THEN NULL ELSE order[p - 1])
        /\ lsize = n
    BY <1>1, <1>2, ListFacts, SMTT(30) DEF listInv, ForwardRight
  <1>4. \A i \in 1..n : next[order[i]] = (IF i = n THEN NULL ELSE order[i + 1])
    BY ListFacts
  <1>5. \A i \in 1..n :
          prev[order[i]] = (IF i = 1 THEN NULL ELSE order[i - 1])
    BY ListFacts
  <1>6. /\ order \in Seq(Elems) /\ Injective(order)
        /\ next \in [Elems -> Elems \cup {NULL}]
        /\ prev \in [Elems -> Elems \cup {NULL}]
    BY <1>2, <1>3 DEF listInv, OrderInv
  <1>7. \A i, j \in 1..n : order[i] = order[j] <=> i = j
    BY SamePlace
  <1>8. /\ order' \in Seq(Elems) /\ Len(order') = n - 1 /\ Injective(order')
        /\ \A i \in 1..(n - 1) : order'[i] = IF i < p THEN order[i] ELSE order[i + 1]
    <2>1. order' \in Seq(Elems) /\ Removed(order, order', p)
      BY <1>1, <1>2, <1>6, RemoveAtRight
    <2>2. Injective(order')
      BY <1>2, <1>6, <2>1, RemovedInjective
    <2>. QED BY <2>1, <2>2 DEF Removed
  <1>. HIDE DEF n, p
  <1>9. /\ (p # n => p + 1 \in 1..n) /\ (p # 1 => p - 1 \in 1..n) /\ n # 0
        /\ 1 \in 1..n /\ n \in 1..n /\ DOMAIN order' = 1..(n - 1)
    BY <1>2, <1>3, <1>8
  <1>10. /\ next' \in [Elems -> Elems \cup {NULL}]
         /\ \A i \in 1..n : next'[order[i]] = IF i = p - 1 THEN next[e]
                                              ELSE next[order[i]]
    <2>1. CASE p = 1
      <3>1. next' = next
        BY <1>1, <1>3, <2>1 DEF Set
      <3>2. \A i \in 1..n : i # p - 1
        BY <1>3, <2>1
      <3>. QED BY <1>6, <3>1, <3>2
    <2>2. CASE p # 1
      <3>1. next' = [next EXCEPT ![order[p - 1]] = next[e]]
        BY <1>1, <1>3, <1>9, <2>2 DEF Set
      <3>. QED BY <1>3, <1>6, <1>7, <1>9, <2>2, <3>1
    <2>. QED BY <2>1, <2>2
  <1>11. /\ prev' \in [Elems -> Elems \cup {NULL}]
         /\ \A i \in 1..n : prev'[order[i]] = IF i = p + 1 THEN prev[e]
                                              ELSE prev[order[i]]
    <2>1. CASE p = n
      <3>1. prev' = prev
        BY <1>1, <1>3, <2>1 DEF Set
      <3>2. \A i \in 1..n : i # p + 1
        BY <1>3, <2>1
      <3>. QED BY <1>1, <1>3, <1>6, <2>1, <3>1, <3>2
    <2>2. CASE p # n
      <3>1. prev' = [prev EXCEPT ![order[p + 1]] = prev[e]]
        BY <1>1, <1>3, <1>9, <2>2 DEF Set
      <3>. QED BY <1>3, <1>6, <1>7, <1>9, <2>2, <3>1
    <2>. QED BY <2>1, <2>2
  <1>14. order' = << >> <=> n = 1
    BY <1>3, <1>8, <1>9, EmptySeq
  <1>15. OrderInv'
    BY <1>8, <1>10, <1>11 DEF OrderInv, NULL, Injective
  <1>16. ASSUME NEW i \in 1..(n - 1)
         PROVE  next'[order'[i]] = (IF i = n - 1 THEN NULL ELSE order'[i + 1])
    <2>1. CASE i < p - 1
      <3>1. /\ i \in 1..n /\ i < p /\ i # p - 1 /\ i # n /\ i # n - 1
            /\ i + 1 \in 1..(n - 1) /\ i + 1 < p
        BY <1>2, <1>3, <2>1
      <3>2. order'[i] = order[i] /\ order'[i + 1] = order[i + 1]
        BY <1>8, <3>1
      <3>. QED BY <1>4, <1>10, <3>1, <3>2
    <2>2. CASE i = p - 1
      <3>1. /\ i \in 1..n /\ i < p /\ i + 1 = p /\ (i = n - 1 <=> p = n)
            /\ (i # n - 1 => i + 1 \in 1..(n - 1) /\ ~(i + 1 < p))
        BY <1>2, <1>3, <2>2
      <3>2. order'[i] = order[i] /\ (i # n - 1 => order'[i + 1] = order[p + 1])
        BY <1>8, <3>1
      <3>. QED BY <1>3, <1>10, <2>2, <3>1, <3>2
    <2>3. CASE i >= p
      <3>1. /\ i + 1 \in 1..n /\ ~(i < p) /\ i + 1 # p - 1 /\ (i = n - 1 <=> i + 1 = n)
            /\ (i # n - 1 => i + 1 \in 1..(n - 1) /\ ~(i + 1 < p))
        BY <1>2, <1>3, <2>3
      <3>2. order'[i] = order[i + 1] /\ (i # n - 1 => order'[i + 1] = order[(i + 1) + 1])
        BY <1>8, <3>1
      <3>. QED BY <1>4, <1>10, <3>1, <3>2
    <2>. QED BY <1>2, <1>3, <2>1, <2>2, <2>3
  <1>17. ASSUME NEW i \in 1..(n - 1)
         PROVE  prev'[order'[i]] = (IF i = 1 THEN NULL ELSE order'[i - 1])
    <2>1. CASE i < p
      <3>1. /\ i \in 1..n /\ i # p + 1
            /\ (i # 1 => i - 1 \in 1..(n - 1) /\ i - 1 < p)
        BY <1>2, <1>3, <2>1
      <3>2. order'[i] = order[i] /\ (i # 1 => order'[i - 1] = order[i - 1])
        BY <1>8, <2>1, <3>1
      <3>. QED BY <1>5, <1>11, <3>1, <3>2
    <2>2. CASE i = p
      <3>1. /\ i + 1 \in 1..n /\ ~(i < p) /\ i + 1 = p + 1
            /\ (i # 1 => i - 1 \in 1..(n - 1) /\ i - 1 < p)
        BY <1>2, <1>3, <2>2
      <3>2. order'[i] = order[i + 1] /\ (i # 1 => order'[i - 1] = order[p - 1])
        BY <1>8, <2>2, <3>1
      <3>. QED BY <1>3, <1>11, <2>2, <3>1, <3>2
    <2>3. CASE i > p
      <3>1. /\ i + 1 \in 1..n /\ ~(i < p) /\ i + 1 # p + 1 /\ i # 1 /\ i + 1 # 1
            /\ i - 1 \in 1..(n - 1) /\ ~(i - 1 < p)
            /\ (i - 1) + 1 = i /\ (i + 1) - 1 = i
        BY <1>2, <1>3, <2>3
      <3>2. order'[i] = order[i + 1] /\ order'[i - 1] = order[i]
        BY <1>8, <3>1
      <3>. QED BY <1>5, <1>11, <3>1, <3>2
    <2>. QED BY <1>2, <1>3, <2>1, <2>2, <2>3
  <1>18. first' = (IF n = 1 THEN NULL ELSE order'[1])
    <2>1. CASE p = 1
      <3>1. first' = next[e] /\ (n # 1 => 1 \in 1..(n - 1) /\ ~(1 < p))
        BY <1>1, <1>2, <1>3, <1>9, <2>1
      <3>2. n # 1 => order'[1] = order[p + 1]
        BY <1>8, <2>1, <3>1
      <3>. QED BY <1>3, <2>1, <3>1, <3>2
    <2>2. CASE p # 1
      <3>1. first' = order[1] /\ n # 1 /\ 1 \in 1..(n - 1) /\ 1 < p
        BY <1>1, <1>2, <1>3, <1>7, <1>9, <2>2
      <3>. QED BY <1>8, <3>1
    <2>. QED BY <2>1, <2>2
  <1>19. last' = (IF n = 1 THEN NULL ELSE order'[n - 1])
    <2>1. CASE p = n
      <3>1. last' = prev[e] /\ (n # 1 => n - 1 \in 1..(n - 1) /\ n - 1 < p)
        BY <1>1, <1>2, <1>3, <1>9, <2>1
      <3>2. n # 1 => order'[n - 1] = order[p - 1]
        BY <1>8, <2>1, <3>1
      <3>. QED BY <1>3, <2>1, <3>1, <3>2
    <2>2. CASE p # n
      <3>1. /\ last' = order[n] /\ n # 1 /\ n - 1 \in 1..(n - 1) /\ ~(n - 1 < p)
            /\ (n - 1) + 1 = n
        BY <1>1, <1>2, <1>3, <1>7, <1>9, <2>2
      <3>. QED BY <1>8, <3>1
    <2>. QED BY <2>1, <2>2
  <1>20. ForwardRight'
    BY <1>1, <1>3, <1>8, <1>9, <1>14, <1>16, <1>18, <1>19 DEF ForwardRight, NULL
  <1>21. BackwardRight'
    BY <1>9, <1>17 DEF BackwardRight, NULL
  <1>. QED BY <1>15, <1>20, <1>21 DEF listInv

\* The list is right both ways after any sequence of operations without a prepend
\* to a list that has elements, for any set of elements.
THEOREM ListAlwaysRight == listSpec => []ListRight
  <1>. DEFINE Inv == prepended \in BOOLEAN /\ (prepended \/ listInv)
  <1>1. listInit => Inv
    <2>. SUFFICES ASSUME listInit PROVE Inv
      OBVIOUS
    <2>1. order = << >> /\ prepended = FALSE
      BY DEF listInit
    <2>2. OrderInv
      BY <2>1 DEF listInit, OrderInv, Injective
    <2>3. ForwardRight /\ BackwardRight
      BY <2>1 DEF listInit, ForwardRight, BackwardRight
    <2>. QED BY <2>1, <2>2, <2>3 DEF listInv
  <1>2. Inv /\ [listNext]_listVars => Inv'
    <2>. SUFFICES ASSUME Inv, [listNext]_listVars PROVE Inv'
      OBVIOUS
    <2>1. prepended' \in BOOLEAN /\ (prepended => prepended')
      BY DEF listNext, insert_elem_after, insert_before, prepend, append, remove,
             listVars
    <2>. SUFFICES ASSUME listInv, ~prepended, ~prepended' PROVE listInv'
      BY <2>1
    <2>2. CASE UNCHANGED listVars
      BY <2>2 DEF listVars, listInv, OrderInv, InList, Injective, ForwardRight,
                  BackwardRight, NULL
    <2>3. ASSUME NEW new \in Elems, prepend(new) PROVE listInv'
      <3>1. order = << >> /\ prepended = FALSE
        BY <2>3 DEF prepend
      <3>. QED BY <2>3, <3>1, PrependStep
    <2>. HIDE DEF Inv
    <2>. QED BY <2>2, <2>3, InsertAfterStep, InsertBeforeStep, AppendStep, RemoveStep
         DEF listNext
  <1>3. Inv => ListRight
    BY DEF listInv, ListRight
  <1>. QED BY <1>1, <1>2, <1>3, PTL DEF listSpec

-----------------------------------------------------------------------------
(* The circular lists.                                                     *)

\* The node at place i of the ring of h with the elements r: the head is at both
\* ends.
At(h, r, i) == IF i = 0 \/ i = Len(r) + 1 THEN h ELSE r[i]

RingOk(h, r, nx, pv) ==
  \A i \in 0..Len(r) :
    nx[At(h, r, i)] = At(h, r, i + 1) /\ pv[At(h, r, i + 1)] = At(h, r, i)

\* The head of h and its elements.
RingNodes(h) == {h} \cup Elements(h)

\* No element is in two rings or twice in one; a head that waits for its
\* initialisation has none.
Apart ==
  /\ ring \in [Heads -> Seq(Links)] /\ stale \subseteq Heads
  /\ \A h \in Heads : Injective(ring[h])
  /\ \A h, g \in Heads : h # g => Elements(h) \cap Elements(g) = {}
  /\ \A h \in stale : ring[h] = << >>

Linking ==
  /\ enext \in [Nodes -> Nodes \cup {0}] /\ eprev \in [Nodes -> Nodes \cup {0}]
  /\ \A h \in Heads \ stale : RingOk(h, ring[h], enext, eprev)

embInv == Apart /\ Linking

\* RingRight in terms of places.
LEMMA RingRightAt ==
  ASSUME Apart
  PROVE  RingRight <=> \A h \in Heads \ stale : RingOk(h, ring[h], enext, eprev)
  <1>1. ASSUME NEW h \in Heads
        PROVE  LET cycle == <<h>> \o ring[h] \o <<h>>
               IN  (\A i \in 1..(Len(cycle) - 1) :
                      enext[cycle[i]] = cycle[i + 1] /\ eprev[cycle[i + 1]] = cycle[i])
                   <=> RingOk(h, ring[h], enext, eprev)
    <2>. DEFINE r == ring[h]
                c == <<h>> \o r
                cycle == <<h>> \o ring[h] \o <<h>>
    <2>1. r \in Seq(Nodes) /\ h \in Nodes /\ Len(r) \in Nat
      BY DEF Apart, Nodes
    <2>. HIDE DEF r
    <2>2. /\ c \in Seq(Nodes) /\ Len(c) = Len(r) + 1
          /\ \A i \in 1..(Len(r) + 1) : c[i] = IF i = 1 THEN h ELSE r[i - 1]
      BY <2>1
    <2>3. cycle = c \o <<h>>
      BY DEF r
    <2>. HIDE DEF c, cycle
    <2>4. /\ Len(cycle) = Len(r) + 2
          /\ \A i \in 1..(Len(r) + 2) : cycle[i] = IF i <= Len(r) + 1 THEN c[i] ELSE h
      <3>1. <<h>> \in Seq(Nodes) /\ Len(<<h>>) = 1 /\ <<h>>[1] = h
        BY <2>1
      <3>2. /\ Len(cycle) = Len(c) + 1
            /\ \A i \in 1..(Len(c) + 1) :
                 cycle[i] = IF i <= Len(c) THEN c[i] ELSE <<h>>[i - Len(c)]
        BY <2>2, <2>3, <3>1, ConcatProperties
      <3>3. /\ Len(c) + 1 = Len(r) + 2
            /\ \A i \in 1..(Len(r) + 2) : ~(i <= Len(r) + 1) => i - (Len(r) + 1) = 1
        BY <2>1, <2>2
      <3>. QED BY <2>2, <3>1, <3>2, <3>3
    <2>5. ASSUME NEW i \in 1..(Len(r) + 2) PROVE cycle[i] = At(h, r, i - 1)
      BY <2>1, <2>2, <2>4 DEF At
    <2>6. Len(cycle) - 1 = Len(r) + 1
      BY <2>1, <2>4
    <2>7. ASSUME \A i \in 1..(Len(r) + 1) :
                   enext[cycle[i]] = cycle[i + 1] /\ eprev[cycle[i + 1]] = cycle[i]
          PROVE  RingOk(h, r, enext, eprev)
      <3>. SUFFICES ASSUME NEW i \in 0..Len(r)
                    PROVE  /\ enext[At(h, r, i)] = At(h, r, i + 1)
                           /\ eprev[At(h, r, i + 1)] = At(h, r, i)
        BY DEF RingOk
      <3>1. /\ i + 1 \in 1..(Len(r) + 1) /\ i + 1 \in 1..(Len(r) + 2)
            /\ (i + 1) + 1 \in 1..(Len(r) + 2)
            /\ (i + 1) - 1 = i /\ ((i + 1) + 1) - 1 = i + 1
        BY <2>1
      <3>2. cycle[i + 1] = At(h, r, i) /\ cycle[(i + 1) + 1] = At(h, r, i + 1)
        BY <2>5, <3>1
      <3>. QED BY <2>7, <3>1, <3>2
    <2>8. ASSUME RingOk(h, r, enext, eprev), NEW i \in 1..(Len(r) + 1)
          PROVE  enext[cycle[i]] = cycle[i + 1] /\ eprev[cycle[i + 1]] = cycle[i]
      <3>1. /\ i - 1 \in 0..Len(r) /\ i \in 1..(Len(r) + 2) /\ i + 1 \in 1..(Len(r) + 2)
            /\ (i - 1) + 1 = i /\ (i + 1) - 1 = i
        BY <2>1
      <3>2. cycle[i] = At(h, r, i - 1) /\ cycle[i + 1] = At(h, r, i)
        BY <2>5, <3>1
      <3>. QED BY <2>8, <3>1, <3>2 DEF RingOk
    <2>. QED BY <2>6, <2>7, <2>8 DEF r, cycle
  <1>. QED BY <1>1 DEF RingRight

\* Within a ring, different places from 0 to the last element hold different
\* nodes, and so do those from the first element to the head at the end.
LEMMA AtFacts ==
  ASSUME Apart, NEW h \in Heads
  PROVE  /\ Len(ring[h]) \in Nat /\ h \in Nodes /\ ring[h] \in Seq(Links)
         /\ \A i \in 0..(Len(ring[h]) + 1) : At(h, ring[h], i) \in RingNodes(h)
         /\ \A i, j \in 0..Len(ring[h]) :
              At(h, ring[h], i) = At(h, ring[h], j) => i = j
         /\ \A i, j \in 1..(Len(ring[h]) + 1) :
              At(h, ring[h], i) = At(h, ring[h], j) => i = j
         /\ RingNodes(h) \subseteq Nodes
         /\ \A x \in RingNodes(h) : \E i \in 0..Len(ring[h]) : At(h, ring[h], i) = x
  <1>. DEFINE r == ring[h]
  <1>1. /\ r \in Seq(Links) /\ Len(r) \in Nat /\ DOMAIN r = 1..Len(r)
        /\ Injective(r) /\ h \in Nodes
    BY DEF Apart, Nodes
  <1>2. \A i \in 1..Len(r) : r[i] \in Links /\ r[i] # h
    BY <1>1, EmbeddedAssumption
  <1>3. Elements(h) = {r[i] : i \in 1..Len(r)}
    BY <1>1 DEF Elements
  <1>. HIDE DEF r
  <1>4. \A i \in 0..(Len(r) + 1) : At(h, r, i) \in RingNodes(h)
    BY <1>1, <1>3 DEF At, RingNodes
  <1>5. \A i, j \in 0..Len(r) : At(h, r, i) = At(h, r, j) => i = j
    BY <1>1, <1>2 DEF At, Injective
  <1>6. \A i, j \in 1..(Len(r) + 1) : At(h, r, i) = At(h, r, j) => i = j
    BY <1>1, <1>2 DEF At, Injective
  <1>7. RingNodes(h) \subseteq Nodes
    BY <1>1, <1>2, <1>3 DEF RingNodes, Nodes
  <1>8. ASSUME NEW x \in RingNodes(h) PROVE \E i \in 0..Len(r) : At(h, r, i) = x
    <2>1. CASE x = h
      BY <1>1, <2>1 DEF At
    <2>2. CASE x \in Elements(h)
      <3>1. PICK i \in 1..Len(r) : r[i] = x
        BY <1>3, <2>2
      <3>2. i \in 0..Len(r) /\ At(h, r, i) = x
        BY <1>1, <3>1 DEF At
      <3>. QED BY <3>2
    <2>. QED BY <2>1, <2>2 DEF RingNodes
  <1>. QED BY <1>1, <1>4, <1>5, <1>6, <1>7, <1>8 DEF r

\* Two rings share no node.
LEMMA RingsDisjoint ==
  ASSUME Apart, NEW h \in Heads, NEW g \in Heads, h # g
  PROVE  RingNodes(h) \cap RingNodes(g) = {}
  <1>1. Elements(h) \subseteq Links /\ Elements(g) \subseteq Links
    BY DEF Apart, Elements
  <1>. QED BY <1>1, EmbeddedAssumption DEF Apart, RingNodes

\* A ring stays right if none of its links changes.
LEMMA RingFrame ==
  ASSUME Apart, NEW g \in Heads, RingOk(g, ring[g], enext, eprev), NEW nx, NEW pv,
         \A x \in RingNodes(g) : nx[x] = enext[x] /\ pv[x] = eprev[x]
  PROVE  RingOk(g, ring[g], nx, pv)
  <1>. DEFINE r == ring[g]
  <1>1. Len(r) \in Nat /\ \A i \in 0..(Len(r) + 1) : At(g, r, i) \in RingNodes(g)
    BY AtFacts
  <1>. HIDE DEF r
  <1>. SUFFICES ASSUME NEW i \in 0..Len(r)
                PROVE  nx[At(g, r, i)] = At(g, r, i + 1) /\ pv[At(g, r, i + 1)] = At(g, r, i)
    BY DEF RingOk, r
  <1>2. /\ i \in 0..(Len(r) + 1) /\ i + 1 \in 0..(Len(r) + 1)
    BY <1>1
  <1>3. enext[At(g, r, i)] = At(g, r, i + 1) /\ eprev[At(g, r, i + 1)] = At(g, r, i)
    BY DEF RingOk, r
  <1>. QED BY <1>1, <1>2, <1>3

\* Place finds a node of the ring.
LEMMA PlaceRight ==
  ASSUME Apart, NEW h \in Heads, NEW l \in RingNodes(h)
  PROVE  /\ Place(h, l) \in 0..Len(ring[h]) /\ At(h, ring[h], Place(h, l)) = l
         /\ l \in Elements(h) => Place(h, l) \in 1..Len(ring[h])
  <1>. DEFINE r == ring[h]
  <1>1. /\ r \in Seq(Links) /\ Len(r) \in Nat /\ DOMAIN r = 1..Len(r)
    BY DEF Apart
  <1>2. \A i \in 1..Len(r) : r[i] # h
    BY <1>1, EmbeddedAssumption
  <1>3. CASE l = h
    <2>1. l \notin Elements(h)
      BY <1>1, <1>2, <1>3 DEF Elements
    <2>2. Place(h, l) = 0
      BY <1>3 DEF Place
    <2>. QED BY <1>1, <1>3, <2>1, <2>2 DEF At
  <1>4. CASE l # h
    <2>1. \E i \in DOMAIN r : r[i] = l
      BY <1>4 DEF RingNodes, Elements
    <2>2. Place(h, l) \in DOMAIN r /\ r[Place(h, l)] = l
      BY <1>4, <2>1 DEF Place
    <2>. HIDE DEF r
    <2>3. Place(h, l) \in 1..Len(r) /\ Place(h, l) \in 0..Len(r)
      BY <1>1, <2>2
    <2>4. At(h, r, Place(h, l)) = l
      BY <1>1, <2>2, <2>3 DEF At
    <2>. QED BY <2>3, <2>4 DEF r
  <1>. QED BY <1>3, <1>4

\* The elements after an insertion, and after a removal.
LEMMA InsertedElements ==
  ASSUME NEW S, NEW s \in Seq(S), NEW t, NEW q \in 1..(Len(s) + 1), NEW e,
         Inserted(s, t, q, e)
  PROVE  {t[i] : i \in 1..Len(t)} = {s[i] : i \in 1..Len(s)} \cup {e}
  <1>1. /\ Len(s) \in Nat /\ Len(t) = Len(s) + 1
        /\ \A i \in 1..(Len(s) + 1) :
             t[i] = IF i < q THEN s[i] ELSE IF i = q THEN e ELSE s[i - 1]
    BY DEF Inserted
  <1>2. ASSUME NEW i \in 1..(Len(s) + 1)
        PROVE  t[i] \in {s[j] : j \in 1..Len(s)} \cup {e}
    <2>1. i # q => (IF i < q THEN i ELSE i - 1) \in 1..Len(s)
      BY <1>1
    <2>. QED BY <1>1, <2>1
  <1>3. ASSUME NEW i \in 1..Len(s) PROVE \E j \in 1..(Len(s) + 1) : t[j] = s[i]
    <2>1. CASE i < q
      BY <1>1, <2>1
    <2>2. CASE ~(i < q)
      <3>1. i + 1 \in 1..(Len(s) + 1) /\ ~(i + 1 < q) /\ i + 1 # q /\ (i + 1) - 1 = i
        BY <1>1, <2>2
      <3>2. t[i + 1] = s[i]
        BY <1>1, <3>1
      <3>. QED BY <3>1, <3>2
    <2>. QED BY <2>1, <2>2
  <1>4. t[q] = e
    BY <1>1
  <1>. QED BY <1>1, <1>2, <1>3, <1>4

\* A removal adds no element.
LEMMA RemovedElements ==
  ASSUME NEW S, NEW s \in Seq(S), NEW t, NEW q \in 1..Len(s), Removed(s, t, q)
  PROVE  {t[i] : i \in 1..Len(t)} \subseteq {s[i] : i \in 1..Len(s)}
  <1>1. /\ Len(s) \in Nat /\ Len(t) = Len(s) - 1
        /\ \A i \in 1..(Len(s) - 1) : t[i] = IF i < q THEN s[i] ELSE s[i + 1]
    BY DEF Removed
  <1>2. \A i \in 1..(Len(s) - 1) : i \in 1..Len(s) /\ i + 1 \in 1..Len(s)
    BY <1>1
  <1>. QED BY <1>1, <1>2

\* The rings stay apart if one head's elements become a sequence that shares
\* nothing with the other rings.
LEMMA ApartStep ==
  ASSUME Apart, NEW h \in Heads \ stale, NEW r \in Seq(Links), Injective(r),
         ring' = [ring EXCEPT ![h] = r], stale' = stale,
         \A g \in Heads \ {h} : {r[i] : i \in 1..Len(r)} \cap Elements(g) = {}
  PROVE  Apart' /\ \A g \in Heads \ {h} : ring'[g] = ring[g]
  <1>1. ring' \in [Heads -> Seq(Links)] /\ ring'[h] = r
    BY DEF Apart
  <1>2. \A g \in Heads \ {h} : ring'[g] = ring[g]
    BY DEF Apart
  <1>3. \A g \in Heads \ {h} : Elements(g)' = Elements(g)
    BY <1>2 DEF Elements
  <1>4. Elements(h)' = {r[i] : i \in 1..Len(r)}
    BY <1>1 DEF Elements
  <1>5. \A g \in Heads : Injective(ring'[g])
    BY <1>1, <1>2 DEF Apart
  <1>6. ASSUME NEW f \in Heads, NEW g \in Heads, f # g
        PROVE  Elements(f)' \cap Elements(g)' = {}
    <2>1. CASE f = h
      BY <1>3, <1>4, <1>6, <2>1
    <2>2. CASE g = h
      BY <1>3, <1>4, <1>6, <2>2
    <2>3. CASE f # h /\ g # h
      BY <1>3, <1>6, <2>3 DEF Apart
    <2>. QED BY <2>1, <2>2, <2>3
  <1>7. (\A g \in Heads : Injective(ring[g]))'
    BY <1>5 DEF Injective
  <1>8. (\A f, g \in Heads : f # g => Elements(f) \cap Elements(g) = {})'
    BY <1>6
  <1>9. \A g \in stale : ring'[g] = << >>
    BY <1>2 DEF Apart
  <1>. QED BY <1>1, <1>2, <1>7, <1>8, <1>9 DEF Apart

\* vms_list_embedded_insert_after.
LEMMA EmbInsertStep ==
  ASSUME embInv, NEW h \in Heads, NEW l \in Nodes, NEW elm \in Nodes,
         embedded_insert_after(h, l, elm)
  PROVE  embInv'
  <1>. DEFINE r == ring[h]
              n == Len(r)
              p == Place(h, l)
              r2 == InsertAt(r, p + 1, elm)
  <1>1. /\ h \notin stale /\ l \in RingNodes(h) /\ elm \in Free /\ stale' = stale
        /\ eprev' = [eprev EXCEPT ![elm] = l, ![enext[l]] = elm]
        /\ enext' = [enext EXCEPT ![elm] = enext[l], ![l] = elm]
        /\ ring' = [ring EXCEPT ![h] = r2]
    BY DEF embedded_insert_after, RingNodes
  <1>2. Apart /\ Linking /\ r \in Seq(Links) /\ n \in Nat /\ Injective(r)
    BY DEF embInv, Apart
  <1>3. /\ elm \in Links /\ \A g \in Heads : elm \notin RingNodes(g)
    BY <1>1, EmbeddedAssumption DEF Free, RingNodes
  <1>4. p \in 0..n /\ At(h, r, p) = l
    BY <1>1, <1>2, PlaceRight
  <1>5. /\ \A i \in 0..(n + 1) : At(h, r, i) \in RingNodes(h)
        /\ \A i, j \in 0..n : At(h, r, i) = At(h, r, j) => i = j
        /\ \A i, j \in 1..(n + 1) : At(h, r, i) = At(h, r, j) => i = j
        /\ RingNodes(h) \subseteq Nodes
    BY <1>2, AtFacts
  <1>6. \A i \in 0..n : /\ enext[At(h, r, i)] = At(h, r, i + 1)
                        /\ eprev[At(h, r, i + 1)] = At(h, r, i)
    BY <1>1, <1>2 DEF Linking, RingOk
  <1>7. /\ enext \in [Nodes -> Nodes \cup {0}] /\ eprev \in [Nodes -> Nodes \cup {0}]
        /\ elm \in Nodes /\ h \in Nodes
    BY <1>2 DEF Linking, Nodes
  <1>. HIDE DEF n, p
  <1>8. r2 \in Seq(Links) /\ Inserted(r, r2, p + 1, elm) /\ p + 1 \in 1..(n + 1)
    <2>1. p + 1 \in 1..(n + 1)
      BY <1>2, <1>4
    <2>. QED BY <1>2, <1>3, <2>1, InsertAtRight DEF n
  <1>. HIDE DEF r, r2
  <1>9. Injective(r2) /\ {r2[i] : i \in 1..Len(r2)} = Elements(h) \cup {elm}
    <2>1. Elements(h) = {r[i] : i \in 1..Len(r)}
      BY <1>2 DEF Elements, r
    <2>2. \A i \in 1..Len(r) : r[i] # elm
      BY <1>3, <2>1 DEF RingNodes
    <2>3. p + 1 \in 1..(Len(r) + 1)
      BY <1>8 DEF n
    <2>4. Injective(r2)
      BY <1>2, <1>8, <2>2, <2>3, InsertedInjective
    <2>5. {r2[i] : i \in 1..Len(r2)} = {r[i] : i \in 1..Len(r)} \cup {elm}
      BY <1>2, <1>8, <2>3, InsertedElements
    <2>. QED BY <2>1, <2>4, <2>5
  <1>10. Apart' /\ (\A g \in Heads \ {h} : ring'[g] = ring[g]) /\ ring'[h] = r2
    <2>1. \A g \in Heads \ {h} : {r2[i] : i \in 1..Len(r2)} \cap Elements(g) = {}
      BY <1>2, <1>3, <1>9 DEF Apart, RingNodes
    <2>2. ring'[h] = r2
      BY <1>1, <1>2 DEF Apart
    <2>. QED BY <1>1, <1>2, <1>8, <1>9, <2>1, <2>2, ApartStep
  <1>11. Len(r2) = n + 1
         /\ \A i \in 0..(n + 2) :
              At(h, r2, i) = IF i <= p THEN At(h, r, i)
                             ELSE IF i = p + 1 THEN elm ELSE At(h, r, i - 1)
    <2>1. /\ Len(r2) = n + 1
          /\ \A i \in 1..(n + 1) :
               r2[i] = IF i < p + 1 THEN r[i] ELSE IF i = p + 1 THEN elm ELSE r[i - 1]
      BY <1>8 DEF Inserted, n
    <2>. QED BY <1>2, <1>4, <2>1 DEF At, n
  <1>12. /\ enext[l] = At(h, r, p + 1) /\ enext[l] \in Nodes /\ enext[l] # elm
         /\ l # elm /\ l \in Nodes
    <2>1. p + 1 \in 0..(n + 1)
      BY <1>2, <1>4
    <2>. QED BY <1>1, <1>3, <1>4, <1>5, <1>6, <2>1
  <1>13. /\ enext' \in [Nodes -> Nodes \cup {0}] /\ eprev' \in [Nodes -> Nodes \cup {0}]
         /\ enext'[elm] = At(h, r, p + 1) /\ enext'[l] = elm
         /\ eprev'[elm] = l /\ eprev'[At(h, r, p + 1)] = elm
         /\ \A x \in Nodes \ {elm, l} : enext'[x] = enext[x]
         /\ \A x \in Nodes \ {elm, At(h, r, p + 1)} : eprev'[x] = eprev[x]
    BY <1>1, <1>7, <1>12
  <1>14. RingOk(h, r2, enext', eprev')
    <2>. SUFFICES ASSUME NEW i \in 0..(n + 1)
                  PROVE  /\ enext'[At(h, r2, i)] = At(h, r2, i + 1)
                         /\ eprev'[At(h, r2, i + 1)] = At(h, r2, i)
      BY <1>11 DEF RingOk
    <2>1. CASE i < p
      <3>1. /\ i \in 0..n /\ i # p /\ i + 1 \in 1..(n + 1) /\ i + 1 # p + 1
            /\ p + 1 \in 1..(n + 1)
            /\ i \in 0..(n + 2) /\ i + 1 \in 0..(n + 2) /\ i <= p /\ i + 1 <= p
            /\ i \in 0..(n + 1) /\ i + 1 \in 0..(n + 1)
        BY <1>2, <1>4, <2>1
      <3>2. At(h, r2, i) = At(h, r, i) /\ At(h, r2, i + 1) = At(h, r, i + 1)
        BY <1>11, <3>1
      <3>3. /\ At(h, r, i) \in Nodes \ {elm, l}
            /\ At(h, r, i + 1) \in Nodes \ {elm, At(h, r, p + 1)}
        BY <1>3, <1>4, <1>5, <3>1
      <3>. QED BY <1>6, <1>13, <3>1, <3>2, <3>3
    <2>2. CASE i = p
      <3>1. /\ i \in 0..(n + 2) /\ i + 1 \in 0..(n + 2) /\ i <= p
            /\ ~(i + 1 <= p) /\ i + 1 = p + 1
        BY <1>2, <1>4, <2>2
      <3>2. At(h, r2, i) = l /\ At(h, r2, i + 1) = elm
        BY <1>4, <1>11, <2>2, <3>1
      <3>. QED BY <1>13, <3>2
    <2>3. CASE i = p + 1
      <3>1. /\ i \in 0..(n + 2) /\ i + 1 \in 0..(n + 2) /\ ~(i <= p)
            /\ ~(i + 1 <= p) /\ i + 1 # p + 1 /\ (i + 1) - 1 = p + 1
        BY <1>2, <1>4, <2>3
      <3>2. At(h, r2, i) = elm /\ At(h, r2, i + 1) = At(h, r, p + 1)
        BY <1>11, <2>3, <3>1
      <3>. QED BY <1>13, <3>2
    <2>4. CASE i > p + 1
      <3>1. /\ i - 1 \in 0..n /\ i - 1 # p /\ i \in 1..(n + 1) /\ i # p + 1
            /\ p + 1 \in 1..(n + 1) /\ (i - 1) + 1 = i
            /\ i \in 0..(n + 2) /\ i + 1 \in 0..(n + 2) /\ ~(i <= p)
            /\ ~(i + 1 <= p) /\ i + 1 # p + 1 /\ (i + 1) - 1 = i
            /\ i - 1 \in 0..(n + 1) /\ i \in 0..(n + 1)
        BY <1>2, <1>4, <2>4
      <3>2. At(h, r2, i) = At(h, r, i - 1) /\ At(h, r2, i + 1) = At(h, r, i)
        BY <1>11, <3>1
      <3>3. /\ At(h, r, i - 1) \in Nodes \ {elm, l}
            /\ At(h, r, i) \in Nodes \ {elm, At(h, r, p + 1)}
        BY <1>3, <1>4, <1>5, <3>1
      <3>4. enext[At(h, r, i - 1)] = At(h, r, i) /\ eprev[At(h, r, i)] = At(h, r, i - 1)
        BY <1>6, <3>1
      <3>. QED BY <1>13, <3>2, <3>3, <3>4
    <2>. QED BY <1>2, <1>4, <2>1, <2>2, <2>3, <2>4
  <1>15. ASSUME NEW g \in Heads \ stale, g # h
         PROVE  RingOk(g, ring'[g], enext', eprev')
    <2>1. RingNodes(g) \cap RingNodes(h) = {} /\ RingNodes(g) \subseteq Nodes
      BY <1>2, <1>15, RingsDisjoint, AtFacts
    <2>2. At(h, r, p + 1) \in RingNodes(h)
      <3>1. p + 1 \in 0..(n + 1)
        BY <1>2, <1>4
      <3>. QED BY <1>5, <3>1
    <2>3. \A x \in RingNodes(g) : enext'[x] = enext[x] /\ eprev'[x] = eprev[x]
      BY <1>1, <1>3, <1>13, <2>1, <2>2
    <2>4. RingOk(g, ring[g], enext, eprev)
      BY <1>2 DEF Linking
    <2>5. RingOk(g, ring[g], enext', eprev')
      BY <1>2, <2>3, <2>4, RingFrame
    <2>. QED BY <1>10, <1>15, <2>5
  <1>16. Linking'
    <2>1. \A g \in Heads \ stale' : RingOk(g, ring'[g], enext', eprev')
      BY <1>1, <1>10, <1>14, <1>15
    <2>2. (\A g \in Heads \ stale : RingOk(g, ring[g], enext, eprev))'
      BY <2>1 DEF RingOk, At
    <2>. QED BY <1>13, <2>2 DEF Linking, Nodes
  <1>. QED BY <1>10, <1>16 DEF embInv

\* vms_list_embedded_remove.
LEMMA EmbRemoveStep ==
  ASSUME embInv, NEW h \in Heads, NEW elm \in Links, embedded_remove(h, elm)
  PROVE  embInv'
  <1>. DEFINE r == ring[h]
              n == Len(r)
              p == Place(h, elm)
              r2 == RemoveAt(r, p)
  <1>1. /\ h \notin stale /\ elm \in Elements(h) /\ stale' = stale
        /\ enext' = [enext EXCEPT ![eprev[elm]] = enext[elm], ![elm] = 0]
        /\ eprev' = [eprev EXCEPT ![enext[elm]] = eprev[elm], ![elm] = 0]
        /\ ring' = [ring EXCEPT ![h] = r2]
    BY DEF embedded_remove
  <1>2. Apart /\ Linking /\ r \in Seq(Links) /\ n \in Nat /\ Injective(r)
    BY DEF embInv, Apart
  <1>3. p \in 1..n /\ At(h, r, p) = elm
    BY <1>1, <1>2, PlaceRight DEF RingNodes
  <1>4. /\ \A i \in 0..(n + 1) : At(h, r, i) \in RingNodes(h)
        /\ \A i, j \in 0..n : At(h, r, i) = At(h, r, j) => i = j
        /\ \A i, j \in 1..(n + 1) : At(h, r, i) = At(h, r, j) => i = j
        /\ RingNodes(h) \subseteq Nodes
    BY <1>2, AtFacts
  <1>5. \A i \in 0..n : /\ enext[At(h, r, i)] = At(h, r, i + 1)
                        /\ eprev[At(h, r, i + 1)] = At(h, r, i)
    BY <1>1, <1>2 DEF Linking, RingOk
  <1>6. /\ enext \in [Nodes -> Nodes \cup {0}] /\ eprev \in [Nodes -> Nodes \cup {0}]
        /\ elm \in Nodes /\ h \in Nodes
    BY <1>2 DEF Linking, Nodes
  <1>7. r2 \in Seq(Links) /\ Removed(r, r2, p)
    BY <1>2, <1>3, RemoveAtRight
  <1>. HIDE DEF n, p, r, r2
  <1>8. Injective(r2) /\ {r2[i] : i \in 1..Len(r2)} \subseteq Elements(h)
    <2>1. Elements(h) = {r[i] : i \in 1..Len(r)} /\ p \in 1..Len(r)
      BY <1>2, <1>3 DEF Elements, r, n
    <2>2. Injective(r2)
      BY <1>2, <1>7, <2>1, RemovedInjective
    <2>3. {r2[i] : i \in 1..Len(r2)} \subseteq {r[i] : i \in 1..Len(r)}
      BY <1>2, <1>7, <2>1, RemovedElements
    <2>. QED BY <2>1, <2>2, <2>3
  <1>9. Apart' /\ (\A g \in Heads \ {h} : ring'[g] = ring[g]) /\ ring'[h] = r2
    <2>1. \A g \in Heads \ {h} : {r2[i] : i \in 1..Len(r2)} \cap Elements(g) = {}
      BY <1>2, <1>8 DEF Apart
    <2>2. ring'[h] = r2
      BY <1>1, <1>2 DEF Apart
    <2>. QED BY <1>1, <1>2, <1>7, <1>8, <2>1, <2>2, ApartStep
  <1>10. /\ Len(r2) = n - 1
         /\ \A i \in 0..n :
              At(h, r2, i) = IF i < p THEN At(h, r, i) ELSE At(h, r, i + 1)
    <2>1. /\ Len(r2) = n - 1
          /\ \A i \in 1..(n - 1) : r2[i] = IF i < p THEN r[i] ELSE r[i + 1]
      BY <1>7 DEF Removed, n
    <2>. QED BY <1>2, <1>3, <2>1 DEF At, n
  <1>11. /\ p - 1 \in 0..n /\ p \in 0..n /\ p - 1 \in 0..(n + 1) /\ p + 1 \in 0..(n + 1)
         /\ p + 1 \in 1..(n + 1) /\ p \in 1..(n + 1)
         /\ (p - 1) + 1 = p /\ p - 1 # p /\ p + 1 # p
    BY <1>2, <1>3
  <1>12. enext[elm] = At(h, r, p + 1) /\ eprev[elm] = At(h, r, p - 1)
    <2>1. eprev[At(h, r, (p - 1) + 1)] = At(h, r, p - 1)
      BY <1>5, <1>11
    <2>. QED BY <1>3, <1>5, <1>11, <2>1
  <1>13. /\ At(h, r, p - 1) \in Nodes /\ At(h, r, p + 1) \in Nodes
         /\ At(h, r, p - 1) # elm /\ At(h, r, p + 1) # elm
    BY <1>3, <1>4, <1>11
  <1>14. /\ enext' \in [Nodes -> Nodes \cup {0}] /\ eprev' \in [Nodes -> Nodes \cup {0}]
         /\ enext'[At(h, r, p - 1)] = At(h, r, p + 1)
         /\ eprev'[At(h, r, p + 1)] = At(h, r, p - 1)
         /\ \A x \in Nodes \ {elm, At(h, r, p - 1)} : enext'[x] = enext[x]
         /\ \A x \in Nodes \ {elm, At(h, r, p + 1)} : eprev'[x] = eprev[x]
    BY <1>1, <1>6, <1>12, <1>13
  <1>15. RingOk(h, r2, enext', eprev')
    <2>. SUFFICES ASSUME NEW i \in 0..(n - 1)
                  PROVE  /\ enext'[At(h, r2, i)] = At(h, r2, i + 1)
                         /\ eprev'[At(h, r2, i + 1)] = At(h, r2, i)
      BY <1>10 DEF RingOk
    <2>1. CASE i < p - 1
      <3>1. /\ i \in 0..n /\ i + 1 \in 0..n /\ i < p /\ i + 1 < p
            /\ i # p - 1 /\ i # p /\ i + 1 # p /\ i + 1 # p + 1
            /\ i + 1 \in 1..(n + 1) /\ i \in 0..(n + 1) /\ i + 1 \in 0..(n + 1)
        BY <1>2, <1>3, <2>1
      <3>2. At(h, r2, i) = At(h, r, i) /\ At(h, r2, i + 1) = At(h, r, i + 1)
        BY <1>10, <3>1
      <3>3. At(h, r, i) \in Nodes \ {elm, At(h, r, p - 1)}
        BY <1>3, <1>4, <1>11, <3>1
      <3>4. At(h, r, i + 1) \in Nodes \ {elm, At(h, r, p + 1)}
        BY <1>3, <1>4, <1>11, <3>1
      <3>. QED BY <1>5, <1>14, <3>1, <3>2, <3>3, <3>4
    <2>2. CASE i = p - 1
      <3>1. i \in 0..n /\ i + 1 \in 0..n /\ i < p /\ ~(i + 1 < p) /\ i + 1 = p
        BY <1>2, <1>3, <2>2
      <3>2. At(h, r2, i) = At(h, r, p - 1) /\ At(h, r2, i + 1) = At(h, r, p + 1)
        BY <1>10, <2>2, <3>1
      <3>. QED BY <1>14, <3>2
    <2>3. CASE i >= p
      <3>1. /\ i \in 0..n /\ i + 1 \in 0..n /\ ~(i < p) /\ ~(i + 1 < p)
            /\ i + 1 # p - 1 /\ i + 1 # p /\ (i + 1) + 1 # p /\ (i + 1) + 1 # p + 1
            /\ (i + 1) + 1 \in 1..(n + 1) /\ i + 1 \in 0..(n + 1)
            /\ (i + 1) + 1 \in 0..(n + 1)
        BY <1>2, <1>3, <2>3
      <3>2. At(h, r2, i) = At(h, r, i + 1) /\ At(h, r2, i + 1) = At(h, r, (i + 1) + 1)
        BY <1>10, <3>1
      <3>3. At(h, r, i + 1) \in Nodes \ {elm, At(h, r, p - 1)}
        BY <1>3, <1>4, <1>11, <3>1
      <3>4. At(h, r, (i + 1) + 1) \in Nodes \ {elm, At(h, r, p + 1)}
        BY <1>3, <1>4, <1>11, <3>1
      <3>. QED BY <1>5, <1>14, <3>1, <3>2, <3>3, <3>4
    <2>. QED BY <1>2, <1>3, <2>1, <2>2, <2>3
  <1>16. ASSUME NEW g \in Heads \ stale, g # h
         PROVE  RingOk(g, ring'[g], enext', eprev')
    <2>1. RingNodes(g) \cap RingNodes(h) = {} /\ RingNodes(g) \subseteq Nodes
      BY <1>2, <1>16, RingsDisjoint, AtFacts
    <2>2. elm \in RingNodes(h)
      BY <1>1 DEF RingNodes
    <2>3. \A x \in RingNodes(g) : enext'[x] = enext[x] /\ eprev'[x] = eprev[x]
      BY <1>4, <1>11, <1>14, <2>1, <2>2
    <2>4. RingOk(g, ring[g], enext, eprev)
      BY <1>2 DEF Linking
    <2>5. RingOk(g, ring[g], enext', eprev')
      BY <1>2, <2>3, <2>4, RingFrame
    <2>. QED BY <1>9, <1>16, <2>5
  <1>17. Linking'
    <2>1. \A g \in Heads \ stale' : RingOk(g, ring'[g], enext', eprev')
      BY <1>1, <1>9, <1>15, <1>16
    <2>2. (\A g \in Heads \ stale : RingOk(g, ring[g], enext, eprev))'
      BY <2>1 DEF RingOk, At
    <2>. QED BY <1>14, <2>2 DEF Linking, Nodes
  <1>. QED BY <1>9, <1>17 DEF embInv

\* vms_list_embedded_init of a head whose list was joined into another.
LEMMA EmbInitStep ==
  ASSUME embInv, NEW h \in Heads, embedded_init(h)
  PROVE  embInv'
  <1>1. /\ h \in stale /\ ring' = ring /\ stale' = stale \ {h}
        /\ enext' = [enext EXCEPT ![h] = h] /\ eprev' = [eprev EXCEPT ![h] = h]
    BY DEF embedded_init
  <1>2. Apart /\ Linking /\ ring[h] = << >> /\ h \in Nodes
    BY <1>1 DEF embInv, Apart, Nodes
  <1>3. Apart'
    <2>1. \A g \in Heads : Elements(g)' = Elements(g)
      BY <1>1 DEF Elements
    <2>2. (\A g \in Heads : Injective(ring[g]))'
      BY <1>1, <1>2 DEF Apart, Injective
    <2>3. (\A f, g \in Heads : f # g => Elements(f) \cap Elements(g) = {})'
      BY <1>2, <2>1 DEF Apart
    <2>. QED BY <1>1, <1>2, <2>2, <2>3 DEF Apart
  <1>4. /\ enext' \in [Nodes -> Nodes \cup {0}] /\ eprev' \in [Nodes -> Nodes \cup {0}]
        /\ enext'[h] = h /\ eprev'[h] = h
        /\ \A x \in Nodes \ {h} : enext'[x] = enext[x] /\ eprev'[x] = eprev[x]
    BY <1>1, <1>2 DEF Linking
  <1>5. RingOk(h, ring[h], enext', eprev')
    <2>1. Len(ring[h]) = 0 /\ At(h, ring[h], 0) = h /\ At(h, ring[h], 0 + 1) = h
      BY <1>2 DEF At
    <2>. QED BY <1>4, <2>1 DEF RingOk
  <1>6. ASSUME NEW g \in Heads \ stale PROVE RingOk(g, ring[g], enext', eprev')
    <2>1. RingNodes(g) \cap RingNodes(h) = {} /\ RingNodes(g) \subseteq Nodes
      BY <1>1, <1>2, RingsDisjoint, AtFacts
    <2>2. \A x \in RingNodes(g) : enext'[x] = enext[x] /\ eprev'[x] = eprev[x]
      BY <1>4, <2>1 DEF RingNodes
    <2>3. RingOk(g, ring[g], enext, eprev)
      BY <1>2 DEF Linking
    <2>. QED BY <1>2, <2>2, <2>3, RingFrame
  <1>7. Linking'
    <2>1. \A g \in Heads \ stale' : RingOk(g, ring'[g], enext', eprev')
      BY <1>1, <1>5, <1>6
    <2>2. (\A g \in Heads \ stale : RingOk(g, ring[g], enext, eprev))'
      BY <2>1 DEF RingOk, At
    <2>. QED BY <1>4, <2>2 DEF Linking, Nodes
  <1>. QED BY <1>3, <1>7 DEF embInv

\* t is s with u put after place p.
Spliced(s, t, u, p) ==
  /\ Len(t) = Len(s) + Len(u)
  /\ \A i \in 1..(Len(s) + Len(u)) :
       t[i] = IF i <= p THEN s[i]
              ELSE IF i <= p + Len(u) THEN u[i - p] ELSE s[i - Len(u)]

\* A sequence with another one put in after place p, place by place.
LEMMA SpliceRight ==
  ASSUME NEW S, NEW s \in Seq(S), NEW u \in Seq(S), NEW p \in 0..Len(s),
         NEW t, t = SubSeq(s, 1, p) \o u \o SubSeq(s, p + 1, Len(s))
  PROVE  t \in Seq(S) /\ Spliced(s, t, u, p)
  <1>. DEFINE a == SubSeq(s, 1, p)
              b == SubSeq(s, p + 1, Len(s))
              c == a \o u
  <1>1. /\ a \in Seq(S) /\ Len(a) = p /\ \A i \in 1..p : a[i] = s[i]
        /\ b \in Seq(S) /\ Len(b) = Len(s) - p
        /\ \A i \in 1..(Len(s) - p) : b[i] = s[p + i]
    OBVIOUS
  <1>. HIDE DEF a, b
  <1>2. /\ c \in Seq(S) /\ Len(c) = p + Len(u)
        /\ \A i \in 1..(p + Len(u)) : c[i] = IF i <= p THEN a[i] ELSE u[i - p]
    <2>1. /\ c \in Seq(S) /\ Len(c) = Len(a) + Len(u)
          /\ \A i \in 1..(Len(a) + Len(u)) :
               c[i] = IF i <= Len(a) THEN a[i] ELSE u[i - Len(a)]
      BY <1>1, ConcatProperties
    <2>. QED BY <1>1, <2>1
  <1>3. t = c \o b
    BY DEF a, b
  <1>. HIDE DEF c
  <1>4. /\ t \in Seq(S) /\ Len(t) = Len(c) + Len(b)
        /\ \A i \in 1..(Len(c) + Len(b)) :
             t[i] = IF i <= Len(c) THEN c[i] ELSE b[i - Len(c)]
    <2>1. c \in Seq(S) /\ b \in Seq(S)
      BY <1>1, <1>2
    <2>2. /\ c \o b \in Seq(S) /\ Len(c \o b) = Len(c) + Len(b)
          /\ \A i \in 1..(Len(c) + Len(b)) :
               (c \o b)[i] = IF i <= Len(c) THEN c[i] ELSE b[i - Len(c)]
      BY <2>1, ConcatProperties
    <2>. QED BY ONLY <1>3, <2>2
  <1>5. Len(s) \in Nat /\ Len(u) \in Nat /\ Len(c) + Len(b) = Len(s) + Len(u)
    BY <1>1, <1>2
  <1>6. ASSUME NEW i \in 1..(Len(s) + Len(u))
        PROVE  t[i] = IF i <= p THEN s[i]
                      ELSE IF i <= p + Len(u) THEN u[i - p] ELSE s[i - Len(u)]
    <2>1. CASE i <= p
      <3>1. i \in 1..p /\ i \in 1..(p + Len(u)) /\ i <= p + Len(u)
        BY <1>5, <2>1
      <3>. QED BY <1>1, <1>2, <1>4, <1>5, <2>1, <3>1
    <2>2. CASE i > p /\ i <= p + Len(u)
      <3>1. i \in 1..(p + Len(u)) /\ ~(i <= p)
        BY <1>5, <2>2
      <3>. QED BY <1>2, <1>4, <1>5, <2>2, <3>1
    <2>3. CASE i > p + Len(u)
      <3>1. /\ ~(i <= p) /\ ~(i <= p + Len(u))
            /\ i - (p + Len(u)) \in 1..(Len(s) - p)
            /\ p + (i - (p + Len(u))) = i - Len(u)
        BY <1>5, <2>3
      <3>2. t[i] = b[i - (p + Len(u))]
        BY <1>2, <1>4, <1>5, <3>1
      <3>3. b[i - (p + Len(u))] = s[p + (i - (p + Len(u)))]
        BY <1>1, <3>1
      <3>4. t[i] = s[i - Len(u)]
        BY ONLY <3>1, <3>2, <3>3
      <3>. QED BY <3>1, <3>4
    <2>4. i <= p \/ (i > p /\ i <= p + Len(u)) \/ i > p + Len(u)
      BY <1>5
    <2>. QED BY <2>1, <2>2, <2>3, <2>4, Zenon
  <1>. QED BY <1>4, <1>5, <1>6 DEF Spliced

\* If s and u have no element twice or in common, t has none twice and the
\* elements of both.
LEMMA SplicedElements ==
  ASSUME NEW S, NEW s \in Seq(S), NEW u \in Seq(S), NEW t, NEW p \in 0..Len(s),
         Spliced(s, t, u, p), Injective(s), Injective(u),
         \A i \in 1..Len(s), j \in 1..Len(u) : s[i] # u[j]
  PROVE  /\ Injective(t)
         /\ \A i \in 1..Len(t) : \/ \E j \in 1..Len(s) : t[i] = s[j]
                                 \/ \E j \in 1..Len(u) : t[i] = u[j]
  <1>1. /\ Len(s) \in Nat /\ Len(u) \in Nat /\ Len(t) = Len(s) + Len(u)
        /\ \A i \in 1..(Len(s) + Len(u)) :
             t[i] = IF i <= p THEN s[i]
                    ELSE IF i <= p + Len(u) THEN u[i - p] ELSE s[i - Len(u)]
    BY DEF Spliced
  <1>. DEFINE from(i) == IF i <= p THEN i
                         ELSE IF i <= p + Len(u) THEN i - p ELSE i - Len(u)
              inU(i) == i > p /\ i <= p + Len(u)
  <1>2. ASSUME NEW i \in 1..(Len(s) + Len(u))
        PROVE  /\ inU(i) => from(i) \in 1..Len(u) /\ t[i] = u[from(i)]
               /\ ~inU(i) => from(i) \in 1..Len(s) /\ t[i] = s[from(i)]
    BY <1>1
  <1>3. ASSUME NEW i \in 1..(Len(s) + Len(u)), NEW j \in 1..(Len(s) + Len(u)),
               from(i) = from(j), inU(i) <=> inU(j)
        PROVE  i = j
    BY <1>1, <1>3
  <1>. HIDE DEF from, inU
  <1>4. ASSUME NEW i \in 1..(Len(s) + Len(u)), NEW j \in 1..(Len(s) + Len(u)),
               t[i] = t[j]
        PROVE  i = j
    <2>1. CASE inU(i) /\ inU(j)
      BY <1>2, <1>3, <1>4, <2>1 DEF Injective
    <2>2. CASE ~inU(i) /\ ~inU(j)
      BY <1>2, <1>3, <1>4, <2>2 DEF Injective
    <2>3. CASE ~(inU(i) <=> inU(j))
      BY <1>2, <1>4, <2>3
    <2>. QED BY <2>1, <2>2, <2>3
  <1>5. Injective(t)
    BY <1>1, <1>4 DEF Injective
  <1>. QED BY <1>1, <1>2, <1>5

\* The rings stay apart when the elements of o move to the ring of h.
LEMMA ApartJoin ==
  ASSUME Apart, NEW h \in Heads \ stale, NEW o \in Heads \ stale, h # o,
         NEW r \in Seq(Links), Injective(r),
         ring' = [ring EXCEPT ![h] = r, ![o] = << >>], stale' = stale \cup {o},
         \A i \in 1..Len(r) : r[i] \in Elements(h) \cup Elements(o)
  PROVE  /\ Apart' /\ ring'[h] = r
         /\ \A g \in Heads \ {h, o} : ring'[g] = ring[g]
  <1>1. /\ ring' \in [Heads -> Seq(Links)] /\ ring'[h] = r /\ ring'[o] = << >>
        /\ \A g \in Heads \ {h, o} : ring'[g] = ring[g]
    BY DEF Apart
  <1>2. \A g \in Heads \ {h, o} : Elements(g)' = Elements(g)
    BY <1>1 DEF Elements
  <1>3. Elements(h)' \subseteq Elements(h) \cup Elements(o) /\ Elements(o)' = {}
    BY <1>1 DEF Elements
  <1>4. (\A g \in Heads : Injective(ring[g]))'
    <2>1. Injective(<< >>)
      BY DEF Injective
    <2>2. \A g \in Heads : Injective(ring'[g])
      BY <1>1, <2>1 DEF Apart
    <2>. QED BY <2>2 DEF Injective
  <1>5. ASSUME NEW f \in Heads, NEW g \in Heads, f # g
        PROVE  Elements(f)' \cap Elements(g)' = {}
    <2>1. CASE f = o \/ g = o
      BY <1>3, <2>1
    <2>2. CASE f = h /\ g \notin {h, o}
      BY <1>2, <1>3, <2>2 DEF Apart
    <2>3. CASE g = h /\ f \notin {h, o}
      BY <1>2, <1>3, <2>3 DEF Apart
    <2>4. CASE f \notin {h, o} /\ g \notin {h, o}
      BY <1>2, <1>5, <2>4 DEF Apart
    <2>. QED BY <1>5, <2>1, <2>2, <2>3, <2>4
  <1>6. (\A f, g \in Heads : f # g => Elements(f) \cap Elements(g) = {})'
    BY <1>5
  <1>7. \A g \in stale' : ring'[g] = << >>
    BY <1>1 DEF Apart
  <1>. QED BY <1>1, <1>4, <1>6, <1>7 DEF Apart

\* vms_list_embedded_insert_list: the other ring goes in after a node of this one.
LEMMA EmbJoinStep ==
  ASSUME embInv, NEW h \in Heads, NEW o \in Heads, NEW l \in Nodes,
         embedded_insert_list(h, l, o)
  PROVE  embInv'
  <1>. DEFINE r == ring[h]
              u == ring[o]
              n == Len(r)
              m == Len(u)
              p == Place(h, l)
              r2 == SubSeq(r, 1, p) \o u \o SubSeq(r, p + 1, Len(r))
              A(i) == At(h, r, i)
              B(i) == At(o, u, i)
              C(i) == At(h, r2, i)
  <1>1. /\ h \in Heads \ stale /\ o \in Heads \ stale /\ h # o
        /\ l \in RingNodes(h) /\ enext[o] # o
        /\ enext' = [enext EXCEPT ![eprev[o]] = enext[l], ![l] = enext[o]]
        /\ eprev' = [eprev EXCEPT ![enext[o]] = l, ![enext[l]] = eprev[o]]
        /\ stale' = stale \cup {o}
    BY DEF embedded_insert_list, RingNodes
  <1>2. /\ Apart /\ Linking /\ r \in Seq(Links) /\ n \in Nat /\ Injective(r)
        /\ u \in Seq(Links) /\ m \in Nat /\ Injective(u)
    BY DEF embInv, Apart
  <1>3. ring' = [ring EXCEPT ![h] = r2, ![o] = << >>]
    BY <1>1, <1>2 DEF embedded_insert_list, Joined, Apart
  <1>4. p \in 0..n /\ A(p) = l
    BY <1>1, <1>2, PlaceRight
  <1>5. /\ \A i \in 0..(n + 1) : A(i) \in RingNodes(h)
        /\ \A i, j \in 0..n : A(i) = A(j) => i = j
        /\ \A i, j \in 1..(n + 1) : A(i) = A(j) => i = j
        /\ RingNodes(h) \subseteq Nodes
    BY <1>2, AtFacts
  <1>6. /\ \A i \in 0..(m + 1) : B(i) \in RingNodes(o)
        /\ \A i, j \in 0..m : B(i) = B(j) => i = j
        /\ \A i, j \in 1..(m + 1) : B(i) = B(j) => i = j
        /\ RingNodes(o) \subseteq Nodes
    BY <1>2, AtFacts
  <1>7. \A i \in 0..n : enext[A(i)] = A(i + 1) /\ eprev[A(i + 1)] = A(i)
    BY <1>1, <1>2 DEF Linking, RingOk
  <1>8. \A i \in 0..m : enext[B(i)] = B(i + 1) /\ eprev[B(i + 1)] = B(i)
    BY <1>1, <1>2 DEF Linking, RingOk
  <1>9. /\ enext \in [Nodes -> Nodes \cup {0}] /\ eprev \in [Nodes -> Nodes \cup {0}]
        /\ h \in Nodes /\ o \in Nodes
    BY <1>2 DEF Linking, Nodes
  <1>10. RingNodes(h) \cap RingNodes(o) = {}
    BY <1>1, <1>2, RingsDisjoint
  <1>11. r2 \in Seq(Links) /\ Spliced(r, r2, u, p)
    BY <1>2, <1>4, SpliceRight
  <1>12. /\ Elements(h) = {r[i] : i \in 1..n} /\ Elements(o) = {u[i] : i \in 1..m}
    BY <1>2 DEF Elements
  <1>. HIDE DEF r, u, n, m, p, r2
  <1>13. Injective(r2) /\ \A i \in 1..Len(r2) : r2[i] \in Elements(h) \cup Elements(o)
    <2>1. \A i \in 1..Len(r), j \in 1..Len(u) : r[i] # u[j]
      BY <1>10, <1>12 DEF RingNodes, n, m
    <2>2. p \in 0..Len(r)
      BY <1>4 DEF n
    <2>3. /\ Injective(r2)
          /\ \A i \in 1..Len(r2) : \/ \E j \in 1..Len(r) : r2[i] = r[j]
                                   \/ \E j \in 1..Len(u) : r2[i] = u[j]
      BY <1>2, <1>11, <2>1, <2>2, SplicedElements
    <2>. QED BY <1>12, <2>3 DEF n, m
  <1>14. Apart' /\ ring'[h] = r2 /\ \A g \in Heads \ {h, o} : ring'[g] = ring[g]
    BY <1>1, <1>2, <1>3, <1>11, <1>13, ApartJoin
  <1>15. B(0) = o /\ B(m + 1) = o /\ m > 0
    <2>1. B(0) = o /\ B(m + 1) = o
      BY <1>2 DEF At, m
    <2>2. enext[B(0)] = B(0 + 1)
      BY <1>2, <1>8
    <2>3. m # 0
      BY <1>1, <2>1, <2>2
    <2>. QED BY <1>2, <2>1, <2>3
  <1>16. /\ Len(r2) = n + m
         /\ \A i \in 0..(n + m + 1) :
              C(i) = IF i <= p THEN A(i) ELSE IF i <= p + m THEN B(i - p) ELSE A(i - m)
    <2>1. /\ Len(r2) = n + m
          /\ \A i \in 1..(n + m) :
               r2[i] = IF i <= p THEN r[i] ELSE IF i <= p + m THEN u[i - p] ELSE r[i - m]
      BY <1>11 DEF Spliced, n, m
    <2>2. ASSUME NEW i \in 0..(n + m + 1)
          PROVE  C(i) = IF i <= p THEN A(i)
                        ELSE IF i <= p + m THEN B(i - p) ELSE A(i - m)
      <3>1. CASE i <= p
        <4>1. (i = 0 \/ i \in 1..(n + m)) /\ i # n + m + 1 /\ i # n + 1
          BY <1>2, <1>4, <1>15, <3>1
        <4>. QED BY <2>1, <3>1, <4>1 DEF At, n
      <3>2. CASE ~(i <= p) /\ i <= p + m
        <4>1. i \in 1..(n + m) /\ i # 0 /\ i # n + m + 1 /\ i - p # 0 /\ i - p # m + 1
          BY <1>2, <1>4, <3>2
        <4>. QED BY <2>1, <3>2, <4>1 DEF At, m
      <3>3. CASE ~(i <= p) /\ ~(i <= p + m)
        <4>1. /\ i # 0 /\ i - m # 0 /\ (i = n + m + 1 <=> i - m = n + 1)
              /\ i # n + m + 1 => i \in 1..(n + m)
          BY <1>2, <1>4, <1>15, <3>3
        <4>. QED BY <2>1, <3>3, <4>1 DEF At, n
      <3>. QED BY <3>1, <3>2, <3>3
    <2>. QED BY <2>1, <2>2
  <1>. HIDE DEF A, B, C
  <1>17. /\ p + 1 \in 1..(n + 1) /\ p + 1 \in 0..(n + 1) /\ p \in 0..(n + 1)
         /\ m \in 0..m /\ m \in 0..(m + 1) /\ 1 \in 0..(m + 1) /\ 0 \in 0..m
         /\ m \in 1..(m + 1) /\ 1 \in 1..(m + 1) /\ 0 + 1 = 1
    BY <1>2, <1>4, <1>15
  <1>18. /\ enext[l] = A(p + 1) /\ enext[o] = B(1) /\ eprev[o] = B(m)
    BY <1>4, <1>7, <1>8, <1>15, <1>17
  <1>19. /\ A(p) \in RingNodes(h) /\ A(p + 1) \in RingNodes(h)
         /\ B(1) \in RingNodes(o) /\ B(m) \in RingNodes(o)
    BY <1>5, <1>6, <1>17
  <1>20. /\ enext' \in [Nodes -> Nodes \cup {0}] /\ eprev' \in [Nodes -> Nodes \cup {0}]
         /\ enext'[B(m)] = A(p + 1) /\ enext'[A(p)] = B(1)
         /\ eprev'[B(1)] = A(p) /\ eprev'[A(p + 1)] = B(m)
         /\ \A x \in Nodes \ {A(p), B(m)} : enext'[x] = enext[x]
         /\ \A x \in Nodes \ {A(p + 1), B(1)} : eprev'[x] = eprev[x]
    <2>1. /\ A(p) \in Nodes /\ A(p + 1) \in Nodes /\ B(1) \in Nodes /\ B(m) \in Nodes
          /\ A(p) # B(m) /\ A(p + 1) # B(1)
      BY <1>5, <1>6, <1>10, <1>19
    <2>2. /\ enext' = [enext EXCEPT ![B(m)] = A(p + 1), ![A(p)] = B(1)]
          /\ eprev' = [eprev EXCEPT ![B(1)] = A(p), ![A(p + 1)] = B(m)]
      BY <1>1, <1>4, <1>18
    <2>. QED BY <1>9, <2>1, <2>2
  \* The links inside either part are as they were.
  <1>21. ASSUME NEW i \in 0..n, i # p
         PROVE  enext'[A(i)] = A(i + 1) /\ eprev'[A(i + 1)] = A(i)
    <2>1. /\ i \in 0..(n + 1) /\ i + 1 \in 0..(n + 1) /\ i + 1 \in 1..(n + 1)
          /\ i + 1 # p + 1
      BY <1>2, <1>4, <1>21
    <2>2. A(i) \in Nodes \ {A(p), B(m)} /\ A(i + 1) \in Nodes \ {A(p + 1), B(1)}
      <3>1. A(i) \in RingNodes(h) /\ A(i + 1) \in RingNodes(h)
        BY <1>5, <2>1
      <3>2. A(i) # A(p) /\ A(i + 1) # A(p + 1)
        BY <1>4, <1>5, <1>17, <1>21, <2>1
      <3>. QED BY <1>5, <1>10, <1>19, <3>1, <3>2
    <2>. QED BY <1>7, <1>20, <2>2
  <1>22. ASSUME NEW i \in 1..(m - 1)
         PROVE  enext'[B(i)] = B(i + 1) /\ eprev'[B(i + 1)] = B(i)
    <2>1. /\ i \in 0..m /\ i \in 0..(m + 1) /\ i + 1 \in 0..(m + 1)
          /\ i + 1 \in 1..(m + 1) /\ i # m /\ i + 1 # 1
      BY <1>2, <1>15
    <2>2. B(i) \in Nodes \ {A(p), B(m)} /\ B(i + 1) \in Nodes \ {A(p + 1), B(1)}
      <3>1. B(i) \in RingNodes(o) /\ B(i + 1) \in RingNodes(o)
        BY <1>6, <2>1
      <3>2. B(i) # B(m) /\ B(i + 1) # B(1)
        BY <1>6, <1>17, <2>1
      <3>. QED BY <1>6, <1>10, <1>19, <3>1, <3>2
    <2>. QED BY <1>8, <1>20, <2>1, <2>2
  <1>23. RingOk(h, r2, enext', eprev')
    <2>. SUFFICES ASSUME NEW i \in 0..(n + m)
                  PROVE  enext'[C(i)] = C(i + 1) /\ eprev'[C(i + 1)] = C(i)
      BY <1>16 DEF RingOk, C
    <2>0. i \in 0..(n + m + 1) /\ i + 1 \in 0..(n + m + 1)
      BY <1>2
    <2>1. CASE i < p
      <3>1. i \in 0..n /\ i # p /\ i <= p /\ i + 1 <= p
        BY <1>2, <1>4, <2>1
      <3>2. C(i) = A(i) /\ C(i + 1) = A(i + 1)
        BY <1>16, <2>0, <3>1
      <3>. QED BY <1>21, <3>1, <3>2
    <2>2. CASE i = p
      <3>1. i <= p /\ ~(i + 1 <= p) /\ i + 1 <= p + m /\ (i + 1) - p = 1
        BY <1>2, <1>4, <1>15, <2>2
      <3>2. C(i) = A(p) /\ C(i + 1) = B(1)
        BY <1>16, <2>0, <2>2, <3>1
      <3>. QED BY <1>20, <3>2
    <2>3. CASE i > p /\ i < p + m
      <3>1. /\ ~(i <= p) /\ i <= p + m /\ ~(i + 1 <= p) /\ i + 1 <= p + m
            /\ i - p \in 1..(m - 1) /\ (i + 1) - p = (i - p) + 1
        BY <1>2, <1>4, <2>3
      <3>2. C(i) = B(i - p) /\ C(i + 1) = B((i - p) + 1)
        BY <1>16, <2>0, <3>1
      <3>. QED BY <1>22, <3>1, <3>2
    <2>4. CASE i = p + m
      <3>1. /\ ~(i <= p) /\ i <= p + m /\ ~(i + 1 <= p) /\ ~(i + 1 <= p + m)
            /\ i - p = m /\ (i + 1) - m = p + 1
        BY <1>2, <1>4, <1>15, <2>4
      <3>2. C(i) = B(m) /\ C(i + 1) = A(p + 1)
        BY <1>16, <2>0, <3>1
      <3>. QED BY <1>20, <3>2
    <2>5. CASE i > p + m
      <3>1. /\ ~(i <= p) /\ ~(i <= p + m) /\ ~(i + 1 <= p) /\ ~(i + 1 <= p + m)
            /\ i - m \in 0..n /\ i - m # p /\ (i + 1) - m = (i - m) + 1
        BY <1>2, <1>4, <2>5
      <3>2. C(i) = A(i - m) /\ C(i + 1) = A((i - m) + 1)
        BY <1>16, <2>0, <3>1
      <3>. QED BY <1>21, <3>1, <3>2
    <2>. QED BY <1>2, <1>4, <2>1, <2>2, <2>3, <2>4, <2>5
  <1>24. ASSUME NEW g \in Heads \ stale, g # h, g # o
         PROVE  RingOk(g, ring'[g], enext', eprev')
    <2>1. /\ RingNodes(g) \cap RingNodes(h) = {} /\ RingNodes(g) \cap RingNodes(o) = {}
          /\ RingNodes(g) \subseteq Nodes
      BY <1>2, <1>24, RingsDisjoint, AtFacts
    <2>2. \A x \in RingNodes(g) : enext'[x] = enext[x] /\ eprev'[x] = eprev[x]
      BY <1>19, <1>20, <2>1
    <2>3. RingOk(g, ring[g], enext, eprev)
      BY <1>2 DEF Linking
    <2>4. RingOk(g, ring[g], enext', eprev')
      BY <1>2, <2>2, <2>3, RingFrame
    <2>. QED BY <1>14, <1>24, <2>4
  <1>25. Linking'
    <2>1. \A g \in Heads \ stale' : RingOk(g, ring'[g], enext', eprev')
      BY <1>1, <1>14, <1>23, <1>24
    <2>2. (\A g \in Heads \ stale : RingOk(g, ring[g], enext, eprev))'
      BY <2>1 DEF RingOk, At
    <2>. QED BY <1>20, <2>2 DEF Linking, Nodes
  <1>. QED BY <1>14, <1>25 DEF embInv

\* Whatever is inserted, removed and joined in whatever order, each ring visits
\* its head and its elements in their order, both ways round
\* (core/list-embedded.c).
THEOREM RingAlwaysRight == embSpec => []RingRight
  <1>1. embInit => embInv
    <2>. SUFFICES ASSUME embInit PROVE embInv
      OBVIOUS
    <2>1. Apart
      BY DEF embInit, Apart, Injective, Elements
    <2>2. /\ enext \in [Nodes -> Nodes \cup {0}] /\ eprev \in [Nodes -> Nodes \cup {0}]
      BY DEF embInit, Nodes
    <2>3. ASSUME NEW h \in Heads PROVE RingOk(h, ring[h], enext, eprev)
      <3>1. ring[h] = << >> /\ enext[h] = h /\ eprev[h] = h
        BY DEF embInit, Nodes
      <3>2. Len(ring[h]) = 0 /\ At(h, ring[h], 0) = h /\ At(h, ring[h], 0 + 1) = h
        BY <3>1 DEF At
      <3>. QED BY <3>1, <3>2 DEF RingOk
    <2>. QED BY <2>1, <2>2, <2>3 DEF embInv, Linking
  <1>2. embInv /\ [embNext]_embVars => embInv'
    <2>. SUFFICES ASSUME embInv, [embNext]_embVars PROVE embInv'
      OBVIOUS
    <2>1. CASE embNext
      BY <2>1, EmbInitStep, EmbInsertStep, EmbJoinStep, EmbRemoveStep DEF embNext
    <2>2. CASE UNCHANGED embVars
      <3>1. enext' = enext /\ eprev' = eprev /\ ring' = ring /\ stale' = stale
        BY <2>2 DEF embVars
      <3>2. Apart'
        <4>1. \A g \in Heads : Elements(g)' = Elements(g)
          BY <3>1 DEF Elements
        <4>2. (\A g \in Heads : Injective(ring[g]))'
          BY <3>1 DEF embInv, Apart, Injective
        <4>3. (\A f, g \in Heads : f # g => Elements(f) \cap Elements(g) = {})'
          BY <4>1 DEF embInv, Apart
        <4>. QED BY <3>1, <4>2, <4>3 DEF embInv, Apart
      <3>3. Linking'
        BY <3>1 DEF embInv, Linking, RingOk, At, Nodes
      <3>. QED BY <3>2, <3>3 DEF embInv
    <2>. QED BY <2>1, <2>2
  <1>3. embInv => RingRight
    BY RingRightAt DEF embInv, Linking
  <1>. QED BY <1>1, <1>2, <1>3, PTL DEF embSpec

-----------------------------------------------------------------------------
(* Vectors.                                                                *)

\* Where the memory m has n elements of e bytes, the ones that were pushed have
\* the values that w says; if e is 1, so do the ones added by a resize.
Holds(m, w, n, e) ==
  \A i \in 1..n :
    w[i] # 0 \/ e = 1 => \A k \in ((i - 1) * e + 1)..(i * e) : m[k] = w[i]

VecTypeOK ==
  /\ element_size \in ESizes \cup {0} /\ aligned \in BOOLEAN /\ copied \in BOOLEAN
  /\ vec \in [mem : Seq(Int), size : Nat, alloc : Nat]
  /\ want \in Seq(Int) /\ Len(want) = vec.size

MemInv ==
  /\ vec.size <= vec.alloc /\ Len(vec.mem) = vec.alloc * element_size
  /\ element_size = 0 => vec.alloc = 0
  /\ element_size = 1 \/ ~copied =>
       Holds(vec.mem, want, vec.size, element_size)

vecInv == VecTypeOK /\ MemInv

\* Element i of n lies between 0 and the end of element n.
LEMMA ByteBounds ==
  ASSUME NEW e \in Nat, NEW n \in Nat, NEW i \in 1..n
  PROVE  /\ (i - 1) * e \in Nat /\ i * e \in Nat /\ n * e \in Nat
         /\ i * e = (i - 1) * e + e /\ i * e <= n * e
  <1>1. (i - 1) * e \in Nat /\ i * e \in Nat /\ n * e \in Nat
    OBVIOUS
  <1>2. i * e = (i - 1) * e + e
    OBVIOUS
  <1>3. n * e = i * e + (n - i) * e /\ (n - i) * e \in Nat
    OBVIOUS
  <1>. QED BY <1>1, <1>2, <1>3

\* Products of sizes grow with their factors.
LEMMA Products ==
  ASSUME NEW e \in Nat \ {0}, NEW a \in Nat, NEW b \in Nat, a <= b
  PROVE  /\ a * e \in Nat /\ b * e \in Nat
         /\ a * e <= b * e /\ a <= a * e
  <1>1. a * e \in Nat /\ b * e \in Nat
    OBVIOUS
  <1>2. b * e = a * e + (b - a) * e /\ (b - a) * e \in Nat
    OBVIOUS
  <1>3. a * e = a + a * (e - 1) /\ a * (e - 1) \in Nat
    OBVIOUS
  <1>. QED BY <1>1, <1>2, <1>3

\* Holds looks only at the bytes of the n elements.
LEMMA HoldsSame ==
  ASSUME NEW e \in Nat, NEW n \in Nat, NEW m, NEW m2, NEW w, NEW w2,
         Holds(m, w, n, e), \A k \in 1..(n * e) : m2[k] = m[k],
         \A i \in 1..n : w2[i] = w[i]
  PROVE  Holds(m2, w2, n, e)
  <1>. SUFFICES ASSUME NEW i \in 1..n, w2[i] # 0 \/ e = 1,
                       NEW k \in ((i - 1) * e + 1)..(i * e)
                PROVE  m2[k] = w2[i]
    BY DEF Holds
  <1>1. k \in 1..(n * e)
    <2>. DEFINE b == (i - 1) * e
                c == i * e
                d == n * e
    <2>1. b \in Nat /\ c \in Nat /\ d \in Nat /\ c <= d
      BY ByteBounds
    <2>2. k \in (b + 1)..c
      OBVIOUS
    <2>. HIDE DEF b, c, d
    <2>3. k \in 1..d
      BY <2>1, <2>2
    <2>. QED BY <2>3 DEF d
  <1>2. w2[i] = w[i]
    OBVIOUS
  <1>3. m[k] = w[i]
    BY <1>2, Zenon DEF Holds
  <1>. QED BY <1>1, <1>2, <1>3

\* An aligned vector that moves keeps its elements when they have one byte, or
\* when it has none.
LEMMA GrownRight ==
  ASSUME vecInv, element_size > 0, NEW n \in Nat, n >= vec.alloc
  PROVE  /\ grown(n) \in [mem : Seq(Int), size : Nat, alloc : Nat]
         /\ grown(n).size = vec.size /\ grown(n).alloc = n
         /\ Len(grown(n).mem) = n * element_size
         /\ element_size = 1 \/ ~(copied \/ (aligned /\ vec.size > 0)) =>
              Holds(grown(n).mem, want, vec.size, element_size)
  <1>. USE VectorAssumption DEF vecInv, VecTypeOK
  <1>. DEFINE kept == IF aligned THEN vec.size ELSE Len(vec.mem)
              mem == [i \in 1..(n * element_size) |->
                        IF i <= kept THEN vec.mem[i] ELSE Wild]
  <1>1. /\ element_size \in Nat \ {0} /\ vec.size \in Nat /\ vec.alloc \in Nat
        /\ n * element_size \in Nat
    OBVIOUS
  <1>2. /\ vec.size <= vec.alloc
        /\ vec.size * element_size <= vec.alloc * element_size
        /\ vec.alloc * element_size <= n * element_size
        /\ vec.size <= vec.size * element_size
    BY <1>1, Products DEF MemInv
  <1>3. /\ vec.mem \in [1..(vec.alloc * element_size) -> Int]
        /\ Len(vec.mem) = vec.alloc * element_size
    BY DEF MemInv
  <1>4. mem \in [1..(n * element_size) -> Int]
    <2>1. ASSUME NEW i \in 1..(n * element_size), i <= kept PROVE vec.mem[i] \in Int
      <3>1. i \in 1..(vec.alloc * element_size)
        BY <1>1, <1>2, <1>3, <2>1
      <3>. QED BY <3>1, <1>3
    <2>. QED BY <2>1 DEF Wild
  <1>5. mem \in Seq(Int) /\ Len(mem) = n * element_size
    <2>. HIDE DEF mem
    <2>1. mem \in Seq(Int)
      BY <1>1, <1>4, SeqDef
    <2>. QED BY <1>1, <1>4, <2>1
  <1>6. grown(n) = [vec EXCEPT !.alloc = n, !.mem = mem]
    BY DEF grown
  <1>7. ASSUME element_size = 1 \/ ~(copied \/ (aligned /\ vec.size > 0))
        PROVE  Holds(mem, want, vec.size, element_size)
    <2>1. Holds(vec.mem, want, vec.size, element_size)
      BY <1>7 DEF MemInv
    <2>2. ASSUME NEW k \in 1..(vec.size * element_size) PROVE mem[k] = vec.mem[k]
      <3>1. k \in 1..(n * element_size)
        <4>1. vec.size * element_size <= n * element_size
          BY <1>1, <1>2, Products
        <4>2. vec.size * element_size \in Nat
          BY <1>1
        <4>. QED BY <1>1, <4>1, <4>2
      <3>2. vec.size > 0
        BY <1>1
      <3>3. k <= kept
        <4>1. CASE element_size = 1
          BY <1>1, <1>2, <1>3, <4>1
        <4>2. CASE ~aligned
          BY <1>1, <1>2, <1>3, <4>2
        <4>. QED BY <1>7, <3>2, <4>1, <4>2
      <3>. QED BY <3>1, <3>3
    <2>3. \A i \in 1..vec.size : want[i] = want[i]
      OBVIOUS
    <2>. HIDE DEF mem
    <2>. QED BY <1>1, <2>1, <2>2, <2>3, HoldsSame
  <1>. HIDE DEF mem
  <1>. QED BY <1>5, <1>6, <1>7

\* Writing bytes keeps the length of the memory.
LEMMA SetBytes ==
  ASSUME NEW m \in Seq(Int), NEW o \in Nat, NEW l \in Nat, NEW b \in Int
  PROVE  /\ set_bytes(m, o, l, b) \in Seq(Int)
         /\ Len(set_bytes(m, o, l, b)) = Len(m)
         /\ \A k \in 1..Len(m) :
              set_bytes(m, o, l, b)[k] = IF k > o /\ k <= o + l THEN b ELSE m[k]
  <1>. DEFINE r == set_bytes(m, o, l, b)
  <1>1. DOMAIN m = 1..Len(m) /\ Len(m) \in Nat /\ \A k \in 1..Len(m) : m[k] \in Int
    OBVIOUS
  <1>2. r = [k \in 1..Len(m) |-> IF k > o /\ k <= o + l THEN b ELSE m[k]]
    BY <1>1 DEF set_bytes
  <1>. HIDE DEF r
  <1>3. r \in [1..Len(m) -> Int]
    BY <1>1, <1>2
  <1>4. r \in Seq(Int)
    BY <1>1, <1>3, SeqDef
  <1>5. Len(r) = Len(m)
    BY <1>1, <1>3, <1>4
  <1>. QED BY <1>2, <1>4, <1>5 DEF r

\* The e bytes written at p are those from p + 1 to q = p + e.
LEMMA BytesBehind ==
  ASSUME NEW m \in Seq(Int), NEW d \in Int, NEW p \in Nat, NEW e \in Nat,
         NEW q \in Nat, q = p + e, q <= Len(m)
  PROVE  /\ \A k \in 1..p : set_bytes(m, p, e, d)[k] = m[k]
         /\ \A k \in (p + 1)..q : set_bytes(m, p, e, d)[k] = d
  <1>. DEFINE r == set_bytes(m, p, e, d)
  <1>1. /\ Len(m) \in Nat
        /\ \A k \in 1..Len(m) : r[k] = IF k > p /\ k <= p + e THEN d ELSE m[k]
    BY SetBytes
  <1>. HIDE DEF r
  <1>2. ASSUME NEW k \in 1..p PROVE r[k] = m[k]
    <2>1. k \in 1..Len(m) /\ ~(k > p)
      BY <1>1
    <2>. QED BY <1>1, <2>1
  <1>3. ASSUME NEW k \in (p + 1)..q PROVE r[k] = d
    <2>1. k \in 1..Len(m) /\ k > p /\ k <= p + e
      BY <1>1
    <2>. QED BY <1>1, <2>1
  <1>. QED BY <1>2, <1>3 DEF r

\* Copying an element behind the last one.
LEMMA HoldsPush ==
  ASSUME NEW e \in Nat, NEW n \in Nat, NEW m \in Seq(Int), NEW w \in Seq(Int),
         NEW d \in Int, Len(w) = n, (n + 1) * e <= Len(m), Holds(m, w, n, e)
  PROVE  Holds(set_bytes(m, n * e, e, d), Append(w, d), n + 1, e)
  <1>. DEFINE p == n * e
              q == (n + 1) * e
              r == set_bytes(m, p, e, d)
              w2 == Append(w, d)
  <1>1. p \in Nat /\ q \in Nat /\ q = p + e /\ q <= Len(m)
    OBVIOUS
  <1>2. (\A i \in 1..n : w2[i] = w[i]) /\ w2[n + 1] = d
    OBVIOUS
  <1>. HIDE DEF p, q, w2
  <1>3. (\A k \in 1..p : r[k] = m[k]) /\ (\A k \in (p + 1)..q : r[k] = d)
    BY <1>1, BytesBehind
  <1>. HIDE DEF r
  <1>4. Holds(r, w2, n, e)
    <2>1. \A k \in 1..(n * e) : r[k] = m[k]
      BY <1>3, Zenon DEF p
    <2>2. \A i \in 1..n : w2[i] = w[i]
      BY <1>2
    <2>. QED BY <2>1, <2>2, HoldsSame
  <1>. SUFFICES ASSUME NEW i \in 1..(n + 1), w2[i] # 0 \/ e = 1,
                       NEW k \in ((i - 1) * e + 1)..(i * e)
                PROVE  r[k] = w2[i]
    BY DEF Holds, r, w2, p
  <1>5. CASE i \in 1..n
    BY <1>4, <1>5 DEF Holds
  <1>6. CASE i = n + 1
    <2>1. i - 1 = n
      BY <1>6
    <2>2. k \in (p + 1)..q
      BY <1>6, <2>1, Zenon DEF p, q
    <2>. QED BY <1>2, <1>3, <1>6, <2>2, Zenon
  <1>. QED BY <1>5, <1>6

\* Clearing n - s bytes behind s elements clears n - s elements of one byte.
LEMMA HoldsResize ==
  ASSUME NEW e \in Nat \ {0}, NEW s \in Nat, NEW n \in Nat, s < n,
         NEW m \in Seq(Int), NEW w \in Seq(Int), NEW w2,
         Len(w) = s, n * e <= Len(m), Holds(m, w, s, e),
         w2 = [i \in 1..n |-> IF i <= s THEN w[i] ELSE 0]
  PROVE  Holds(set_bytes(m, s * e, n - s, 0), w2, n, e)
  <1>. DEFINE r == set_bytes(m, s * e, n - s, 0)
  <1>1. /\ s * e \in Nat /\ n * e \in Nat /\ s * e <= n * e
        /\ n - s \in Nat /\ Len(m) \in Nat
    BY Products
  <1>2. \A k \in 1..Len(m) :
          r[k] = IF k > s * e /\ k <= s * e + (n - s) THEN 0 ELSE m[k]
    BY <1>1, SetBytes
  <1>. HIDE DEF r
  <1>3. Holds(r, w2, s, e)
    <2>1. ASSUME NEW k \in 1..(s * e) PROVE r[k] = m[k]
      <3>1. k \in Int /\ 1 <= k /\ k <= s * e
        BY <1>1
      <3>2. s * e <= Len(m)
        <4>. DEFINE a == s * e
                    b == n * e
        <4>1. a \in Nat /\ b \in Nat /\ a <= b /\ b <= Len(m) /\ Len(m) \in Nat
          BY <1>1
        <4>. HIDE DEF a, b
        <4>2. a <= Len(m)
          BY <4>1
        <4>. QED BY <4>2 DEF a
      <3>3. k \in 1..Len(m)
        BY <1>1, <3>1, <3>2
      <3>. QED BY <1>1, <1>2, <3>1, <3>3
    <2>2. \A i \in 1..s : w2[i] = w[i]
      OBVIOUS
    <2>3. \A k \in 1..(s * e) : r[k] = m[k]
      BY <2>1
    <2>4. e \in Nat
      OBVIOUS
    <2>5. ASSUME NEW a, NEW b, Holds(m, w, s, e), \A i \in 1..s : b[i] = w[i],
                 \A k \in 1..(s * e) : a[k] = m[k]
          PROVE  Holds(a, b, s, e)
      BY <2>4, <2>5, HoldsSame
    <2>. QED BY <2>2, <2>3, <2>5, Zenon
  <1>. SUFFICES ASSUME NEW i \in 1..n, w2[i] # 0 \/ e = 1,
                       NEW k \in ((i - 1) * e + 1)..(i * e)
                PROVE  r[k] = w2[i]
    BY DEF Holds, r
  <1>4. CASE i \in 1..s
    BY <1>3, <1>4 DEF Holds
  <1>5. CASE i > s
    <2>1. e = 1 /\ w2[i] = 0
      BY <1>5
    <2>2. k = i /\ s * e = s /\ k \in 1..Len(m)
      BY <2>1
    <2>. QED BY <1>1, <1>2, <1>5, <2>1, <2>2
  <1>. QED BY <1>4, <1>5

\* The vector x that push and resize write to: the old one or an enlarged one.
LEMMA RoomFor ==
  ASSUME vecInv, element_size > 0, NEW n \in Nat, NEW grow \in BOOLEAN,
         NEW x, x = IF grow THEN grown(n) ELSE vec,
         n >= vec.alloc \/ ~grow
  PROVE  /\ x \in [mem : Seq(Int), size : Nat, alloc : Nat]
         /\ x.alloc = (IF grow THEN n ELSE vec.alloc)
         /\ Len(x.mem) = x.alloc * element_size
         /\ element_size = 1 \/ ~(copied \/ (grow /\ aligned /\ vec.size > 0)) =>
              Holds(x.mem, want, vec.size, element_size)
  <1>1. CASE grow
    BY <1>1, GrownRight
  <1>2. CASE ~grow
    BY <1>2 DEF vecInv, VecTypeOK, MemInv
  <1>. QED BY <1>1, <1>2

\* A push, which grows the memory if it is full.
LEMMA PushStep ==
  ASSUME vecInv, NEW d \in VData, vector_push(d)
  PROVE  vecInv'
  <1>. USE VectorAssumption
  <1>. DEFINE s == vec.size
              e == element_size
              x == IF full THEN grown(vec.alloc + VGrow) ELSE vec
              m == set_bytes(x.mem, s * e, e, d)
  <1>1. /\ e \in Nat /\ e > 0 /\ s \in Nat /\ vec.alloc \in Nat /\ d \in Int
        /\ want \in Seq(Int) /\ Len(want) = s /\ s <= vec.alloc
        /\ copied \in BOOLEAN /\ aligned \in BOOLEAN
        /\ element_size \in ESizes \cup {0}
    BY DEF vecInv, VecTypeOK, MemInv, vector_push
  <1>2. /\ vec' = [x EXCEPT !.size = s + 1, !.mem = m]
        /\ want' = Append(want, d)
        /\ copied' = (copied \/ (full /\ aligned /\ s > 0))
        /\ UNCHANGED <<element_size, aligned>>
    BY DEF vector_push
  <1>3. /\ x \in [mem : Seq(Int), size : Nat, alloc : Nat]
        /\ x.alloc = (IF full THEN vec.alloc + VGrow ELSE vec.alloc)
        /\ Len(x.mem) = x.alloc * e
        /\ e = 1 \/ ~(copied \/ (full /\ aligned /\ s > 0)) =>
             Holds(x.mem, want, s, e)
    <2>1. full \in BOOLEAN /\ vec.alloc + VGrow \in Nat /\ vec.alloc + VGrow >= vec.alloc
      BY <1>1 DEF full
    <2>. QED BY <1>1, <2>1, RoomFor
  <1>4. x.alloc \in Nat /\ s + 1 <= x.alloc
    BY <1>1, <1>3 DEF full
  <1>. HIDE DEF x
  <1>5. s * e \in Nat /\ (s + 1) * e <= Len(x.mem)
    <2>1. e \in Nat \ {0} /\ s + 1 \in Nat
      BY <1>1
    <2>. HIDE DEF e, s
    <2>2. (s + 1) * e <= x.alloc * e
      BY <1>4, <2>1, Products
    <2>. QED BY <1>1, <1>3, <2>2
  <1>6. m \in Seq(Int) /\ Len(m) = x.alloc * e
    <2>1. x.mem \in Seq(Int)
      BY <1>3
    <2>. DEFINE o == s * e
    <2>2. o \in Nat /\ e \in Nat /\ d \in Int
      BY <1>1, <1>5
    <2>. HIDE DEF e, s, o
    <2>3. /\ set_bytes(x.mem, o, e, d) \in Seq(Int)
          /\ Len(set_bytes(x.mem, o, e, d)) = Len(x.mem)
      BY <2>1, <2>2, SetBytes
    <2>. QED BY <1>3, <2>3 DEF o
  <1>7. /\ vec' \in [mem : Seq(Int), size : Nat, alloc : Nat]
        /\ vec'.size = s + 1 /\ vec'.alloc = x.alloc /\ vec'.mem = m
    <2>1. s + 1 \in Nat
      BY <1>1
    <2>. HIDE DEF m, s
    <2>. QED BY <1>2, <1>3, <1>6, <2>1
  <1>8. VecTypeOK'
    BY <1>1, <1>2, <1>7 DEF VecTypeOK
  <1>9. ASSUME e = 1 \/ ~copied' PROVE Holds(m, want', s + 1, e)
    <2>1. Holds(x.mem, want, s, e)
      BY <1>1, <1>2, <1>3, <1>9
    <2>2. x.mem \in Seq(Int)
      BY <1>3
    <2>. HIDE DEF e, s
    <2>3. Holds(set_bytes(x.mem, s * e, e, d), Append(want, d), s + 1, e)
      BY <1>1, <1>5, <2>1, <2>2, HoldsPush
    <2>. QED BY <1>2, <2>3
  <1>10. MemInv'
    <2>1. Len(vec'.mem) = vec'.alloc * e /\ vec'.size <= vec'.alloc
      BY <1>4, <1>6, <1>7
    <2>. HIDE DEF m
    <2>2. (element_size = 1 \/ ~copied => Holds(vec.mem, want, vec.size, element_size))'
      BY <1>2, <1>7, <1>9 DEF Holds
    <2>. QED BY <1>1, <1>2, <2>1, <2>2 DEF MemInv
  <1>. QED BY <1>8, <1>10 DEF vecInv

\* A pop.
LEMMA PopStep == ASSUME vecInv, vector_pop PROVE vecInv'
  <1>. DEFINE s == vec.size
  <1>1. /\ s \in Nat \ {0} /\ want \in Seq(Int) /\ Len(want) = s
        /\ vec' = [vec EXCEPT !.size = s - 1]
        /\ want' = SubSeq(want, 1, s - 1)
        /\ UNCHANGED <<element_size, aligned, copied>>
    BY DEF vecInv, VecTypeOK, vector_pop
  <1>2. want' \in Seq(Int) /\ Len(want') = s - 1 /\ \A i \in 1..(s - 1) : want'[i] = want[i]
    <2>. HIDE DEF s
    <2>. QED BY <1>1
  <1>3. /\ vec' \in [mem : Seq(Int), size : Nat, alloc : Nat]
        /\ vec'.size = s - 1 /\ vec'.mem = vec.mem /\ vec'.alloc = vec.alloc
    <2>1. vec \in [mem : Seq(Int), size : Nat, alloc : Nat] /\ s - 1 \in Nat
      BY <1>1 DEF vecInv, VecTypeOK
    <2>. HIDE DEF s
    <2>. QED BY <1>1, <2>1
  <1>4. VecTypeOK'
    BY <1>1, <1>2, <1>3 DEF vecInv, VecTypeOK
  <1>5. ASSUME Holds(vec.mem, want, s, element_size)
        PROVE  Holds(vec.mem, want', s - 1, element_size)
    <2>. SUFFICES ASSUME NEW i \in 1..(s - 1), want'[i] # 0 \/ element_size = 1,
                         NEW k \in ((i - 1) * element_size + 1)..(i * element_size)
                  PROVE  vec.mem[k] = want'[i]
      BY DEF Holds
    <2>1. i \in 1..s /\ want'[i] = want[i]
      BY <1>1, <1>2
    <2>. QED BY <1>5, <2>1 DEF Holds
  <1>6. MemInv'
    <2>1. (element_size = 1 \/ ~copied => Holds(vec.mem, want, vec.size, element_size))'
      BY <1>1, <1>3, <1>5 DEF vecInv, MemInv, Holds
    <2>2. s - 1 <= vec.alloc
      BY <1>1 DEF vecInv, VecTypeOK, MemInv
    <2>. QED BY <1>1, <1>3, <2>1, <2>2 DEF vecInv, MemInv
  <1>. QED BY <1>4, <1>6 DEF vecInv

\* A resize: the new elements are 0 if they have one byte.
LEMMA ResizeStep ==
  ASSUME vecInv, NEW n \in 1..VMax, vector_resize(n)
  PROVE  vecInv'
  <1>. USE VectorAssumption
  <1>. DEFINE s == vec.size
              e == element_size
              x == IF n >= vec.alloc THEN grown(n) ELSE vec
              m == set_bytes(x.mem, s * e, n - s, 0)
  <1>1. /\ e \in Nat \ {0} /\ s \in Nat /\ vec.alloc \in Nat /\ n \in Nat /\ s < n
        /\ want \in Seq(Int) /\ Len(want) = s /\ s <= vec.alloc
        /\ copied \in BOOLEAN /\ aligned \in BOOLEAN
        /\ element_size \in ESizes \cup {0}
    BY DEF vecInv, VecTypeOK, MemInv, vector_resize
  <1>2. /\ vec' = [x EXCEPT !.size = n, !.mem = m]
        /\ want' = [i \in 1..n |-> IF i <= s THEN want[i] ELSE 0]
        /\ copied' = (copied \/ (n >= vec.alloc /\ aligned /\ s > 0))
        /\ UNCHANGED <<element_size, aligned>>
    BY DEF vector_resize
  <1>3. /\ x \in [mem : Seq(Int), size : Nat, alloc : Nat]
        /\ x.alloc = (IF n >= vec.alloc THEN n ELSE vec.alloc)
        /\ Len(x.mem) = x.alloc * e
        /\ e = 1 \/ ~(copied \/ (n >= vec.alloc /\ aligned /\ s > 0)) =>
             Holds(x.mem, want, s, e)
    <2>1. CASE n >= vec.alloc
      BY <1>1, <2>1, GrownRight
    <2>2. CASE ~(n >= vec.alloc)
      BY <2>2 DEF vecInv, VecTypeOK, MemInv
    <2>. QED BY <2>1, <2>2
  <1>4. x.alloc \in Nat /\ n <= x.alloc
    BY <1>1, <1>3
  <1>. HIDE DEF x
  <1>5. s * e \in Nat /\ n * e <= Len(x.mem) /\ n - s \in Nat
    <2>. HIDE DEF e, s
    <2>1. n * e <= x.alloc * e /\ s * e \in Nat
      BY <1>1, <1>4, Products
    <2>. QED BY <1>1, <1>3, <2>1
  <1>6. m \in Seq(Int) /\ Len(m) = x.alloc * e
    <2>1. x.mem \in Seq(Int)
      BY <1>3
    <2>. HIDE DEF e, s
    <2>. QED BY <1>1, <1>3, <1>5, <2>1, SetBytes, SMTT(30)
  <1>7. /\ vec' \in [mem : Seq(Int), size : Nat, alloc : Nat]
        /\ vec'.size = n /\ vec'.alloc = x.alloc /\ vec'.mem = m
    <2>. HIDE DEF m
    <2>. QED BY <1>1, <1>2, <1>3, <1>6
  <1>8. want' \in Seq(Int) /\ Len(want') = n
    <2>1. want' \in [1..n -> Int]
      BY <1>1, <1>2
    <2>2. want' \in Seq(Int)
      BY <1>1, <2>1, SeqDef
    <2>. QED BY <1>1, <2>1, <2>2
  <1>9. VecTypeOK'
    BY <1>1, <1>2, <1>7, <1>8 DEF VecTypeOK
  <1>10. ASSUME e = 1 \/ ~copied' PROVE Holds(m, want', n, e)
    <2>1. Holds(x.mem, want, s, e)
      BY <1>1, <1>2, <1>3, <1>10
    <2>2. x.mem \in Seq(Int)
      BY <1>3
    <2>. HIDE DEF e, s
    <2>. QED BY <1>1, <1>2, <1>5, <2>1, <2>2, HoldsResize
  <1>11. MemInv'
    <2>1. Len(vec'.mem) = vec'.alloc * e /\ vec'.size <= vec'.alloc
      BY <1>4, <1>6, <1>7
    <2>. HIDE DEF m
    <2>2. (element_size = 1 \/ ~copied => Holds(vec.mem, want, vec.size, element_size))'
      BY <1>2, <1>7, <1>10 DEF Holds
    <2>. QED BY <1>1, <1>2, <2>1, <2>2 DEF MemInv
  <1>. QED BY <1>9, <1>11 DEF vecInv

\* Every operation keeps the invariant.
LEMMA vecNextInv == vecInv /\ [vectorNext]_vectorVars => vecInv'
  <1>. SUFFICES ASSUME vecInv, [vectorNext]_vectorVars PROVE vecInv'
    OBVIOUS
  <1>1. ASSUME NEW e \in ESizes, NEW a \in BOOLEAN, vector_init(e, a) PROVE vecInv'
    <2>1. /\ element_size = 0 /\ element_size' = e /\ aligned' = a
          /\ UNCHANGED <<vec, want, copied>> /\ e \in Nat
      BY <1>1, VectorAssumption DEF vector_init
    <2>2. vec.alloc = 0 /\ vec.size = 0 /\ Len(vec.mem) = 0
      BY <2>1 DEF vecInv, VecTypeOK, MemInv
    <2>. QED BY <2>1, <2>2 DEF vecInv, VecTypeOK, MemInv, Holds
  <1>2. CASE UNCHANGED vectorVars
    BY <1>2 DEF vectorVars, vecInv, VecTypeOK, MemInv, Holds
  <1>. QED BY <1>1, <1>2, PushStep, PopStep, ResizeStep DEF vectorNext

\* A vector stays inside its memory and holds what was pushed into it, for
\* elements and growth of any size; an aligned vector with elements of several
\* bytes until it first outgrows memory in use.
THEOREM VectorAlwaysRight == vectorSpec => []VectorRight
  <1>1. vectorInit => vecInv
    <2>. SUFFICES ASSUME vectorInit PROVE vecInv
      OBVIOUS
    <2>1. /\ vec.mem = << >> /\ vec.size = 0 /\ vec.alloc = 0 /\ want = << >>
          /\ vec \in [mem : Seq(Int), size : Nat, alloc : Nat]
      BY DEF vectorInit
    <2>2. VecTypeOK
      BY <2>1 DEF vectorInit, VecTypeOK
    <2>3. MemInv
      BY <2>1 DEF vectorInit, MemInv, Holds
    <2>. QED BY <2>2, <2>3 DEF vecInv
  <1>2. vecInv => VectorRight
    <2>. SUFFICES ASSUME vecInv PROVE VectorRight
      OBVIOUS
    <2>1. ASSUME element_size = 1 \/ ~copied, NEW i \in 1..vec.size,
                 want[i] # 0 \/ element_size = 1
          PROVE  element_at(i) = {want[i]}
      <3>1. element_size \in Nat \ {0} /\ vec.size \in Nat
        BY VectorAssumption DEF vecInv, VecTypeOK, MemInv
      <3>2. /\ (i - 1) * element_size \in Nat
            /\ i * element_size = (i - 1) * element_size + element_size
        BY <3>1, ByteBounds
      <3>3. \A k \in ((i - 1) * element_size + 1)..(i * element_size) :
              vec.mem[k] = want[i]
        BY <2>1 DEF vecInv, MemInv, Holds
      <3>4. (i - 1) * element_size + 1
              \in ((i - 1) * element_size + 1)..(i * element_size)
        <4>. DEFINE b == (i - 1) * element_size
        <4>1. b \in Nat /\ i * element_size = b + element_size
          BY <3>2
        <4>. HIDE DEF b
        <4>2. b + 1 \in (b + 1)..(b + element_size)
          BY <3>1, <4>1
        <4>. QED BY <4>1, <4>2 DEF b
      <3>. QED BY <3>3, <3>4 DEF element_at
    <2>. QED BY <2>1 DEF VectorRight, vecInv, MemInv
  <1>. QED BY <1>1, <1>2, vecNextInv, PTL DEF vectorSpec

-----------------------------------------------------------------------------
(* The monitor's buffer: its fetch is right for every capacity and any     *)
(* number of events.                                                       *)

USE MonitorAssumption

\* From the monitor's look for an event, if it found none, until it answers, the
\* buffer holds only events that were written since.
SinceLook ==
  rpc \in {"check", "ended"} => \A i \in DOMAIN buffer : buffer[i] >= looked

\* An arbiter that has finished writes no more, and one with a slot in hand has
\* space for its event: only the monitor, which removes, runs in between.
WriterInv ==
  /\ finished => wpc = "run"
  /\ wpc = "write" => next_ev <= MaxEv /\ Len(buffer) < Cap
  /\ rpc = "ended" => finished

monitorInv == monitorTypeOK /\ SinceLook /\ WriterInv

\* What is left of a sequence without its first k elements.
LEMMA WithoutFront ==
  ASSUME NEW S, NEW s \in Seq(S), NEW k \in 1..Len(s)
  PROVE  LET r == SubSeq(s, k + 1, Len(s))
         IN  /\ r \in Seq(S) /\ Len(r) = Len(s) - k /\ DOMAIN r = 1..(Len(s) - k)
             /\ \A j \in 1..(Len(s) - k) : k + j \in DOMAIN s /\ r[j] = s[k + j]
<1> DEFINE r == SubSeq(s, k + 1, Len(s))
<1>1. Len(s) \in Nat /\ DOMAIN s = 1..Len(s) /\ k + 1 \in Int /\ Len(s) \in Int
  BY LenProperties
<1>2. \A i \in (k + 1)..Len(s) : s[i] \in S
  BY <1>1, ElementOfSeq
<1>3. /\ r \in Seq(S)
      /\ Len(r) = IF k + 1 <= Len(s) THEN Len(s) - (k + 1) + 1 ELSE 0
      /\ \A i \in 1..(Len(s) - (k + 1) + 1) : r[i] = s[(k + 1) + i - 1]
  BY <1>1, <1>2, SubSeqProperties
<1> HIDE DEF r
<1>4. Len(r) = Len(s) - k
  <2>1. Len(r) = IF k + 1 <= Len(s) THEN Len(s) - (k + 1) + 1 ELSE 0
    BY <1>3
  <2>2. Len(s) \in Nat
    BY <1>1
  <2> QED BY <2>1, <2>2
<1>5. DOMAIN r = 1..(Len(s) - k)
  BY <1>3, <1>4, LenProperties
<1>6. ASSUME NEW j \in 1..(Len(s) - k) PROVE k + j \in DOMAIN s /\ r[j] = s[k + j]
  <2>1. j \in 1..(Len(s) - (k + 1) + 1) /\ (k + 1) + j - 1 = k + j /\ k + j \in DOMAIN s
    BY <1>1, <1>6
  <2> QED BY <1>3, <2>1
<1> QED BY <1>3, <1>4, <1>5, <1>6 DEF r

\* The invariant holds initially.
LEMMA InitMonitorInv == monitorInit => monitorInv
<1> SUFFICES ASSUME monitorInit PROVE monitorInv
  OBVIOUS
<1>1. buffer \in Seq(1..MaxEv) /\ Len(buffer) = 0 /\ DOMAIN buffer = {}
  BY EmptySeq, LenProperties DEF monitorInit
<1>2. next_ev \in 1..(MaxEv + 1) /\ looked \in 1..next_ev /\ 0 <= Cap
  BY DEF monitorInit
<1>3. monitorTypeOK
  BY <1>1, <1>2 DEF monitorInit, monitorTypeOK
<1> QED BY <1>3 DEF monitorInit, monitorInv, SinceLook, WriterInv

\* Every step keeps it.
LEMMA StepMonitorInv == monitorInv /\ [monitorNext]_monitorVars => monitorInv'
<1> SUFFICES ASSUME monitorInv, [monitorNext]_monitorVars PROVE monitorInv'
  OBVIOUS
<1>0. /\ buffer \in Seq(1..MaxEv) /\ Len(buffer) \in Nat
      /\ DOMAIN buffer = 1..Len(buffer) /\ next_ev \in 1..(MaxEv + 1)
      /\ looked \in 1..next_ev /\ Len(buffer) <= Cap
      /\ buffer = << >> => DOMAIN buffer = {}
  BY LenProperties, EmptySeq DEF monitorInv, monitorTypeOK
<1>1. CASE write_ptr
  BY <1>0, <1>1 DEF write_ptr, monitorInv, monitorTypeOK, SinceLook, WriterInv
<1>2. CASE monitor_buffer_write_finish
  <2>1. /\ buffer' = Append(buffer, next_ev) /\ next_ev' = next_ev + 1 /\ wpc' = "run"
        /\ UNCHANGED <<finished, rpc, looked>>
        /\ next_ev \in 1..MaxEv /\ Len(buffer) < Cap /\ ~finished
    BY <1>0, <1>2 DEF monitor_buffer_write_finish, monitorInv, WriterInv
  <2>2. /\ buffer' \in Seq(1..MaxEv) /\ Len(buffer') = Len(buffer) + 1
        /\ DOMAIN buffer' = 1..(Len(buffer) + 1)
        /\ \A i \in 1..Len(buffer) : buffer'[i] = buffer[i]
        /\ buffer'[Len(buffer) + 1] = next_ev
    BY <1>0, <2>1, AppendProperties, LenProperties
  <2>3. ASSUME NEW i \in DOMAIN buffer'
        PROVE  buffer'[i] = next_ev' - Len(buffer') + i - 1
    <3>1. CASE i \in DOMAIN buffer
      BY <1>0, <2>1, <2>2, <3>1 DEF monitorInv, monitorTypeOK
    <3>2. CASE i = Len(buffer) + 1
      BY <1>0, <2>1, <2>2, <3>2
    <3> QED BY <1>0, <2>2, <3>1, <3>2
  <2>4. monitorTypeOK'
    BY <1>0, <2>1, <2>2, <2>3 DEF monitorInv, monitorTypeOK
  <2>5. SinceLook'
    <3> SUFFICES ASSUME rpc \in {"check", "ended"}, NEW i \in DOMAIN buffer'
                 PROVE  buffer'[i] >= looked
      BY <2>1 DEF SinceLook
    <3>1. CASE i \in DOMAIN buffer
      BY <1>0, <2>2, <3>1 DEF monitorInv, SinceLook
    <3>2. CASE i = Len(buffer) + 1
      BY <1>0, <2>2, <3>2
    <3> QED BY <1>0, <2>2, <3>1, <3>2
  <2> QED BY <2>1, <2>4, <2>5 DEF monitorInv, WriterInv
<1>3. CASE set_finished
  BY <1>3 DEF set_finished, monitorInv, monitorTypeOK, SinceLook, WriterInv
<1>4. CASE fetch_top
  <2>1. UNCHANGED <<buffer, next_ev, wpc, finished>> /\ looked' = next_ev
        /\ rpc' = IF buffer # << >> THEN "have" ELSE "check"
    BY <1>4 DEF fetch_top
  <2>2. SinceLook'
    BY <1>0, <2>1 DEF SinceLook
  <2> QED BY <1>0, <2>1, <2>2 DEF monitorInv, monitorTypeOK, WriterInv
<1>5. CASE fetch_finished
  BY <1>5 DEF fetch_finished, monitorInv, monitorTypeOK, SinceLook, WriterInv
<1>6. ASSUME NEW k \in 1..Cap, monitor_buffer_consume(k) PROVE monitorInv'
  <2>0. k \in 1..Len(buffer) /\ buffer' = SubSeq(buffer, k + 1, Len(buffer))
    BY <1>6 DEF monitor_buffer_consume
  <2>1. /\ rpc = "have" /\ k \in 1..Len(buffer) /\ rpc' = "top"
        /\ UNCHANGED <<next_ev, wpc, finished, looked>>
    BY <1>6, SMTT(30) DEF monitor_buffer_consume
  <2>2. /\ buffer' \in Seq(1..MaxEv) /\ Len(buffer') = Len(buffer) - k
        /\ DOMAIN buffer' = 1..(Len(buffer) - k)
    BY <1>0, <2>0, WithoutFront
  <2>3. \A j \in 1..(Len(buffer) - k) :
          k + j \in DOMAIN buffer /\ buffer'[j] = buffer[k + j]
    BY <1>0, <2>0, WithoutFront
  <2>4. ASSUME NEW i \in DOMAIN buffer'
        PROVE  buffer'[i] = next_ev' - Len(buffer') + i - 1
    <3>1. buffer'[i] = buffer[k + i] /\ k + i \in DOMAIN buffer
      BY <2>2, <2>3
    <3>2. buffer[k + i] = next_ev - Len(buffer) + (k + i) - 1
      BY <3>1 DEF monitorInv, monitorTypeOK
    <3>3. /\ Len(buffer) \in Nat /\ next_ev \in Int /\ k \in Int /\ i \in Int
          /\ next_ev' = next_ev /\ Len(buffer') = Len(buffer) - k
      BY <1>0, <2>1, <2>2
    <3>4. next_ev - Len(buffer) + (k + i) - 1 = next_ev' - Len(buffer') + i - 1
      BY <3>3
    <3> QED BY <3>1, <3>2, <3>4
  <2>5. Len(buffer') <= Cap /\ (Len(buffer) < Cap => Len(buffer') < Cap)
    <3>1. /\ Len(buffer) \in Nat /\ Len(buffer) <= Cap /\ k \in Nat
          /\ Len(buffer') = Len(buffer) - k
      BY <1>0, <2>1, <2>2
    <3> QED BY <3>1
  <2>6. monitorTypeOK'
    BY <2>1, <2>2, <2>4, <2>5 DEF monitorInv, monitorTypeOK
  <2>7. WriterInv'
    BY <2>1, <2>5 DEF monitorInv, WriterInv
  <2> QED BY <2>1, <2>6, <2>7 DEF monitorInv, SinceLook
<1>7. CASE UNCHANGED monitorVars
  BY <1>7 DEF monitorVars, monitorInv, monitorTypeOK, SinceLook, WriterInv
<1> QED BY <1>1, <1>2, <1>3, <1>4, <1>5, <1>6, <1>7 DEF monitorNext, MonitorWriter, Monitor, Stopped

\* Type correctness: the monitor buffer holds consecutive events and never more
\* than fit, although the arbiter checks for space and writes in two steps.
THEOREM MonitorTypeCorrect == monitorSpec => []monitorTypeOK
<1>1. monitorInv => monitorTypeOK
  BY DEF monitorInv
<1> QED BY InitMonitorInv, StepMonitorInv, <1>1, PTL DEF monitorSpec

\* fetch_arbiter_stream returns NULL only when the arbiter has finished, and the
\* events that are then unread were all written after its last look for an event.
THEOREM UnreadAlwaysNew == monitorSpec => []UnreadIsNew
<1>1. monitorInv => UnreadIsNew
  BY DEF monitorInv, SinceLook, WriterInv, UnreadIsNew
<1> QED BY InitMonitorInv, StepMonitorInv, <1>1, PTL DEF monitorSpec

=============================================================================
