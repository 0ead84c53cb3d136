----------------------------- MODULE QueueSpsc -----------------------------
(***************************************************************************)
(* The older single-producer single-consumer queue of core/queue_spsc.c.   *)
(* Unlike the ring buffer it has no separator slot: an atomic counter      *)
(* elem_num tells full from empty, head belongs to the writer and tail to  *)
(* the reader.  write_finish moves head and then raises the counter,       *)
(* consume moves tail and then lowers it; the other side may run in        *)
(* between.                                                                *)
(*                                                                         *)
(* A relaxed load of the counter may miss changes of the other side, but   *)
(* never goes back behind a value its thread has seen, and reads the       *)
(* latest value after an atomic update of its own.                         *)
(***************************************************************************)
EXTENDS Integers, Sequences

CONSTANTS QCapacity,   \* capacity
          QData,       \* the elements
          QNone        \* the content of a slot that was never written

ASSUME QueueAssumption == QCapacity \in Nat \ {0}

VARIABLES qhead, qtail, elem_num,
          qslots,      \* the client's array
          wmax,        \* the largest counter the writer may still load
          rmin,        \* the smallest counter the reader may still load
          qwpc,        \* the writer: "idle", "granted", "filled" or "inc"
          qrdec        \* what the reader has still to subtract

queueVars == <<qhead, qtail, elem_num, qslots, wmax, rmin, qwpc, qrdec>>

QOffsets == 0..(QCapacity - 1)

queueInit ==
  /\ qhead = 0 /\ qtail = 0 /\ elem_num = 0
  /\ qslots = [i \in QOffsets |-> QNone]
  /\ wmax = 0 /\ rmin = 0 /\ qwpc = "idle" /\ qrdec = 0

-----------------------------------------------------------------------------
(* The writer.                                                             *)

\* Mutant: the queue may hold one more.
write_offset_Over(num) ==
  /\ qwpc = "idle" /\ num \in elem_num..wmax
  /\ qwpc' = IF num = QCapacity + 1 THEN "idle" ELSE "granted"
  /\ wmax' = num
  /\ UNCHANGED <<qhead, qtail, elem_num, qslots, rmin, qrdec>>

\* num is what the load of the counter returns.
write_offset(num) ==
  /\ qwpc = "idle" /\ num \in elem_num..wmax
  /\ qwpc' = IF num = QCapacity THEN "idle" ELSE "granted"
  /\ wmax' = num
  /\ UNCHANGED <<qhead, qtail, elem_num, qslots, rmin, qrdec>>

\* The client copies its element into the slot.
fill(d) ==
  /\ qwpc = "granted"
  /\ qslots' = [qslots EXCEPT ![qhead] = d]
  /\ qwpc' = "filled"
  /\ UNCHANGED <<qhead, qtail, elem_num, wmax, rmin, qrdec>>

writes_finish ==
  /\ qwpc = "filled"
  /\ qhead' = IF qhead + 1 = QCapacity THEN 0 ELSE qhead + 1
  /\ qwpc' = "inc"
  /\ UNCHANGED <<qtail, elem_num, qslots, wmax, rmin, qrdec>>

elem_num_inc ==
  /\ qwpc = "inc"
  /\ elem_num' = elem_num + 1 /\ wmax' = elem_num + 1
  /\ qwpc' = "idle"
  /\ UNCHANGED <<qhead, qtail, qslots, rmin, qrdec>>

-----------------------------------------------------------------------------
(* The reader.                                                             *)

\* peek and read_offset: the number of elements is loaded.
load_num(num) ==
  /\ qrdec = 0 /\ num \in rmin..elem_num
  /\ rmin' = num
  /\ UNCHANGED <<qhead, qtail, elem_num, qslots, wmax, qwpc, qrdec>>

\* consume(k), which takes at most num.
queue_consume(k, num) ==
  LET m == IF num < k THEN num ELSE k
  IN  /\ qrdec = 0 /\ num \in rmin..elem_num
      /\ qtail' = IF qtail + m >= QCapacity THEN qtail + m - QCapacity
                                            ELSE qtail + m
      /\ qrdec' = m /\ rmin' = num
      /\ UNCHANGED <<qhead, elem_num, qslots, wmax, qwpc>>

elem_num_dec ==
  /\ qrdec > 0
  /\ elem_num' = elem_num - qrdec /\ rmin' = elem_num - qrdec
  /\ qrdec' = 0
  /\ UNCHANGED <<qhead, qtail, qslots, wmax, qwpc>>

queueNext ==
  \/ \E num \in 0..QCapacity : write_offset(num)
  \/ \E d \in QData : fill(d)
  \/ writes_finish \/ elem_num_inc
  \/ \E num \in 0..QCapacity : load_num(num)
  \/ \E k \in 1..(QCapacity + 1), num \in 0..QCapacity : queue_consume(k, num)
  \/ elem_num_dec

queueSpec == queueInit /\ [][queueNext]_queueVars

-----------------------------------------------------------------------------
(* What the operations that only look return, for a loaded number num.     *)

\* Mutant: the second part also covers what the first one does.
queue_peek_Long(n, num) ==
  LET m == IF n > num THEN num ELSE n
  IN  IF m + qtail >= QCapacity
      THEN [len1 |-> QCapacity - qtail, len2 |-> m]
      ELSE [len1 |-> m, len2 |-> 0]

\* peek: the lengths of the parts from tail and from offset 0.
queue_peek(n, num) ==
  LET m == IF n > num THEN num ELSE n
  IN  IF m + qtail >= QCapacity
      THEN [len1 |-> QCapacity - qtail, len2 |-> m + qtail - QCapacity]
      ELSE [len1 |-> m, len2 |-> 0]

\* peek_atmost_at for num > 0: the offset of the element with index k, or of the
\* last one, and the returned number.
queue_peek_atmost_at(k, num) ==
  LET idx == IF k >= num THEN num - 1 ELSE k
      e   == idx + qtail
  IN  [offset |-> IF e >= QCapacity THEN e - QCapacity ELSE e,
       ret    |-> IF k >= num THEN num - 1 ELSE num]

-----------------------------------------------------------------------------
(* Properties.                                                             *)

\* Positions stay in the array and the counter in its bounds.
queueTypeOK ==
  /\ qhead \in QOffsets /\ qtail \in QOffsets
  /\ elem_num \in 0..QCapacity /\ wmax \in elem_num..QCapacity
  /\ rmin \in 0..elem_num /\ qrdec \in 0..elem_num
  /\ qslots \in [QOffsets -> QData \cup {QNone}]
  /\ qwpc \in {"idle", "granted", "filled", "inc"}

\* The elements a reader may still get.
QContents ==
  [i \in 1..(elem_num - qrdec) |-> qslots[(qtail + i - 1) % QCapacity]]

QFifo == INSTANCE BoundedFifo
           WITH q <- QContents, Data <- QData, MaxSize <- QCapacity

\* The counter and the positions, although changed in separate steps, make a
\* bounded queue that uses every slot: no element is overwritten before it is
\* consumed, lost or seen twice.
QueueIsFifo == QFifo!Spec

\* With every number the reader may load, the parts of peek are the oldest
\* elements in order, and peek_atmost_at points to the element asked for or, if
\* there is none, to the last one.
QueuePeekRight ==
  qrdec = 0 =>
    \A num \in rmin..elem_num :
      /\ \A n \in 0..(QCapacity + 1) :
           LET p == queue_peek(n, num)
               m == IF n > num THEN num ELSE n
           IN  /\ p.len1 + p.len2 = m /\ qtail + p.len1 <= QCapacity
               /\ \A i \in 1..m :
                    QContents[i] = qslots[IF i <= p.len1 THEN qtail + i - 1
                                          ELSE i - p.len1 - 1]
      /\ num > 0 =>
           \A k \in 0..(QCapacity + 1) :
             QContents[IF k < num THEN k + 1 ELSE num]
               = qslots[queue_peek_atmost_at(k, num).offset]

\* The comment of peek_atmost_at, "Returns the number of elements in the queue":
\* it returns the number that it loaded.
PeekAtmostCount ==
  qrdec = 0 =>
    \A num \in rmin..elem_num, k \in 0..(QCapacity + 1) :
      num > 0 => queue_peek_atmost_at(k, num).ret = num

=============================================================================
