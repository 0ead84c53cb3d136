------------------------- MODULE SpscRingbufProofs -------------------------
(***************************************************************************)
(* Theorems about SpscRingbuf, for every capacity and every set of data.   *)
(*                                                                         *)
(* The inductive invariant is TypeOK, CachesLag and FilledInv.             *)
(***************************************************************************)
EXTENDS SpscRingbuf, SequenceTheorems, TLAPS

\* The postconditions asserted in get_written_num and get_free_num
\* (spsc_ringbuf.c) hold of every pair of offsets.
LEMMA CountingPost ==
  ASSUME NEW h \in Offsets, NEW t \in Offsets
  PROVE  /\ get_written_num(h, t) \in Offsets
         /\ get_free_num(h, t) \in Offsets
         /\ is_empty(h, t) <=> get_written_num(h, t) = 0
         /\ is_full(h, t) <=> get_written_num(h, t) = Capacity - 1
         /\ get_written_num(h, t) = Capacity - 1 - get_free_num(h, t)
  BY CapacityAssumption
  DEF Offsets, get_written_num, get_free_num, is_empty, is_full

\* What get_write_off reports free is what get_free_num counts.
LEMMA WriteOffPost ==
  ASSUME NEW h \in Offsets, NEW t \in Offsets
  PROVE  LET off == get_write_off(h, t)
         IN  /\ off.n \in Nat /\ off.wrap_n \in Nat
             /\ off.n + off.wrap_n = off.ret
             /\ off.ret = get_free_num(h, t)
  BY CapacityAssumption DEF Offsets, get_write_off, get_free_num

\* Positions st, x, t, h in this order around the ring: moving the first one
\* forward keeps the order of the others.
LEMMA BetweenTrans ==
  ASSUME NEW st \in Offsets, NEW x \in Offsets, NEW t \in Offsets,
         NEW h \in Offsets,
         get_written_num(x, st) <= get_written_num(t, st),
         get_written_num(t, st) <= get_written_num(h, st)
  PROVE  get_written_num(t, x) <= get_written_num(h, x)
  BY CapacityAssumption DEF Offsets, get_written_num

\* A tail that lags behind never overestimates the free space.
LEMMA FreeLag ==
  ASSUME NEW st \in Offsets, NEW t \in Offsets, NEW h \in Offsets,
         get_written_num(t, st) <= get_written_num(h, st)
  PROVE  get_free_num(h, st) <= get_free_num(h, t)
  BY CapacityAssumption DEF Offsets, get_written_num, get_free_num

\* Moving an offset forward by up to a whole array stays inside the array.
LEMMA RotateType ==
  ASSUME NEW t \in Offsets, NEW i \in 0..Capacity
  PROVE  Rotate(t + i) \in Offsets
  BY CapacityAssumption DEF Offsets, Rotate

\* Different distances from t are different slots.
LEMMA RotateInj ==
  ASSUME NEW t \in Offsets, NEW i \in Offsets, NEW j \in Offsets,
         Rotate(t + i) = Rotate(t + j)
  PROVE  i = j
  BY CapacityAssumption DEF Offsets, Rotate

\* Moving from t first by n and then by i.
LEMMA RotateAdd ==
  ASSUME NEW t \in Offsets, NEW n \in Offsets, NEW i \in Offsets,
         n + i < Capacity
  PROVE  Rotate(Rotate(t + n) + i) = Rotate(t + (n + i))
  BY CapacityAssumption DEF Offsets, Rotate

\* h is get_written_num(h, t) slots after t.
LEMMA RotateWritten ==
  ASSUME NEW t \in Offsets, NEW h \in Offsets
  PROVE  Rotate(t + get_written_num(h, t)) = h
  BY CapacityAssumption DEF Offsets, Rotate, get_written_num

\* Publishing n elements that fit adds n to the written ones.
LEMMA AdvanceHead ==
  ASSUME NEW h \in Offsets, NEW t \in Offsets, NEW n \in 0..get_free_num(h, t)
  PROVE  /\ Rotate(h + n) \in Offsets
         /\ get_written_num(Rotate(h + n), t) = get_written_num(h, t) + n
         /\ get_free_num(Rotate(h + n), t) = get_free_num(h, t) - n
  BY CapacityAssumption DEF Offsets, Rotate, get_written_num, get_free_num

\* Consuming n elements that are there takes n from the written ones.
LEMMA AdvanceTail ==
  ASSUME NEW h \in Offsets, NEW t \in Offsets,
         NEW n \in 0..get_written_num(h, t)
  PROVE  /\ Rotate(t + n) \in Offsets
         /\ get_written_num(h, Rotate(t + n)) = get_written_num(h, t) - n
         /\ get_free_num(h, Rotate(t + n)) = get_free_num(h, t) + n
  BY CapacityAssumption DEF Offsets, Rotate, get_written_num, get_free_num

\* A tail that moves no further than the head stays behind it for an observer
\* that still sees an old tail.
LEMMA AdvanceTailLag ==
  ASSUME NEW h \in Offsets, NEW t \in Offsets, NEW st \in Offsets,
         get_written_num(t, st) <= get_written_num(h, st),
         NEW n \in 0..get_written_num(h, t)
  PROVE  get_written_num(Rotate(t + n), st) <= get_written_num(h, st)
  BY CapacityAssumption DEF Offsets, Rotate, get_written_num

\* A head loaded by a reader that has last seen sh lies between tail and head.
LEMMA SeenHeadBetween ==
  ASSUME NEW t \in Offsets, NEW h \in Offsets,
         NEW sh \in Between(t, h), NEW x \in Between(sh, h)
  PROVE  x \in Between(t, h)
  BY CapacityAssumption DEF Offsets, Between, get_written_num

IInv == TypeOK /\ CachesLag /\ FilledInv

\* vms_spsc_ringbuf_init establishes the inductive invariant.
LEMMA InitIInv == Init => IInv
  BY CapacityAssumption
  DEF Init, IInv, TypeOK, CachesLag, FilledInv, Offsets, Between, size,
      get_written_num, get_free_num, Rotate

\* Asking for space keeps the invariant, whichever tail the load returned and
\* whichever part of the free space is granted.
LEMMA GrantIInv ==
  ASSUME IInv,
         seen_tail' \in Between(seen_tail, tail),
         wgrant' \in 0..get_free_num(head, seen_tail'),
         wfill' = 0,
         UNCHANGED <<head, tail, seen_head, slots>>
  PROVE  IInv'
<1>1. /\ head \in Offsets /\ tail \in Offsets /\ seen_tail' \in Offsets
      /\ get_free_num(head, seen_tail') \in Offsets
      /\ size \in Offsets
  BY CountingPost DEF IInv, TypeOK, Between, size
<1>2. get_written_num(tail, seen_tail') <= get_written_num(head, seen_tail')
  BY <1>1, BetweenTrans DEF IInv, TypeOK, CachesLag, Between
<1>3. get_free_num(head, seen_tail') <= get_free_num(head, tail)
  BY <1>1, <1>2, FreeLag
<1>4. TypeOK'
  BY <1>1, CapacityAssumption DEF IInv, TypeOK, Offsets
<1>5. CachesLag'
  <2>1. wgrant' <= get_free_num(head, tail)
    BY <1>1, <1>3, CountingPost, CapacityAssumption DEF Offsets
  <2>2. seen_head \in Between(tail, head)
    BY DEF IInv, CachesLag
  <2> QED BY <1>1, <1>2, <2>1, <2>2, CapacityAssumption
    DEF CachesLag, Offsets, Between
<1>6. FilledInv'
  BY <1>1, CapacityAssumption DEF IInv, TypeOK, FilledInv, size, Offsets
<1> QED BY <1>4, <1>5, <1>6 DEF IInv

\* Copying an element changes a slot between head and tail only.
LEMMA WriteElemIInv ==
  ASSUME IInv, NEW d \in Data, WriteElem(d)
  PROVE  IInv'
<1>1. /\ head \in Offsets /\ tail \in Offsets
      /\ size \in Offsets /\ get_free_num(head, tail) \in Offsets
      /\ size = Capacity - 1 - get_free_num(head, tail)
      /\ wfill \in Offsets /\ wgrant \in Offsets /\ wfill < wgrant
      /\ wgrant <= get_free_num(head, tail)
      /\ slots \in [Offsets -> Data \cup {NoData}]
      /\ wfill' = wfill + 1
      /\ UNCHANGED <<head, tail, seen_head, seen_tail, wgrant>>
  BY CountingPost, CapacityAssumption
  DEF IInv, TypeOK, CachesLag, WriteElem, size, Offsets
<1>2. Rotate(head + wfill) = Rotate(tail + (size + wfill))
  <2>1. head = Rotate(tail + size)
    BY <1>1, RotateWritten DEF size
  <2>2. size + wfill < Capacity
    BY <1>1, CapacityAssumption DEF Offsets
  <2>3. Rotate(Rotate(tail + size) + wfill) = Rotate(tail + (size + wfill))
    BY <1>1, <2>2, RotateAdd
  <2> QED BY <2>1, <2>3
<1>3. Rotate(head + wfill) \in Offsets
  BY <1>1, RotateType, CapacityAssumption DEF Offsets
<1>4. /\ slots' = [slots EXCEPT ![Rotate(head + wfill)] = d]
      /\ slots' \in [Offsets -> Data \cup {NoData}]
  BY <1>1, <1>3 DEF WriteElem
<1>5. TypeOK'
  BY <1>1, <1>4, CapacityAssumption DEF IInv, TypeOK, Offsets
<1>6. CachesLag'
  BY <1>1 DEF IInv, CachesLag, Between
<1>7. FilledInv'
  <2> SUFFICES ASSUME NEW i \in Offsets, i < size + (wfill + 1)
               PROVE  slots'[Rotate(tail + i)] \in Data
    BY <1>1 DEF FilledInv, size, Offsets
  <2>1. CASE i = size + wfill
    BY <1>2, <1>3, <1>4, <2>1, <1>1
  <2>2. CASE i # size + wfill
    <3>1. i < size + wfill /\ size + wfill \in Offsets
      BY <2>2, <1>1, CapacityAssumption, SMTT(30) DEF Offsets
    <3>2. slots[Rotate(tail + i)] \in Data
      BY <3>1 DEF IInv, FilledInv, Offsets
    <3>3. Rotate(tail + i) # Rotate(tail + (size + wfill))
      BY <3>1, <1>1, RotateInj, <2>2
    <3>4. Rotate(tail + i) \in Offsets
      BY <1>1, RotateType, CapacityAssumption DEF Offsets
    <3> QED BY <3>2, <3>3, <3>4, <1>2, <1>4, <1>1
  <2> QED BY <2>1, <2>2
<1> QED BY <1>5, <1>6, <1>7 DEF IInv

\* Publishing moves head over slots that were copied.
LEMMA WriteFinishIInv ==
  ASSUME IInv, NEW n \in 1..Capacity, write_finish(n)
  PROVE  IInv' /\ size' = size + n
<1>1. /\ head \in Offsets /\ tail \in Offsets /\ seen_tail \in Offsets
      /\ size \in Offsets
      /\ wfill \in Offsets /\ wgrant \in Offsets /\ n <= wfill /\ wfill <= wgrant
      /\ n \in 0..get_free_num(head, tail)
      /\ n \in 0..get_free_num(head, seen_tail)
      /\ wfill' = 0 /\ wgrant' = 0 /\ head' = Rotate(head + n)
      /\ UNCHANGED <<tail, seen_head, seen_tail, slots>>
  <2>1. n \in 1..wfill
    BY DEF write_finish
  <2>2. /\ get_free_num(head, tail) \in Offsets
        /\ get_free_num(head, seen_tail) \in Offsets
        /\ size \in Offsets
    BY CountingPost DEF IInv, TypeOK, size
  <2> QED BY <2>1, <2>2, CapacityAssumption
    DEF IInv, TypeOK, CachesLag, write_finish, Offsets
<1>2. /\ head' \in Offsets /\ size' = size + n
      /\ get_written_num(head', seen_tail) = get_written_num(head, seen_tail) + n
      /\ get_free_num(head', tail) \in Offsets
      /\ get_free_num(head', seen_tail) \in Offsets
  BY <1>1, AdvanceHead, CountingPost DEF size
<1>3. TypeOK'
  BY <1>1, <1>2, CapacityAssumption DEF IInv, TypeOK, Offsets
<1>4. CachesLag'
  <2>1. /\ get_written_num(seen_head, tail) \in Offsets
        /\ get_written_num(tail, seen_tail) \in Offsets
        /\ get_written_num(head, seen_tail) \in Offsets
        /\ seen_head \in Offsets
    BY CountingPost DEF IInv, TypeOK
  <2>2. seen_head \in Between(tail, head')
    BY <2>1, <1>1, <1>2, CapacityAssumption DEF IInv, CachesLag, Between, size, Offsets
  <2>3. get_written_num(tail, seen_tail) <= get_written_num(head', seen_tail)
    BY <2>1, <1>1, <1>2, CapacityAssumption DEF IInv, CachesLag, Offsets
  <2> QED BY <2>2, <2>3, <1>1, <1>2 DEF CachesLag, Offsets
<1>5. FilledInv'
  BY <1>1, <1>2, CapacityAssumption DEF IInv, FilledInv, Offsets
<1> QED BY <1>2, <1>3, <1>4, <1>5 DEF IInv

\* What every operation of the reader does to the shared state.
ReaderStep ==
  /\ seen_head' \in Between(tail, head)
  /\ \E m \in 0..get_written_num(seen_head', tail) : tail' = Rotate(tail + m)
  /\ UNCHANGED <<head, seen_tail, slots, wgrant, wfill>>

\* Every operation of the reader has the shape of ReaderStep: it refreshes the
\* cached head or not, and consumes some of the elements then known.
LEMMA ReaderIsReaderStep ==
  ASSUME IInv, Reader
  PROVE  ReaderStep
<1>1. /\ head \in Offsets /\ tail \in Offsets /\ seen_head \in Between(tail, head)
      /\ seen_head \in Offsets
  BY DEF IInv, TypeOK, CachesLag
<1>2. tail = Rotate(tail + 0)
  BY <1>1, CapacityAssumption DEF Rotate, Offsets
<1>3. \A x \in Offsets : 0 \in 0..get_written_num(x, tail)
  BY <1>1, CountingPost DEF Offsets
<1>4. \A x \in Between(seen_head, head) : x \in Between(tail, head)
  BY <1>1, SeenHeadBetween
<1>5. ASSUME NEW reload \in BOOLEAN, NEW h \in Offsets,
             h \in Between(seen_head, head),
             seen_head' = IF reload THEN h ELSE seen_head,
             UNCHANGED <<head, tail, seen_tail, slots, wgrant, wfill>>
      PROVE  ReaderStep
  <2>1. seen_head' \in Between(tail, head) /\ seen_head' \in Offsets
    BY <1>5, <1>1, <1>4
  <2> QED BY <2>1, <1>2, <1>3, <1>5 DEF ReaderStep
<1>6. CASE \E h \in Offsets : read_off_nowrap(h)
  BY <1>5, <1>6 DEF read_off_nowrap, Look
<1>7. CASE \E n \in 0..Capacity, h \in Offsets : read_acquire(n, h)
  BY <1>5, <1>7 DEF read_acquire, Look
<1>8. CASE \E n \in 0..Capacity, h \in Offsets : peek(n, h)
  BY <1>5, <1>8 DEF peek, Look
<1>9. CASE \E n \in 1..Capacity : consume(n)
  <2>1. PICK n \in 1..Capacity : consume(n)
    BY <1>9
  <2>2. n \in 0..get_written_num(seen_head, tail)
    BY <2>1, <1>1, CountingPost DEF consume, Seen, Offsets
  <2> QED BY <2>1, <2>2, <1>1 DEF consume, ReaderStep
<1>10. CASE \E n \in 0..Capacity, h \in Offsets : consume_upto(n, h)
  <2>1. PICK n \in 0..Capacity, h \in Offsets : consume_upto(n, h)
    BY <1>10
  <2>2. seen_head' \in Between(tail, head) /\ seen_head' \in Offsets
    BY <2>1, <1>1, <1>4 DEF consume_upto
  <2>3. get_written_num(seen_head', tail) \in Offsets
    BY <2>2, <1>1, CountingPost
  <2>4. PICK m \in 0..get_written_num(seen_head', tail) :
          tail' = IF m > 0 THEN Rotate(tail + m) ELSE tail
    BY <2>1, <2>3, CapacityAssumption DEF consume_upto, Offsets
  <2>5. tail' = Rotate(tail + m)
    BY <2>4, <2>3, <1>2 DEF Offsets
  <2> QED BY <2>1, <2>2, <2>4, <2>5 DEF consume_upto, ReaderStep
<1> QED BY <1>6, <1>7, <1>8, <1>9, <1>10 DEF Reader

\* Looking and consuming keep the invariant.
LEMMA ReaderStepIInv ==
  ASSUME IInv, ReaderStep
  PROVE  IInv'
<1>1. PICK m \in 0..get_written_num(seen_head', tail) : tail' = Rotate(tail + m)
  BY DEF ReaderStep
<1>2. /\ head \in Offsets /\ tail \in Offsets /\ seen_tail \in Offsets
      /\ seen_head' \in Offsets
      /\ wgrant \in Offsets /\ wfill \in 0..wgrant
      /\ UNCHANGED <<head, seen_tail, slots, wgrant, wfill>>
  BY DEF IInv, TypeOK, ReaderStep, Between, Offsets
<1>3. /\ size \in Offsets /\ get_written_num(seen_head', tail) \in Offsets
      /\ get_free_num(head, tail) \in Offsets
      /\ get_written_num(seen_head', tail) <= size
  BY <1>2, CountingPost DEF ReaderStep, Between, size
<1>4. m \in 0..size
  BY <1>3 DEF Offsets
<1>5. /\ tail' \in Offsets
      /\ size' = size - m
      /\ get_free_num(head, tail') = get_free_num(head, tail) + m
      /\ get_written_num(seen_head', tail') = get_written_num(seen_head', tail) - m
  BY <1>1, <1>2, <1>4, AdvanceTail DEF size
<1>6. TypeOK'
  BY <1>2, <1>5 DEF IInv, TypeOK
<1>7. CachesLag'
  <2>1. seen_head' \in Between(tail', head)
    BY <1>2, <1>3, <1>4, <1>5 DEF Between, size, Offsets
  <2>2. get_written_num(tail', seen_tail) <= get_written_num(head, seen_tail)
    BY <1>1, <1>2, <1>4, AdvanceTailLag DEF IInv, CachesLag, size
  <2>3. wgrant <= get_free_num(head, tail')
    BY <1>2, <1>3, <1>4, <1>5 DEF IInv, CachesLag, Offsets
  <2>4. wgrant <= get_free_num(head, seen_tail)
    BY DEF IInv, CachesLag
  <2> QED BY <2>1, <2>2, <2>3, <2>4, <1>2 DEF CachesLag
<1>8. FilledInv'
  <2> SUFFICES ASSUME NEW i \in Offsets, i < size' + wfill
               PROVE  slots[Rotate(tail' + i)] \in Data
    BY <1>2 DEF FilledInv, Offsets
  <2>1. size + wfill <= Capacity - 1
    <3>1. size = Capacity - 1 - get_free_num(head, tail)
      BY <1>2, CountingPost DEF size
    <3>2. wgrant <= get_free_num(head, tail)
      BY DEF IInv, CachesLag
    <3> QED BY <3>1, <3>2, <1>2, <1>3, CapacityAssumption DEF Offsets
  <2>2. m + i \in Offsets /\ m + i < size + wfill /\ m \in Offsets
    BY <2>1, <1>2, <1>3, <1>4, <1>5, CapacityAssumption DEF Offsets
  <2>3. Rotate(tail' + i) = Rotate(tail + (m + i))
    <3>1. m + i < Capacity
      BY <2>2, CapacityAssumption DEF Offsets
    <3> QED BY <1>1, <1>2, <2>2, <3>1, RotateAdd
  <2> QED BY <2>2, <2>3 DEF IInv, FilledInv, Offsets
<1> QED BY <1>6, <1>7, <1>8 DEF IInv

\* Every way of asking for space is an instance of GrantIInv.
LEMMA GrantIsGrant ==
  ASSUME IInv, NEW reload \in BOOLEAN, NEW wrapping \in BOOLEAN,
         NEW t \in Offsets, t \in Between(seen_tail, tail),
         LET st  == IF reload THEN t ELSE seen_tail
             off == get_write_off(head, st)
         IN  /\ seen_tail' = st
             /\ wgrant' = IF wrapping THEN off.n + off.wrap_n ELSE off.n
             /\ wfill' = 0
             /\ UNCHANGED <<head, tail, seen_head, slots>>
  PROVE  IInv' /\ UNCHANGED <<head, tail, slots>>
<1>1. /\ head \in Offsets /\ tail \in Offsets /\ seen_tail \in Offsets
      /\ seen_tail' \in Offsets
  BY DEF IInv, TypeOK
<1>2. seen_tail' \in Between(seen_tail, tail)
  <2>1. get_written_num(seen_tail, seen_tail) = 0
    BY <1>1 DEF get_written_num, Offsets
  <2>2. get_written_num(tail, seen_tail) \in Offsets
    BY <1>1, CountingPost
  <2>3. seen_tail \in Between(seen_tail, tail)
    BY <1>1, <2>1, <2>2 DEF Between, Offsets
  <2> QED BY <2>3
<1>3. wgrant' \in 0..get_free_num(head, seen_tail')
  BY <1>1, WriteOffPost
<1> QED BY <1>2, <1>3, GrantIInv

\* Every operation of either side preserves the inductive invariant.
LEMMA NextIInv == IInv /\ [Next]_vars => IInv'
<1> SUFFICES ASSUME IInv, [Next]_vars PROVE IInv'
  OBVIOUS
<1>1. CASE \E t \in Offsets : write_off(t)
  BY <1>1, GrantIsGrant DEF write_off, Grant
<1>2. CASE \E t \in Offsets : write_off_nowrap(t)
  BY <1>2, GrantIsGrant DEF write_off_nowrap, Grant
<1>3. CASE \E n \in 0..Capacity, t \in Offsets : acquire(n, t)
  BY <1>3, GrantIsGrant DEF acquire, Grant
<1>4. CASE \E n \in 0..Capacity, t \in Offsets : acquire_nowrap(n, t)
  BY <1>4, GrantIsGrant DEF acquire_nowrap, Grant
<1>5. CASE \E d \in Data : WriteElem(d)
  BY <1>5, WriteElemIInv
<1>6. CASE \E n \in 1..Capacity : write_finish(n)
  BY <1>6, WriteFinishIInv
<1>7. CASE Reader
  BY <1>7, ReaderIsReaderStep, ReaderStepIInv
<1>8. CASE UNCHANGED vars
  BY <1>8 DEF vars, IInv, TypeOK, CachesLag, FilledInv, size, Between
<1> QED BY <1>1, <1>2, <1>3, <1>4, <1>5, <1>6, <1>7, <1>8 DEF Next, Writer

\* The state of the ring buffer is always well-formed: no operation of either
\* side moves an offset out of the array or grants the separator slot.
THEOREM TypeCorrect == Spec => []TypeOK
<1>1. IInv => TypeOK
  BY DEF IInv
<1> QED BY <1>1, InitIInv, NextIInv, PTL DEF Spec

\* Whatever old values their loads return, the writer never holds a grant over
\* slots with elements and the reader never believes in elements that are not
\* there.
THEOREM CachesAlwaysLag == Spec => []CachesLag
<1>1. IInv => CachesLag
  BY DEF IInv
<1> QED BY <1>1, InitIInv, NextIInv, PTL DEF Spec

-----------------------------------------------------------------------------
\* The position of the element after i others is in the array, and those of
\* the published elements are not the ones the writer copies to.
LEMMA WriterElsewhere ==
  ASSUME IInv, NEW i \in Offsets, i < size, wfill < wgrant
  PROVE  /\ Rotate(head + wfill) \in Offsets
         /\ Rotate(tail + i) \in Offsets
         /\ Rotate(tail + i) # Rotate(head + wfill)
<1>1. /\ head \in Offsets /\ tail \in Offsets
      /\ size \in Offsets /\ get_free_num(head, tail) \in Offsets
      /\ size = Capacity - 1 - get_free_num(head, tail)
      /\ wfill \in Offsets /\ wgrant \in Offsets
      /\ wgrant <= get_free_num(head, tail)
  BY CountingPost, CapacityAssumption DEF IInv, TypeOK, CachesLag, size, Offsets
<1>2. /\ size + wfill < Capacity /\ size + wfill \in Offsets
      /\ i # size + wfill /\ i \in 0..Capacity /\ wfill \in 0..Capacity
  BY <1>1, CapacityAssumption DEF Offsets
<1>3. head = Rotate(tail + size)
  BY <1>1, RotateWritten DEF size
<1>4. Rotate(head + wfill) = Rotate(tail + (size + wfill))
  BY <1>1, <1>2, <1>3, RotateAdd
<1> QED BY <1>1, <1>2, <1>4, RotateInj, RotateType

\* No single step changes a published element.
LEMMA NextKeepsLive == IInv /\ [Next]_vars => [KeepsLive]_vars
<1> SUFFICES ASSUME IInv, Next PROVE KeepsLive
  OBVIOUS
<1>1. CASE \E d \in Data : WriteElem(d)
  <2>1. PICK d \in Data : WriteElem(d)
    BY <1>1
  <2> SUFFICES ASSUME NEW x \in Between(tail, head), x # head
               PROVE  slots'[x] = slots[x]
    BY DEF KeepsLive
  <2>2. /\ x \in Offsets /\ tail \in Offsets /\ head \in Offsets
        /\ get_written_num(x, tail) \in Offsets
        /\ size \in Offsets
        /\ get_written_num(x, tail) <= size
    BY CountingPost DEF Between, size, IInv, TypeOK
  <2>3. Rotate(tail + get_written_num(x, tail)) = x
    BY <2>2, RotateWritten
  <2>4. get_written_num(x, tail) # size
    BY <2>2, <2>3, RotateWritten DEF size
  <2>5. get_written_num(x, tail) < size
    BY <2>2, <2>4 DEF Offsets
  <2>6. x # Rotate(head + wfill)
    BY <2>1, <2>2, <2>3, <2>5, WriterElsewhere DEF WriteElem
  <2> QED BY <2>1, <2>2, <2>6 DEF WriteElem, IInv, TypeOK
<1>2. CASE ~ \E d \in Data : WriteElem(d)
  <2>1. slots' = slots
    BY <1>2 DEF Next, Writer, Reader, write_off, write_off_nowrap, acquire,
       acquire_nowrap, Grant, write_finish, read_off_nowrap, read_acquire,
       peek, Look, consume, consume_upto
  <2> QED BY <2>1 DEF KeepsLive
<1> QED BY <1>1, <1>2

\* An element that the reader was handed is not touched before the reader
\* consumes it.
THEOREM LiveElementsStable == Spec => LiveStable
  BY InitIInv, NextIInv, NextKeepsLive, PTL DEF Spec, LiveStable

-----------------------------------------------------------------------------
(* The ring buffer implements the bounded queue.                           *)

\* The elements between tail and head form a sequence of data that fits.
LEMMA ContentsSeq ==
  IInv => /\ size \in Offsets
          /\ Contents \in [1..size -> Data]
          /\ Contents \in Seq(Data)
          /\ Len(Contents) = size
<1> SUFFICES ASSUME IInv
             PROVE  size \in Offsets /\ Contents \in [1..size -> Data]
  <2>1. ASSUME IInv PROVE size \in Nat
    BY <2>1, CountingPost DEF IInv, TypeOK, size, Offsets
  <2> QED BY <2>1
<1>1. size \in Offsets /\ wfill \in Nat
  BY CountingPost DEF IInv, TypeOK, size
<1>2. ASSUME NEW i \in 1..size
      PROVE  slots[Rotate(tail + (i - 1))] \in Data
  <2>1. i - 1 \in Offsets /\ i - 1 < size + wfill
    BY <1>1, CapacityAssumption DEF Offsets
  <2> QED BY <2>1 DEF IInv, FilledInv, Offsets
<1> QED BY <1>1, <1>2 DEF Contents

\* Publishing n elements is a push.
LEMMA WriteFinishPushes ==
  ASSUME IInv, NEW n \in 1..Capacity, write_finish(n)
  PROVE  Fifo!Push
<1>1. IInv' /\ size' = size + n
  BY WriteFinishIInv
<1>2. /\ size \in Offsets /\ Contents \in [1..size -> Data]
      /\ Contents \in Seq(Data) /\ Len(Contents) = size
  BY ContentsSeq
<1>3. /\ size' \in Offsets /\ Contents' \in [1..size' -> Data]
  <2>1. (IInv => size \in Offsets /\ Contents \in [1..size -> Data])'
    BY ContentsSeq, PTL
  <2> QED BY <1>1, <2>1
<1> DEFINE s == [i \in 1..n |-> Contents'[size + i]]
<1>4. s \in [1..n -> Data] /\ s \in Seq(Data) /\ Len(s) = n
  <2>1. \A i \in 1..n : size + i \in 1..size'
    BY <1>1, <1>2 DEF Offsets
  <2>2. n \in Nat
    BY CapacityAssumption
  <2> QED BY <2>1, <2>2, <1>3
<1>5. s \in Fifo!Batches(Capacity - 1 - Len(Contents))
  <2>1. n \in 1..(Capacity - 1 - size)
    BY <1>1, <1>2, <1>3, CapacityAssumption DEF Offsets
  <2> QED BY <2>1, <1>2, <1>4 DEF Fifo!Batches
<1>6. Contents' = Contents \o s
  <2>1. \A i \in 1..size : Contents'[i] = Contents[i]
    BY <1>1, <1>2, CapacityAssumption DEF write_finish, Contents, Offsets
  <2>2. /\ Contents \o s \in Seq(Data)
        /\ Len(Contents \o s) = size + n
        /\ \A i \in 1..(size + n) :
             (Contents \o s)[i] = IF i <= size THEN Contents[i] ELSE s[i - size]
    <3> HIDE DEF s
    <3> QED BY <1>2, <1>4, ConcatProperties
  <2>3. \A i \in 1..(size + n) : (Contents \o s)[i] = Contents'[i]
    <3> SUFFICES ASSUME NEW i \in 1..(size + n)
                 PROVE  (Contents \o s)[i] = Contents'[i]
      OBVIOUS
    <3>1. CASE i <= size
      BY <3>1, <2>1, <2>2, <1>2 DEF Offsets
    <3>2. CASE ~(i <= size)
      <4>1. i - size \in 1..n /\ size + (i - size) = i
        BY <3>2, <1>2 DEF Offsets
      <4> QED BY <4>1, <3>2, <2>2
    <3> QED BY <3>1, <3>2
  <2>4. Contents \o s \in [1..(size + n) -> Data]
    BY <2>2, LenProperties
  <2> HIDE DEF s
  <2>5. Contents \o s = [i \in 1..(size + n) |-> (Contents \o s)[i]]
    BY <2>4
  <2>6. Contents' = [i \in 1..(size + n) |-> Contents'[i]]
    BY <1>1, <1>3
  <2> QED BY <2>3, <2>5, <2>6
<1> QED BY <1>5, <1>6 DEF Fifo!Push

\* Consuming is a pop, and looking changes nothing.
LEMMA ReaderPops ==
  ASSUME IInv, ReaderStep
  PROVE  Fifo!Pop \/ Contents' = Contents
<1>1. PICK m \in 0..get_written_num(seen_head', tail) : tail' = Rotate(tail + m)
  BY DEF ReaderStep
<1>2. /\ size \in Offsets /\ Contents \in [1..size -> Data]
      /\ Contents \in Seq(Data) /\ Len(Contents) = size
  BY ContentsSeq
<1>3. /\ head \in Offsets /\ tail \in Offsets /\ seen_head' \in Offsets
      /\ get_written_num(seen_head', tail) <= size
      /\ get_written_num(seen_head', tail) \in Offsets
      /\ head' = head /\ slots' = slots
  BY CountingPost DEF IInv, TypeOK, ReaderStep, Between, size
<1>4. m \in 0..size /\ m \in Offsets
  BY <1>2, <1>3, CapacityAssumption DEF Offsets
<1>5. size' = size - m
  BY <1>1, <1>3, <1>4, AdvanceTail DEF size
<1>6. ASSUME NEW i \in 1..(size - m)
      PROVE  Rotate(tail' + (i - 1)) = Rotate(tail + ((i + m) - 1))
  <2>1. /\ i - 1 \in Offsets /\ m + (i - 1) < Capacity
        /\ m + (i - 1) = (i + m) - 1
    BY <1>2, <1>4, CapacityAssumption DEF Offsets
  <2> QED BY <2>1, <1>1, <1>3, <1>4, RotateAdd
<1>7. \A i \in 1..(size - m) : i + m \in 1..size
  BY <1>2, <1>4 DEF Offsets
<1>8. Contents' = [i \in 1..(size - m) |-> Contents[i + m]]
  BY <1>3, <1>5, <1>6, <1>7 DEF Contents
<1>9. CASE m = 0
  <2>1. size - m = size /\ \A i \in 1..size : i + m = i
    BY <1>2, <1>9 DEF Offsets
  <2> QED BY <2>1, <1>2, <1>8
<1>10. CASE m > 0
  <2>1. SubSeq(Contents, m + 1, Len(Contents))
          = [i \in 1..(size - m) |-> Contents[i + m]]
    BY <1>2, <1>4, <1>10 DEF Offsets
  <2>2. m \in 1..Len(Contents)
    BY <1>2, <1>4, <1>10 DEF Offsets
  <2> QED BY <2>1, <2>2, <1>8 DEF Fifo!Pop
<1> QED BY <1>4, <1>9, <1>10 DEF Offsets

\* Every step is a push, a pop or a stuttering step of the bounded queue.
LEMMA NextRefines == IInv /\ [Next]_vars => [Fifo!Next]_Contents
<1> SUFFICES ASSUME IInv, Next
             PROVE  Fifo!Next \/ Contents' = Contents
  BY DEF vars, Contents, size
<1>1. CASE \E d \in Data : WriteElem(d)
  <2>1. PICK d \in Data : WriteElem(d)
    BY <1>1
  <2>2. size \in Offsets /\ size' = size /\ tail' = tail
    BY <2>1, ContentsSeq DEF WriteElem, size
  <2>3. \A i \in 1..size :
          slots'[Rotate(tail + (i - 1))] = slots[Rotate(tail + (i - 1))]
    <3> SUFFICES ASSUME NEW i \in 1..size
                 PROVE  slots'[Rotate(tail + (i - 1))] = slots[Rotate(tail + (i - 1))]
      OBVIOUS
    <3>1. i - 1 \in Offsets /\ i - 1 < size
      BY <2>2, CapacityAssumption DEF Offsets
    <3> QED BY <2>1, <3>1, WriterElsewhere DEF WriteElem, IInv, TypeOK
  <2> QED BY <2>2, <2>3 DEF Contents
<1>2. CASE \E n \in 1..Capacity : write_finish(n)
  BY <1>2, WriteFinishPushes DEF Fifo!Next
<1>3. CASE Reader
  BY <1>3, ReaderIsReaderStep, ReaderPops DEF Fifo!Next
<1>4. CASE UNCHANGED <<head, tail, slots>>
  BY <1>4 DEF Contents, size
<1> QED BY <1>1, <1>2, <1>3, <1>4 DEF Next, Writer, write_off,
     write_off_nowrap, acquire, acquire_nowrap, Grant

\* The initial ring buffer is the empty queue.
LEMMA InitRefines == Init => Fifo!Init
<1> SUFFICES ASSUME Init PROVE Contents = << >>
  BY DEF Fifo!Init
<1>1. IInv /\ size = 0
  BY InitIInv DEF Init, size, get_written_num
<1> QED BY <1>1, ContentsSeq

\* The ring buffer is a bounded queue: what is written comes out once, in
\* order, and never more than Capacity - 1 elements are held.
THEOREM ImplementsFifo == Spec => FifoSpec
  BY InitIInv, NextIInv, InitRefines, NextRefines, PTL
  DEF Spec, FifoSpec, Fifo!Spec

-----------------------------------------------------------------------------
\* The inductive invariant implies that what peek hands out is right.
LEMMA IInvPeek == IInv => PeekExact
<1> SUFFICES ASSUME IInv, NEW n \in 1..Capacity, Seen > 0
             PROVE  LET r == peek_result(n)
                        k == r.len1 + r.len2
                    IN  /\ k = (IF Seen < n THEN Seen ELSE n)
                        /\ k <= size
                        /\ tail + r.len1 <= Capacity
                        /\ r.len2 <= tail
                        /\ \A i \in 1..k : Region(r, i) = Contents[i]
  BY DEF PeekExact
<1> DEFINE r == peek_result(n)
           k == IF Seen < n THEN Seen ELSE n
<1>1. /\ tail \in Offsets /\ seen_head \in Offsets /\ size \in Offsets
      /\ Seen \in Offsets /\ Seen <= size
  BY CountingPost DEF IInv, TypeOK, CachesLag, Between, Seen, size
<1>2. k \in Offsets /\ k <= size /\ k <= Seen /\ k > 0
  BY <1>1, CapacityAssumption DEF Offsets
<1>3. /\ r.len1 \in Nat /\ r.len2 \in Nat
      /\ r.len1 + r.len2 = k
      /\ tail + r.len1 <= Capacity
      /\ r.len2 <= tail
      /\ r.len2 > 0 => tail + r.len1 = Capacity
  BY <1>1, <1>2, CapacityAssumption
  DEF peek_result, Seen, get_written_num, Offsets
<1>4. ASSUME NEW i \in 1..k PROVE Region(r, i) = Contents[i]
  <2>1. Contents[i] = slots[Rotate(tail + (i - 1))]
    BY <1>1, <1>2 DEF Contents, Offsets
  <2> HIDE DEF r, k
  <2>2. CASE i <= r.len1
    <3>1. Rotate(tail + (i - 1)) = tail + i - 1
      BY <2>2, <1>1, <1>2, <1>3, CapacityAssumption DEF Rotate, Offsets
    <3> QED BY <2>1, <2>2, <3>1 DEF Region
  <2>3. CASE ~(i <= r.len1)
    <3>1. Rotate(tail + (i - 1)) = i - r.len1 - 1
      BY <2>3, <1>1, <1>2, <1>3, CapacityAssumption DEF Rotate, Offsets
    <3> QED BY <2>1, <2>3, <3>1 DEF Region
  <2> QED BY <2>2, <2>3
<1> QED BY <1>2, <1>3, <1>4

\* A known index leads to its element through either region.
LEMMA IInvIndex ==
  ASSUME IInv, NEW n \in 1..(Capacity + 1), NEW j \in Nat,
         j < n, j < Seen
  PROVE  /\ peek_result(n).num = Seen
         /\ at_index(peek_result(n), j) = Rotate(tail + j)
         /\ Rotate(tail + j) \in Offsets
         /\ Contents[j + 1] = slots[Rotate(tail + j)]
<1>1. /\ tail \in Offsets /\ seen_head \in Offsets /\ size \in Offsets
      /\ Seen \in Offsets /\ Seen <= size
  BY CountingPost DEF IInv, TypeOK, CachesLag, Between, Seen, size
<1>2. Rotate(tail + j) \in Offsets
  BY <1>1, CapacityAssumption DEF Rotate, Offsets
<1>3. /\ peek_result(n).num = Seen
      /\ at_index(peek_result(n), j) = Rotate(tail + j)
  BY <1>1, CapacityAssumption
  DEF peek_result, at_index, Rotate, Seen, get_written_num, Offsets
<1>4. Contents[j + 1] = slots[Rotate(tail + j)]
  <2>1. j + 1 \in 1..size /\ (j + 1) - 1 = j
    BY <1>1 DEF Offsets
  <2> QED BY <2>1 DEF Contents
<1> QED BY <1>2, <1>3, <1>4

\* The inductive invariant implies that elements are found by their index.
LEMMA IInvPeekAt == IInv => PeekAtRight
<1> SUFFICES ASSUME IInv, NEW k \in 0..Capacity
             PROVE  LET j == IF Seen <= k THEN Seen - 1 ELSE k
                        m == peek_atmost_at(k)
                    IN  /\ IF Seen <= k THEN peek_at(k) = NoSlot
                           ELSE /\ peek_at(k) \in Offsets
                                /\ slots[peek_at(k)] = Contents[k + 1]
                        /\ IF Seen = 0 THEN m.slot = NoSlot /\ m.k = 0
                           ELSE /\ m.k = j /\ m.slot \in Offsets
                                /\ slots[m.slot] = Contents[j + 1]
  BY DEF PeekAtRight
<1> DEFINE j == IF Seen <= k THEN Seen - 1 ELSE k
<1>1. Seen \in Nat /\ k \in Nat /\ k + 1 \in 1..(Capacity + 1)
  BY CountingPost, CapacityAssumption
  DEF IInv, TypeOK, CachesLag, Between, Seen, Offsets
<1>2. peek_result(k + 1).num = Seen
  BY DEF peek_result
<1>3. IF Seen <= k THEN peek_at(k) = NoSlot
      ELSE peek_at(k) \in Offsets /\ slots[peek_at(k)] = Contents[k + 1]
  <2>1. CASE Seen <= k
    BY <2>1, <1>2 DEF peek_at
  <2>2. CASE ~(Seen <= k)
    <3>1. peek_at(k) = at_index(peek_result(k + 1), k)
      BY <2>2, <1>2 DEF peek_at
    <3>2. k < k + 1 /\ k < Seen
      BY <2>2, <1>1
    <3> QED BY <3>1, <3>2, <2>2, <1>1, IInvIndex
  <2> QED BY <2>1, <2>2
<1>4. CASE Seen = 0
  BY <1>2, <1>3, <1>4 DEF peek_atmost_at
<1>5. CASE Seen # 0
  <2>1. j \in Nat /\ j < k + 1 /\ j < Seen
    BY <1>1, <1>5
  <2>2. peek_atmost_at(k) = [k |-> j, slot |-> at_index(peek_result(k + 1), j)]
    BY <1>2, <1>5 DEF peek_atmost_at
  <2> HIDE DEF j
  <2>3. /\ at_index(peek_result(k + 1), j) \in Offsets
        /\ slots[at_index(peek_result(k + 1), j)] = Contents[j + 1]
    BY <2>1, <1>1, IInvIndex
  <2>4. /\ peek_atmost_at(k).k = j
        /\ peek_atmost_at(k).slot = at_index(peek_result(k + 1), j)
    BY <2>2
  <2> QED BY <2>3, <2>4, <1>3, <1>5 DEF j
<1> QED BY <1>4, <1>5

\* The indexed looks into the queue return the element they are asked for.
THEOREM PeekAtAlwaysRight == Spec => []PeekAtRight
  BY InitIInv, NextIInv, IInvPeekAt, PTL DEF Spec

\* peek hands out the oldest elements, in order, over both of its regions.
THEOREM PeekAlwaysExact == Spec => []PeekExact
  BY InitIInv, NextIInv, IInvPeek, PTL DEF Spec

=============================================================================
