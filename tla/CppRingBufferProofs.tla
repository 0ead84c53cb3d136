------------------------ MODULE CppRingBufferProofs ------------------------
(***************************************************************************)
(* The C++ ring buffer implements the C ring buffer, for every capacity,   *)
(* all data and any number of replaced accessors, as long as a new one     *)
(* begins with a call that loads the other side's position.                *)
(***************************************************************************)
EXTENDS CppRingBuffer, TLAPS

USE CppAssumption

-----------------------------------------------------------------------------
(* The arithmetic of the two implementations agrees.                       *)

\* __written_num and _get_written_num count the same.
LEMMA WrittenSame ==
  ASSUME NEW h \in Int, NEW t \in Int
  PROVE  written_num(h, t) = C!get_written_num(h, t)
BY DEF written_num, C!get_written_num

\* The postconditions asserted in _written_num and _free_num: the two counts add
\* up to all slots but the separator, and they tell empty and full apart.
THEOREM CountsPost ==
  ASSUME NEW h \in Offsets, NEW t \in Offsets
  PROVE  /\ written_num(h, t) \in 0..(Capacity - 1)
         /\ written_num(h, t) = Capacity - 1 - free_num(h, t)
         /\ h = t <=> written_num(h, t) = 0
         /\ is_full(h, t) <=> free_num(h, t) = 0
BY DEF Offsets, written_num, free_num, is_full

\* _write_off and get_write_off grant the same.
LEMMA SpaceSame ==
  ASSUME NEW h \in Offsets, NEW t \in Offsets
  PROVE  write_space(h, t) = C!get_write_off(h, t)
<1> h \in Int /\ t \in Int /\ Capacity \in Int /\ h >= 0 /\ t >= 0
  BY DEF Offsets
<1>1. CASE t > h
  BY <1>1 DEF write_space, C!get_write_off
<1>2. CASE t = h
  BY <1>2 DEF write_space, C!get_write_off
<1>3. CASE t < h /\ t = 0
  BY <1>3 DEF write_space, C!get_write_off
<1>4. CASE t < h /\ t # 0
  BY <1>4 DEF write_space, C!get_write_off
<1> QED BY <1>1, <1>2, <1>3, <1>4

\* The numbers of a grant, and its bound: one slot is never granted.
LEMMA SpaceType ==
  ASSUME NEW h \in Offsets, NEW t \in Offsets
  PROVE  /\ write_space(h, t).n \in 0..(Capacity - 1)
         /\ write_space(h, t).n + write_space(h, t).wrap_n \in 0..(Capacity - 1)
         /\ write_space(h, t).ret \in 0..(Capacity - 1)
<1> h \in Int /\ t \in Int /\ Capacity \in Int /\ h >= 0 /\ t >= 0
    /\ h < Capacity /\ t < Capacity
  BY DEF Offsets
<1>1. CASE t > h
  BY <1>1 DEF write_space
<1>2. CASE t = h
  BY <1>2 DEF write_space
<1>3. CASE t < h /\ t = 0
  BY <1>3 DEF write_space
<1>4. CASE t < h /\ t # 0
  BY <1>4 DEF write_space
<1> QED BY <1>1, <1>2, <1>3, <1>4

\* A stale load may return the same positions.
LEMMA BetweenSame ==
  ASSUME NEW a \in Offsets, NEW b \in Offsets
  PROVE  Between(a, b) = C!Between(a, b)
<1>1. Offsets = C!Offsets
  BY DEF Offsets, C!Offsets
<1>2. \A x \in Offsets : /\ written_num(x, a) = C!get_written_num(x, a)
                         /\ written_num(b, a) = C!get_written_num(b, a)
  BY WrittenSame DEF Offsets
<1> QED BY <1>1, <1>2 DEF Between, C!Between

-----------------------------------------------------------------------------
(* Type correctness.                                                       *)

\* What the step simulation needs to know of a state.
IInv == TypeOK /\ FreshInv

\* One slot further, wrapped, is a slot.
LEMMA RotateType ==
  ASSUME NEW x \in Offsets, NEW n \in 0..Capacity
  PROVE  Rotate(x + n) \in Offsets
BY DEF Rotate, Offsets

\* The type of the result of every way of asking for space.
LEMMA GrantType ==
  ASSUME IInv, NEW reload, NEW wrapping,
         NEW t \in Offsets, Grant(reload, wrapping, t)
  PROVE  IInv'
<1> DEFINE st == IF reload THEN t ELSE wseen
<1>1. st \in Offsets
  BY DEF IInv, TypeOK
<1>2. wgrant' \in 0..(Capacity - 1)
  BY <1>1, SpaceType DEF Grant, IInv, TypeOK
<1>3. wfill' = 0 /\ wfresh' = (wfresh /\ ~reload) /\ wseen' = st
  BY DEF Grant
<1>4. UNCHANGED <<ringVars, reader, wlast, news>>
  BY DEF Grant
<1>5. wfill' \in 0..wgrant'
  BY <1>2, <1>3
<1>6. TypeOK'
  BY <1>1, <1>2, <1>3, <1>4, <1>5 DEF IInv, TypeOK, ringVars, reader
<1>7. FreshInv'
  BY <1>3, <1>4 DEF IInv, FreshInv, reader
<1> QED BY <1>6, <1>7 DEF IInv

\* The type of the result of every way of looking for elements.
LEMMA LookType ==
  ASSUME IInv, NEW reload, NEW h \in Offsets, Look(reload, h)
  PROVE  IInv'
BY DEF Look, IInv, TypeOK, FreshInv, ringVars, writer

\* Every step keeps the type, and a fresh accessor has 0 in its cache.
LEMMA StepType == IInv /\ [Next]_vars => IInv'
<1> SUFFICES ASSUME IInv, [Next]_vars PROVE IInv'
  OBVIOUS
<1>1. CASE NewWriter
  <2>1. wgrant' = 0 /\ wfill' = 0 /\ news' \in 0..MaxNew
    BY <1>1 DEF NewWriter, IInv, TypeOK
  <2> QED BY <1>1, <2>1 DEF NewWriter, IInv, TypeOK, FreshInv, ringVars, reader, Offsets
<1>2. ASSUME NEW t \in Offsets, write_off_wrap(t) PROVE IInv'
  BY <1>2, GrantType DEF write_off_wrap
<1>3. ASSUME NEW t \in Offsets, write_off(t) PROVE IInv'
  BY <1>3, GrantType DEF write_off
<1>4. ASSUME NEW n \in 0..Capacity, NEW t \in Offsets, acquire_wrap(n, t)
      PROVE IInv'
  BY <1>4, GrantType DEF acquire_wrap
<1>5. ASSUME NEW n \in 0..Capacity, NEW t \in Offsets, acquire(n, t) PROVE IInv'
  BY <1>5, GrantType DEF acquire
<1>6. ASSUME NEW d \in Data, WriteElem(d) PROVE IInv'
  <2>1. slots' \in [Offsets -> Data \cup {NoData}]
    BY <1>6 DEF WriteElem, IInv, TypeOK
  <2>2. wfill' \in 0..wgrant'
    BY <1>6 DEF WriteElem, IInv, TypeOK
  <2> QED BY <1>6, <2>1, <2>2 DEF WriteElem, IInv, TypeOK, FreshInv, reader
<1>7. ASSUME NEW n \in 1..Capacity, write_finish(n) PROVE IInv'
  <2>1. head' \in Offsets
    BY <1>7, RotateType DEF write_finish, IInv, TypeOK
  <2>2. wgrant' \in 0..(Capacity - 1) /\ wfill' \in 0..wgrant'
    BY <1>7 DEF write_finish
  <2> QED BY <1>7, <2>1, <2>2 DEF write_finish, IInv, TypeOK, FreshInv, reader
<1>8. CASE NewReader
  <2>1. news' \in 0..MaxNew
    BY <1>8 DEF NewReader, IInv, TypeOK
  <2>2. /\ rseen' = 0 /\ rfresh' = TRUE /\ rasked' = FALSE /\ rlast' \in Offsets
        /\ 0 \in Offsets /\ UNCHANGED <<ringVars, writer>>
    BY <1>8 DEF NewReader, IInv, TypeOK, Offsets
  <2>3. TypeOK'
    BY <2>1, <2>2 DEF IInv, TypeOK, ringVars, writer
  <2>4. FreshInv'
    BY <2>2 DEF IInv, FreshInv, writer
  <2> QED BY <2>3, <2>4 DEF IInv
<1>9. ASSUME NEW h \in Offsets, read_off(h) PROVE IInv'
  BY <1>9, LookType DEF read_off
<1>10. ASSUME NEW n \in 0..Capacity, NEW h \in Offsets, read_acquire(n, h)
       PROVE IInv'
  BY <1>10, LookType DEF read_acquire
<1>11. ASSUME NEW n \in 0..Capacity, NEW h \in Offsets, peek(n, h) PROVE IInv'
  BY <1>11, LookType DEF peek
<1>12. ASSUME NEW n \in 1..Capacity, consume(n) PROVE IInv'
  <2>1. tail' \in Offsets
    BY <1>12, RotateType DEF consume, IInv, TypeOK
  <2> QED BY <1>12, <2>1 DEF consume, IInv, TypeOK, FreshInv, writer, reader
<1>13. CASE UNCHANGED vars
  BY <1>13 DEF vars, ringVars, writer, reader, IInv, TypeOK, FreshInv
<1> QED BY <1>1, <1>2, <1>3, <1>4, <1>5, <1>6, <1>7, <1>8, <1>9, <1>10, <1>11,
           <1>12, <1>13 DEF Next, Writer, Reader

\* The initial state has the type.
LEMMA InitType == Init => IInv
<1> SUFFICES ASSUME Init PROVE IInv
  OBVIOUS
<1>1. 0 \in Offsets /\ 0 \in 0..(Capacity - 1) /\ 0 \in 0..0 /\ 0 \in 0..MaxNew
  BY DEF Offsets
<1>2. slots \in [Offsets -> Data \cup {NoData}]
  BY DEF Init
<1>3. TypeOK
  BY <1>1, <1>2 DEF Init, TypeOK
<1> QED BY <1>3 DEF Init, IInv, FreshInv

\* Type correctness: the offsets of the C++ ring stay in the array and a grant
\* leaves the separator slot free.
THEOREM CppTypeCorrect == Spec => []TypeOK
<1>1. IInv => TypeOK
  BY DEF IInv
<1> QED BY InitType, StepType, <1>1, PTL DEF Spec

-----------------------------------------------------------------------------
(* The step simulation.                                                    *)

\* Asking for space: the C ring computes the same grant from the same tail.  A
\* fresh writer, which always reloads, asks the C ring for everything.
LEMMA GrantSim ==
  ASSUME IInv, NEW reload, NEW wrapping, NEW t \in Offsets,
         Grant(reload, wrapping, t), wfresh => reload
  PROVE  C!Grant(reload, wrapping, t)
<1> DEFINE st == IF reload THEN t ELSE wseen
           seen == IF wfresh THEN wlast ELSE wseen
<1>1. st \in Offsets /\ seen \in Offsets /\ head \in Offsets /\ tail \in Offsets
  BY DEF IInv, TypeOK
<1>2. write_space(head, st) = C!get_write_off(head, st)
  BY <1>1, SpaceSame
<1>3. t \in C!Between(seen, tail)
  BY <1>1, BetweenSame DEF Grant
<1>4. st = IF reload THEN t ELSE seen
  OBVIOUS
<1>5. /\ (IF wfresh THEN wlast ELSE wseen)' = st
      /\ (IF rfresh THEN rlast ELSE rseen)' = IF rfresh THEN rlast ELSE rseen
      /\ UNCHANGED <<head, tail, slots>>
      /\ wfill' = 0
  BY DEF Grant, ringVars, reader
<1>6. wgrant' = IF wrapping THEN write_space(head, st).n + write_space(head, st).wrap_n
                ELSE write_space(head, st).n
  BY DEF Grant
<1> QED BY <1>2, <1>3, <1>4, <1>5, <1>6 DEF C!Grant

\* Looking for elements: the same, and a fresh reader reloads too.
LEMMA LookSim ==
  ASSUME IInv, NEW reload, NEW h \in Offsets, Look(reload, h), rfresh => reload
  PROVE  C!Look(reload, h)
<1>1. h \in C!Between(IF rfresh THEN rlast ELSE rseen, head)
  BY BetweenSame DEF Look, IInv, TypeOK
<1>2. (IF rfresh THEN rlast ELSE rseen)'
        = IF reload THEN h ELSE IF rfresh THEN rlast ELSE rseen
  BY DEF Look
<1>3. /\ (IF wfresh THEN wlast ELSE wseen)' = IF wfresh THEN wlast ELSE wseen
      /\ UNCHANGED <<head, tail, slots, wgrant, wfill>>
  BY DEF Look, ringVars, writer
<1> QED BY <1>1, <1>2, <1>3 DEF C!Look

\* Every step of the C++ ring is a step of the C ring or changes nothing there.
LEMMA StepSim == IInv /\ ~AnyFirstCall /\ [Next]_vars => [C!Next]_C!vars
<1> SUFFICES ASSUME IInv, ~AnyFirstCall, [Next]_vars PROVE [C!Next]_C!vars
  OBVIOUS
<1> USE DEF WriterMay, ReaderMay
<1>0. Offsets = C!Offsets /\ Capacity \in 0..Capacity
  BY DEF Offsets, C!Offsets
<1>1. CASE NewWriter
  BY <1>1 DEF NewWriter, C!vars, ringVars, reader
<1>2. ASSUME NEW t \in Offsets, write_off_wrap(t) PROVE C!Next
  <2>1. C!Grant(write_space(head, wseen).ret = 0, TRUE, t)
    BY <1>2, GrantSim DEF write_off_wrap
  <2>2. C!write_off(t)
    BY <1>2, <2>1, SpaceSame DEF C!write_off, write_off_wrap, IInv, TypeOK
  <2> QED BY <1>0, <2>2 DEF C!Next, C!Writer
<1>3. ASSUME NEW t \in Offsets, write_off(t), ~wfresh PROVE C!Next
  <2>1. C!Grant(wseen = 0 \/ write_space(head, wseen).ret = 0, FALSE, t)
    BY <1>3, GrantSim DEF write_off
  <2>2. C!write_off_nowrap(t)
    BY <1>3, <2>1, SpaceSame DEF C!write_off_nowrap, IInv, TypeOK
  <2> QED BY <1>0, <2>2 DEF C!Next, C!Writer
<1>4. ASSUME NEW t \in Offsets, write_off(t), wfresh PROVE C!Next
  <2>1. wseen = 0
    BY <1>4 DEF IInv, FreshInv
  <2>2. C!Grant(TRUE, FALSE, t)
    BY <1>4, <2>1, GrantSim DEF write_off
  <2>3. C!get_write_off(head, wlast).ret < Capacity
    BY SpaceSame, SpaceType DEF IInv, TypeOK
  <2>4. C!acquire_nowrap(Capacity, t)
    BY <1>4, <2>2, <2>3 DEF C!acquire_nowrap
  <2> QED BY <1>0, <2>4 DEF C!Next, C!Writer
<1>5. ASSUME NEW n \in 0..Capacity, NEW t \in Offsets, acquire_wrap(n, t)
      PROVE C!Next
  <2>1. C!Grant(write_space(head, wseen).ret < n, TRUE, t)
    BY <1>5, GrantSim DEF acquire_wrap
  <2>2. C!acquire(n, t)
    BY <1>5, <2>1, SpaceSame DEF C!acquire, acquire_wrap, IInv, TypeOK
  <2> QED BY <1>0, <2>2 DEF C!Next, C!Writer
<1>6. ASSUME NEW n \in 0..Capacity, NEW t \in Offsets, acquire(n, t)
      PROVE C!Next
  <2>1. C!Grant(write_space(head, wseen).ret < n, FALSE, t)
    BY <1>6, GrantSim DEF acquire
  <2>2. C!acquire_nowrap(n, t)
    BY <1>6, <2>1, SpaceSame DEF C!acquire_nowrap, acquire, IInv, TypeOK
  <2> QED BY <1>0, <2>2 DEF C!Next, C!Writer
<1>7. ASSUME NEW d \in Data, WriteElem(d) PROVE C!Next
  <2>1. C!WriteElem(d)
    BY <1>7 DEF WriteElem, C!WriteElem, Rotate, C!Rotate, reader
  <2> QED BY <2>1 DEF C!Next, C!Writer
<1>8. ASSUME NEW n \in 1..Capacity, write_finish(n) PROVE C!Next
  <2>1. C!write_finish(n)
    BY <1>8 DEF write_finish, C!write_finish, Rotate, C!Rotate, reader
  <2> QED BY <2>1 DEF C!Next, C!Writer
<1>9. CASE NewReader
  BY <1>9 DEF NewReader, C!vars, ringVars, writer
<1>10. ASSUME ~rfresh PROVE Known = C!Seen
  BY <1>10, WrittenSame DEF Known, C!Seen, IInv, TypeOK, Offsets
<1>11. ASSUME NEW h \in Offsets, read_off(h) PROVE C!Next
  <2>1. C!Look(Known = 0, h)
    BY <1>11, LookSim DEF read_off
  <2>2. C!read_off_nowrap(h)
    BY <1>10, <1>11, <2>1 DEF C!read_off_nowrap, read_off
  <2> QED BY <1>0, <2>2 DEF C!Next, C!Reader
<1>12. ASSUME NEW n \in 0..Capacity, NEW h \in Offsets, read_acquire(n, h)
       PROVE C!Next
  <2>1. C!Look(Known < n, h)
    BY <1>12, LookSim DEF read_acquire
  <2>2. C!read_acquire(n, h)
    BY <1>10, <1>12, <2>1 DEF C!read_acquire, read_acquire
  <2> QED BY <1>0, <2>2 DEF C!Next, C!Reader
<1>13. ASSUME NEW n \in 0..Capacity, NEW h \in Offsets, peek(n, h), ~rfresh
       PROVE C!Next
  <2>1. C!Look(Known < n \/ n = 0, h)
    BY <1>13, LookSim DEF peek
  <2>2. C!peek(n, h)
    BY <1>10, <1>13, <2>1 DEF C!peek
  <2> QED BY <1>0, <2>2 DEF C!Next, C!Reader
<1>14. ASSUME NEW n \in 0..Capacity, NEW h \in Offsets, peek(n, h), rfresh
       PROVE C!Next
  <2>1. n = 0
    BY <1>14 DEF peek
  <2>2. C!Look(TRUE, h)
    BY <1>14, <2>1, LookSim DEF peek
  <2>3. C!peek(n, h)
    BY <2>1, <2>2 DEF C!peek
  <2> QED BY <1>0, <2>3 DEF C!Next, C!Reader
<1>15. ASSUME NEW n \in 1..Capacity, consume(n) PROVE C!Next
  <2>1. n \in 1..C!Seen
    BY <1>10, <1>15 DEF consume
  <2>2. C!consume(n)
    BY <1>15, <2>1 DEF consume, C!consume, Rotate, C!Rotate, writer, reader
  <2> QED BY <2>2 DEF C!Next, C!Reader
<1>16. CASE UNCHANGED vars
  BY <1>16 DEF vars, ringVars, writer, reader, C!vars
<1> QED BY <1>1, <1>2, <1>3, <1>4, <1>5, <1>6, <1>7, <1>8, <1>9, <1>11, <1>12,
           <1>13, <1>14, <1>15, <1>16 DEF Next, Writer, Reader

\* The C++ ring implements the C ring although its caches live in accessors
\* that may be replaced, if new ones begin with a load; with SpscRingbufProofs
\* it is a bounded FIFO queue.
THEOREM CppImplementsC == Spec /\ ~AnyFirstCall => ImplementsC
<1> DEFINE CInv == IInv /\ ~AnyFirstCall
<1>1. Init => C!Init
  BY DEF Init, C!Init, Offsets, C!Offsets
<1>2. Init /\ ~AnyFirstCall => CInv
  BY InitType
<1>3. CInv /\ [Next]_vars => CInv'
  BY StepType
<1>4. CInv /\ [Next]_vars => [C!Next]_C!vars
  BY StepSim
<1> QED BY <1>1, <1>2, <1>3, <1>4, PTL DEF Spec, ImplementsC, C!Spec

-----------------------------------------------------------------------------
(* What is proved of the C ring holds of the C++ ring.                     *)

P == INSTANCE SpscRingbufProofs WITH
       seen_tail <- IF wfresh THEN wlast ELSE wseen,
       seen_head <- IF rfresh THEN rlast ELSE rseen

\* P names the same specification as C.
LEMMA SameSpec == C!Spec => P!Spec
<1>1. C!Init => P!Init
  BY DEF C!Init, P!Init, C!Offsets, P!Offsets
<1>2. [C!Next]_C!vars => [P!Next]_P!vars
  BY Zenon DEF
         C!Next, P!Next, C!Writer, P!Writer, C!Reader, P!Reader,
         C!vars, P!vars, C!Offsets, P!Offsets, C!Between, P!Between,
         C!get_written_num, P!get_written_num, C!get_write_off,
         P!get_write_off, C!Rotate, P!Rotate, C!Grant, P!Grant,
         C!write_off, P!write_off, C!write_off_nowrap,
         P!write_off_nowrap, C!acquire, P!acquire, C!acquire_nowrap,
         P!acquire_nowrap, C!WriteElem, P!WriteElem, C!write_finish,
         P!write_finish, C!Look, P!Look, C!Seen, P!Seen,
         C!read_off_nowrap, P!read_off_nowrap, C!read_acquire,
         P!read_acquire, C!peek, P!peek, C!consume, P!consume,
         C!consume_upto, P!consume_upto
<1> QED BY <1>1, <1>2, PTL DEF C!Spec, P!Spec

\* The C++ ring is a bounded FIFO queue.
THEOREM CppImplementsFifo == Spec /\ ~AnyFirstCall => P!FifoSpec
<1>1. Spec /\ ~AnyFirstCall => P!Spec
  BY CppImplementsC, SameSpec DEF ImplementsC
<1>2. P!Spec => P!FifoSpec
  BY P!ImplementsFifo
<1> QED BY <1>1, <1>2

\* The assertion "Invalid head move" of write_finish never fails if new
\* accessors begin with a load, because no grant reaches the tail (CachesLag of
\* the C ring).
THEOREM HeadMoveAlwaysValid == Spec /\ ~AnyFirstCall => []HeadMoveValid
<1>1. Spec /\ ~AnyFirstCall => [](TypeOK /\ P!CachesLag)
  BY CppTypeCorrect, CppImplementsC, SameSpec, P!CachesAlwaysLag, PTL
     DEF ImplementsC
<1>2. TypeOK /\ P!CachesLag => HeadMoveValid
  BY DEF TypeOK, P!CachesLag, P!get_free_num, HeadMoveValid, Rotate, Offsets
<1> QED BY <1>1, <1>2, PTL

\* The regions of peek, for a reader that does not believe in more elements
\* than there are.
LEMMA PeekRegions ==
  ASSUME NEW n \in 1..Capacity, TypeOK, Known > 0,
         Known <= written_num(head, tail)
  PROVE  LET r == peek_regions(n)
         IN  /\ r[1] + r[2] = (IF Known < n THEN Known ELSE n)
             /\ tail + r[1] <= Capacity /\ r[2] <= tail
             /\ r[1] + r[2] <= written_num(head, tail)
<1> tail \in Int /\ rseen \in Int /\ tail >= 0 /\ rseen >= 0
    /\ tail < Capacity /\ rseen < Capacity /\ n \in Int /\ n >= 1
  BY DEF TypeOK, Offsets
<1>1. Known = IF tail <= rseen THEN rseen - tail ELSE Capacity - tail + rseen
  BY DEF Known, written_num
<1>2. written_num(head, tail) \in Int
  BY DEF written_num, TypeOK, Offsets
<1> DEFINE k == IF Known < n THEN Known ELSE n
           l1 == IF Capacity - tail > k THEN k ELSE Capacity - tail
<1>3. CASE tail < rseen
  <2>1. peek_regions(n) = <<k, 0>>
    BY <1>3 DEF peek_regions
  <2> QED BY <1>1, <1>2, <1>3, <2>1
<1>4. CASE ~(tail < rseen)
  <2>1. peek_regions(n) = <<l1, IF rseen < k - l1 THEN rseen ELSE k - l1>>
    BY <1>4 DEF peek_regions
  <2>2. Known = Capacity - tail + rseen /\ rseen < tail
    BY <1>1, <1>4
  <2> QED BY <1>2, <2>1, <2>2
<1> QED BY <1>3, <1>4

\* The assertions of the C++ ring never fail: "Invalid head move" of
\* write_finish and those of peek on its two regions, whichever accessor calls
\* them and however old its cache is, if new accessors begin with a load.
THEOREM AssertsAlwaysHold == Spec /\ ~AnyFirstCall => []AssertsHold
<1>1. Spec /\ ~AnyFirstCall => [](TypeOK /\ P!CachesLag)
  BY CppTypeCorrect, CppImplementsC, SameSpec, P!CachesAlwaysLag, PTL
     DEF ImplementsC
<1>2. TypeOK /\ P!CachesLag => PeekRight
  <2> SUFFICES ASSUME TypeOK, P!CachesLag, ~rfresh, Known > 0 PROVE PeekRight
    BY DEF PeekRight
  <2>1. Known <= written_num(head, tail)
    BY DEF P!CachesLag, P!Between, P!get_written_num, written_num, Known,
           TypeOK, Offsets
  <2> QED BY <2>1, PeekRegions DEF PeekRight
<1> QED BY <1>1, <1>2, HeadMoveAlwaysValid, PTL DEF AssertsHold

=============================================================================
