--------------------------- MODULE CppRingBuffer ---------------------------
(***************************************************************************)
(* The C++ ring buffer of include/vamos-buffers/cpp/ring_buffer.h.  It is  *)
(* a rewritten spsc_ringbuf.h which, its comment says, "is not kept in     *)
(* sync, so the two implementations might diverge".  The cached positions  *)
(* are not in the ring but in accessor objects (RingBufferWriter and       *)
(* RingBufferReader), whose constructor sets them to 0 whatever the ring   *)
(* looks like.                                                             *)
(*                                                                         *)
(* An accessor may be replaced by a new one on a ring in use, between two  *)
(* operations.  Two calls of the new accessor load the other side's        *)
(* position at once: write_off(n) of a writer, which reloads when the      *)
(* cache is 0, and peek(0) of a reader.  Everything else may trust the 0.  *)
(* AnyFirstCall says whether such calls come first.                        *)
(*                                                                         *)
(* As in SpscRingbuf, a load may return any position between the last one  *)
(* its side saw and the current one.                                       *)
(***************************************************************************)
EXTENDS Integers, Sequences

CONSTANTS Capacity,   \* CAPACITY
          Data,       \* the elements
          NoData,     \* the content of a slot that was never written
          MaxNew,     \* bound: how often an accessor is replaced
          AnyFirstCall  \* a new accessor may begin with any call

ASSUME CppAssumption ==
  Capacity \in Nat \ {0} /\ MaxNew \in Nat /\ AnyFirstCall \in BOOLEAN

VARIABLES head, tail,      \* _head and _tail
          wseen, rseen,    \* seen of the writer and of the reader
          wfresh, rfresh,  \* the new accessor has not loaded a position yet
          rasked,          \* the reader was asked for elements since its creation
          wlast, rlast,    \* history: what the replaced accessor had seen
          slots,           \* the client's array of elements
          wgrant, wfill,   \* slots granted to the writer, and those filled
          news             \* how often an accessor was replaced

ringVars == <<head, tail, slots>>
writer == <<wseen, wfresh, wlast, wgrant, wfill>>
reader == <<rseen, rfresh, rasked, rlast>>
vars == <<ringVars, writer, reader, news>>

Offsets == 0..(Capacity - 1)

-----------------------------------------------------------------------------
(* Arithmetic of offsets.                                                  *)

is_full(h, t) == h + 1 = t \/ (h = Capacity - 1 /\ t = 0)

written_num(h, t) == IF t <= h THEN h - t ELSE Capacity - t + h

free_num(h, t) == IF t <= h THEN Capacity - 1 - h + t ELSE t - h - 1

\* _write_off: the contiguous free slots from h, those from offset 0, and all.
write_space(h, t) ==
  LET n == CASE t > h -> t - h - 1
             [] t = h -> Capacity - 1
             [] t < h /\ t = 0 -> Capacity - h - 1
             [] t < h /\ t # 0 -> Capacity - h
      w == IF t < h /\ t # 0 THEN t - 1 ELSE 0
  IN  [n |-> n, wrap_n |-> w, ret |-> n + w]

Rotate(x) == IF x >= Capacity THEN x - Capacity ELSE x

\* The positions passed on the way from a to b.
Between(a, b) == {x \in Offsets : written_num(x, a) <= written_num(b, a)}

-----------------------------------------------------------------------------
\* A ring and its first two accessors.
Init ==
  /\ head = 0 /\ tail = 0 /\ slots = [i \in Offsets |-> NoData]
  /\ wseen = 0 /\ wfresh = FALSE /\ wlast = 0 /\ wgrant = 0 /\ wfill = 0
  /\ rseen = 0 /\ rfresh = FALSE /\ rasked = FALSE /\ rlast = 0
  /\ news = 0

-----------------------------------------------------------------------------
(* The writer; t is what a load of the tail returns.                       *)

NewWriter ==
  /\ ~wfresh /\ wgrant = 0 /\ news < MaxNew
  /\ wseen' = 0 /\ wfresh' = TRUE /\ wlast' = wseen
  /\ news' = news + 1
  /\ UNCHANGED <<ringVars, reader, wgrant, wfill>>

\* The writer's accessor may be asked for something it could answer from 0.
WriterMay == AnyFirstCall \/ ~wfresh

\* Compute the grant, from a reloaded tail if reload holds.
Grant(reload, wrapping, t) ==
  LET st  == IF reload THEN t ELSE wseen
      off == write_space(head, st)
  IN  /\ t \in Between(IF wfresh THEN wlast ELSE wseen, tail)
      /\ wseen' = st
      /\ wgrant' = IF wrapping THEN off.n + off.wrap_n ELSE off.n
      /\ wfill' = 0 /\ wfresh' = (wfresh /\ ~reload)
      /\ UNCHANGED <<ringVars, reader, wlast, news>>

write_off_wrap(t) ==
  WriterMay /\ Grant(write_space(head, wseen).ret = 0, TRUE, t)

\* Mutant: a cache of 0 is trusted.
write_off_Trust(t) == Grant(write_space(head, wseen).ret = 0, FALSE, t)

\* The overload without wrap_n also reloads a cache of 0.
write_off(t) == Grant(wseen = 0 \/ write_space(head, wseen).ret = 0, FALSE, t)

acquire_wrap(n, t) ==
  WriterMay /\ Grant(write_space(head, wseen).ret < n, TRUE, t)

acquire(n, t) == WriterMay /\ Grant(write_space(head, wseen).ret < n, FALSE, t)

\* The client copies an element into the next granted slot.
WriteElem(d) ==
  /\ wfill < wgrant
  /\ slots' = [slots EXCEPT ![Rotate(head + wfill)] = d]
  /\ wfill' = wfill + 1
  /\ UNCHANGED <<head, tail, wseen, wfresh, wlast, wgrant, reader, news>>

\* Mutant: the whole grant is published.
write_finish_Grant(n) ==
  /\ n \in 1..wfill
  /\ head' = Rotate(head + wgrant)
  /\ wgrant' = 0 /\ wfill' = 0
  /\ UNCHANGED <<tail, slots, wseen, wfresh, wlast, reader, news>>

write_finish(n) ==
  /\ n \in 1..wfill
  /\ head' = Rotate(head + n)
  /\ wgrant' = 0 /\ wfill' = 0
  /\ UNCHANGED <<tail, slots, wseen, wfresh, wlast, reader, news>>

Writer ==
  \/ NewWriter
  \/ \E t \in Offsets : write_off_wrap(t)
  \/ \E t \in Offsets : write_off(t)
  \/ \E n \in 0..Capacity, t \in Offsets : acquire_wrap(n, t)
  \/ \E n \in 0..Capacity, t \in Offsets : acquire(n, t)
  \/ \E d \in Data : WriteElem(d)
  \/ \E n \in 1..Capacity : write_finish(n)

-----------------------------------------------------------------------------
(* The reader; h is what a load of the head returns.                       *)

NewReader ==
  /\ ~rfresh /\ news < MaxNew
  /\ rseen' = 0 /\ rfresh' = TRUE /\ rasked' = FALSE /\ rlast' = rseen
  /\ news' = news + 1
  /\ UNCHANGED <<ringVars, writer>>

\* How many elements the reader knows of.
Known == written_num(rseen, tail)

\* The reader's accessor may be asked for something it could answer from 0.
ReaderMay == AnyFirstCall \/ ~rfresh

Look(reload, h) ==
  /\ h \in Between(IF rfresh THEN rlast ELSE rseen, head)
  /\ rseen' = IF reload THEN h ELSE rseen
  /\ rfresh' = (rfresh /\ ~reload) /\ rasked' = TRUE
  /\ UNCHANGED <<ringVars, writer, rlast, news>>

read_off(h) == ReaderMay /\ Look(Known = 0, h)

read_acquire(n, h) == ReaderMay /\ Look(Known < n, h)

\* peek(0) asks for an up-to-date number.
peek(n, h) == (ReaderMay \/ n = 0) /\ Look(Known < n \/ n = 0, h)

\* The lengths of the regions tail.. and 0.. that peek(n) hands out for n > 0
\* if any element is known.
peek_regions(n) ==
  LET k  == IF Known < n THEN Known ELSE n
      l1 == IF Capacity - tail > k THEN k ELSE Capacity - tail
  IN  IF tail < rseen THEN <<k, 0>>
      ELSE <<l1, IF rseen < k - l1 THEN rseen ELSE k - l1>>

\* A client consumes what it was told of.
consume(n) ==
  /\ ReaderMay /\ rasked /\ n \in 1..Known
  /\ tail' = Rotate(tail + n)
  /\ UNCHANGED <<head, slots, writer, reader, news>>

Reader ==
  \/ NewReader
  \/ \E h \in Offsets : read_off(h)
  \/ \E n \in 0..Capacity, h \in Offsets : read_acquire(n, h)
  \/ \E n \in 0..Capacity, h \in Offsets : peek(n, h)
  \/ \E n \in 1..Capacity : consume(n)

Next == Writer \/ Reader

Spec == Init /\ [][Next]_vars

-----------------------------------------------------------------------------
\* The type of the state.
TypeOK ==
  /\ head \in Offsets /\ tail \in Offsets
  /\ wseen \in Offsets /\ wlast \in Offsets /\ wfresh \in BOOLEAN
  /\ rseen \in Offsets /\ rlast \in Offsets /\ rfresh \in BOOLEAN
  /\ rasked \in BOOLEAN
  /\ slots \in [Offsets -> Data \cup {NoData}]
  /\ wgrant \in 0..(Capacity - 1) /\ wfill \in 0..wgrant
  /\ news \in 0..MaxNew

\* A fresh accessor has 0 in its cache.
FreshInv == (wfresh => wseen = 0) /\ (rfresh => rseen = 0)

\* The C ring buffer, with the caches of the accessors.  While an accessor is
\* fresh, what its predecessor had seen stands for it.
C == INSTANCE SpscRingbuf WITH
       seen_tail <- IF wfresh THEN wlast ELSE wseen,
       seen_head <- IF rfresh THEN rlast ELSE rseen

\* The two implementations have not diverged: whatever the C++ ring does, also
\* when accessors are replaced and the new ones begin with a load, is a
\* behaviour of the C ring, and with it of a bounded queue that changes no
\* element under its reader.
ImplementsC == C!Spec

\* The assertion of write_finish, "Invalid head move": publishing any part of
\* a grant, computed from however old a tail, keeps head off the tail.
\* (Violated if a new writer begins with a call that trusts its 0.)
HeadMoveValid == \A n \in 1..wgrant : Rotate(head + n) # tail

\* The assertions of peek: its two regions together have the requested length
\* or all that is known; they lie in the array and hold published elements.
PeekRight ==
  ~rfresh /\ Known > 0 =>
    \A n \in 1..Capacity :
      LET r == peek_regions(n)
      IN  /\ r[1] + r[2] = (IF Known < n THEN Known ELSE n)
          /\ tail + r[1] <= Capacity /\ r[2] <= tail
          /\ r[1] + r[2] <= written_num(head, tail)

\* The assertions of the C++ ring hold.
AssertsHold == HeadMoveValid /\ PeekRight

\* The comment of write_off: "set the number of writable elements to `n` and
\* also to `wrap_n` if there is a wrap-around".  The n slots from head on that
\* were handed out lie in the array.  (Violated: in an empty ring n is
\* Capacity - 1 and wrap_n is 0, wherever head is.)
RegionInArray ==
  wgrant > 0 /\ ~wfresh => head + write_space(head, wseen).n <= Capacity

=============================================================================
