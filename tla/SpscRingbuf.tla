---------------------------- MODULE SpscRingbuf ----------------------------
(***************************************************************************)
(* The single-producer single-consumer lock-free ring buffer of            *)
(* src/core/spsc_ringbuf.c, together with the array of slots its clients   *)
(* (par_queue.c and shmbuf/buffer.c) index by the offsets it hands out.    *)
(*                                                                         *)
(* The writer owns head and the cached seen_tail, the reader owns tail and *)
(* the cached seen_head.  Every operation makes at most one access to the  *)
(* variable that the other side writes, so an operation is one step; the   *)
(* copying of an element into a granted slot is a step of its own.         *)
(*                                                                         *)
(* A load of the other side's variable may return an old value: any        *)
(* position between the last one the loading side saw and the current one  *)
(* (the positions of one atomic variable are seen in order, but the relaxed*)
(* and acquire loads of the code need not return the newest).              *)
(***************************************************************************)
EXTENDS Integers, Sequences

CONSTANTS Capacity,  \* number of slots, one more than the elements that fit
          Data,      \* the elements
          NoData     \* the content of a slot that was never written

ASSUME CapacityAssumption == Capacity \in Nat \ {0}

VARIABLES head,       \* next slot to write; stored by the writer
          tail,       \* next slot to read; stored by the reader
          seen_head,  \* the reader's cached head
          seen_tail,  \* the writer's cached tail
          slots,      \* the client's array of elements
          wgrant,     \* slots granted to the writer: write_in_progress.n
          wfill       \* elements the writer has copied into the grant

vars == <<head, tail, seen_head, seen_tail, slots, wgrant, wfill>>

Offsets == 0..(Capacity - 1)

-----------------------------------------------------------------------------
(* Arithmetic of offsets.                                                  *)

is_empty(h, t) == h = t

is_full(h, t) == h + 1 = t \/ (h = Capacity - 1 /\ t = 0)

get_written_num(h, t) ==
  IF t < h THEN h - t
  ELSE IF t = h THEN 0 ELSE Capacity - t + h

get_free_num(h, t) ==
  IF t < h THEN (Capacity - h - 1) + t
  ELSE IF h = t THEN Capacity - 1 ELSE t - h - 1

\* Mutant: the separator slot is handed out as well.
get_write_off_NoSeparator(h, t) ==
  IF t > h THEN [n |-> t - h, wrap_n |-> 0, ret |-> t - h]
  ELSE [n |-> Capacity - h, wrap_n |-> t, ret |-> Capacity - h + t]

\* The contiguous free slots from h (n), those from offset 0 (wrap_n), and
\* the returned number.
get_write_off(h, t) ==
  IF t < h
  THEN IF t = 0
       THEN [n |-> Capacity - h - 1, wrap_n |-> 0, ret |-> Capacity - h - 1]
       ELSE [n |-> Capacity - h, wrap_n |-> t - 1,
             ret |-> Capacity - h + t - 1]
  ELSE IF t = h
       THEN [n |-> Capacity - 1, wrap_n |-> 0, ret |-> Capacity - 1]
       ELSE [n |-> t - h - 1, wrap_n |-> 0, ret |-> t - h - 1]

\* The step that write_finish and consume take past the end of the array.
Rotate(x) == IF x >= Capacity THEN x - Capacity ELSE x

\* The positions passed on the way from a to b: what a load of a variable
\* that is now b may return to a side that has last seen a.
Between(a, b) == {x \in Offsets : get_written_num(x, a) <= get_written_num(b, a)}

-----------------------------------------------------------------------------
Init ==
  /\ head = 0 /\ tail = 0
  /\ seen_head = 0 /\ seen_tail = 0
  /\ slots = [i \in Offsets |-> NoData]
  /\ wgrant = 0 /\ wfill = 0

-----------------------------------------------------------------------------
(* The writer.  t is the value a load of tail returns.                     *)

\* Ask for space; the cached tail is refreshed if reload holds.
Grant(reload, wrapping, t) ==
  LET st  == IF reload THEN t ELSE seen_tail
      off == get_write_off(head, st)
  IN  /\ t \in Between(seen_tail, tail)
      /\ seen_tail' = st
      /\ wgrant' = IF wrapping THEN off.n + off.wrap_n ELSE off.n
      /\ wfill' = 0
      /\ UNCHANGED <<head, tail, seen_head, slots>>

write_off(t) == Grant(get_write_off(head, seen_tail).ret = 0, TRUE, t)

write_off_nowrap(t) ==
  Grant(seen_tail = 0 \/ get_write_off(head, seen_tail).ret = 0, FALSE, t)

acquire(n, t) == Grant(get_write_off(head, seen_tail).ret < n, TRUE, t)

acquire_nowrap(n, t) == Grant(get_write_off(head, seen_tail).ret < n, FALSE, t)

\* The client copies element d into the next granted slot.
WriteElem(d) ==
  /\ wfill < wgrant
  /\ slots' = [slots EXCEPT ![Rotate(head + wfill)] = d]
  /\ wfill' = wfill + 1
  /\ UNCHANGED <<head, tail, seen_head, seen_tail, wgrant>>

\* Mutant: the grant is kept.
write_finish_KeepGrant(n) ==
  /\ n \in 1..wfill
  /\ head' = Rotate(head + n)
  /\ wfill' = 0
  /\ UNCHANGED <<tail, seen_head, seen_tail, slots, wgrant>>

\* Publish the first n copied elements.
write_finish(n) ==
  /\ n \in 1..wfill
  /\ head' = Rotate(head + n)
  /\ wgrant' = 0 /\ wfill' = 0
  /\ UNCHANGED <<tail, seen_head, seen_tail, slots>>

Writer ==
  \/ \E t \in Offsets : write_off(t)
  \/ \E t \in Offsets : write_off_nowrap(t)
  \/ \E n \in 0..Capacity, t \in Offsets : acquire(n, t)
  \/ \E n \in 0..Capacity, t \in Offsets : acquire_nowrap(n, t)
  \/ \E d \in Data : WriteElem(d)
  \/ \E n \in 1..Capacity : write_finish(n)

-----------------------------------------------------------------------------
(* The reader.  h is the value a load of head returns.                     *)

\* How many elements the reader knows of.
Seen == get_written_num(seen_head, tail)

Look(reload, h) ==
  /\ h \in Between(seen_head, head)
  /\ seen_head' = IF reload THEN h ELSE seen_head
  /\ UNCHANGED <<head, tail, seen_tail, slots, wgrant, wfill>>

\* Mutant: the cached head is never refreshed.
read_off_nowrap_Cached(h) == Look(FALSE, h)

read_off_nowrap(h) == Look(Seen = 0, h)

read_acquire(n, h) == Look(Seen < n, h)

\* peek(0) asks for an up-to-date number of elements.
peek(n, h) == Look(Seen < n \/ n = 0, h)

\* Mutant: the wrap at the end of the array is forgotten.
peek_result_NoWrap(n) ==
  [num |-> Seen, len1 |-> IF Seen < n THEN Seen ELSE n, len2 |-> 0]

\* What peek(n) returns for n > 0 once seen_head is refreshed: the number of
\* elements and the two regions tail.. and 0.. that hold the first of them.
peek_result(n) ==
  LET k  == IF Seen < n THEN Seen ELSE n
      l1 == IF Capacity - tail > k THEN k ELSE Capacity - tail
  IN  IF tail < seen_head
      THEN [num |-> Seen, len1 |-> k, len2 |-> 0]
      ELSE [num |-> Seen, len1 |-> l1,
            len2 |-> IF seen_head < k - l1 THEN seen_head ELSE k - l1]

\* The slot of element k of a peek's result: the second region starts at 0.
at_index(r, k) == IF k < r.len1 THEN tail + k ELSE k - r.len1

NoSlot == -1   \* NULL

\* The slot of the element at index k, once peek(k + 1) has looked.
peek_at(k) ==
  LET r == peek_result(k + 1)
  IN  IF r.num <= k THEN NoSlot ELSE at_index(r, k)

\* Mutant: the index is clipped to the number of elements.
peek_atmost_at_Count(k) ==
  LET r == peek_result(k + 1)
      j == IF r.num <= k THEN r.num ELSE k
  IN  IF r.num = 0 THEN [k |-> 0, slot |-> NoSlot]
      ELSE [k |-> j, slot |-> at_index(r, j)]

\* The same for the last element if there is none at k, and its index.
peek_atmost_at(k) ==
  LET r == peek_result(k + 1)
      j == IF r.num <= k THEN r.num - 1 ELSE k
  IN  IF r.num = 0 THEN [k |-> 0, slot |-> NoSlot]
      ELSE [k |-> j, slot |-> at_index(r, j)]

\* Mutant: consume elements that are there but were never seen.
consume_Unseen(n) ==
  /\ n \in 1..get_written_num(head, tail)
  /\ tail' = Rotate(tail + n)
  /\ UNCHANGED <<head, seen_head, seen_tail, slots, wgrant, wfill>>

\* Consume n elements the reader has been told of.
consume(n) ==
  /\ n \in 1..Seen
  /\ tail' = Rotate(tail + n)
  /\ UNCHANGED <<head, seen_head, seen_tail, slots, wgrant, wfill>>

\* Refresh the cache if fewer than n are known, then consume at most n.
consume_upto(n, h) ==
  LET sh == IF Seen < n THEN h ELSE seen_head
      k  == get_written_num(sh, tail)
      m  == IF k < n THEN k ELSE n
  IN  /\ h \in Between(seen_head, head)
      /\ seen_head' = sh
      /\ tail' = IF m > 0 THEN Rotate(tail + m) ELSE tail
      /\ UNCHANGED <<head, seen_tail, slots, wgrant, wfill>>

Reader ==
  \/ \E h \in Offsets : read_off_nowrap(h)
  \/ \E n \in 0..Capacity, h \in Offsets : read_acquire(n, h)
  \/ \E n \in 0..Capacity, h \in Offsets : peek(n, h)
  \/ \E n \in 1..Capacity : consume(n)
  \/ \E n \in 0..Capacity, h \in Offsets : consume_upto(n, h)

Next == Writer \/ Reader

Spec == Init /\ [][Next]_vars

-----------------------------------------------------------------------------
(* Properties.                                                             *)

\* The type of the state.  Every offset is a slot and a grant leaves the
\* separator slot free.
TypeOK ==
  /\ head \in Offsets /\ tail \in Offsets
  /\ seen_head \in Offsets /\ seen_tail \in Offsets
  /\ slots \in [Offsets -> Data \cup {NoData}]
  /\ wgrant \in 0..(Capacity - 1) /\ wfill \in 0..wgrant

\* The number of elements: vms_spsc_ringbuf_size.
size == get_written_num(head, tail)

\* The caches lag behind without ever being wrong: the reader never believes
\* in more elements than there are, the writer never in a tail the reader has
\* not passed, and a grant never reaches the slots that hold elements, however
\* stale the tail it was computed from.
CachesLag ==
  /\ seen_head \in Between(tail, head)
  /\ get_written_num(tail, seen_tail) <= get_written_num(head, seen_tail)
  /\ wgrant <= get_free_num(head, seen_tail)
  /\ wgrant <= get_free_num(head, tail)

\* Only written elements are published or about to be.
FilledInv ==
  \A i \in 0..(Capacity - 1) :
    i < size + wfill => slots[Rotate(tail + i)] \in Data

\* The elements in the buffer, the oldest first.
Contents == [i \in 1..size |-> slots[Rotate(tail + (i - 1))]]

\* The element at position i of the two regions peek returns.
Region(r, i) == IF i <= r.len1 THEN slots[tail + i - 1] ELSE slots[i - r.len1 - 1]

\* peek hands out exactly the oldest elements: as many as asked for or as are
\* known, in order over both regions, inside the array and all published.
PeekExact ==
  \A n \in 1..Capacity :
    LET r == peek_result(n)
        k == r.len1 + r.len2
    IN  Seen > 0 =>
          /\ k = (IF Seen < n THEN Seen ELSE n)
          /\ k <= size
          /\ tail + r.len1 <= Capacity
          /\ r.len2 <= tail
          /\ \A i \in 1..k : Region(r, i) = Contents[i]

\* vms_par_queue_peek_at and peek_atmost_at return the element at the index
\* across both regions, or the last known one and its index, and NULL exactly
\* when the reader knows of no such element.
PeekAtRight ==
  \A k \in 0..Capacity :
    LET j == IF Seen <= k THEN Seen - 1 ELSE k
        m == peek_atmost_at(k)
    IN  /\ IF Seen <= k THEN peek_at(k) = NoSlot
           ELSE peek_at(k) \in Offsets /\ slots[peek_at(k)] = Contents[k + 1]
        /\ IF Seen = 0 THEN m.slot = NoSlot /\ m.k = 0
           ELSE m.k = j /\ m.slot \in Offsets /\ slots[m.slot] = Contents[j + 1]

\* No step changes an element that is published and not consumed by it: what
\* the reader was handed stays intact until its own consume, although the
\* writer copies into its grant at the same time.
KeepsLive ==
  \A i \in Offsets :
    (i \in Between(tail, head) /\ i # head) => slots'[i] = slots[i]

LiveStable == [][KeepsLive]_vars

\* The ring buffer is a bounded queue.
Fifo == INSTANCE BoundedFifo WITH q <- Contents, MaxSize <- Capacity - 1

FifoSpec == Fifo!Spec

\* A writer whose cached tail says that the ring is full is given space again: the
\* cache does not hold it back for ever once the reader has made room.
WriterNotStarved == (wgrant = 0 /\ is_full(head, seen_tail)) ~> (wgrant > 0)

\* The reader gets past every published element: a stale seen_head does not
\* keep it from elements that are there.
ReaderProgress ==
  \A p \in Offsets : (tail = p /\ head # p) ~> (tail # p)

\* The caches, which save loads, hold neither side back for ever.
SidesProgress == WriterNotStarved /\ ReaderProgress

=============================================================================
