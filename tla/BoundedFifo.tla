---------------------------- MODULE BoundedFifo ----------------------------
(***************************************************************************)
(* What every queue of the library promises to its two clients: a bounded  *)
(* first-in first-out queue.  The writer appends a batch of one or more    *)
(* elements that fits, the reader removes one or more elements from the    *)
(* front.  The ring buffer (SpscRingbuf) implements this specification.    *)
(***************************************************************************)
EXTENDS Integers, Sequences

CONSTANTS Data,     \* the elements
          MaxSize   \* the number of elements that fit at once

VARIABLE q          \* the elements, the oldest first

\* The non-empty batches of at most k elements.
Batches(k) == UNION {[1..m -> Data] : m \in 1..k}

Init == q = << >>

Push == \E s \in Batches(MaxSize - Len(q)) : q' = q \o s

Pop == \E k \in 1..Len(q) : q' = SubSeq(q, k + 1, Len(q))

Next == Push \/ Pop

Spec == Init /\ [][Next]_q

=============================================================================
