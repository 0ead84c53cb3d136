--------------------------- MODULE DropOlderThan ---------------------------
(***************************************************************************)
(* The search of vms_arbiter_buffer_drop_older_than (core/arbiter.c): how  *)
(* many of the oldest events in the arbiter buffer have an id of at most   *)
(* id.  peek hands the events out in two contiguous parts, the search      *)
(* picks one of the parts and bisects it.                                  *)
(***************************************************************************)
EXTENDS Integers, Sequences

CONSTANTS MaxEvents,  \* bound: events in the buffer
          MaxId    \* bound: ids of events

ASSUME DropOlderThanAssumption == MaxEvents \in Nat \ {0} /\ MaxId \in Nat

VARIABLES ids,    \* the ids in the buffer, the oldest first
          len1,   \* the length of the first part
          id,     \* the id asked for
          pc,
          base,   \* the number of events before the searched part
          bot, top,
          steps,  \* iterations of the search
          k       \* the result: the number of events to drop

olderVars == <<ids, len1, id, pc, base, bot, top, steps, k>>

n == Len(ids)

\* The sequences of ids a buffer may hold: two neighbours may be equal, since
\* the hole pushed at the end of a stream takes the id before its last event.
Buffers ==
  {s \in UNION {[1..m -> 1..MaxId] : m \in 1..MaxEvents} :
     \A i, j \in DOMAIN s : i < j => s[i] <= s[j]}

olderInit ==
  /\ ids \in Buffers
  /\ len1 \in 1..Len(ids)
  /\ id \in 0..(MaxId + 1)
  /\ pc = "part"
  /\ base = 0 /\ bot = 0 /\ top = 0 /\ steps = 0 /\ k = 0

\* Index i of the searched part, from 0.
At(i) == ids[base + i + 1]

\* Mutant: the highest index is the length.
choose_part_Length ==
  /\ pc = "part"
  /\ pc' = "search" /\ base' = 0 /\ top' = len1
  /\ UNCHANGED <<ids, len1, id, bot, steps, k>>

\* In which part may the event be?  Behind the last one everything is dropped.
choose_part ==
  /\ pc = "part"
  /\ IF id <= ids[len1]
     THEN /\ pc' = "search" /\ base' = 0 /\ top' = len1 - 1
          /\ UNCHANGED k
     ELSE IF len1 < n
     THEN /\ pc' = "search" /\ base' = len1 /\ top' = n - len1 - 1
          /\ UNCHANGED k
     ELSE /\ pc' = "done" /\ k' = len1
          /\ UNCHANGED <<base, top>>
  /\ UNCHANGED <<ids, len1, id, bot, steps>>

pivot == (bot + top) \div 2

new_top ==
  IF id < At(pivot) THEN (IF pivot = 0 THEN 0 ELSE pivot - 1)
  ELSE IF bot = pivot /\ At(pivot) = id THEN bot ELSE top

new_bot ==
  IF id < At(pivot) THEN bot
  ELSE IF bot # pivot THEN pivot
  ELSE IF At(pivot) = id THEN bot ELSE top

\* Mutant: the event with the id itself is kept.
search_KeepEqual ==
  /\ pc = "search"
  /\ bot' = new_bot /\ top' = new_top
  /\ steps' = steps + 1
  /\ IF new_top = new_bot
     THEN /\ pc' = "done"
          /\ k' = base + (IF id <= At(new_top) THEN new_top ELSE new_top + 1)
     ELSE UNCHANGED <<pc, k>>
  /\ UNCHANGED <<ids, len1, id, base>>

\* One iteration of the bisection; it ends when one candidate is left.
search ==
  /\ pc = "search"
  /\ bot' = new_bot /\ top' = new_top
  /\ steps' = steps + 1
  /\ IF new_top = new_bot
     THEN /\ pc' = "done"
          /\ k' = base + (IF id < At(new_top) THEN new_top ELSE new_top + 1)
     ELSE UNCHANGED <<pc, k>>
  /\ UNCHANGED <<ids, len1, id, base>>

olderNext == choose_part \/ search

olderSpec == olderInit /\ [][olderNext]_olderVars

-----------------------------------------------------------------------------
\* The type of the state.
olderTypeOK ==
  /\ ids \in Seq(1..MaxId) /\ len1 \in 1..n
  /\ id \in 0..(MaxId + 1)
  /\ pc \in {"part", "search", "done"}
  /\ base \in {0, len1} /\ bot \in Nat /\ top \in Nat
  /\ steps \in Nat /\ k \in 0..n

\* What StreamFetch relies on: the events that are dropped are all at most as old
\* as id, those that stay are all at least as old, and if there is an event with
\* this very id, the last one dropped is such an event.
ResultRight ==
  pc = "done" =>
    /\ \A i \in 1..k : ids[i] <= id
    /\ \A i \in (k + 1)..n : ids[i] >= id
    /\ id \in {ids[i] : i \in 1..n} => k > 0 /\ ids[k] = id

\* The search never leaves the part it bisects, and the assertion "BUG in
\* binary search" holds: it takes fewer iterations than there are events.
SearchInside ==
  pc = "search" => bot <= top /\ base + top < n /\ steps < n

\* The length of the part that is searched.
PartLen == IF base = 0 THEN len1 ELSE n - len1

\* The assertions on bot and top in the loop, asserted of every search: when the
\* pivot is the lowest candidate, there are exactly two.
BisectAsserts ==
  pc = "search" =>
    /\ id < At(pivot) /\ pivot = 0 => bot = 0 /\ top = 1
    /\ id >= At(pivot) /\ bot = pivot => top = bot + 1

=============================================================================
