---------------------------- MODULE StreamFetch ----------------------------
(***************************************************************************)
(* The path of an event from its source to the arbiter (core/arbiter.c,    *)
(* core/shamon.c, core/stream.c, shmbuf/buffer.c):                         *)
(*                                                                         *)
(*   source process  --shm-->  buffer-manager thread  --arb-->  arbiter    *)
(*                                                                         *)
(* The manager (default_buffer_manager_thrd) fetches events from the SHM   *)
(* buffer and forwards them to the arbiter buffer.  When that is full it   *)
(* drops events instead, and later pushes one `hole' event that stands for *)
(* all of them.  The arbiter consumes from its buffer, tells the source    *)
(* which events are processed, and asks vms_arbiter_buffer_is_done whether *)
(* everything has been seen.                                               *)
(*                                                                         *)
(* The two queues are the bounded FIFO queues that SpscRingbuf implements. *)
(* Every step makes at most one access to state that another thread        *)
(* writes.                                                                 *)
(***************************************************************************)
EXTENDS Integers, Sequences, FiniteSets

CONSTANTS
  MaxEv,           \* bound: the source writes at most the events 1..MaxEv
  ShmCap,          \* capacity of the SHM buffer
  ArbCap,          \* capacity of the arbiter buffer
  Threshold,       \* drop_space_threshold
  NotifyEvery,     \* the notification period while dropping (10000)
  RangesNum,       \* DROPPED_RANGES_NUM
  Filtered,        \* the events the stream's filter rejects
  FilterFirst,     \* fetched by vms_stream_fetch_dropping_filter
  DropCounts,      \* the arguments of vms_arbiter_buffer_drop
  OlderIds         \* the arguments of vms_arbiter_buffer_drop_older_than

ASSUME StreamFetchAssumption ==
  /\ MaxEv \in Nat /\ ShmCap \in Nat \ {0}
  /\ ArbCap \in Nat /\ ArbCap >= 3
  /\ Threshold \in 1..(ArbCap - 1)
  /\ NotifyEvery \in Nat \ {0} /\ RangesNum \in Nat \ {0}
  /\ Filtered \subseteq 1..MaxEv
  /\ FilterFirst \in BOOLEAN
  /\ DropCounts \subseteq Nat /\ OlderIds \subseteq Nat

VARIABLES
  \* the SHM buffer and its control block
  shm,                \* ids of the events in the SHM buffer
  next_id,            \* the id of the next event the source writes
  destroyed,          \* the source has destroyed the buffer
  last_processed_id,  \* what the arbiter reported as processed
  dropped_ranges,     \* the ranges the manager reported as dropped
  dropped_ranges_next,
  \* the manager thread
  mpc,                \* where it is
  ev,                 \* the event it handles
  last_ev_id,         \* local of vms_stream_fetch_dropping
  \* the arbiter buffer
  arb,                \* the events in the buffer
  dropped_num, drop_begin_id,
  hole_n,             \* the counter in hole_event
  \* the arbiter thread
  apc,                \* where it is in its loop
  taken,              \* history: what it has consumed
  asked               \* history: the largest id drop_older_than was asked for
                      \* that was beyond the newest element of the buffer

shmVars == <<shm, next_id, destroyed>>
notifyVars == <<last_processed_id, dropped_ranges, dropped_ranges_next>>
dropVars == <<dropped_num, drop_begin_id, hole_n>>
mgrVars == <<mpc, ev, last_ev_id>>
arbiterVars == <<apc, taken, asked>>
fetchVars == <<shmVars, notifyVars, mgrVars, arb, dropVars, arbiterVars>>

\* An element of the arbiter buffer.  A hole carries an id and the number n of
\* events it stands for; begin, the first of them, is there for the properties.
Event(id) == [hole |-> FALSE, id |-> id, begin |-> id, n |-> 1]
Hole(id)  == [hole |-> TRUE, id |-> id, begin |-> drop_begin_id, n |-> hole_n]

free_space == ArbCap - Len(arb)

fetchInit ==
  /\ shm = << >> /\ next_id = 1 /\ destroyed = FALSE
  /\ last_processed_id = 0
  /\ dropped_ranges = [i \in 0..(RangesNum - 1) |-> [begin |-> 0, end |-> 0]]
  /\ dropped_ranges_next = 0
  /\ mpc = "get" /\ ev = 0 /\ last_ev_id = 1
  /\ arb = << >> /\ dropped_num = 0 /\ drop_begin_id = 0 /\ hole_n = 0
  /\ apc = "idle" /\ taken = << >> /\ asked = 0

-----------------------------------------------------------------------------
(* The source.                                                             *)

\* Push the next event, if it fits; ids are consecutive from 1.
shm_buffer_push ==
  /\ ~destroyed /\ next_id <= MaxEv /\ Len(shm) < ShmCap
  /\ shm' = Append(shm, next_id)
  /\ next_id' = next_id + 1
  /\ UNCHANGED <<destroyed, notifyVars, mgrVars, arb, dropVars, arbiterVars>>

shm_buffer_destroy ==
  /\ ~destroyed
  /\ destroyed' = TRUE
  /\ UNCHANGED <<shm, next_id, notifyVars, mgrVars, arb, dropVars, arbiterVars>>

Source == shm_buffer_push \/ shm_buffer_destroy

-----------------------------------------------------------------------------
(* The manager.                                                            *)

Goto(pc) == mpc' = pc /\ UNCHANGED <<ev, last_ev_id>>

\* Record that the events b..e were dropped: extend the current range or take
\* the next one (ids are unsigned).
notify_dropped(b, e) ==
  LET i == dropped_ranges_next
      r == dropped_ranges[i]
      j == IF i + 1 = RangesNum THEN 0 ELSE i + 1
  IN  /\ UNCHANGED last_processed_id
      /\ IF r.begin = b \/ (r.begin > 0 /\ r.end = r.begin - 1)
         THEN /\ dropped_ranges' = [dropped_ranges EXCEPT ![i].end = e]
              /\ UNCHANGED dropped_ranges_next
         ELSE /\ dropped_ranges' =
                   [dropped_ranges EXCEPT ![j] = [begin |-> b, end |-> e]]
              /\ dropped_ranges_next' = j

\* Mutant: the arguments of vms_stream_prepare_hole_event are swapped.
push_dropped_event_Swapped(notify_id) ==
  /\ arb' = Append(arb, Hole(dropped_num))
  /\ notify_dropped(drop_begin_id, notify_id)

push_dropped_event(notify_id) ==
  /\ arb' = Append(arb, Hole(notify_id))
  /\ notify_dropped(drop_begin_id, notify_id)

\* Mutant: the fetch filters, although dropped events are counted by it.
get_event_Filter ==
  /\ mpc = "get" /\ shm # << >>
  /\ ev' = Head(shm) /\ last_ev_id' = Head(shm)
  /\ mpc' = IF Head(shm) \in Filtered THEN "skip" ELSE "handle"
  /\ UNCHANGED <<shmVars, notifyVars, arb, dropVars, arbiterVars>>

\* get_event finds an event; vms_stream_fetch_dropping_filter tests it here.
get_event ==
  /\ mpc = "get" /\ shm # << >>
  /\ ev' = Head(shm) /\ last_ev_id' = Head(shm)
  /\ mpc' = IF FilterFirst /\ Head(shm) \in Filtered THEN "skip" ELSE "handle"
  /\ UNCHANGED <<shmVars, notifyVars, arb, dropVars, arbiterVars>>

\* get_event finds no event for long and asks whether the stream is ready.
get_event_none ==
  /\ mpc = "get" /\ shm = << >>
  /\ Goto("ready")
  /\ UNCHANGED <<shmVars, notifyVars, arb, dropVars, arbiterVars>>

\* generic_is_ready: is the buffer destroyed, and if so, is it empty?
is_ready_destroyed ==
  /\ mpc = "ready"
  /\ Goto(IF destroyed THEN "size" ELSE "get")
  /\ UNCHANGED <<shmVars, notifyVars, arb, dropVars, arbiterVars>>

is_ready_size ==
  /\ mpc = "size"
  /\ Goto(IF shm = << >> THEN "end" ELSE "get")
  /\ UNCHANGED <<shmVars, notifyVars, arb, dropVars, arbiterVars>>

\* Mutants: no space is kept for the event after the hole; that event is
\* reported as dropped.
send_dropped_event_Tight ==
  /\ mpc = "handle" /\ dropped_num > 0 /\ free_space >= Threshold
  /\ push_dropped_event(ev - 1)
  /\ Goto("reset")
  /\ UNCHANGED <<shmVars, dropVars, arbiterVars>>

send_dropped_event_NotifyEv ==
  /\ mpc = "handle" /\ dropped_num > 0 /\ free_space > Threshold
  /\ push_dropped_event(ev)
  /\ Goto("reset")
  /\ UNCHANGED <<shmVars, dropVars, arbiterVars>>

\* handle_dropping_event: enough space again, push the hole.
send_dropped_event ==
  /\ mpc = "handle" /\ dropped_num > 0 /\ free_space > Threshold
  /\ push_dropped_event(ev - 1)
  /\ Goto("reset")
  /\ UNCHANGED <<shmVars, dropVars, arbiterVars>>

send_dropped_reset ==
  /\ mpc = "reset"
  /\ dropped_num' = 0
  /\ Goto("forward")
  /\ UNCHANGED <<shmVars, notifyVars, arb, drop_begin_id, hole_n, arbiterVars>>

\* Mutant: the hole is not updated.
continue_dropping_NoUpdate ==
  /\ mpc = "handle" /\ dropped_num > 0 /\ free_space <= Threshold
  /\ dropped_num' = dropped_num + 1
  /\ IF (dropped_num + 1) % NotifyEvery = 0
     THEN notify_dropped(drop_begin_id, ev - 1)
     ELSE UNCHANGED notifyVars
  /\ Goto("skip")
  /\ UNCHANGED <<shmVars, arb, drop_begin_id, hole_n, arbiterVars>>

continue_dropping ==
  /\ mpc = "handle" /\ dropped_num > 0 /\ free_space <= Threshold
  /\ dropped_num' = dropped_num + 1
  /\ hole_n' = hole_n + 1
  /\ IF (dropped_num + 1) % NotifyEvery = 0
     THEN notify_dropped(drop_begin_id, ev - 1)
     ELSE UNCHANGED notifyVars
  /\ Goto("skip")
  /\ UNCHANGED <<shmVars, arb, drop_begin_id, arbiterVars>>

start_dropping ==
  /\ mpc = "handle" /\ dropped_num = 0 /\ free_space = 0
  /\ drop_begin_id' = ev
  /\ dropped_num' = 1
  /\ hole_n' = 1
  /\ Goto("skip")
  /\ UNCHANGED <<shmVars, notifyVars, arb, arbiterVars>>

\* There is space: vms_stream_fetch_dropping returns the event.
fetched ==
  /\ mpc = "handle" /\ dropped_num = 0 /\ free_space > 0
  /\ Goto("forward")
  /\ UNCHANGED <<shmVars, notifyVars, arb, dropVars, arbiterVars>>

\* write_ptr, alter and write_finish of the manager, unless the event is
\* filtered.
forward ==
  /\ mpc = "forward"
  /\ arb' = IF ~FilterFirst /\ ev \in Filtered THEN arb
            ELSE Append(arb, Event(ev))
  /\ Goto("consume")
  /\ UNCHANGED <<shmVars, notifyVars, dropVars, arbiterVars>>

\* vms_stream_consume of a dropped or filtered event inside the fetch ("skip")
\* or of a forwarded one, after which the fetch starts anew ("consume").
stream_consume ==
  /\ mpc \in {"skip", "consume"}
  /\ shm' = Tail(shm)
  /\ mpc' = "get" /\ ev' = 0
  /\ last_ev_id' = IF mpc = "skip" THEN last_ev_id ELSE 1
  /\ UNCHANGED <<next_id, destroyed, notifyVars, arb, dropVars, arbiterVars>>

\* handle_stream_end: a pending hole is pushed once there is space for it.
handle_stream_end_push ==
  /\ mpc = "end" /\ dropped_num > 0 /\ free_space > Threshold
  /\ push_dropped_event(last_ev_id - 1)
  /\ Goto("endreset")
  /\ UNCHANGED <<shmVars, dropVars, arbiterVars>>

handle_stream_end_reset ==
  /\ mpc = "endreset"
  /\ dropped_num' = 0
  /\ Goto("end")
  /\ UNCHANGED <<shmVars, notifyVars, arb, drop_begin_id, hole_n, arbiterVars>>

\* Mutant: the manager exits with a hole pending.
handle_stream_end_NoFlush ==
  /\ mpc = "end"
  /\ Goto("exited")
  /\ UNCHANGED <<shmVars, notifyVars, arb, dropVars, arbiterVars>>

handle_stream_end ==
  /\ mpc = "end" /\ dropped_num = 0
  /\ Goto("exited")
  /\ UNCHANGED <<shmVars, notifyVars, arb, dropVars, arbiterVars>>

Manager ==
  \/ get_event \/ get_event_none \/ is_ready_destroyed \/ is_ready_size
  \/ send_dropped_event \/ send_dropped_reset \/ continue_dropping
  \/ start_dropping \/ fetched \/ forward \/ stream_consume
  \/ handle_stream_end_push \/ handle_stream_end_reset \/ handle_stream_end

-----------------------------------------------------------------------------
(* The arbiter.  Its loop asks whether it is done; if not, it polls the    *)
(* buffer and consumes what it finds.                                      *)

\* The first k elements leave the buffer; id is reported as processed.
Consume(k, id) ==
  /\ apc = "poll" /\ apc' \in {"poll", "idle"}
  /\ taken' = taken \o SubSeq(arb, 1, k)
  /\ arb' = SubSeq(arb, k + 1, Len(arb))
  /\ last_processed_id' = id
  /\ UNCHANGED <<shmVars, dropped_ranges, dropped_ranges_next, mgrVars,
                 dropVars>>

\* vms_arbiter_buffer_drop: at most n elements; the index n - 1 is unsigned, so
\* n = 0 asks for everything.
drop(n) ==
  LET k == IF n = 0 \/ n > Len(arb) THEN Len(arb) ELSE n
  IN  /\ arb # << >> /\ Consume(k, arb[k].id)
      /\ UNCHANGED asked

\* vms_arbiter_buffer_drop_older_than: the elements with an id at most id, which
\* may be any number: older than the buffer (nothing is dropped or reported), in
\* it, or beyond it (everything is dropped, and id is reported all the same).
\* The hole of handle_stream_end may share its id with the event before it; the
\* search then finds either (module DropOlderThan).
OldUpTo(id) ==
  {k \in DOMAIN arb :
     /\ arb[k].id <= id
     /\ k = Len(arb) \/ arb[k + 1].id > id \/ arb[k].id = id}

drop_older_than(id) ==
  /\ \E k \in OldUpTo(id) : Consume(k, id)
  /\ asked' = IF id > arb[Len(arb)].id /\ id > asked THEN id ELSE asked

\* vms_arbiter_buffer_pop: the client reports the event itself, later or never.
pop == arb # << >> /\ Consume(1, last_processed_id) /\ UNCHANGED asked

\* vms_arbiter_buffer_peek1 finds nothing.
peek_none ==
  /\ apc = "poll" /\ arb = << >>
  /\ apc' = "idle"
  /\ UNCHANGED <<shmVars, notifyVars, mgrVars, arb, dropVars, taken, asked>>

\* One read of vms_arbiter_buffer_is_done at pc: on to next or FALSE.
Test(pc, cond, next) ==
  /\ apc = pc
  /\ apc' = IF cond THEN next ELSE "poll"
  /\ UNCHANGED <<shmVars, notifyVars, mgrVars, arb, dropVars, taken, asked>>

is_done_dropped  == Test("idle", dropped_num = 0, "size")
is_done_size     == Test("size", arb = << >>, "destroyed")
is_done_ready    == Test("destroyed", destroyed, "shm")
\* Mutant: the buffer is not checked again after the stream has ended.
is_done_shm_NoRecheck == Test("shm", shm = << >>, "done")

is_done_shm      == Test("shm", shm = << >>, "dropped2")
is_done_dropped2 == Test("dropped2", dropped_num = 0, "size2")
is_done_size2    == Test("size2", arb = << >>, "done")

IsDone ==
  \/ is_done_dropped \/ is_done_size \/ is_done_ready
  \/ is_done_shm \/ is_done_dropped2 \/ is_done_size2

Arbiter ==
  \/ \E n \in DropCounts : drop(n)
  \/ \E id \in OlderIds : drop_older_than(id)
  \/ pop \/ peek_none
  \/ IsDone

\* The whole system may stop once the arbiter knows that it is done.
Finished ==
  /\ apc = "done" /\ mpc = "exited"
  /\ UNCHANGED fetchVars

fetchNext == Source \/ Manager \/ Arbiter \/ Finished

fetchSpec == fetchInit /\ [][fetchNext]_fetchVars

\* The manager and the arbiter are threads that poll in loops.
fetchFairSpec == fetchSpec /\ WF_fetchVars(Manager) /\ WF_fetchVars(Arbiter)

-----------------------------------------------------------------------------
(* Properties.                                                             *)

Elements == [hole : BOOLEAN, id : Nat, begin : Nat, n : Nat]

\* The type of the state.
fetchTypeOK ==
  /\ shm \in Seq(1..MaxEv) /\ Len(shm) <= ShmCap
  /\ next_id \in 1..(MaxEv + 1) /\ destroyed \in BOOLEAN
  /\ last_processed_id \in Nat
  /\ dropped_ranges \in [0..(RangesNum - 1) -> [begin : Nat, end : Nat]]
  /\ dropped_ranges_next \in 0..(RangesNum - 1)
  /\ mpc \in {"get", "ready", "size", "handle", "reset", "forward", "skip",
              "consume", "end", "endreset", "exited"}
  /\ ev \in 0..MaxEv /\ last_ev_id \in Nat
  /\ arb \in Seq(Elements) /\ Len(arb) <= ArbCap
  /\ dropped_num \in Nat /\ drop_begin_id \in Nat /\ hole_n \in Nat
  /\ apc \in {"idle", "poll", "size", "destroyed", "shm", "dropped2", "size2", "done"}
  /\ taken \in Seq(Elements) /\ asked \in Nat

\* Everything that was ever written to the arbiter buffer, in order.
Log == taken \o arb

\* The events that element r of the log stands for.
Covers(r) == r.begin..(r.begin + r.n - 1)

\* The events dropped so far that no hole stands for yet.
Pending == drop_begin_id..(drop_begin_id + dropped_num - 1)

\* The events the manager is done with.
Consumed == 1..(next_id - Len(shm) - 1)

\* No event is lost or counted twice: whenever the manager is between two
\* events, each event it consumed and did not filter stands in the log as
\* itself or in exactly one hole, or is one of those still to be announced.
Accounted ==
  mpc \in {"get", "exited"} =>
    \A x \in Consumed :
      LET times == Cardinality({i \in DOMAIN Log : x \in Covers(Log[i])})
                     + (IF x \in Pending THEN 1 ELSE 0)
      IN  IF x \in Filtered THEN times <= 1 ELSE times = 1

\* The arbiter sees the events and the holes in the order of their ids.
LogOrdered ==
  \A i, j \in DOMAIN Log :
    i < j => Log[i].begin + Log[i].n <= Log[j].begin

\* What the arbiter is given is what the source pushed, with runs of dropped
\* events replaced by holes.
LogRight == Accounted /\ LogOrdered

\* The assertion of send_dropped_event, "Drop IDs are wrong": the event at
\* hand follows the dropped ones immediately.
DropIdsRight ==
  mpc = "handle" /\ dropped_num > 0 => ev = dropped_num + drop_begin_id

\* The assertion of the manager, "No space in the buffer": an event returned by
\* the fetch fits, even right after a hole was pushed before it.
SpaceForForward == mpc \in {"reset", "forward"} => free_space > 0

\* The source is never told that an event is dropped which was or will be
\* forwarded (it frees the strings of dropped events).
RangesOnlyDropped ==
  \A i \in DOMAIN dropped_ranges :
    \A x \in dropped_ranges[i].begin..dropped_ranges[i].end :
      dropped_ranges[i].end > 0 =>
        x \in Pending \/ \E j \in DOMAIN Log : Log[j].hole /\ x \in Covers(Log[j])

\* No event that is still to be read was reported as processed (its strings
\* would be freed under the reader), unless the arbiter itself asked, before the
\* event came, to drop everything up to a later id.
ProcessedNotLive ==
  LET Unreported(x) == x > last_processed_id \/ x <= asked
  IN  /\ \A i \in DOMAIN arb : arb[i].hole \/ Unreported(arb[i].id)
      /\ \A i \in DOMAIN shm : (i = 1 /\ mpc = "consume") \/ Unreported(shm[i])

\* What the source is told of its events is true.
ReportsTrue == RangesOnlyDropped /\ ProcessedNotLive

\* The assertion of vms_shm_buffer_set_last_processed_id, "The IDs are not
\* monotonic": what is reported never decreases, however drop, drop_older_than
\* and pop are mixed.  A call of drop_older_than with an id beyond the buffer
\* breaks it: the next drop reports the id of an event.
ProcessedMonotonic == [][last_processed_id' >= last_processed_id]_fetchVars

\* That is the only way to break the assertion: what is reported decreases only
\* from an id that the arbiter asked for before the event with that id came.
MonotonicUnlessAhead ==
  [][last_processed_id' >= last_processed_id \/ last_processed_id <= asked]_fetchVars

\* If is_done answers yes, nothing is left anywhere and nothing will ever be
\* written to the arbiter buffer again.
IsDoneRight ==
  apc = "done" =>
    /\ destroyed /\ shm = << >> /\ arb = << >> /\ dropped_num = 0
    /\ mpc \notin {"handle", "reset", "forward", "endreset"}

\* The last event that element r of the log stands for.
LastOf(r) == r.begin + r.n - 1

\* The hole that send_dropped_event pushes before an event has the id of the
\* last event it stands for: drop_older_than searches for that id and drop
\* reports it as processed.
HoleIdRight ==
  \A i \in DOMAIN Log :
    Log[i].hole /\ (i < Len(Log) \/ mpc \notin {"endreset", "end", "exited"}) =>
      Log[i].id = LastOf(Log[i])

\* The comment of drop_older_than, "Drop all events with ID less or equal to the
\* one of ev": nothing that is left has an id of at most id.  The hole pushed by
\* handle_stream_end breaks it, whose id is not the "upper bound" of which the
\* comment there speaks but may be that of the event before the hole.
OlderAllDropped ==
  [][\A id \in OlderIds :
       drop_older_than(id) => \A i \in DOMAIN arb' : arb'[i].id > id]_fetchVars

\* Once the source destroys its buffer, the arbiter eventually learns that
\* everything has been processed, whatever was dropped before.
EventuallyDone == destroyed ~> apc = "done"

=============================================================================
