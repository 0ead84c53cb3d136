----------------------------- MODULE AuxBuffers -----------------------------
(***************************************************************************)
(* The auxiliary buffers that hold the strings of events                   *)
(* (shmbuf/buffer-aux.c, and the string pushing of shmbuf/buffer.c).  The  *)
(* source copies the string of an event into its current auxiliary buffer; *)
(* when that is full it reuses one whose events were all processed or      *)
(* dropped, or maps a new one.  What was processed and dropped it learns   *)
(* from last_processed_id and dropped_ranges in the shared control block,  *)
(* which the arbiter and the manager thread write.  dropped_ranges is      *)
(* guarded by dropped_ranges_lock.                                         *)
(*                                                                         *)
(* Every event has one string.  The manager and the arbiter are reduced to *)
(* what StreamFetch shows of them: events are forwarded or dropped in      *)
(* order, a range holds only dropped events, and events are processed in   *)
(* order (the arbiter does not call drop_older_than with an id beyond its  *)
(* buffer, see MonotonicUnlessAhead in StreamFetch).  Every step makes at  *)
(* most one access to state shared between the processes; the loads and    *)
(* stores of one process are seen in order (TSO).                          *)
(***************************************************************************)
EXTENDS Integers, Sequences

CONSTANTS MaxEv,      \* bound: the source writes the events 1..MaxEv
          Sizes,      \* the sizes of strings
          Page, Hdr,  \* the page size and sizeof(struct aux_buffer)
          RangesNum   \* DROPPED_RANGES_NUM

ASSUME AuxBuffersAssumption ==
  /\ MaxEv \in Nat /\ RangesNum \in Nat \ {0}
  /\ Sizes \subseteq Nat \ {0}
  /\ Page \in Nat \ {0} /\ Hdr \in 0..Page

VARIABLES
  \* the source
  aux_buffers,  \* the auxiliary buffers
  age,          \* aux_buffers_age: their indices
  cur,          \* cur_aux_buff: an index, or 0
  wpc,          \* where the source is
  want,         \* the size of the string at hand
  pos,          \* cur in writer_get_aux_buffer: a position in age
  ri, rbegin, rend,  \* in ab_was_dropped: the range and what was read of it
  refs,         \* the reference to the string of event i
  pushed,       \* the events 1..pushed are in the SHM buffer
  \* the shared control block
  last_processed_id, dropped_ranges, dropped_ranges_next,
  dropped_ranges_lock,
  \* the manager and the arbiter
  mpc,          \* where the manager is
  range,        \* the arguments of notify_dropped
  handled,      \* the manager is done with the events 1..handled
  drop_begin_id,  \* the first of the events being dropped, or 0
  arb           \* the events and holes the arbiter has not processed

bufVars == <<aux_buffers, age, cur, refs>>
scanVars == <<want, pos, ri, rbegin, rend>>
srcVars == <<bufVars, scanVars, wpc, pushed>>
rangeVars == <<dropped_ranges, dropped_ranges_next>>
mgrVars == <<mpc, range, handled, drop_begin_id>>
vars == <<srcVars, last_processed_id, rangeVars, dropped_ranges_lock, mgrVars, arb>>

\* The id that no event has: ~(0LL).
NoId == MaxEv + 1

Ranges == 0..(RangesNum - 1)

Init ==
  /\ aux_buffers = << >> /\ age = << >> /\ cur = 0 /\ refs = << >>
  /\ wpc = "idle" /\ want = 0 /\ pos = 1 /\ ri = 0 /\ rbegin = 0 /\ rend = 0
  /\ pushed = 0
  /\ last_processed_id = 0
  /\ dropped_ranges = [i \in Ranges |-> [begin |-> 0, end |-> 0]]
  /\ dropped_ranges_next = 0 /\ dropped_ranges_lock = FALSE
  /\ mpc = "run" /\ range = [begin |-> 0, end |-> 0]
  /\ handled = 0 /\ drop_begin_id = 0
  /\ arb = << >>

-----------------------------------------------------------------------------
(* The lock.  It repeats the compare-and-exchange while that succeeds, so  *)
(* the loop is left when the lock is found taken, by whomever.  pcnow and  *)
(* pcnext are the caller's program counter.                                *)

drop_ranges_lock(pc, inside, pcnow, pcnext) ==
  /\ pcnow = pc
  /\ dropped_ranges_lock' = TRUE
  /\ pcnext = IF dropped_ranges_lock THEN inside ELSE pc

drop_ranges_unlock == dropped_ranges_lock' = FALSE

-----------------------------------------------------------------------------
(* The source.                                                             *)

\* The event whose string is pushed.
evid == pushed + 1

aux_buffer_free_space(ab) == ab.size - ab.head

\* new_aux_buffer rounds up to pages.
NewSize(size) == (((size + Hdr) \div Page) + 2) * Page - Hdr

\* The string of the event is copied into buffer i of abs.
Place(i, abs) ==
  LET ab == abs[i]
  IN  /\ aux_buffers' =
           [abs EXCEPT ![i] =
              [ab EXCEPT
                 !.data = [o \in DOMAIN ab.data |->
                             IF o \in ab.head..(ab.head + want' - 1)
                             THEN evid ELSE ab.data[o]],
                 !.head = ab.head + want',
                 !.first = IF ab.first = 0 THEN evid ELSE ab.first,
                 !.last = evid]]
      /\ cur' = i
      /\ refs' = Append(refs, [idx |-> i, off |-> ab.head, len |-> want'])
      /\ wpc' = "finish"

\* buffer_push_strn: the current buffer is used if the string fits.
buffer_push_strn(size) ==
  /\ wpc = "idle" /\ pushed < MaxEv
  /\ want' = size
  /\ IF cur = 0 \/ aux_buffer_free_space(aux_buffers[cur]) < size
     THEN wpc' = "scan" /\ pos' = 1 /\ UNCHANGED bufVars
     ELSE Place(cur, aux_buffers) /\ UNCHANGED <<age, pos>>
  /\ UNCHANGED <<ri, rbegin, rend, pushed>>

\* Mutant: the buffer is taken once its first event is processed.
scan_First ==
  /\ wpc = "scan" /\ pos <= Len(age)
  /\ wpc' = IF aux_buffers[age[pos]].first <= last_processed_id
            THEN "reset" ELSE "lock"
  /\ UNCHANGED <<bufVars, scanVars, pushed>>

\* writer_get_aux_buffer, for the buffer at pos: are its events processed?
scan ==
  /\ wpc = "scan" /\ pos <= Len(age)
  /\ wpc' = IF aux_buffers[age[pos]].last <= last_processed_id
            THEN "reset" ELSE "lock"
  /\ UNCHANGED <<bufVars, scanVars, pushed>>

\* ab_was_dropped.
was_dropped_lock ==
  /\ drop_ranges_lock("lock", "end0", wpc, wpc')
  /\ ri' = 0
  /\ UNCHANGED <<bufVars, want, pos, rbegin, rend, pushed>>

\* Leave range ri for the next one, or the loop.
NextRange ==
  IF ri + 1 = RangesNum
  THEN wpc' = "unlock" /\ UNCHANGED ri
  ELSE wpc' = "end0" /\ ri' = ri + 1

was_dropped_end0 ==
  /\ wpc = "end0"
  /\ rend' = dropped_ranges[ri].end
  /\ IF rend' = 0 THEN NextRange ELSE wpc' = "begin" /\ UNCHANGED ri
  /\ UNCHANGED <<bufVars, want, pos, rbegin, pushed>>

was_dropped_begin ==
  /\ wpc = "begin"
  /\ rbegin' = dropped_ranges[ri].begin
  /\ wpc' = "end"
  /\ UNCHANGED <<bufVars, want, pos, ri, rend, pushed>>

\* The end is read again, or the compiler kept it.
was_dropped_end ==
  LET ab == aux_buffers[age[pos]]
  IN  /\ wpc = "end"
      /\ rend' \in {rend, dropped_ranges[ri].end}
      /\ IF rbegin <= ab.first /\ rend' >= ab.last
         THEN wpc' = "dropped" /\ UNCHANGED ri
         ELSE NextRange
      /\ UNCHANGED <<bufVars, want, pos, rbegin, pushed>>

was_dropped_unlock ==
  /\ wpc \in {"unlock", "dropped"}
  /\ drop_ranges_unlock
  /\ wpc' = IF wpc = "dropped" THEN "reset" ELSE "take"
  /\ UNCHANGED <<bufVars, scanVars, pushed>>

\* The buffer may be used again from its start.
reset ==
  /\ wpc = "reset"
  /\ aux_buffers' =
       [aux_buffers EXCEPT ![age[pos]] =
          [@ EXCEPT !.reusable = TRUE, !.head = 0, !.first = 0, !.last = NoId]]
  /\ wpc' = "take"
  /\ UNCHANGED <<age, cur, refs, scanVars, pushed>>

\* vms_list_remove and vms_list_append_elem.
MoveToEnd(s, i) == SubSeq(s, 1, i - 1) \o SubSeq(s, i + 1, Len(s)) \o <<s[i]>>

\* Mutant: the search does not go on to the next buffer.
take_Stuck ==
  LET i  == age[pos]
      ok == aux_buffers[i].reusable /\ aux_buffers[i].size >= want
  IN  /\ wpc = "take"
      /\ UNCHANGED want
      /\ IF ok
         THEN /\ Place(i, [aux_buffers EXCEPT ![i].reusable = FALSE])
              /\ age' = MoveToEnd(age, pos)
              /\ UNCHANGED pos
         ELSE wpc' = "scan" /\ UNCHANGED <<bufVars, pos>>
      /\ UNCHANGED <<ri, rbegin, rend, pushed>>

\* Use the buffer at pos if it is reusable and large enough.
take ==
  LET i  == age[pos]
      ok == aux_buffers[i].reusable /\ aux_buffers[i].size >= want
  IN  /\ wpc = "take"
      /\ UNCHANGED want
      /\ IF ok
         THEN /\ Place(i, [aux_buffers EXCEPT ![i].reusable = FALSE])
              /\ age' = MoveToEnd(age, pos)
              /\ UNCHANGED pos
         ELSE /\ wpc' = "scan" /\ pos' = pos + 1
              /\ UNCHANGED bufVars
      /\ UNCHANGED <<ri, rbegin, rend, pushed>>

\* No buffer can be reused.  The memory is this source's own, as for one source on
\* a machine: its key /aux.N has only the number of the buffer in this source.
new_aux_buffer ==
  /\ wpc = "scan" /\ pos > Len(age)
  /\ UNCHANGED want
  /\ Place(Len(aux_buffers) + 1,
           Append(aux_buffers,
                  [size |-> NewSize(want), head |-> 0, first |-> 0,
                   last |-> NoId, reusable |-> FALSE,
                   data |-> [o \in 0..(NewSize(want) - 1) |-> 0]]))
  /\ age' = Append(age, Len(aux_buffers) + 1)
  /\ UNCHANGED <<pos, ri, rbegin, rend, pushed>>

\* The event becomes visible to the manager.
finish_push ==
  /\ wpc = "finish"
  /\ pushed' = pushed + 1
  /\ wpc' = "idle"
  /\ UNCHANGED <<bufVars, scanVars>>

Source ==
  /\ \/ \E size \in Sizes : buffer_push_strn(size)
     \/ scan \/ was_dropped_end0 \/ was_dropped_begin \/ was_dropped_end
     \/ reset \/ take \/ new_aux_buffer \/ finish_push
  /\ UNCHANGED dropped_ranges_lock

LockingSource == was_dropped_lock \/ was_dropped_unlock

-----------------------------------------------------------------------------
(* The manager: events are forwarded or dropped; the dropped ones are      *)
(* reported, at the latest when a hole is pushed for them.                 *)

forward ==
  /\ mpc = "run" /\ handled < pushed /\ drop_begin_id = 0
  /\ handled' = handled + 1
  /\ arb' = Append(arb, [hole |-> FALSE, id |-> handled + 1])
  /\ UNCHANGED <<mpc, range, drop_begin_id, rangeVars, dropped_ranges_lock>>

\* start_dropping and continue_dropping, which reports now and then.
drop_event(report) ==
  /\ mpc = "run" /\ handled < pushed
  /\ handled' = handled + 1
  /\ drop_begin_id' = IF drop_begin_id = 0 THEN handled + 1 ELSE drop_begin_id
  /\ IF report /\ drop_begin_id > 0
     THEN mpc' = "notify" /\ range' = [begin |-> drop_begin_id, end |-> handled]
     ELSE UNCHANGED <<mpc, range>>
  /\ UNCHANGED <<arb, rangeVars, dropped_ranges_lock>>

push_dropped_event ==
  /\ mpc = "run" /\ drop_begin_id > 0
  /\ arb' = Append(arb, [hole |-> TRUE, id |-> handled])
  /\ range' = [begin |-> drop_begin_id, end |-> handled]
  /\ drop_begin_id' = 0
  /\ mpc' = "notify"
  /\ UNCHANGED <<handled, rangeVars, dropped_ranges_lock>>

\* vms_shm_buffer_notify_dropped: extend the current range or take the next
\* one; only the manager writes them.
notify_dropped ==
  LET i == dropped_ranges_next
      r == dropped_ranges[i]
  IN  /\ mpc = "notify"
      /\ IF r.begin = range.begin \/ (r.begin > 0 /\ r.end = r.begin - 1)
         THEN mpc' = "lockend" /\ UNCHANGED dropped_ranges_next
         ELSE /\ mpc' = "lock"
              /\ dropped_ranges_next' = IF i + 1 = RangesNum THEN 0 ELSE i + 1
      /\ UNCHANGED <<range, handled, drop_begin_id, arb, dropped_ranges,
                     dropped_ranges_lock>>

notify_lock ==
  /\ \/ drop_ranges_lock("lock", "begin", mpc, mpc')
     \/ drop_ranges_lock("lockend", "end", mpc, mpc')
  /\ UNCHANGED <<range, handled, drop_begin_id, arb, rangeVars>>

notify_begin ==
  /\ mpc = "begin"
  /\ dropped_ranges' = [dropped_ranges EXCEPT ![dropped_ranges_next].begin = range.begin]
  /\ mpc' = "end"
  /\ UNCHANGED <<range, handled, drop_begin_id, arb, dropped_ranges_next,
                 dropped_ranges_lock>>

notify_end ==
  /\ mpc = "end"
  /\ dropped_ranges' = [dropped_ranges EXCEPT ![dropped_ranges_next].end = range.end]
  /\ mpc' = "unlock"
  /\ UNCHANGED <<range, handled, drop_begin_id, arb, dropped_ranges_next,
                 dropped_ranges_lock>>

notify_unlock ==
  /\ mpc = "unlock"
  /\ drop_ranges_unlock
  /\ mpc' = "run"
  /\ UNCHANGED <<range, handled, drop_begin_id, arb, rangeVars>>

Manager ==
  \/ forward \/ \E report \in BOOLEAN : drop_event(report)
  \/ push_dropped_event
  \/ notify_dropped \/ notify_lock \/ notify_begin \/ notify_end
  \/ notify_unlock

\* The arbiter has used the oldest event, strings included, and reports it.  This
\* is an obligation of the client: default_process_events drops and so reports an
\* event before it returns it to the monitor.
set_last_processed_id ==
  /\ arb # << >>
  /\ last_processed_id' = Head(arb).id
  /\ arb' = Tail(arb)

SourceStep ==
  /\ Source \/ LockingSource
  /\ UNCHANGED <<last_processed_id, rangeVars, mgrVars, arb>>

ManagerStep == Manager /\ UNCHANGED <<srcVars, last_processed_id>>

ArbiterStep ==
  /\ set_last_processed_id
  /\ UNCHANGED <<srcVars, rangeVars, dropped_ranges_lock, mgrVars>>

\* The bound is reached and every event is processed.
Finished ==
  /\ wpc = "idle" /\ pushed = MaxEv
  /\ mpc = "run" /\ handled = MaxEv /\ drop_begin_id = 0 /\ arb = << >>
  /\ UNCHANGED vars

Next == SourceStep \/ ManagerStep \/ ArbiterStep \/ Finished

Spec == Init /\ [][Next]_vars

-----------------------------------------------------------------------------
(* Properties.                                                             *)

\* The type of the state.
TypeOK ==
  /\ \A i \in DOMAIN aux_buffers :
       LET ab == aux_buffers[i]
       IN  /\ ab.head \in 0..ab.size
           /\ ab.first \in 0..MaxEv /\ ab.last \in 1..NoId
           /\ ab.data \in [0..(ab.size - 1) -> 0..MaxEv]
  /\ cur \in 0..Len(aux_buffers)
  /\ wpc \in {"idle", "scan", "lock", "end0", "begin", "end", "unlock",
              "dropped", "reset", "take", "finish"}
  /\ pos \in 1..(Len(age) + 1) /\ ri \in Ranges
  /\ Len(refs) \in {pushed, pushed + 1} /\ pushed \in 0..MaxEv
  /\ last_processed_id \in 0..MaxEv /\ dropped_ranges_next \in Ranges
  /\ mpc \in {"run", "notify", "lock", "lockend", "begin", "end", "unlock"}
  /\ handled \in 0..pushed /\ drop_begin_id \in 0..handled

\* The events whose strings someone may still read: not yet handled by the
\* manager, or forwarded and not yet processed.
Needed ==
  {id \in DOMAIN refs : id > handled}
    \cup {arb[i].id : i \in {j \in DOMAIN arb : ~arb[j].hole}}

\* The string of every event that may still be read is intact: no auxiliary
\* buffer is reused under its readers, whatever the source believes of the
\* progress of the others.
StringsIntact ==
  \A id \in Needed :
    LET r == refs[id]
    IN  \A o \in r.off..(r.off + r.len - 1) : aux_buffers[r.idx].data[o] = id

\* A push returns: neither the lock nor the search holds the source for ever.
PushReturns == wpc = "scan" ~> wpc = "idle"

=============================================================================
