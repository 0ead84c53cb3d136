---------------------------- MODULE RoundRobin ----------------------------
(***************************************************************************)
(* The default way a monitor gets its events: shamon_get_next_ev calls     *)
(* default_process_events (core/shamon.c), which takes the next element    *)
(* from the arbiter buffers in turn.  The turn is a static variable, kept  *)
(* between calls "so that some stream does not starve".  From a buffer     *)
(* that is nearly full half the buffer is taken at once, and one summary   *)
(* event is returned for it.                                               *)
(*                                                                         *)
(* The elements of a buffer are numbered in the order in which the manager *)
(* thread wrote them, modulo Numbers.  A summary event carries the id of   *)
(* the first element it stands for and nothing else: neither how many they *)
(* are nor that it is a summary (its kind and its payload are those of the *)
(* event that was returned before).                                        *)
(***************************************************************************)
EXTENDS Integers, Sequences

CONSTANTS MaxStreams,   \* the number of streams that are added at most
          BufCap,       \* capacity of the arbiter buffers
          Numbers       \* bound: elements are numbered modulo this

\* The elements the vector of arbiter buffers has room for when it is first
\* allocated.  One more and vector-aligned.c moves it and loses its contents
\* (Vectors), so that shamon serves ten streams at most.
FirstAlloc == 10

ASSUME RoundRobinAssumption ==
  /\ MaxStreams \in 1..FirstAlloc
  /\ BufCap \in Nat /\ BufCap >= 3
  /\ Numbers \in Nat /\ Numbers > BufCap

VARIABLES
  size,     \* the number of streams (and of arbiter buffers)
  buffer,   \* buffer[s]: the elements in the arbiter buffer of s
  pushed,   \* pushed[s]: the number of the next element of s
  active,   \* active[s]: the flag of the arbiter buffer
  turn,     \* the static variable i
  call,     \* where the monitor thread is: "none", "loop" or "returned"
  ret,      \* what was returned: the stream and the first number
  took,     \* history: how many elements the returned event stands for
  got,      \* history: got[s]: the number of the next element of s to get
  passed    \* history: passed[s][t]: how often t was served while s had
            \* something and was not served

rrHistory == <<took, got, passed>>
rrVars == <<size, buffer, pushed, active, turn, call, ret, rrHistory>>

AllStreams == 0..(MaxStreams - 1)
Streams == 0..(size - 1)

rrInit ==
  /\ size = 1 /\ active = [s \in AllStreams |-> s = 0]
  /\ buffer = [s \in AllStreams |-> << >>]
  /\ pushed = [s \in AllStreams |-> 0]
  /\ turn = 0 /\ call = "none" /\ ret = [s |-> 0, first |-> 0] /\ took = 0
  /\ got = [s \in AllStreams |-> 0]
  /\ passed = [s \in AllStreams |-> [t \in AllStreams |-> 0]]

-----------------------------------------------------------------------------
\* The manager thread of s writes an element.
ManagerPush(s) ==
  /\ s \in Streams /\ Len(buffer[s]) < BufCap
  /\ buffer' = [buffer EXCEPT ![s] = Append(@, pushed[s])]
  /\ pushed' = [pushed EXCEPT ![s] = (@ + 1) % Numbers]
  /\ UNCHANGED <<size, active, turn, call, ret, rrHistory>>

\* Some thread calls vms_arbiter_buffer_set_active.
set_active(s, val) ==
  /\ s \in Streams
  /\ active' = [active EXCEPT ![s] = val]
  /\ UNCHANGED <<size, buffer, pushed, turn, call, ret, rrHistory>>

-----------------------------------------------------------------------------
(* The monitor thread.                                                     *)

\* shamon_add_stream: a new buffer at the end of the vector, made active.
add_stream ==
  /\ call = "none" /\ size < MaxStreams
  /\ size' = size + 1
  /\ active' = [active EXCEPT ![size] = TRUE]
  /\ UNCHANGED <<buffer, pushed, turn, call, ret, rrHistory>>

\* Mutant: the turn is not kept between calls.
process_events_Restart ==
  /\ call = "none"
  /\ turn' = 0
  /\ call' = "loop"
  /\ UNCHANGED <<size, buffer, pushed, active, ret, rrHistory>>

\* default_process_events is called.
process_events ==
  /\ call = "none"
  /\ turn' = IF turn >= size THEN 0 ELSE turn
  /\ call' = "loop"
  /\ UNCHANGED <<size, buffer, pushed, active, ret, rrHistory>>

\* The loop goes round without advancing while the buffer is inactive.
spin ==
  /\ call = "loop" /\ turn < size /\ ~active[turn]
  /\ UNCHANGED rrVars

\* Mutant: the turn is not advanced.
peek_empty_Stay ==
  /\ call = "loop" /\ turn < size /\ active[turn]
  /\ buffer[turn] = << >>
  /\ UNCHANGED rrVars

\* Nothing in this buffer.
peek_empty ==
  /\ call = "loop" /\ turn < size /\ active[turn]
  /\ buffer[turn] = << >>
  /\ turn' = turn + 1
  /\ UNCHANGED <<size, buffer, pushed, active, call, ret, rrHistory>>

\* Who is passed over when s is served: every stream with something in its
\* buffer.
Served(s) ==
  [t \in AllStreams |->
     IF t = s \/ buffer[t] = << >> THEN [u \in AllStreams |-> 0]
     ELSE [passed[t] EXCEPT ![s] = @ + 1]]

\* Mutant: the id is read after the drop.
TakeFirst_LateId(k) ==
  /\ buffer' = [buffer EXCEPT ![turn] = SubSeq(@, k + 1, Len(@))]
  /\ ret' = [s |-> turn, first |-> Head(buffer[turn]) + k] /\ took' = k
  /\ passed' = Served(turn)
  /\ turn' = turn + 1
  /\ call' = "returned"
  /\ UNCHANGED <<size, pushed, active, got>>

\* The first k elements of the buffer are taken and returned as one.
TakeFirst(k) ==
  /\ buffer' = [buffer EXCEPT ![turn] = SubSeq(@, k + 1, Len(@))]
  /\ ret' = [s |-> turn, first |-> Head(buffer[turn])] /\ took' = k
  /\ passed' = Served(turn)
  /\ turn' = turn + 1
  /\ call' = "returned"
  /\ UNCHANGED <<size, pushed, active, got>>

\* More than 0.8 of the capacity.
NearlyFull(qsize) == 10 * qsize > 8 * BufCap

\* peek1 returns the number of elements the reader's cache knows of, any number
\* up to that in the buffer.
drop_half(qsize) ==
  /\ call = "loop" /\ turn < size /\ active[turn]
  /\ qsize \in 1..Len(buffer[turn]) /\ NearlyFull(qsize)
  /\ TakeFirst(BufCap \div 2)

copy_one(qsize) ==
  /\ call = "loop" /\ turn < size /\ active[turn]
  /\ qsize \in 1..Len(buffer[turn]) /\ ~NearlyFull(qsize)
  /\ TakeFirst(1)

\* The end of the vector: NULL.
return_null ==
  /\ call = "loop" /\ turn >= size
  /\ call' = "none"
  /\ UNCHANGED <<size, buffer, pushed, active, turn, ret, rrHistory>>

\* The monitor handles what was returned and calls again.
handle_event ==
  /\ call = "returned"
  /\ got' = [got EXCEPT ![ret.s] = (@ + took) % Numbers]
  /\ call' = "none"
  /\ UNCHANGED <<size, buffer, pushed, active, turn, ret, took, passed>>

Loop ==
  \/ process_events \/ peek_empty \/ return_null \/ handle_event
  \/ \E k \in 1..BufCap : drop_half(k)
  \/ \E k \in 1..BufCap : copy_one(k)

rrNext ==
  \/ \E s \in AllStreams : ManagerPush(s)
  \/ \E s \in AllStreams, val \in BOOLEAN : set_active(s, val)
  \/ add_stream \/ spin \/ Loop

rrSpec == rrInit /\ [][rrNext]_rrVars

-----------------------------------------------------------------------------
\* The buffers keep to their capacity and the turn is at most one past the end.
rrTypeOK ==
  /\ size \in 1..MaxStreams /\ turn \in 0..size
  /\ buffer \in [AllStreams -> Seq(0..(Numbers - 1))]
  /\ \A s \in AllStreams : Len(buffer[s]) <= (IF s \in Streams THEN BufCap ELSE 0)
  /\ pushed \in [AllStreams -> 0..(Numbers - 1)]
  /\ active \in [AllStreams -> BOOLEAN]
  /\ call \in {"none", "loop", "returned"}
  /\ ret \in [s : AllStreams, first : 0..(Numbers - 1)] /\ took \in 0..BufCap
  /\ got \in [AllStreams -> 0..(Numbers - 1)]
  /\ passed \in [AllStreams -> [AllStreams -> Nat]]

\* Every element of every stream is returned once and in order, alone or in a
\* summary that says where it begins.
NothingSkipped == call = "returned" => ret.first = got[ret.s]

\* No stream is served twice while another one has something and waits,
\* whatever streams were added meanwhile.
FairTurns == \A s, t \in AllStreams : passed[s][t] <= 1

\* Once all buffers stay active, every stream with something in its buffer is
\* served: no call hangs and no stream starves.  (A buffer that stays inactive
\* hangs the call that reaches it.)
NoStarvation ==
  <>[](\A s \in Streams : active[s]) =>
    \A s \in AllStreams :
      buffer[s] # << >> ~> call = "returned" /\ ret.s = s

=============================================================================
