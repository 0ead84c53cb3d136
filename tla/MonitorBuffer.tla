--------------------------- MODULE MonitorBuffer ---------------------------
(***************************************************************************)
(* The buffer between the arbiter and the monitor (core/monitor.c).  The   *)
(* arbiter writes events and finally marks the buffer as finished; the     *)
(* monitor fetches with fetch_arbiter_stream, which blocks until there is  *)
(* an event or the arbiter has finished.  The queue is the bounded FIFO    *)
(* queue that SpscRingbuf implements.                                      *)
(***************************************************************************)
EXTENDS Integers, Sequences

CONSTANTS Cap,    \* capacity of the buffer
          MaxEv   \* bound: the arbiter writes at most the events 1..MaxEv

ASSUME MonitorAssumption == Cap \in Nat \ {0} /\ MaxEv \in Nat

VARIABLES buffer,    \* the events in the buffer
          next_ev,   \* the next event the arbiter writes
          wpc,       \* the arbiter: "run", or "write" with a slot in hand
          finished,  \* the arbiter has finished
          rpc,       \* where the monitor is
          looked     \* history: next_ev when the monitor last looked for an event

monitorVars == <<buffer, next_ev, wpc, finished, rpc, looked>>

monitorInit ==
  /\ buffer = << >> /\ next_ev = 1 /\ wpc = "run" /\ finished = FALSE
  /\ rpc = "top" /\ looked = 1

-----------------------------------------------------------------------------
(* The arbiter.                                                            *)

\* Wait for a free slot.
write_ptr ==
  /\ wpc = "run" /\ ~finished /\ next_ev <= MaxEv
  /\ Len(buffer) < Cap
  /\ wpc' = "write"
  /\ UNCHANGED <<buffer, next_ev, finished, rpc, looked>>

monitor_buffer_write_finish ==
  /\ wpc = "write"
  /\ buffer' = Append(buffer, next_ev)
  /\ next_ev' = next_ev + 1
  /\ wpc' = "run"
  /\ UNCHANGED <<finished, rpc, looked>>

set_finished ==
  /\ wpc = "run" /\ ~finished
  /\ finished' = TRUE
  /\ UNCHANGED <<buffer, next_ev, wpc, rpc, looked>>

MonitorWriter == write_ptr \/ monitor_buffer_write_finish \/ set_finished

-----------------------------------------------------------------------------
(* The monitor.                                                            *)

\* Mutant: the flag is never looked at.
fetch_top_NoFlag ==
  /\ rpc = "top"
  /\ rpc' = IF buffer # << >> THEN "have" ELSE "top"
  /\ looked' = next_ev
  /\ UNCHANGED <<buffer, next_ev, wpc, finished>>

\* fetch_arbiter_stream: look for an event ...
fetch_top ==
  /\ rpc = "top"
  /\ rpc' = IF buffer # << >> THEN "have" ELSE "check"
  /\ looked' = next_ev
  /\ UNCHANGED <<buffer, next_ev, wpc, finished>>

\* ... and if there was none, return NULL if the arbiter has finished.
fetch_finished ==
  /\ rpc = "check"
  /\ rpc' = IF finished THEN "ended" ELSE "top"
  /\ UNCHANGED <<buffer, next_ev, wpc, finished, looked>>

\* Consume k of the events that were handed out.
monitor_buffer_consume(k) ==
  /\ rpc = "have" /\ k \in 1..Len(buffer)
  /\ buffer' = SubSeq(buffer, k + 1, Len(buffer))
  /\ rpc' = "top"
  /\ UNCHANGED <<next_ev, wpc, finished, looked>>

Monitor == fetch_top \/ fetch_finished \/ \E k \in 1..Cap : monitor_buffer_consume(k)

\* Both threads have stopped.
Stopped == rpc = "ended" /\ finished /\ UNCHANGED monitorVars

monitorNext == MonitorWriter \/ Monitor \/ Stopped

monitorSpec == monitorInit /\ [][monitorNext]_monitorVars

-----------------------------------------------------------------------------
\* The type of the state; the buffer holds consecutive events and never more
\* than fit.
monitorTypeOK ==
  /\ next_ev \in 1..(MaxEv + 1)
  /\ buffer \in Seq(1..MaxEv) /\ Len(buffer) <= Cap
  /\ \A i \in DOMAIN buffer : buffer[i] = next_ev - Len(buffer) + i - 1
  /\ wpc \in {"run", "write"} /\ finished \in BOOLEAN
  /\ rpc \in {"top", "check", "have", "ended"} /\ looked \in 1..next_ev

\* The comment of fetch_arbiter_stream: "block until there is some and return it
\* or return NULL if the stream ended".  When it returns NULL, there is no event.
NullMeansNoEvent == rpc = "ended" => finished /\ buffer = << >>

\* What can be left unread: events written between the last look for an event
\* and the look at the flag.  A monitor that looks once more gets them all.
UnreadIsNew ==
  rpc = "ended" => finished /\ \A i \in DOMAIN buffer : buffer[i] >= looked

\* Until it stops, the monitor empties a full buffer: an arbiter waiting in
\* vms_monitor_buffer_write_ptr gets its slot unless the monitor was told that
\* the arbiter had finished.
WriterUnblocked == Len(buffer) = Cap ~> (Len(buffer) < Cap \/ finished)

\* A finished arbiter stops the monitor.
MonitorEnds == finished ~> rpc = "ended"

\* Neither thread waits for the other one in vain.
NobodyStuck == WriterUnblocked /\ MonitorEnds

=============================================================================
