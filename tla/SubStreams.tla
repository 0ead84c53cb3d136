---------------------------- MODULE SubStreams ----------------------------
(***************************************************************************)
(* Sub-buffers and dynamic streams (shmbuf/buffer-sub.c, core/stream.c,    *)
(* core/shamon.c).  Threads of the source create sub-buffers of its SHM    *)
(* buffer, under keys made from consecutive numbers, write to them and     *)
(* destroy them.  The monitor's loop,                                      *)
(*                                                                         *)
(*     while (shamon_is_ready(s)) shamon_get_next_ev(s, ...);              *)
(*     shamon_destroy(s);                                                  *)
(*                                                                         *)
(* learns of new sub-buffers from a counter in the main buffer, connects   *)
(* to them, starts a manager thread for each, and unlinks their files in   *)
(* the end (the source does not, as the reader may not have come yet).     *)
(*                                                                         *)
(* Stream 0 is that of the main buffer and stream k that of sub-buffer k;  *)
(* sub-buffers have none of their own.  How the managers drop events is    *)
(* the matter of StreamFetch, in which order the buffers are served that   *)
(* of RoundRobin; here any of them is, and a call may also find nothing.   *)
(***************************************************************************)
EXTENDS Integers, Sequences, FiniteSets

CONSTANTS Threads,     \* the threads of the source
          MaxSubs,     \* bound: the numbers of sub-buffers
          Events,      \* bound: Events[k] is how many events stream k has
          QueueCap,    \* capacity of the SHM and of the arbiter buffers
          KeepFree,    \* drop_space_threshold
          Tries,       \* how often vms_shm_buffer_connect tries to open
          MaxFails     \* bound: how many creations fail

ASSUME SubStreamsAssumption ==
  /\ IsFiniteSet(Threads) /\ MaxSubs \in Nat /\ Events \in [0..MaxSubs -> Nat]
  /\ QueueCap \in Nat \ {0} /\ KeepFree \in Nat
  /\ Tries \in Nat \ {0} /\ MaxFails \in Nat

VARIABLES
  \* the source
  last_subbufer_no, subbuffers_no,
  tpc, tno,        \* where a thread is, and the number it has taken
  failed,          \* the numbers whose creation failed
  \* the buffers of each stream
  file,            \* "none", "there" or "gone" (unlinked)
  written,         \* the number of events written so far
  shm, destroyed,  \* the number of events in the SHM buffer, and its flag
  \* the manager threads
  mpc, arb,        \* where it is; the elements of the arbiter buffer
  pending,         \* the dropped events that no hole stands for yet
  \* the monitor thread
  pc, at,          \* where it is, and the stream it looks at
  substreams_no, tries,
  late             \* history: the numbers being created when opening failed

ssSource == <<last_subbufer_no, subbuffers_no, tpc, tno, failed>>
ssShm == <<written, shm, destroyed>>
ssManager == <<mpc, arb, pending>>
ssMonitor == <<pc, at, substreams_no, tries, late>>
ssVars == <<ssSource, file, ssShm, ssManager, ssMonitor>>

AllSubs == 0..MaxSubs

ssInit ==
  /\ last_subbufer_no = 0 /\ subbuffers_no = 0 /\ failed = {}
  /\ tpc = [t \in Threads |-> "idle"] /\ tno = [t \in Threads |-> 0]
  /\ file = [k \in AllSubs |-> IF k = 0 THEN "there" ELSE "none"]
  /\ written = [k \in AllSubs |-> 0] /\ shm = [k \in AllSubs |-> 0]
  /\ destroyed = [k \in AllSubs |-> FALSE]
  /\ mpc = [k \in AllSubs |-> IF k = 0 THEN "get" ELSE "none"]
  /\ arb = [k \in AllSubs |-> << >>] /\ pending = [k \in AllSubs |-> 0]
  /\ pc = "destroyed" /\ at = 0 /\ substreams_no = 0 /\ tries = 0
  /\ late = {}

-----------------------------------------------------------------------------
(* The source: vms_shm_buffer_create_sub_buffer.                           *)

take_number(t) ==
  /\ tpc[t] = "idle" /\ ~destroyed[0] /\ last_subbufer_no < MaxSubs
  /\ last_subbufer_no' = last_subbufer_no + 1
  /\ tno' = [tno EXCEPT ![t] = last_subbufer_no + 1]
  /\ tpc' = [tpc EXCEPT ![t] = "create"]
  /\ UNCHANGED <<subbuffers_no, failed, file, ssShm>>

\* The control buffer cannot be created: NULL, and nothing is counted.
create_control_failed(t) ==
  /\ tpc[t] = "create" /\ Cardinality(failed) < MaxFails
  /\ failed' = failed \cup {tno[t]}
  /\ tpc' = [tpc EXCEPT ![t] = "idle"]
  /\ UNCHANGED <<last_subbufer_no, subbuffers_no, tno, file, ssShm>>

\* The control buffer and then the buffer are there, with their final names.
initialize(t) ==
  /\ tpc[t] = "create"
  /\ file' = [file EXCEPT ![tno[t]] = "there"]
  /\ tpc' = [tpc EXCEPT ![t] = "count"]
  /\ UNCHANGED <<last_subbufer_no, subbuffers_no, tno, failed, ssShm>>

\* The buffer cannot be created, which goes unnoticed.
initialize_failed(t) ==
  /\ tpc[t] = "create" /\ Cardinality(failed) < MaxFails
  /\ failed' = failed \cup {tno[t]}
  /\ tpc' = [tpc EXCEPT ![t] = "count"]
  /\ UNCHANGED <<last_subbufer_no, subbuffers_no, tno, file, ssShm>>

count_sub_buffer(t) ==
  /\ tpc[t] = "count"
  /\ subbuffers_no' = subbuffers_no + 1
  /\ tpc' = [tpc EXCEPT ![t] = "idle"]
  /\ UNCHANGED <<last_subbufer_no, tno, failed, file, ssShm>>

\* A created sub-buffer is used once the call has returned.
Usable(k) ==
  /\ file[k] # "none" /\ ~destroyed[k]
  /\ \A t \in Threads : tpc[t] = "idle" \/ tno[t] # k

push(k) ==
  /\ Usable(k) /\ written[k] < Events[k] /\ shm[k] < QueueCap
  /\ shm' = [shm EXCEPT ![k] = @ + 1]
  /\ written' = [written EXCEPT ![k] = @ + 1]
  /\ UNCHANGED <<ssSource, file, destroyed>>

destroy_sub_buffer(k) ==
  /\ k # 0 /\ Usable(k)
  /\ destroyed' = [destroyed EXCEPT ![k] = TRUE]
  /\ UNCHANGED <<ssSource, file, written, shm>>

\* The main buffer is destroyed, when no thread needs it for a creation.
destroy_main ==
  /\ Usable(0) /\ \A t \in Threads : tpc[t] = "idle"
  /\ destroyed' = [destroyed EXCEPT ![0] = TRUE]
  /\ file' = [file EXCEPT ![0] = "gone"]
  /\ UNCHANGED <<ssSource, written, shm>>

SubSource ==
  /\ \/ \E t \in Threads : take_number(t)
     \/ \E t \in Threads : create_control_failed(t)
     \/ \E t \in Threads : initialize(t)
     \/ \E t \in Threads : initialize_failed(t)
     \/ \E t \in Threads : count_sub_buffer(t)
     \/ \E k \in AllSubs : push(k)
     \/ \E k \in AllSubs : destroy_sub_buffer(k)
     \/ destroy_main
  /\ UNCHANGED <<ssManager, ssMonitor>>

-----------------------------------------------------------------------------
(* The manager of stream k.                                                *)

FreeSlots(k) == QueueCap - Len(arb[k])

manager_forward(k) ==
  /\ mpc[k] = "get" /\ shm[k] > 0 /\ pending[k] = 0 /\ FreeSlots(k) > 0
  /\ arb' = [arb EXCEPT ![k] = Append(@, "event")]
  /\ mpc' = [mpc EXCEPT ![k] = "consume"]
  /\ UNCHANGED <<shm, pending>>

manager_drop(k) ==
  /\ mpc[k] = "get" /\ shm[k] > 0
  /\ FreeSlots(k) <= (IF pending[k] = 0 THEN 0 ELSE KeepFree)
  /\ pending' = [pending EXCEPT ![k] = @ + 1]
  /\ mpc' = [mpc EXCEPT ![k] = "consume"]
  /\ UNCHANGED <<shm, arb>>

manager_consume(k) ==
  /\ mpc[k] = "consume"
  /\ shm' = [shm EXCEPT ![k] = @ - 1]
  /\ mpc' = [mpc EXCEPT ![k] = "get"]
  /\ UNCHANGED <<arb, pending>>

\* Before the next event or at the end of the stream.
manager_hole(k) ==
  /\ mpc[k] = "get" /\ pending[k] > 0 /\ FreeSlots(k) > KeepFree
  /\ shm[k] > 0 \/ destroyed[k]
  /\ arb' = [arb EXCEPT ![k] = Append(@, "hole")]
  /\ pending' = [pending EXCEPT ![k] = 0]
  /\ UNCHANGED <<shm, mpc>>

manager_exit(k) ==
  /\ mpc[k] = "get" /\ destroyed[k] /\ shm[k] = 0 /\ pending[k] = 0
  /\ mpc' = [mpc EXCEPT ![k] = "exited"]
  /\ UNCHANGED <<shm, arb, pending>>

SubManager(k) ==
  /\ \/ manager_forward(k) \/ manager_drop(k) \/ manager_consume(k)
     \/ manager_hole(k) \/ manager_exit(k)
  /\ UNCHANGED <<ssSource, file, written, destroyed, ssMonitor>>

-----------------------------------------------------------------------------
(* The monitor.                                                            *)

has_new_substreams(k) == k = 0 /\ subbuffers_no > substreams_no

\* One read of shamon_is_ready: true, or on to next.
ReadyTest(here, cond, next) ==
  /\ pc = here
  /\ pc' = IF cond THEN "create" ELSE next
  /\ UNCHANGED <<at, substreams_no, tries, late, mpc, arb, file>>

\* Mutant: the flag of the reader is asked, as funs_is_ready does.
ready_destroyed_Own == ReadyTest("destroyed", TRUE, "shm")

ready_destroyed == ReadyTest("destroyed", ~destroyed[at], "shm")
ready_shm == ReadyTest("shm", shm[at] > 0, "new")

\* Mutant: only the stream itself is asked.
ready_new_Skip == ReadyTest("new", FALSE, "arb")

ready_new == ReadyTest("new", has_new_substreams(at), "arb")

ready_arb ==
  /\ pc = "arb"
  /\ IF arb[at] # << >>
     THEN pc' = "create" /\ at' = at
     ELSE IF at < substreams_no
          THEN pc' = "destroyed" /\ at' = at + 1
          ELSE pc' = "join" /\ at' = 0
  /\ UNCHANGED <<substreams_no, tries, late, mpc, arb, file>>

\* vms_stream_create_substream, once per call of shamon_get_next_ev.
create_substream ==
  /\ pc = "create"
  /\ IF has_new_substreams(0)
     THEN /\ substreams_no' = substreams_no + 1
          /\ at' = substreams_no + 1
          /\ tries' = Tries /\ pc' = "open"
     ELSE pc' = "process" /\ UNCHANGED <<at, substreams_no, tries>>
  /\ UNCHANGED <<late, mpc, arb, file>>

\* shamon_add_stream: the manager of the new stream starts.
connect ==
  /\ pc = "open" /\ file[at] = "there"
  /\ mpc' = [mpc EXCEPT ![at] = "get"]
  /\ pc' = "process"
  /\ UNCHANGED <<at, substreams_no, tries, late, arb, file>>

\* Try again, or fail the assertion "Getting the shm buffer failed".
connect_again ==
  /\ pc = "open" /\ file[at] # "there"
  /\ tries' = tries - 1
  /\ pc' = IF tries' > 0 THEN "open" ELSE "aborted"
  /\ late' = IF tries' > 0 THEN late
             ELSE {tno[t] : t \in {u \in Threads : tpc[u] # "idle"}}
  /\ UNCHANGED <<at, substreams_no, mpc, arb, file>>

\* process_events returns something from the buffer of k, or nothing.
process_events_take(k) ==
  /\ pc = "process" /\ arb[k] # << >>
  /\ \E n \in DOMAIN arb[k] :
       arb' = [arb EXCEPT ![k] = SubSeq(@, n + 1, Len(@))]
  /\ pc' = "destroyed" /\ at' = 0
  /\ UNCHANGED <<substreams_no, tries, late, mpc, file>>

process_events_none ==
  /\ pc = "process"
  /\ pc' = "destroyed" /\ at' = 0
  /\ UNCHANGED <<substreams_no, tries, late, mpc, arb, file>>

\* shamon_destroy joins the managers in order; then it destroys the streams.
destroy_join ==
  /\ pc = "join" /\ mpc[at] = "exited"
  /\ IF at < substreams_no THEN at' = at + 1 /\ pc' = "join"
                           ELSE at' = 1 /\ pc' = "release"
  /\ UNCHANGED <<substreams_no, tries, late, mpc, arb, file>>

\* Mutant: sub-buffers are released like the main one.
release_sub_buffer_Keep ==
  /\ pc = "release"
  /\ IF at <= substreams_no
     THEN at' = at + 1 /\ UNCHANGED <<pc, file>>
     ELSE pc' = "ended" /\ UNCHANGED <<at, file>>
  /\ UNCHANGED <<substreams_no, tries, late, mpc, arb>>

\* vms_substream_destroy of each substream, then the main stream is released.
release_sub_buffer ==
  /\ pc = "release"
  /\ IF at <= substreams_no
     THEN file' = [file EXCEPT ![at] = "gone"] /\ at' = at + 1 /\ UNCHANGED pc
     ELSE pc' = "ended" /\ UNCHANGED <<at, file>>
  /\ UNCHANGED <<substreams_no, tries, late, mpc, arb>>

Take == \E k \in AllSubs : process_events_take(k)

MonitorStep ==
  \/ ready_destroyed \/ ready_shm \/ ready_new \/ ready_arb
  \/ create_substream \/ connect \/ connect_again
  \/ process_events_none \/ destroy_join \/ release_sub_buffer

NoSourceStep == UNCHANGED <<ssSource, ssShm, pending>>

SubMonitor == (MonitorStep \/ Take) /\ NoSourceStep

\* The monitor is gone; the source may go on.
monitor_gone == pc \in {"ended", "aborted"} /\ UNCHANGED ssVars

ssNext ==
  \/ SubSource
  \/ \E k \in AllSubs : SubManager(k)
  \/ SubMonitor \/ monitor_gone

ssSpec == ssInit /\ [][ssNext]_ssVars

-----------------------------------------------------------------------------
(* Properties.                                                             *)

\* Queues keep to their capacity, locations and counters have their types.
ssTypeOK ==
  /\ last_subbufer_no \in 0..MaxSubs /\ subbuffers_no \in 0..last_subbufer_no
  /\ tpc \in [Threads -> {"idle", "create", "count"}]
  /\ tno \in [Threads -> AllSubs] /\ failed \subseteq AllSubs
  /\ file \in [AllSubs -> {"none", "there", "gone"}]
  /\ written \in [AllSubs -> Nat] /\ shm \in [AllSubs -> 0..QueueCap]
  /\ destroyed \in [AllSubs -> BOOLEAN]
  /\ mpc \in [AllSubs -> {"none", "get", "consume", "exited"}]
  /\ arb \in [AllSubs -> Seq({"event", "hole"})]
  /\ \A k \in AllSubs : Len(arb[k]) <= QueueCap
  /\ pending \in [AllSubs -> Nat]
  /\ pc \in {"destroyed", "shm", "new", "arb", "create", "open", "process",
             "join", "release", "ended", "aborted"}
  /\ at \in 0..(MaxSubs + 1) /\ substreams_no \in AllSubs
  /\ tries \in 0..Tries /\ late \subseteq AllSubs

\* The assertion of vms_stream_create_substream, "Getting the shm buffer
\* failed": a sub-buffer that was counted can be opened.  (Violated: the
\* counter counts sub-buffers, and the reader takes it for their numbers.
\* A thread that is overtaken by another one, or whose creation fails, leaves
\* a number without a file.)
SubBufferFound == pc # "aborted"

\* Those are the only reasons: the sub-buffer that is missing was not created,
\* or is still being created by a thread that was overtaken.
MissingExplained == pc = "aborted" => at \in failed \cup late

Stopped == pc \in {"join", "release", "ended"}

\* When shamon_is_ready says no, the monitor has seen every event of every
\* sub-buffer the source ever created; only dropped events may be left whose
\* hole is still pending (shamon_is_ready does not look at dropped_num).
NotReadyMeansDone ==
  Stopped =>
    \A k \in AllSubs :
      file[k] # "none" =>
        /\ k <= substreams_no /\ mpc[k] # "none"
        /\ destroyed[k] /\ shm[k] = 0
        /\ \A i \in DOMAIN arb[k] : arb[k][i] = "hole"

\* shamon_destroy leaves no file of a sub-buffer behind.
NoFilesLeft == pc = "ended" => \A k \in AllSubs : file[k] # "there"

SourceDone == \A k \in AllSubs : file[k] # "none" => destroyed[k]

\* Once the source has destroyed its buffers the monitor's loop ends and
\* shamon_destroy returns: no manager is waited for in vain.
MonitorReturns ==
  SourceDone /\ destroyed[0] ~> pc \in {"ended", "aborted"}

=============================================================================
