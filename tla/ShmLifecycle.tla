---------------------------- MODULE ShmLifecycle ----------------------------
(***************************************************************************)
(* How a source and a reader find each other (shmbuf/buffer.c,             *)
(* buffer-control.c, shm.c, client.c).  A source creates two files in the  *)
(* SHM directory, the control buffer and the buffer, each under a          *)
(* temporary name that is renamed when the file is complete, and waits     *)
(* until a reader has connected, registered the events it wants and set    *)
(* READER_IS_READY.  It destroys the buffer by setting a flag and          *)
(* unlinking both names; a later source may use the same key again.  A     *)
(* source may crash, a call of the system fail, a reader leave or die.     *)
(*                                                                         *)
(* Files are named by the generation of the source that created them, so   *)
(* that an unlinked file lives on for those who mapped it.  A step is one  *)
(* call on the directory or one access to a shared file.                   *)
(***************************************************************************)
EXTENDS Integers

CONSTANTS MaxGen,    \* bound: how often a source is started
          MaxQuits,  \* bound: how often the reader leaves on its own or cannot
                     \* read the info
          Retries    \* how often try_connect tries again

ASSUME ShmLifecycleAssumption ==
  MaxGen \in Nat /\ MaxQuits \in Nat /\ Retries \in Nat

VARIABLES
  dir,     \* the file under each name
  info,    \* the info of the buffer of each generation
  ctl,     \* the control buffer of each generation
  gen,     \* the generation of the source
  spc,     \* where the source is
  crashed, \* history: some source has crashed
  rpc,     \* where the reader is
  retry,   \* the attempts left in try_connect
  rbuf,    \* the buffer the reader has opened
  rctl,    \* the control buffer the reader has opened
  quits    \* how often the reader has left

fileVars == <<info, ctl>>
lifeSrcVars == <<gen, spc, crashed>>
rdrVars == <<rpc, retry, rbuf, rctl, quits>>
lifeVars == <<dir, fileVars, lifeSrcVars, rdrVars>>

Names == {"key", "key.tmp", "ctrl", "ctrl.tmp"}
Gens == 1..MaxGen

NoFile == 0

\* The control buffer without content that a reader has created.
Empty == MaxGen + 1

lifeInit ==
  /\ dir = [n \in Names |-> NoFile]
  /\ info = [g \in Gens |-> [allocated |-> FALSE, destroyed |-> FALSE,
                             registered |-> FALSE, ready |-> FALSE]]
  /\ ctl = [g \in Gens |-> [written |-> FALSE, kinds |-> FALSE]]
  /\ gen = 0 /\ spc = "off" /\ crashed = FALSE
  /\ rpc = "off" /\ retry = 0 /\ rbuf = NoFile /\ rctl = NoFile /\ quits = 0

\* shm.c: open with O_CREAT a name for file f, rename, unlink.
vms_shm_create(n, f) == dir' = [dir EXCEPT ![n] = f]
vms_shm_rename(old, new) ==
  dir' = [dir EXCEPT ![new] = dir[old], ![old] = NoFile]
vms_shm_unlink(n) == dir' = [dir EXCEPT ![n] = NoFile]

SrcGoto(pc) == spc' = pc /\ UNCHANGED <<gen, crashed>>
RdrGoto(pc) == rpc' = pc /\ UNCHANGED <<retry, rbuf, rctl, quits>>

-----------------------------------------------------------------------------
(* The source: vms_shm_buffer_create.                                      *)

create_shared_control_buffer ==
  /\ spc = "off" /\ gen < MaxGen
  /\ gen' = gen + 1 /\ spc' = "map_ctrl"
  /\ vms_shm_create("ctrl.tmp", gen + 1)
  /\ UNCHANGED <<fileVars, crashed>>

write_control ==
  /\ spc = "map_ctrl"
  /\ ctl' = [ctl EXCEPT ![gen].written = TRUE]
  /\ SrcGoto("rename_ctrl")
  /\ UNCHANGED <<dir, info>>

\* Mutant: a control buffer that exists is not replaced.
rename_control_Keep ==
  /\ spc = "rename_ctrl"
  /\ IF dir["ctrl"] = NoFile
     THEN vms_shm_rename("ctrl.tmp", "ctrl") ELSE UNCHANGED dir
  /\ SrcGoto("open")
  /\ UNCHANGED fileVars

rename_control ==
  /\ spc = "rename_ctrl"
  /\ vms_shm_rename("ctrl.tmp", "ctrl")
  /\ SrcGoto("open")
  /\ UNCHANGED fileVars

\* Mutant: the file has its name before it is initialised.
vms_shm_buffer_initialize_NoTmp ==
  /\ spc = "open"
  /\ vms_shm_create("key", gen)
  /\ SrcGoto("map")
  /\ UNCHANGED fileVars

vms_shm_buffer_initialize ==
  /\ spc = "open"
  /\ vms_shm_create("key.tmp", gen)
  /\ SrcGoto("map")
  /\ UNCHANGED fileVars

write_info ==
  /\ spc = "map"
  /\ info' = [info EXCEPT ![gen].allocated = TRUE]
  /\ SrcGoto("rename")
  /\ UNCHANGED <<dir, ctl>>

rename_buffer ==
  /\ spc = "rename"
  /\ vms_shm_rename("key.tmp", "key")
  /\ SrcGoto("wait")
  /\ UNCHANGED fileVars

\* mmap or rename fails: the name that the code unlinks, which is not the
\* temporary one if the control buffer cannot be mapped.
Unlinked(pc) ==
  CASE pc = "map_ctrl"    -> "ctrl"
    [] pc = "rename_ctrl" -> "ctrl.tmp"
    [] pc = "map"         -> "key.tmp"
    [] pc = "rename"      -> "key.tmp"

create_failed ==
  /\ spc \in {"map_ctrl", "rename_ctrl", "map", "rename"}
  /\ vms_shm_unlink(Unlinked(spc))
  /\ SrcGoto("off")
  /\ UNCHANGED fileVars

\* vms_shm_buffer_wait_for_reader: look at the flag; if it is not set, return
\* an error when interrupted or when a signal handler has set destroyed.
wait_ready ==
  /\ spc = "wait"
  /\ SrcGoto(IF info[gen].ready THEN "settle" ELSE "sleep")
  /\ UNCHANGED <<dir, fileVars>>

wait_sleep ==
  /\ spc = "sleep"
  /\ SrcGoto(IF info[gen].destroyed THEN "failed" ELSE "wait")
  /\ UNCHANGED <<dir, fileVars>>

\* A reader was found: one more sleep.
wait_settle ==
  /\ spc = "settle"
  /\ SrcGoto("run")
  /\ UNCHANGED <<dir, fileVars>>

wait_interrupted ==
  /\ spc \in {"sleep", "settle"}
  /\ SrcGoto("failed")
  /\ UNCHANGED <<dir, fileVars>>

\* vms_shm_buffer_set_destroyed, from a signal handler.
set_destroyed ==
  /\ spc \in {"wait", "sleep", "settle", "run"}
  /\ info' = [info EXCEPT ![gen].destroyed = TRUE]
  /\ UNCHANGED <<dir, ctl, lifeSrcVars>>

\* vms_shm_buffer_destroy.
destroy ==
  /\ spc \in {"run", "failed"}
  /\ info' = [info EXCEPT ![gen].destroyed = TRUE]
  /\ SrcGoto("unlink")
  /\ UNCHANGED <<dir, ctl>>

destroy_unlink ==
  /\ spc = "unlink"
  /\ vms_shm_unlink("key")
  /\ SrcGoto("unlink_ctrl")
  /\ UNCHANGED fileVars

destroy_shared_control_buffer ==
  /\ spc = "unlink_ctrl"
  /\ vms_shm_unlink("ctrl")
  /\ SrcGoto("off")
  /\ UNCHANGED fileVars

\* The source ends without any of this, or a call fails whose error path does
\* not clean up.
crash ==
  /\ spc # "off"
  /\ spc' = "off" /\ crashed' = TRUE
  /\ UNCHANGED <<dir, fileVars, gen>>

Create ==
  \/ create_shared_control_buffer \/ write_control \/ rename_control
  \/ vms_shm_buffer_initialize \/ write_info \/ rename_buffer \/ create_failed

Wait == wait_ready \/ wait_sleep \/ wait_settle \/ wait_interrupted

Destroy ==
  \/ set_destroyed \/ destroy \/ destroy_unlink
  \/ destroy_shared_control_buffer \/ crash

LifeSource == (Create \/ Wait \/ Destroy) /\ UNCHANGED rdrVars

-----------------------------------------------------------------------------
(* The reader: vms_shm_buffer_try_connect.                                 *)

try_connect ==
  /\ rpc = "off"
  /\ rpc' = "open" /\ retry' = Retries + 1
  /\ rbuf' = NoFile /\ rctl' = NoFile
  /\ UNCHANGED <<dir, fileVars, quits>>

open_buffer ==
  /\ rpc = "open" /\ dir["key"] # NoFile
  /\ rbuf' = dir["key"] /\ rpc' = "pread"
  /\ UNCHANGED <<dir, fileVars, retry, rctl, quits>>

open_again ==
  /\ rpc = "open" /\ dir["key"] = NoFile
  /\ retry' = retry - 1
  /\ rpc' = IF retry' > 0 THEN "open" ELSE "off"
  /\ UNCHANGED <<dir, fileVars, rbuf, rctl, quits>>

\* Read the info and map the buffer.
map_buffer ==
  /\ rpc = "pread"
  /\ RdrGoto(IF info[rbuf].allocated THEN "open_ctrl" ELSE "off")
  /\ UNCHANGED <<dir, fileVars>>

\* get_shared_control_buffer opens with O_CREAT.
open_control ==
  /\ rpc = "open_ctrl"
  /\ IF dir["ctrl"] = NoFile
     THEN vms_shm_create("ctrl", Empty) /\ rctl' = Empty
     ELSE rctl' = dir["ctrl"] /\ UNCHANGED dir
  /\ rpc' = "map_ctrl"
  /\ UNCHANGED <<fileVars, retry, rbuf, quits>>

\* Read the size and map.  Reading from an empty file succeeds and leaves the
\* size uninitialised, so that mapping may succeed all the same.
map_control ==
  /\ rpc = "map_ctrl"
  /\ RdrGoto("connected")
  /\ UNCHANGED <<dir, fileVars>>

\* Only after a failure of mmap is the name unlinked.
map_control_failed ==
  /\ rpc = "map_ctrl"
  /\ vms_shm_unlink("ctrl") \/ UNCHANGED dir
  /\ RdrGoto("clean")
  /\ UNCHANGED fileVars

map_buffer_failed ==
  /\ rpc = "pread" /\ info[rbuf].allocated
  /\ RdrGoto("clean")
  /\ UNCHANGED <<dir, fileVars>>

\* Reading the info fails: there is no clean-up.
read_failed ==
  /\ rpc = "pread" /\ quits < MaxQuits
  /\ rpc' = "off" /\ quits' = quits + 1
  /\ UNCHANGED <<dir, fileVars, retry, rbuf, rctl>>

\* The clean-up of try_connect unlinks the key, whoever owns it by now.
clean ==
  /\ rpc = "clean"
  /\ vms_shm_unlink("key")
  /\ RdrGoto("off")
  /\ UNCHANGED fileVars

\* vms_shm_buffer_register_all_events: access to the control buffer is fatal
\* if that is empty; the flag is set before the kinds.
register_all_events ==
  /\ rpc = "connected"
  /\ IF rctl = Empty
     THEN RdrGoto("off") /\ UNCHANGED info
     ELSE /\ info' = [info EXCEPT ![rbuf].registered = TRUE]
          /\ RdrGoto("kinds")
  /\ UNCHANGED <<dir, ctl>>

register_kinds ==
  /\ rpc = "kinds"
  /\ ctl' = [ctl EXCEPT ![rctl].kinds = TRUE]
  /\ RdrGoto("attach")
  /\ UNCHANGED <<dir, info>>

\* vms_shm_buffer_set_reader_is_ready, when the arbiter buffer is activated.
set_reader_is_ready ==
  /\ rpc = "attach"
  /\ RdrGoto(IF info[rbuf].destroyed THEN "attached" ELSE "set_ready")
  /\ UNCHANGED <<dir, fileVars>>

set_flag ==
  /\ rpc = "set_ready"
  /\ info' = [info EXCEPT ![rbuf].ready = TRUE]
  /\ RdrGoto("attached")
  /\ UNCHANGED <<dir, ctl>>

\* Mutant: the reader looks at its own flag, as funs_is_ready does.
detach_OwnFlag ==
  /\ rpc = "attached" /\ ~info[rbuf].ready
  /\ info' = [info EXCEPT ![rbuf].ready = FALSE]
  /\ RdrGoto("off")
  /\ UNCHANGED <<dir, ctl>>

\* The stream has ended: detach and release.
detach ==
  /\ rpc = "attached" /\ info[rbuf].destroyed
  /\ info' = [info EXCEPT ![rbuf].ready = FALSE]
  /\ RdrGoto("off")
  /\ UNCHANGED <<dir, ctl>>

\* The reader polls its buffer, for ever if the source has crashed.
poll ==
  /\ rpc = "attached"
  /\ UNCHANGED <<dir, fileVars, rdrVars>>

\* The reader detaches although the source is there, or dies.
quit ==
  /\ rpc = "attached" /\ quits < MaxQuits
  /\ \/ info' = [info EXCEPT ![rbuf].ready = FALSE]
     \/ UNCHANGED info
  /\ rpc' = "off" /\ quits' = quits + 1
  /\ UNCHANGED <<dir, ctl, retry, rbuf, rctl>>

Connect ==
  \/ try_connect \/ open_buffer \/ open_again \/ map_buffer \/ open_control
  \/ map_control \/ clean \/ register_all_events \/ register_kinds
  \/ set_reader_is_ready \/ set_flag \/ detach

Other == map_control_failed \/ map_buffer_failed \/ read_failed \/ poll \/ quit

Reader == (Connect \/ Other) /\ UNCHANGED lifeSrcVars

lifeNext == LifeSource \/ Reader

lifeSpec == lifeInit /\ [][lifeNext]_lifeVars

-----------------------------------------------------------------------------
(* Properties.                                                             *)

\* Files, flags and locations have their types.
lifeTypeOK ==
  /\ dir \in [Names -> 0..Empty]
  /\ info \in [Gens -> [allocated : BOOLEAN, destroyed : BOOLEAN,
                        registered : BOOLEAN, ready : BOOLEAN]]
  /\ ctl \in [Gens -> [written : BOOLEAN, kinds : BOOLEAN]]
  /\ gen \in 0..MaxGen /\ crashed \in BOOLEAN
  /\ spc \in {"off", "map_ctrl", "rename_ctrl", "open", "map", "rename", "wait",
              "sleep", "settle", "run", "failed", "unlink", "unlink_ctrl"}
  /\ (spc # "off" => gen > 0)
  /\ rpc \in {"off", "open", "pread", "open_ctrl", "map_ctrl", "clean",
              "connected", "kinds", "attach", "set_ready", "attached"}
  /\ retry \in 0..(Retries + 1) /\ rbuf \in 0..MaxGen /\ rctl \in 0..Empty
  /\ quits \in 0..MaxQuits

\* The comment in _vms_shm_buffer_initialize: no reader opens the SHM file and
\* reads from it before it is initialised, whatever crashed before.
OpenedInitialised ==
  /\ rbuf # NoFile => info[rbuf].allocated
  /\ rctl \in Gens => ctl[rctl].written

\* When wait_for_reader has returned successfully the kinds of the events are in
\* the control buffer of this very source, whichever files of other sources and
\* readers are around.
ReadyMeansKinds == spc = "run" => ctl[gen].kinds

\* The comment in _vms_shm_buffer_initialize applied to the control buffer: what
\* the reader maps is initialised.
ControlInitialised ==
  rpc \in {"connected", "kinds", "attach", "set_ready", "attached"} =>
    rctl \in Gens /\ ctl[rctl].written

Waiting == spc \in {"wait", "sleep"}

\* wait_for_reader "waits until a reader connects": as long as both files are in
\* place and no source has crashed, a reader that keeps trying is found.
WaitEnds ==
  [](~crashed) =>
    (Waiting ~> (~Waiting \/ dir["key"] # gen \/ dir["ctrl"] # gen))

=============================================================================
