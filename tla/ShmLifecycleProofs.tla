------------------------- MODULE ShmLifecycleProofs -------------------------
(***************************************************************************)
(* What a source and a reader rely on when they find each other, proved    *)
(* for any number of sources started under one key, of readers that leave  *)
(* and of attempts to connect, with every crash and every failed call the  *)
(* model has.                                                              *)
(***************************************************************************)
EXTENDS ShmLifecycle, TLAPS

\* Where the source is once its control buffer has its name.
Renamed == {"open", "map", "rename", "wait", "sleep", "settle", "run", "failed",
            "unlink", "unlink_ctrl"}

\* No file is newer than the source, and a temporary name belongs to the source
\* that is working on it.
FilesKnown ==
  /\ dir["key"] <= gen /\ dir["key.tmp"] <= gen /\ dir["ctrl.tmp"] <= gen
  /\ dir["ctrl"] # Empty => dir["ctrl"] <= gen
  /\ rbuf <= gen /\ (rctl # Empty => rctl <= gen)
  /\ spc \in {"map_ctrl", "rename_ctrl"} => dir["ctrl.tmp"] = gen
  /\ spc \in {"map", "rename"} => dir["key.tmp"] = gen

\* A file that has its final name, or that the reader has opened, is complete.
FilesComplete ==
  /\ spc = "rename_ctrl" => ctl[gen].written
  /\ spc = "rename" => info[gen].allocated
  /\ dir["key"] # NoFile => info[dir["key"]].allocated
  /\ dir["ctrl"] \in Gens => ctl[dir["ctrl"]].written
  /\ rbuf # NoFile => info[rbuf].allocated
  /\ rctl \in Gens => ctl[rctl].written

\* What the reader has opened at each of its locations.
ReaderInv ==
  /\ rpc = "open" => retry > 0
  /\ rpc \in {"open", "pread", "open_ctrl"} => rctl = NoFile
  /\ rpc \notin {"off", "open"} => rbuf # NoFile
  /\ rpc \in {"map_ctrl", "connected"} => rctl # NoFile
  /\ rpc \in {"kinds", "attach", "set_ready", "attached"} => rctl \in Gens
  /\ rpc \in {"attach", "set_ready", "attached"} => ctl[rctl].kinds

\* Once the buffer of the present source can be opened, the control buffer that a
\* reader finds is the one of the same source or has no content.
SameSource ==
  /\ spc \in Renamed => dir["ctrl"] \in {NoFile, Empty, gen}
  /\ gen > 0 /\ dir["key"] = gen => dir["ctrl"] \in {NoFile, Empty, gen}
  /\ gen > 0 /\ rbuf = gen => /\ dir["ctrl"] \in {NoFile, Empty, gen}
                              /\ rctl \in {NoFile, Empty, gen}

\* A flag of the present source that says ready is there only with its kinds, and
\* a source that is to come has no flag set.
ReadyInv ==
  /\ \A g \in Gens : g > gen => ~info[g].ready
  /\ gen > 0 /\ info[gen].ready => ctl[gen].kinds
  /\ spc \in {"settle", "run"} => ctl[gen].kinds

IInv ==
  lifeTypeOK /\ FilesKnown /\ FilesComplete /\ ReaderInv /\ SameSource /\ ReadyInv

-----------------------------------------------------------------------------
(* Every step preserves the invariant.                                     *)

\* The source: creating the two files.
LEMMA CreateStep ==
  ASSUME IInv, Create, UNCHANGED rdrVars
  PROVE  IInv'
  <1>. USE ShmLifecycleAssumption 
      DEF Gens, Names, NoFile, Empty, SrcGoto, fileVars, rdrVars, lifeSrcVars
  <1>1. CASE create_shared_control_buffer
    BY <1>1
    DEF create_shared_control_buffer, vms_shm_create, IInv, lifeTypeOK, FilesKnown,
        FilesComplete, ReaderInv, SameSource, ReadyInv, Renamed
  <1>2. CASE write_control
    <2>. USE <1>2 DEF write_control
    <2>1. lifeTypeOK'
      BY DEF IInv, lifeTypeOK, ReaderInv
    <2>2. (FilesKnown /\ FilesComplete)'
      BY SMTT(30) DEF IInv, lifeTypeOK, FilesKnown, FilesComplete, ReaderInv, SameSource,
             ReadyInv, Renamed
    <2>3. (ReaderInv /\ SameSource)'
      BY SMTT(30) DEF IInv, lifeTypeOK, FilesKnown, FilesComplete, ReaderInv, SameSource,
             ReadyInv, Renamed
    <2>4. ReadyInv'
      BY DEF IInv, lifeTypeOK, FilesKnown, FilesComplete, ReaderInv, SameSource,
             ReadyInv, Renamed
    <2>. QED BY <2>1, <2>2, <2>3, <2>4 DEF IInv
  <1>3. CASE rename_control
    BY <1>3
    DEF rename_control, vms_shm_rename, IInv, lifeTypeOK, FilesKnown,
        FilesComplete, ReaderInv, SameSource, ReadyInv, Renamed
  <1>4. CASE vms_shm_buffer_initialize
    BY <1>4
    DEF vms_shm_buffer_initialize, vms_shm_create, IInv, lifeTypeOK, FilesKnown,
        FilesComplete, ReaderInv, SameSource, ReadyInv, Renamed
  <1>5. CASE write_info
    <2>. USE <1>5 DEF write_info
    <2>1. lifeTypeOK'
      BY DEF IInv, lifeTypeOK, ReaderInv
    <2>2. (FilesKnown /\ FilesComplete)'
      BY SMTT(30) DEF IInv, lifeTypeOK, FilesKnown, FilesComplete, ReaderInv, SameSource,
             ReadyInv, Renamed
    <2>3. (ReaderInv /\ SameSource)'
      BY DEF IInv, lifeTypeOK, FilesKnown, FilesComplete, ReaderInv, SameSource,
             ReadyInv, Renamed
    <2>4. ReadyInv'
      BY DEF IInv, lifeTypeOK, FilesKnown, FilesComplete, ReaderInv, SameSource,
             ReadyInv, Renamed
    <2>. QED BY <2>1, <2>2, <2>3, <2>4 DEF IInv
  <1>6. CASE rename_buffer
    <2>. USE <1>6 DEF rename_buffer, vms_shm_rename
    <2>1. lifeTypeOK'
      BY DEF IInv, lifeTypeOK, ReaderInv
    <2>2. (FilesKnown /\ FilesComplete)'
      <3>1. FilesKnown'
        BY SMTT(30) DEF IInv, lifeTypeOK, FilesKnown, Renamed
      <3>2. FilesComplete'
        BY DEF IInv, lifeTypeOK, FilesKnown, FilesComplete, Renamed
      <3>. QED BY <3>1, <3>2
    <2>3. (ReaderInv /\ SameSource)'
      BY DEF IInv, lifeTypeOK, FilesKnown, FilesComplete, ReaderInv, SameSource,
             ReadyInv, Renamed
    <2>4. ReadyInv'
      BY DEF IInv, lifeTypeOK, FilesKnown, FilesComplete, ReaderInv, SameSource,
             ReadyInv, Renamed
    <2>. QED BY <2>1, <2>2, <2>3, <2>4 DEF IInv
  <1>7. CASE create_failed
    <2>. USE <1>7 DEF create_failed, vms_shm_unlink, Unlinked
    <2>1. lifeTypeOK'
      BY SMTT(30) DEF IInv, lifeTypeOK, ReaderInv
    <2>2. (FilesKnown /\ FilesComplete)'
      BY SMTT(30) DEF IInv, lifeTypeOK, FilesKnown, FilesComplete, ReaderInv, SameSource,
             ReadyInv, Renamed
    <2>3. (ReaderInv /\ SameSource)'
      BY SMTT(30) DEF IInv, lifeTypeOK, FilesKnown, FilesComplete, ReaderInv, SameSource,
             ReadyInv, Renamed
    <2>4. ReadyInv'
      BY DEF IInv, lifeTypeOK, FilesKnown, FilesComplete, ReaderInv, SameSource,
             ReadyInv, Renamed
    <2>. QED BY <2>1, <2>2, <2>3, <2>4 DEF IInv
  <1>. QED BY <1>1, <1>2, <1>3, <1>4, <1>5, <1>6, <1>7 DEF Create

\* The source: waiting for the reader.
LEMMA WaitStep ==
  ASSUME IInv, Wait, UNCHANGED rdrVars
  PROVE  IInv'
  <1>. USE ShmLifecycleAssumption 
      DEF Gens, Names, NoFile, Empty, SrcGoto, fileVars, rdrVars, lifeSrcVars
  <1>1. CASE wait_ready
    BY <1>1
    DEF wait_ready, IInv, lifeTypeOK, FilesKnown, FilesComplete, ReaderInv,
        SameSource, ReadyInv, Renamed
  <1>2. CASE wait_sleep
    BY <1>2
    DEF wait_sleep, IInv, lifeTypeOK, FilesKnown, FilesComplete, ReaderInv,
        SameSource, ReadyInv, Renamed
  <1>3. CASE wait_settle
    BY <1>3
    DEF wait_settle, IInv, lifeTypeOK, FilesKnown, FilesComplete, ReaderInv,
        SameSource, ReadyInv, Renamed
  <1>4. CASE wait_interrupted
    BY <1>4
    DEF wait_interrupted, IInv, lifeTypeOK, FilesKnown, FilesComplete, ReaderInv,
        SameSource, ReadyInv, Renamed
  <1>. QED BY <1>1, <1>2, <1>3, <1>4 DEF Wait

\* The source: destroying the buffer, or crashing.
LEMMA DestroyStep ==
  ASSUME IInv, Destroy, UNCHANGED rdrVars
  PROVE  IInv'
  <1>. USE ShmLifecycleAssumption 
      DEF Gens, Names, NoFile, Empty, SrcGoto, fileVars, rdrVars, lifeSrcVars
  <1>1. CASE set_destroyed
    <2>. USE <1>1 DEF set_destroyed
    <2>1. lifeTypeOK'
      BY DEF IInv, lifeTypeOK, ReaderInv
    <2>2. (FilesKnown /\ FilesComplete)'
      BY SMTT(30) DEF IInv, lifeTypeOK, FilesKnown, FilesComplete, ReaderInv, SameSource,
             ReadyInv, Renamed
    <2>3. (ReaderInv /\ SameSource)'
      BY DEF IInv, lifeTypeOK, FilesKnown, FilesComplete, ReaderInv, SameSource,
             ReadyInv, Renamed
    <2>4. ReadyInv'
      BY DEF IInv, lifeTypeOK, FilesKnown, FilesComplete, ReaderInv, SameSource,
             ReadyInv, Renamed
    <2>. QED BY <2>1, <2>2, <2>3, <2>4 DEF IInv
  <1>2. CASE destroy
    <2>. USE <1>2 DEF destroy
    <2>1. lifeTypeOK'
      BY DEF IInv, lifeTypeOK, ReaderInv
    <2>2. (FilesKnown /\ FilesComplete)'
      BY SMTT(30) DEF IInv, lifeTypeOK, FilesKnown, FilesComplete, ReaderInv, SameSource,
             ReadyInv, Renamed
    <2>3. (ReaderInv /\ SameSource)'
      BY DEF IInv, lifeTypeOK, FilesKnown, FilesComplete, ReaderInv, SameSource,
             ReadyInv, Renamed
    <2>4. ReadyInv'
      BY DEF IInv, lifeTypeOK, FilesKnown, FilesComplete, ReaderInv, SameSource,
             ReadyInv, Renamed
    <2>. QED BY <2>1, <2>2, <2>3, <2>4 DEF IInv
  <1>3. CASE destroy_unlink
    BY <1>3
    DEF destroy_unlink, vms_shm_unlink, IInv, lifeTypeOK, FilesKnown,
        FilesComplete, ReaderInv, SameSource, ReadyInv, Renamed
  <1>4. CASE destroy_shared_control_buffer
    BY <1>4
    DEF destroy_shared_control_buffer, vms_shm_unlink, IInv, lifeTypeOK,
        FilesKnown, FilesComplete, ReaderInv, SameSource, ReadyInv, Renamed
  <1>5. CASE crash
    BY <1>5
    DEF crash, IInv, lifeTypeOK, FilesKnown, FilesComplete, ReaderInv, SameSource,
        ReadyInv, Renamed
  <1>. QED BY <1>1, <1>2, <1>3, <1>4, <1>5 DEF Destroy

\* The reader: connecting, registering and detaching.
LEMMA ConnectStep ==
  ASSUME IInv, Connect, UNCHANGED lifeSrcVars
  PROVE  IInv'
  <1>. USE ShmLifecycleAssumption 
      DEF Gens, Names, NoFile, Empty, RdrGoto, fileVars, rdrVars, lifeSrcVars
  <1>1. CASE try_connect
    BY <1>1
    DEF try_connect, IInv, lifeTypeOK, FilesKnown, FilesComplete, ReaderInv,
        SameSource, ReadyInv, Renamed
  <1>2. CASE open_buffer
    BY <1>2
    DEF open_buffer, IInv, lifeTypeOK, FilesKnown, FilesComplete, ReaderInv,
        SameSource, ReadyInv, Renamed
  <1>3. CASE open_again
    BY <1>3
    DEF open_again, IInv, lifeTypeOK, FilesKnown, FilesComplete, ReaderInv,
        SameSource, ReadyInv, Renamed
  <1>4. CASE map_buffer
    BY <1>4
    DEF map_buffer, IInv, lifeTypeOK, FilesKnown, FilesComplete, ReaderInv,
        SameSource, ReadyInv, Renamed
  <1>5. CASE open_control
    BY <1>5
    DEF open_control, vms_shm_create, IInv, lifeTypeOK, FilesKnown, FilesComplete,
        ReaderInv, SameSource, ReadyInv, Renamed
  <1>6. CASE map_control
    BY <1>6
    DEF map_control, IInv, lifeTypeOK, FilesKnown, FilesComplete, ReaderInv,
        SameSource, ReadyInv, Renamed
  <1>7. CASE clean
    BY <1>7
    DEF clean, vms_shm_unlink, IInv, lifeTypeOK, FilesKnown, FilesComplete,
        ReaderInv, SameSource, ReadyInv, Renamed
  <1>8. CASE register_all_events
    <2>1. CASE rctl = Empty
      BY <1>8, <2>1, SMTT(30) DEF register_all_events, IInv, lifeTypeOK, FilesKnown,
                        FilesComplete, ReaderInv, SameSource, ReadyInv, Renamed
    <2>2. CASE rctl # Empty
      <3>. /\ info' = [info EXCEPT ![rbuf].registered = TRUE]
           /\ rpc = "connected" /\ rpc' = "kinds" /\ rctl \in Gens
           /\ UNCHANGED <<dir, ctl, gen, spc, crashed, retry, rbuf, rctl, quits>>
        BY <1>8, <2>2, SMTT(30) DEF register_all_events, IInv, lifeTypeOK, ReaderInv
      <3>1. lifeTypeOK'
        BY DEF IInv, lifeTypeOK, ReaderInv
      <3>2. (FilesKnown /\ FilesComplete)'
        BY DEF IInv, lifeTypeOK, FilesKnown, FilesComplete, ReaderInv, SameSource,
               ReadyInv, Renamed
      <3>3. (ReaderInv /\ SameSource)'
        BY DEF IInv, lifeTypeOK, FilesKnown, FilesComplete, ReaderInv, SameSource,
               ReadyInv, Renamed
      <3>4. ReadyInv'
        BY SMTT(30) DEF IInv, lifeTypeOK, FilesKnown, FilesComplete, ReaderInv, SameSource,
               ReadyInv, Renamed
      <3>. QED BY <3>1, <3>2, <3>3, <3>4 DEF IInv
    <2>. QED BY <2>1, <2>2
  <1>9. CASE register_kinds
    <2>. USE <1>9 DEF register_kinds
    <2>1. lifeTypeOK'
      BY DEF IInv, lifeTypeOK, ReaderInv
    <2>2. (FilesKnown /\ FilesComplete)'
      BY DEF IInv, lifeTypeOK, FilesKnown, FilesComplete, ReaderInv, SameSource,
             ReadyInv, Renamed
    <2>3. (ReaderInv /\ SameSource)'
      BY DEF IInv, lifeTypeOK, FilesKnown, FilesComplete, ReaderInv, SameSource,
             ReadyInv, Renamed
    <2>4. ReadyInv'
      BY SMTT(30) DEF IInv, lifeTypeOK, FilesKnown, FilesComplete, ReaderInv, SameSource,
             ReadyInv, Renamed
    <2>. QED BY <2>1, <2>2, <2>3, <2>4 DEF IInv
  <1>10. CASE set_reader_is_ready
    BY <1>10
    DEF set_reader_is_ready, IInv, lifeTypeOK, FilesKnown, FilesComplete,
        ReaderInv, SameSource, ReadyInv, Renamed
  <1>11. CASE set_flag
    <2>. USE <1>11 DEF set_flag
    <2>1. lifeTypeOK'
      BY DEF IInv, lifeTypeOK, ReaderInv
    <2>2. (FilesKnown /\ FilesComplete)'
      BY SMTT(30) DEF IInv, lifeTypeOK, FilesKnown, FilesComplete, ReaderInv, SameSource,
             ReadyInv, Renamed
    <2>3. (ReaderInv /\ SameSource)'
      BY DEF IInv, lifeTypeOK, FilesKnown, FilesComplete, ReaderInv, SameSource,
             ReadyInv, Renamed
    <2>4. ReadyInv'
      BY SMTT(30) DEF IInv, lifeTypeOK, FilesKnown, FilesComplete, ReaderInv, SameSource,
             ReadyInv, Renamed
    <2>. QED BY <2>1, <2>2, <2>3, <2>4 DEF IInv
  <1>12. CASE detach
    <2>. USE <1>12 DEF detach
    <2>1. lifeTypeOK'
      BY DEF IInv, lifeTypeOK, ReaderInv
    <2>2. (FilesKnown /\ FilesComplete)'
      BY SMTT(30) DEF IInv, lifeTypeOK, FilesKnown, FilesComplete, ReaderInv, SameSource,
             ReadyInv, Renamed
    <2>3. (ReaderInv /\ SameSource)'
      BY DEF IInv, lifeTypeOK, FilesKnown, FilesComplete, ReaderInv, SameSource,
             ReadyInv, Renamed
    <2>4. ReadyInv'
      BY SMTT(30) DEF IInv, lifeTypeOK, FilesKnown, FilesComplete, ReaderInv, SameSource,
             ReadyInv, Renamed
    <2>. QED BY <2>1, <2>2, <2>3, <2>4 DEF IInv
  <1>. QED BY <1>1, <1>2, <1>3, <1>4, <1>5, <1>6, <1>7, <1>8, <1>9,
         <1>10, <1>11, <1>12 DEF Connect

\* The reader: what may go wrong for a reader.
LEMMA OtherStep ==
  ASSUME IInv, Other, UNCHANGED lifeSrcVars
  PROVE  IInv'
  <1>. USE ShmLifecycleAssumption 
      DEF Gens, Names, NoFile, Empty, RdrGoto, fileVars, rdrVars, lifeSrcVars
  <1>1. CASE map_control_failed
    BY <1>1
    DEF map_control_failed, vms_shm_unlink, IInv, lifeTypeOK, FilesKnown,
        FilesComplete, ReaderInv, SameSource, ReadyInv, Renamed
  <1>2. CASE map_buffer_failed
    BY <1>2
    DEF map_buffer_failed, IInv, lifeTypeOK, FilesKnown, FilesComplete, ReaderInv,
        SameSource, ReadyInv, Renamed
  <1>3. CASE read_failed
    BY <1>3
    DEF read_failed, IInv, lifeTypeOK, FilesKnown, FilesComplete, ReaderInv,
        SameSource, ReadyInv, Renamed
  <1>4. CASE poll
    BY <1>4
    DEF poll, IInv, lifeTypeOK, FilesKnown, FilesComplete, ReaderInv, SameSource,
        ReadyInv, Renamed
  <1>5. CASE quit
    <2>1. CASE UNCHANGED info
      BY <1>5, <2>1, SMTT(30) DEF quit, IInv, lifeTypeOK, FilesKnown, FilesComplete,
                        ReaderInv, SameSource, ReadyInv, Renamed
    <2>2. CASE info' = [info EXCEPT ![rbuf].ready = FALSE]
      <3>. /\ rpc = "attached" /\ rpc' = "off" /\ quits' \in 0..MaxQuits
           /\ UNCHANGED <<dir, ctl, gen, spc, crashed, retry, rbuf, rctl>>
        BY <1>5, <2>2, SMTT(30) DEF quit, IInv, lifeTypeOK
      <3>1. lifeTypeOK'
        BY <2>2 DEF IInv, lifeTypeOK, ReaderInv
      <3>2. (FilesKnown /\ FilesComplete)'
        BY <2>2, SMTT(30) DEF IInv, lifeTypeOK, FilesKnown, FilesComplete, ReaderInv,
                    SameSource, ReadyInv, Renamed
      <3>3. (ReaderInv /\ SameSource)'
        BY <2>2 DEF IInv, lifeTypeOK, FilesKnown, FilesComplete, ReaderInv,
                    SameSource, ReadyInv, Renamed
      <3>4. ReadyInv'
        BY <2>2, SMTT(30) DEF IInv, lifeTypeOK, FilesKnown, FilesComplete, ReaderInv,
                    SameSource, ReadyInv, Renamed
      <3>. QED BY <3>1, <3>2, <3>3, <3>4 DEF IInv
    <2>. QED BY <1>5, <2>1, <2>2 DEF quit
  <1>. QED BY <1>1, <1>2, <1>3, <1>4, <1>5 DEF Other

\* The initial state satisfies the invariant.
LEMMA InitInv == lifeInit => IInv
  <1>. SUFFICES ASSUME lifeInit PROVE IInv
    OBVIOUS
  <1>. USE ShmLifecycleAssumption DEF lifeInit, Gens, Names, NoFile, Empty
  <1>1. lifeTypeOK
    <2>1. info \in [Gens -> [allocated : BOOLEAN, destroyed : BOOLEAN,
                             registered : BOOLEAN, ready : BOOLEAN]]
      OBVIOUS
    <2>2. ctl \in [Gens -> [written : BOOLEAN, kinds : BOOLEAN]]
      OBVIOUS
    <2>3. /\ dir \in [Names -> 0..Empty] /\ gen \in 0..MaxGen
          /\ retry \in 0..(Retries + 1) /\ rbuf \in 0..MaxGen
          /\ rctl \in 0..Empty /\ quits \in 0..MaxQuits
      OBVIOUS
    <2>4. /\ crashed \in BOOLEAN /\ spc = "off" /\ rpc = "off"
      OBVIOUS
    <2>. HIDE DEF lifeInit
    <2>. QED BY <2>1, <2>2, <2>3, <2>4 DEF lifeTypeOK
  <1>2. FilesKnown /\ FilesComplete
    BY DEF FilesKnown, FilesComplete
  <1>3. ReaderInv /\ SameSource /\ ReadyInv
    BY DEF ReaderInv, SameSource, ReadyInv, Renamed
  <1>. QED BY <1>1, <1>2, <1>3 DEF IInv

\* So does every state after it.
LEMMA NextInv == IInv /\ [lifeNext]_lifeVars => IInv'
  <1>. SUFFICES ASSUME IInv, [lifeNext]_lifeVars PROVE IInv'
    OBVIOUS
  <1>1. CASE LifeSource
    BY <1>1, CreateStep, WaitStep, DestroyStep DEF LifeSource
  <1>2. CASE Reader
    BY <1>2, ConnectStep, OtherStep DEF Reader
  <1>3. CASE UNCHANGED lifeVars
    BY <1>3 DEF lifeVars, fileVars, lifeSrcVars, rdrVars, IInv, lifeTypeOK, FilesKnown,
                FilesComplete, ReaderInv, SameSource, ReadyInv
  <1>. QED BY <1>1, <1>2, <1>3 DEF lifeNext

\* The invariant always holds.
LEMMA InvAlways == lifeSpec => []IInv
  BY InitInv, NextInv, PTL DEF lifeSpec

-----------------------------------------------------------------------------
(* The properties.                                                         *)

\* Files, flags and locations have their types; in particular the reader never
\* holds a file that no source has made.
THEOREM LifecycleTypeCorrect == lifeSpec => []lifeTypeOK
  <1>1. IInv => lifeTypeOK
    BY DEF IInv
  <1>. QED BY <1>1, InvAlways, PTL

\* No reader reads from a buffer, or from a control buffer with content, that its
\* source has not initialised: the temporary name of _vms_shm_buffer_initialize
\* and the rename are enough, however often sources crash between them.
THEOREM AlwaysOpenedInitialised == lifeSpec => []OpenedInitialised
  <1>1. IInv => OpenedInitialised
    BY DEF IInv, FilesComplete, OpenedInitialised
  <1>. QED BY <1>1, InvAlways, PTL

\* When vms_shm_buffer_wait_for_reader returns successfully, the reader has written
\* the kinds into the control buffer of this very source.
THEOREM ReadyAlwaysMeansKinds == lifeSpec => []ReadyMeansKinds
  <1>1. IInv => ReadyMeansKinds
    BY DEF IInv, ReadyInv, ReadyMeansKinds
  <1>. QED BY <1>1, InvAlways, PTL

-----------------------------------------------------------------------------
(* Without O_CREAT.                                                        *)

\* No reader's open creates the control buffer.
NothingCreated == open_control => dir["ctrl"] # NoFile

\* Then no control buffer is empty.
NoneEmpty == dir["ctrl"] # Empty /\ rctl # Empty

\* Every step keeps it so: what is renamed to the control buffer is a source's.
LEMMA NoneEmptyStays ==
  ASSUME IInv, NoneEmpty, [lifeNext]_lifeVars, [NothingCreated]_lifeVars
  PROVE  NoneEmpty'
  <1>1. dir \in [Names -> 0..Empty] /\ gen \in 0..MaxGen /\ MaxGen \in Nat
    BY ShmLifecycleAssumption DEF IInv, lifeTypeOK
  <1>2. /\ "ctrl" \in Names /\ "ctrl.tmp" \in Names /\ NoFile # Empty
        /\ dir["ctrl.tmp"] # Empty
    <2>1. dir["ctrl.tmp"] <= gen /\ "ctrl" \in Names /\ "ctrl.tmp" \in Names
      BY DEF IInv, FilesKnown, Names
    <2>2. dir["ctrl.tmp"] \in 0..Empty
      BY <1>1, <2>1
    <2>. QED BY <1>1, <2>1, <2>2 DEF NoFile, Empty
  <1>3. CASE LifeSource
    <2>1. rctl' = rctl
      BY <1>3 DEF LifeSource, rdrVars
    <2>2. \/ dir' = dir
          \/ \E n \in Names : dir' = [dir EXCEPT ![n] = NoFile]
          \/ \E n \in {"ctrl.tmp", "key.tmp"}, f \in 0..Empty : dir' = [dir EXCEPT ![n] = f]
          \/ \E old \in {"ctrl.tmp", "key.tmp"}, new \in Names :
               /\ dir' = [dir EXCEPT ![new] = dir[old], ![old] = NoFile]
               /\ new = "ctrl" => old = "ctrl.tmp"
      <3>1. CASE Create
        BY <1>1, <3>1
        DEF Create, create_shared_control_buffer, write_control, rename_control,
            vms_shm_buffer_initialize, write_info, rename_buffer, create_failed, Unlinked,
            vms_shm_create, vms_shm_rename, vms_shm_unlink, Names, Empty, fileVars
      <3>2. CASE Wait
        BY <3>2 DEF Wait, wait_ready, wait_sleep, wait_settle, wait_interrupted
      <3>3. CASE Destroy
        BY <3>3
        DEF Destroy, set_destroyed, destroy, destroy_unlink,
            destroy_shared_control_buffer, crash, vms_shm_unlink, Names
      <3>. QED BY <1>3, <3>1, <3>2, <3>3 DEF LifeSource
    <2>3. dir'["ctrl"] # Empty
      BY <1>1, <1>2, <2>2 DEF NoneEmpty
    <2>. QED BY <2>1, <2>3 DEF NoneEmpty
  <1>4. CASE Reader
    <2>1. CASE open_control
      <3>1. dir["ctrl"] # NoFile
        <4>1. lifeVars' # lifeVars
          <5>1. rpc' # rpc
            BY <2>1 DEF open_control
          <5>. QED BY <5>1 DEF lifeVars, rdrVars
        <4>. QED BY <2>1, <4>1 DEF NothingCreated
      <3>. QED BY <2>1, <3>1 DEF open_control, NoneEmpty
    <2>2. CASE ~open_control
      <3>1. \/ dir' = dir
            \/ \E n \in Names : dir' = [dir EXCEPT ![n] = NoFile]
        BY <1>4, <2>2
        DEF Reader, Connect, Other, try_connect, open_buffer, open_again, map_buffer,
            map_control, clean, register_all_events, register_kinds, set_reader_is_ready,
            set_flag, detach, map_control_failed, map_buffer_failed, read_failed, poll,
            quit, vms_shm_unlink, Names
      <3>2. rctl' \in {rctl, NoFile}
        BY <1>4, <2>2
        DEF Reader, Connect, Other, try_connect, open_buffer, open_again, map_buffer,
            map_control, clean, register_all_events, register_kinds, set_reader_is_ready,
            set_flag, detach, map_control_failed, map_buffer_failed, read_failed, poll,
            quit, RdrGoto, rdrVars
      <3>. QED BY <1>1, <1>2, <3>1, <3>2 DEF NoneEmpty
    <2>. QED BY <2>1, <2>2
  <1>5. CASE UNCHANGED lifeVars
    BY <1>5 DEF lifeVars, rdrVars, NoneEmpty
  <1>. QED BY <1>3, <1>4, <1>5 DEF lifeNext

\* That get_shared_control_buffer opens with O_CREAT is the only reason why a reader
\* may map a control buffer that is not initialised: as long as its open creates
\* nothing, what it maps was written by a source.
THEOREM ControlInitialisedUnlessCreated ==
  lifeSpec /\ [][NothingCreated]_lifeVars => []ControlInitialised
  <1>1. lifeInit => NoneEmpty
    BY ShmLifecycleAssumption DEF lifeInit, NoneEmpty, Names, NoFile, Empty
  <1>2. IInv /\ NoneEmpty => ControlInitialised
    <2>. SUFFICES ASSUME IInv, NoneEmpty,
                         rpc \in {"connected", "kinds", "attach", "set_ready", "attached"}
                  PROVE  rctl \in Gens /\ ctl[rctl].written
      BY DEF ControlInitialised
    <2>1. rctl \in 0..Empty /\ rctl # Empty
      BY DEF IInv, lifeTypeOK, NoneEmpty
    <2>2. rctl # NoFile
      BY ShmLifecycleAssumption DEF IInv, ReaderInv, Gens, NoFile
    <2>3. rctl \in Gens
      BY <2>1, <2>2, ShmLifecycleAssumption DEF Gens, Empty, NoFile
    <2>. QED BY <2>3 DEF IInv, FilesComplete
  <1>3. NoneEmpty /\ IInv /\ [lifeNext]_lifeVars /\ [NothingCreated]_lifeVars => NoneEmpty'
    BY NoneEmptyStays
  <1>. QED BY <1>1, <1>2, <1>3, InvAlways, PTL DEF lifeSpec

=============================================================================
