----------------------------- MODULE MCBuffers -----------------------------
(***************************************************************************)
(* The ring buffer (SpscRingbuf) and the fetch of events from one such     *)
(* buffer to another (StreamFetch), for TLC.  The first step chooses which *)
(* one is explored and the other one rests in its initial state.           *)
(***************************************************************************)
EXTENDS SpscRingbuf, StreamFetch

VARIABLE level   \* "none", "ring" or "fetch"

buffersVars == <<level, vars, fetchVars>>

BuffersInit == level = "none" /\ Init /\ fetchInit

ChooseLevel ==
  /\ level = "none" /\ level' \in {"ring", "fetch"}
  /\ UNCHANGED <<vars, fetchVars>>

Ring(A) == level = "ring" /\ A /\ UNCHANGED <<level, fetchVars>>
Fetch(A) == level = "fetch" /\ A /\ UNCHANGED <<level, vars>>

BuffersNext == ChooseLevel \/ Ring(Next) \/ Fetch(fetchNext)

\* All threads poll in loops.  A value stored to an atomic variable is eventually
\* returned by the loads of the other thread.
BuffersSpec ==
  /\ BuffersInit /\ [][BuffersNext]_buffersVars
  /\ WF_buffersVars(Ring(wgrant = 0 /\ write_off_nowrap(tail)))
  /\ WF_buffersVars(Ring(read_off_nowrap(head)))
  /\ WF_buffersVars(Ring(\E n \in 1..Capacity : consume(n)))
  /\ WF_buffersVars(Fetch(Manager))
  /\ WF_buffersVars(Fetch(Arbiter))

=============================================================================
