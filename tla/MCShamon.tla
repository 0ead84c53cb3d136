----------------------------- MODULE MCShamon -----------------------------
(***************************************************************************)
(* The two halves of shamon for TLC: how the arbiter buffers are served    *)
(* (RoundRobin) and how streams come and go (SubStreams).  They are        *)
(* independent, so the first step chooses which one is explored and the    *)
(* other one rests in its initial state.                                   *)
(***************************************************************************)
EXTENDS RoundRobin, SubStreams

VARIABLE half   \* "none", "serving" or "streams"

mcVars == <<half, rrVars, ssVars>>

\* Three events in the first sub-buffer, so that one is dropped, and one in the
\* second.
MCEvents == [k \in AllSubs |-> CASE k = 1 -> 3 [] k = 2 -> 1 [] OTHER -> 0]

MCInit == half = "none" /\ rrInit /\ ssInit

Choose ==
  /\ half = "none" /\ half' \in {"serving", "streams"}
  /\ UNCHANGED <<rrVars, ssVars>>

Serving(A) == half = "serving" /\ A /\ UNCHANGED <<half, ssVars>>
Streaming(A) == half = "streams" /\ A /\ UNCHANGED <<half, rrVars>>

MCNext == Choose \/ Serving(rrNext) \/ Streaming(ssNext)

\* The monitor and the managers are threads that poll in loops; a buffer with
\* something in it is served again and again, as NoStarvation shows.
MCSpec ==
  /\ MCInit /\ [][MCNext]_mcVars
  /\ WF_mcVars(Serving(Loop))
  /\ WF_mcVars(Streaming(SubMonitor))
  /\ SF_mcVars(Streaming(Take /\ NoSourceStep))
  /\ \A k \in AllSubs : WF_mcVars(Streaming(SubManager(k)))

=============================================================================
