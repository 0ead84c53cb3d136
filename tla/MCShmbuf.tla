------------------------------ MODULE MCShmbuf ------------------------------
(***************************************************************************)
(* The SHM buffer around its ring, for TLC: how the two sides find each    *)
(* other (ShmLifecycle) and the memory for strings (AuxBuffers).  They are *)
(* independent, so the first step chooses which one is explored and the    *)
(* other one rests in its initial state.                                   *)
(***************************************************************************)
EXTENDS AuxBuffers, ShmLifecycle

VARIABLE side   \* "none", "files" or "strings"

shmbufVars == <<side, vars, lifeVars>>

ShmbufInit == side = "none" /\ Init /\ lifeInit

ChooseSide ==
  /\ side = "none" /\ side' \in {"files", "strings"}
  /\ UNCHANGED <<vars, lifeVars>>

Files(A) == side = "files" /\ A /\ UNCHANGED <<side, vars>>
Strings(A) == side = "strings" /\ A /\ UNCHANGED <<side, lifeVars>>

ShmbufNext == ChooseSide \/ Files(lifeNext) \/ Strings(Next)

\* A source that waits keeps polling, and a reader keeps trying to connect.  A
\* source inside a push keeps running; so does a manager inside a report.
ShmbufSpec ==
  /\ ShmbufInit /\ [][ShmbufNext]_shmbufVars
  /\ WF_shmbufVars(Files(Wait /\ UNCHANGED rdrVars))
  /\ WF_shmbufVars(Files(Connect /\ UNCHANGED lifeSrcVars))
  /\ WF_shmbufVars(Strings(wpc # "idle" /\ SourceStep))
  /\ WF_shmbufVars(Strings(mpc # "run" /\ ManagerStep))

=============================================================================
