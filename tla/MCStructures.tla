--------------------------- MODULE MCStructures ---------------------------
(***************************************************************************)
(* The data structures and tables for TLC.  They are independent, so the   *)
(* first step chooses the one to explore; the others rest in their initial *)
(* states.  The search of drop_older_than starts from each of its inputs   *)
(* when it is the one explored.                                            *)
(***************************************************************************)
EXTENDS QueueSpsc, LinkedList, EmbeddedList, SourceControl, Vectors,
        CppRingBuffer, MonitorBuffer, DropOlderThan

VARIABLE part   \* "none", or the structure that is explored

restVars == <<queueVars, listVars, embVars, controlVars, vectorVars, vars,
              monitorVars>>
partsVars == <<part, restVars, olderVars>>

PartsInit ==
  /\ queueInit /\ listInit /\ embInit /\ controlInit /\ vectorInit
  /\ Init /\ monitorInit /\ olderInit
  /\ \/ part = "older"
     \/ part = "none" /\ ids = <<1>> /\ id = 0

ChoosePart ==
  /\ part = "none"
  /\ part' \in {"queue", "list", "embedded", "control", "vector", "cpp", "monitor"}
  /\ UNCHANGED <<restVars, olderVars>>

Queue ==
  /\ part = "queue" /\ queueNext
  /\ UNCHANGED <<part, listVars, embVars, controlVars, vectorVars, vars,
                 monitorVars, olderVars>>

List ==
  /\ part = "list" /\ listNext
  /\ UNCHANGED <<part, queueVars, embVars, controlVars, vectorVars, vars,
                 monitorVars, olderVars>>

Embedded ==
  /\ part = "embedded" /\ embNext
  /\ UNCHANGED <<part, queueVars, listVars, controlVars, vectorVars, vars,
                 monitorVars, olderVars>>

Control ==
  /\ part = "control" /\ controlNext
  /\ UNCHANGED <<part, queueVars, listVars, embVars, vectorVars, vars,
                 monitorVars, olderVars>>

Vector ==
  /\ part = "vector" /\ vectorNext
  /\ UNCHANGED <<part, queueVars, listVars, embVars, controlVars, vars,
                 monitorVars, olderVars>>

Cpp ==
  /\ part = "cpp" /\ Next
  /\ UNCHANGED <<part, queueVars, listVars, embVars, controlVars, vectorVars,
                 monitorVars, olderVars>>

Monitoring(A) ==
  /\ part = "monitor" /\ A
  /\ UNCHANGED <<part, queueVars, listVars, embVars, controlVars, vectorVars,
                 vars, olderVars>>

Older == part = "older" /\ olderNext /\ UNCHANGED <<part, restVars>>

\* The function has returned.
Returned == part = "older" /\ pc = "done" /\ UNCHANGED partsVars

PartsNext ==
  \/ ChoosePart \/ Queue \/ List \/ Embedded \/ Control \/ Vector \/ Cpp
  \/ Monitoring(monitorNext) \/ Older \/ Returned

\* The monitor polls in a loop, and the arbiter publishes the event it writes.
PartsSpec ==
  /\ PartsInit /\ [][PartsNext]_partsVars
  /\ WF_partsVars(Monitoring(Monitor))
  /\ WF_partsVars(Monitoring(monitor_buffer_write_finish))

=============================================================================
