--------------------------- MODULE EmbeddedList ---------------------------
(***************************************************************************)
(* The circular lists of core/list-embedded.c, whose links are part of the *)
(* elements: a head and its elements form a ring.  The elements of each    *)
(* ring are kept beside the pointers as sequences.                         *)
(*                                                                         *)
(* insert_list leaves the links of the other head as they are; it must be  *)
(* initialised before it is used again.                                    *)
(***************************************************************************)
EXTENDS Integers, Sequences

LOCAL INSTANCE SequencesExt

CONSTANTS Heads, Links   \* the heads and the elements, numbers from 1

ASSUME EmbeddedAssumption == Heads \cap Links = {}

VARIABLES enext, eprev,  \* struct vms_list_embedded; 0 is NULL
          ring,          \* history: ring[h] is what follows the head h
          stale          \* history: heads that were inserted elsewhere

embVars == <<enext, eprev, ring, stale>>

Nodes == Heads \cup Links
Elements(h) == {ring[h][i] : i \in DOMAIN ring[h]}
Free == Links \ UNION {Elements(h) : h \in Heads}

\* The place of node n in the ring of h: 0 for the head itself.
Place(h, n) ==
  IF n = h THEN 0 ELSE CHOOSE i \in DOMAIN ring[h] : ring[h][i] = n

embInit ==
  /\ enext = [n \in Nodes |-> IF n \in Heads THEN n ELSE 0]
  /\ eprev = [n \in Nodes |-> IF n \in Heads THEN n ELSE 0]
  /\ ring = [h \in Heads |-> << >>] /\ stale = {}

\* vms_list_embedded_init of a head whose elements are in another ring.
embedded_init(h) ==
  /\ h \in stale
  /\ enext' = [enext EXCEPT ![h] = h] /\ eprev' = [eprev EXCEPT ![h] = h]
  /\ stale' = stale \ {h}
  /\ UNCHANGED ring

\* Insert elm after node l, the head h or one of its elements.
embedded_insert_after(h, l, elm) ==
  /\ h \notin stale /\ l \in {h} \cup Elements(h) /\ elm \in Free
  /\ eprev' = [eprev EXCEPT ![elm] = l, ![enext[l]] = elm]
  /\ enext' = [enext EXCEPT ![elm] = enext[l], ![l] = elm]
  /\ ring' = [ring EXCEPT ![h] = InsertAt(@, Place(h, l) + 1, elm)]
  /\ UNCHANGED stale

\* The rings of h and o when the elements of o are put after node l.
Joined(h, l, o) ==
  LET p == Place(h, l)
  IN  [ring EXCEPT
         ![h] = SubSeq(@, 1, p) \o ring[o] \o SubSeq(@, p + 1, Len(@)),
         ![o] = << >>]

\* Mutant: the last two assignments are swapped.
embedded_insert_list_Swap(h, l, o) ==
  /\ {h, o} \cap stale = {} /\ h # o /\ l \in {h} \cup Elements(h)
  /\ enext[o] # o
  /\ enext' = [enext EXCEPT ![eprev[o]] = enext[l], ![l] = enext[o]]
  /\ eprev' = [eprev EXCEPT ![enext[o]] = eprev[o]]
  /\ ring' = Joined(h, l, o)
  /\ stale' = stale \cup {o}

\* Insert the elements of the other list o after node l.
embedded_insert_list(h, l, o) ==
  /\ {h, o} \cap stale = {} /\ h # o /\ l \in {h} \cup Elements(h)
  /\ enext[o] # o
  /\ enext' = [enext EXCEPT ![eprev[o]] = enext[l], ![l] = enext[o]]
  /\ eprev' = [eprev EXCEPT ![enext[o]] = l, ![enext[l]] = eprev[o]]
  /\ ring' = Joined(h, l, o)
  /\ stale' = stale \cup {o}

embedded_remove(h, elm) ==
  /\ h \notin stale /\ elm \in Elements(h)
  /\ enext' = [enext EXCEPT ![eprev[elm]] = enext[elm], ![elm] = 0]
  /\ eprev' = [eprev EXCEPT ![enext[elm]] = eprev[elm], ![elm] = 0]
  /\ ring' = [ring EXCEPT ![h] = RemoveAt(@, Place(h, elm))]
  /\ UNCHANGED stale

embNext ==
  \/ \E h \in Heads : embedded_init(h)
  \/ \E h \in Heads, l, elm \in Nodes : embedded_insert_after(h, l, elm)
  \/ \E h, o \in Heads, l \in Nodes : embedded_insert_list(h, l, o)
  \/ \E h \in Heads, elm \in Links : embedded_remove(h, elm)

embSpec == embInit /\ [][embNext]_embVars

-----------------------------------------------------------------------------
\* Both ways round, a ring visits its head and its elements in their order, so
\* that size and empty are right, also after lists have been joined.
RingRight ==
  \A h \in Heads \ stale :
    LET cycle == <<h>> \o ring[h] \o <<h>>
    IN  \A i \in 1..(Len(cycle) - 1) :
          enext[cycle[i]] = cycle[i + 1] /\ eprev[cycle[i + 1]] = cycle[i]

=============================================================================
