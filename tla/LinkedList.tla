---------------------------- MODULE LinkedList ----------------------------
(***************************************************************************)
(* The doubly linked lists of core/list.c, pointer by pointer.  The order  *)
(* of the elements is kept beside the pointers as a sequence.              *)
(*                                                                         *)
(* vms_list_prepend does not link the old first element back to the new    *)
(* one: removing that element, or inserting before it, corrupts the list.  *)
(* In the library the list of auxiliary buffers only appends and removes.  *)
(* vms_list_destroy, which frees an element and then reads it, is left     *)
(* out.                                                                    *)
(***************************************************************************)
EXTENDS Integers, Sequences

LOCAL INSTANCE SequencesExt

CONSTANT Elems   \* the elements, numbers from 1

ASSUME ListAssumption == Elems \subseteq Nat \ {0}

VARIABLES first, last, lsize,   \* struct vms_list; 0 is NULL
          next, prev,           \* struct vms_list_elem
          order,                \* history: the elements in their order
          prepended             \* history: an element was put before another by
                                \* prepend

listVars == <<first, last, lsize, next, prev, order, prepended>>

NULL == 0
InList == {order[i] : i \in DOMAIN order}
Pos(e) == CHOOSE i \in DOMAIN order : order[i] = e

listInit ==
  /\ first = NULL /\ last = NULL /\ lsize = 0
  /\ next = [e \in Elems |-> NULL] /\ prev = [e \in Elems |-> NULL]
  /\ order = << >> /\ prepended = FALSE

\* An assignment through a pointer that may be NULL.
Set(f, e, v) == IF e = NULL THEN f ELSE [f EXCEPT ![e] = v]

insert_elem_after(e, new) ==
  /\ e \in InList /\ new \notin InList
  /\ next' = [next EXCEPT ![new] = next[e], ![e] = new]
  /\ prev' = Set([prev EXCEPT ![new] = e], next[e], new)
  /\ last' = IF e = last THEN new ELSE last
  /\ lsize' = lsize + 1
  /\ order' = InsertAt(order, Pos(e) + 1, new)
  /\ UNCHANGED <<first, prepended>>

insert_before(e, new) ==
  /\ e \in InList /\ new \notin InList
  /\ next' = Set([next EXCEPT ![new] = e], prev[e], new)
  /\ prev' = [prev EXCEPT ![new] = prev[e], ![e] = new]
  /\ first' = IF e = first THEN new ELSE first
  /\ lsize' = lsize + 1
  /\ order' = InsertAt(order, Pos(e), new)
  /\ UNCHANGED <<last, prepended>>

prepend(new) ==
  /\ new \notin InList
  /\ next' = [next EXCEPT ![new] = first]
  /\ prev' = [prev EXCEPT ![new] = NULL]
  /\ first' = new
  /\ last' = IF last = NULL THEN new ELSE last
  /\ lsize' = lsize + 1
  /\ order' = <<new>> \o order
  /\ prepended' = (prepended \/ order # << >>)

\* append and append_elem.
append(new) ==
  /\ new \notin InList
  /\ next' = Set([next EXCEPT ![new] = NULL], last, new)
  /\ prev' = [prev EXCEPT ![new] = last]
  /\ last' = new
  /\ first' = IF first = NULL THEN new ELSE first
  /\ lsize' = lsize + 1
  /\ order' = Append(order, new)
  /\ UNCHANGED prepended

\* Mutant: last is not moved back.
remove_KeepLast(e) ==
  /\ e \in InList
  /\ prev' = Set(prev, next[e], prev[e])
  /\ next' = Set(next, prev[e], next[e])
  /\ first' = IF e = first THEN next[e] ELSE first
  /\ lsize' = lsize - 1
  /\ order' = RemoveAt(order, Pos(e))
  /\ UNCHANGED <<last, prepended>>

remove(e) ==
  /\ e \in InList
  /\ prev' = Set(prev, next[e], prev[e])
  /\ next' = Set(next, prev[e], next[e])
  /\ first' = IF e = first THEN next[e] ELSE first
  /\ last' = IF e = last THEN prev[e] ELSE last
  /\ lsize' = lsize - 1
  /\ order' = RemoveAt(order, Pos(e))
  /\ UNCHANGED prepended

listNext ==
  \/ \E e, new \in Elems : insert_elem_after(e, new)
  \/ \E e, new \in Elems : insert_before(e, new)
  \/ \E new \in Elems : prepend(new)
  \/ \E new \in Elems : append(new)
  \/ \E e \in Elems : remove(e)

listSpec == listInit /\ [][listNext]_listVars

-----------------------------------------------------------------------------
\* Following next from first visits the elements in their order and ends at
\* last; the size and the assertions on first and last are right.
ForwardRight ==
  /\ lsize = Len(order)
  /\ first = (IF order = << >> THEN NULL ELSE order[1])
  /\ last = (IF order = << >> THEN NULL ELSE order[Len(order)])
  /\ \A i \in DOMAIN order :
       next[order[i]] = (IF i = Len(order) THEN NULL ELSE order[i + 1])

\* The list is "doubly-linked" (list.h): following prev visits the elements in
\* the opposite order.
BackwardRight ==
  \A i \in DOMAIN order :
    prev[order[i]] = (IF i = 1 THEN NULL ELSE order[i - 1])

\* Whatever is appended, inserted and removed, the list is right both ways; the
\* same holds of a prepend to the empty list.
ListRight == ~prepended => ForwardRight /\ BackwardRight

\* The assertion at the end of every operation: there is a first element if and
\* only if there is a last one.
FirstIffLast == first = NULL <=> last = NULL

=============================================================================
