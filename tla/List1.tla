------------------------------- MODULE List1 -------------------------------
(***************************************************************************)
(* The intrusive doubly linked lists of include/core/list.h (LIST1_...).   *)
(* A list is the sequence of its elements in the order LIST1_FOREACH       *)
(* visits them.  An element is its address, so it is at most once in the   *)
(* list; the macros do not check this, the modules that use them do.       *)
(***************************************************************************)
EXTENDS Naturals, Sequences, SequencesExt, Functions

\* The elements of a list, in no order.
Elems(l) == Range(l)

\* Every element is in the list once: the pointers form a chain.
IsList(l) == IsInjective(l)

\* The place of an element in a list that holds it.
IndexOf(l, d) == CHOOSE i \in DOMAIN l : l[i] = d

\* LIST1_ADD appends at the tail, LIST1_PUSH inserts at the head.
LIST1_PUSH(l, d) == <<d>> \o l
LIST1_ADD(l, d) == Append(l, d)

\* LIST1_DEL unlinks an element of the list.
LIST1_DEL(l, d) == RemoveAt(l, IndexOf(l, d))

\* LIST1_INSERT puts d before the element at place i, at the tail when i is
\* behind the last place (a null nextd).
LIST1_INSERT(l, i, d) == InsertAt(l, i, d)

\* LIST1_POP unlinks the head; the callers test for the empty list.
LIST1_POP(l) == LIST1_DEL(l, Head(l))
=============================================================================
