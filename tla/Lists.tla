------------------------------- MODULE Lists --------------------------------
(***************************************************************************)
(* The kernel's doubly linked lists (include/rtservice.h) as sequences of  *)
(* the objects linked in them, the first one after the list head first.    *)
(* rt_list_insert_after(head, n) is Cons, rt_list_insert_before(head, n)   *)
(* is Append.                                                              *)
(***************************************************************************)
EXTENDS SequencesExt, Integers

\* rt_list_remove on a list that may hold t
Unlink(s, t) ==
  IF t \in ToSet(s) THEN RemoveAt(s, CHOOSE i \in DOMAIN s : s[i] = t) ELSE s
=============================================================================
