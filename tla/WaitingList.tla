---------------------------- MODULE WaitingList ----------------------------
(***************************************************************************)
(* Those who wait in an array that each may leave: the queue of a page     *)
(* (page-resources.ts) and that for a body (asset.ts).                     *)
(***************************************************************************)
EXTENDS Integers, Sequences

\* The first entry of e, which has no other, leaves the list.
Without(q, e) ==
  IF \A i \in DOMAIN q : q[i] # e THEN q
  ELSE LET at == CHOOSE i \in DOMAIN q : q[i] = e
       IN SubSeq(q, 1, at - 1) \o SubSeq(q, at + 1, Len(q))
============================================================================
