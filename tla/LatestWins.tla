----------------------------- MODULE LatestWins -----------------------------
(***************************************************************************)
(* What the settlement of state requests promises, and nothing of how a    *)
(* graph gets anywhere: "setState() follows latest-wins graph semantics.   *)
(* A duplicate destination joins the in-flight request; a superseded       *)
(* request rejects" (docs/states-and-triggers.md).                         *)
(*                                                                         *)
(* Requests are numbered as they are made.  At any time the ones that wait *)
(* wait for one target; they are answered together, once.                  *)
(***************************************************************************)
EXTENDS Integers

CONSTANTS States, None

VARIABLES
  made,       \* the number of requests made
  target,     \* what the waiting requests wait for
  waiting,    \* the requests that wait
  fulfilled, rejected,
  shown       \* the state that is displayed

vars == <<made, target, waiting, fulfilled, rejected, shown>>

Init ==
  /\ made = 0
  /\ target = None /\ waiting = {}
  /\ fulfilled = {} /\ rejected = {}
  /\ shown = None

NewRequest == made' = made + 1

(* A request that no route serves is answered by itself.                   *)
Refuse ==
  /\ NewRequest
  /\ rejected' = rejected \cup {made'}
  /\ UNCHANGED <<target, waiting, fulfilled, shown>>

(* A request that is served in time to come: it joins the requests for its *)
(* target and takes the place of any others.                               *)
Queue(t) ==
  /\ NewRequest
  /\ target' = t
  /\ IF t = target
     THEN waiting' = waiting \cup {made'} /\ UNCHANGED rejected
     ELSE waiting' = {made'} /\ rejected' = rejected \cup waiting
  /\ UNCHANGED <<fulfilled, shown>>

(* A request that is served at once, with the requests that waited for the *)
(* same target; it takes the place of any others.                          *)
Serve(t) ==
  /\ NewRequest
  /\ target' = None /\ waiting' = {}
  /\ IF t = target
     THEN fulfilled' = fulfilled \cup waiting \cup {made'} /\ UNCHANGED rejected
     ELSE fulfilled' = fulfilled \cup {made'} /\ rejected' = rejected \cup waiting
  /\ shown' = t

(* What was asked for is displayed.                                        *)
Arrive ==
  /\ waiting # {}
  /\ shown' = target
  /\ fulfilled' = fulfilled \cup waiting
  /\ target' = None /\ waiting' = {}
  /\ UNCHANGED <<made, rejected>>

(* An event of the host, a failure or the end of the graph.                *)
Abort ==
  /\ waiting # {}
  /\ rejected' = rejected \cup waiting
  /\ target' = None /\ waiting' = {}
  /\ shown' \in States \cup {None}
  /\ UNCHANGED <<made, fulfilled>>

(* The display changes on its way, or when nobody waits.                   *)
Move ==
  /\ shown' \in States \cup {None}
  /\ UNCHANGED <<made, target, waiting, fulfilled, rejected>>

Next ==
  \/ Refuse \/ Arrive \/ Abort \/ Move
  \/ \E t \in States : Queue(t) \/ Serve(t)

Spec == Init /\ [][Next]_vars
=============================================================================
