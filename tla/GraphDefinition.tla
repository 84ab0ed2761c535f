-------------------------- MODULE GraphDefinition --------------------------
(***************************************************************************)
(* The authored motion graph: what a definition is, which definitions the  *)
(* validator accepts (packages/graph/src/validate.ts), the indexes the     *)
(* engine looks edges up in, and the frame arithmetic of a state's body    *)
(* (packages/graph/src/portal-search.ts).                                  *)
(*                                                                         *)
(* A definition d is a record                                              *)
(*   initial, introFrames   the initial state; the frame count of its      *)
(*                          initialUnit, 0 when it has none                *)
(*   states[s]              [kind, frames, ports], ports[p] being the set  *)
(*                          of portal frames of port p                     *)
(*   edges[e]               [from, to, trigger, start, sourcePort,         *)
(*                          targetPort, maxWait, kind, unit, frames,       *)
(*                          direction, reverseOf, continuity]              *)
(* An edge's kind is "none" when it has no transition unit.  Identifiers   *)
(* and unit ids of bodies are left out: a body's unit is a function of its *)
(* state.                                                                  *)
(***************************************************************************)
EXTENDS Integers, FiniteSets, FiniteSetsExt

NoTrigger      == <<"none">>
Completion     == <<"completion">>
OnEvent(event) == <<"event", event>>

NoReverseOf == <<"none">>
ReverseOf(e) == <<"edge", e>>

StatesOf(d) == DOMAIN d.states
EdgesOf(d)  == DOMAIN d.edges

(* The numbers of a definition are numbers: expectPositiveSafeInteger and   *)
(* expectNonNegativeSafeInteger.                                           *)
IsDefinition(d) ==
  /\ d.introFrames \in Nat
  /\ \A s \in StatesOf(d) : d.states[s].frames \in Nat
  /\ \A e \in EdgesOf(d) : d.edges[e].frames \in Nat /\ d.edges[e].maxWait \in Nat

----------------------------------------------------------------------------
(* The indexes of ValidatedGraphIndexes.  Each is a set; the validator     *)
(* makes every one of them empty or a singleton.                           *)

DirectEdges(d, from, to) ==
  {e \in EdgesOf(d) : d.edges[e].from = from /\ d.edges[e].to = to}

EventEdges(d, from, event) ==
  {e \in EdgesOf(d) : d.edges[e].from = from /\ d.edges[e].trigger = OnEvent(event)}

CompletionEdges(d, from) ==
  {e \in EdgesOf(d) : d.edges[e].from = from /\ d.edges[e].trigger = Completion}

(* The other edge that plays the same reversible unit.                     *)
InverseEdges(d, e) ==
  {f \in EdgesOf(d) \ {e} : /\ d.edges[e].kind = "reversible"
                            /\ d.edges[f].kind = "reversible"
                            /\ d.edges[f].unit = d.edges[e].unit}

----------------------------------------------------------------------------
(* Frame arithmetic of one body.                                           *)

(* Mutant: every body holds its last frame.                                *)
NextBodyFrame_Holds(body, frame) ==
  IF frame < body.frames - 1 THEN frame + 1 ELSE frame

(* nextBodyFrame: a loop wraps, any other body holds its last frame.       *)
NextBodyFrame(body, frame) ==
  IF frame < body.frames - 1 THEN frame + 1
  ELSE IF body.kind = "loop" THEN 0
  ELSE frame

(* Mutant: a portal that is displayed is already missed.                   *)
NextPortal_Past(portals, frame) ==
  LET ahead == {p \in portals : p > frame}
  IN  IF ahead # {} THEN Min(ahead) ELSE Min(portals)

(* findNextPortalBoundary: the first portal at or after the frame, else -  *)
(* only a loop gets here - the first portal after the wrap.                *)
NextPortal(portals, frame) ==
  LET ahead == {p \in portals : p >= frame}
  IN  IF ahead # {} THEN Min(ahead) ELSE Min(portals)

PortalWait(body, portals, frame) ==
  LET boundary == NextPortal(portals, frame)
  IN  IF boundary >= frame
      THEN boundary - frame
      ELSE body.frames - frame + boundary

(* findFinishBoundary: the wait for the last frame.                        *)
FinishWait(body, frame) == (body.frames - 1) - frame

(* Mutant: the gap across the seam of a loop is left out.                  *)
GreatestPortalWait_NoSeam(body, portals) ==
  LET later(p) == {q \in portals : q > p}
  IN  Max({Min(portals)} \cup
          {Min(later(p)) - p - 1 : p \in {q \in portals : later(q) # {}}})

(* greatestPortalWaitFrames: the longest run of frames before a portal,    *)
(* one gap per portal and never a scan of the frames.                      *)
GreatestPortalWait(body, portals) ==
  LET later(p) == {q \in portals : q > p}
      gap(p)   == (IF later(p) # {} THEN Min(later(p))
                   ELSE body.frames + Min(portals)) - p
  IN  IF body.kind = "loop"
      THEN Max({gap(p) - 1 : p \in portals})
      ELSE Max({Min(portals)} \cup
               {gap(p) - 1 : p \in {q \in portals : later(q) # {}}})

GreatestFinishWait(body) == body.frames - 1

(* The displayed frame is where edge e may leave: the eligibleNow of the   *)
(* boundary search that the edge's start policy selects.                   *)
AtBoundary(d, e, frame) ==
  LET body == d.states[d.edges[e].from]
  IN  IF d.edges[e].start = "portal"
      THEN PortalWait(body, body.ports[d.edges[e].sourcePort], frame) = 0
      ELSE FinishWait(body, frame) = 0
============================================================================
