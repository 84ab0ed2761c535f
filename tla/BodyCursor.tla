----------------------------- MODULE BodyCursor -----------------------------
(***************************************************************************)
(* The playback of one body, frame by frame, against the searches of       *)
(* packages/graph/src/portal-search.ts that say in advance how long it     *)
(* will take to reach a boundary.                                          *)
(***************************************************************************)
EXTENDS GraphDefinition

CONSTANT MaxFrames

ASSUME MaxFramesAssumption == MaxFrames \in Nat \ {0}

VARIABLES
  body,     \* the body that plays; its one port holds the portals
  frame     \* the frame that is displayed

bodyVars == <<body, frame>>

Portals == body.ports.home

(* A body that does not loop has a portal on its last frame, or no edge    *)
(* may leave through the port (validateEdgeReferencesAndGeometry).         *)
PlayedBodies ==
  {b \in UNION {[kind : {"loop", "finite"}, frames : {n},
                 ports : [home : (SUBSET (0..(n - 1))) \ {{}}]] : n \in 1..MaxFrames} :
     b.kind = "loop" \/ b.frames - 1 \in b.ports.home}

BodyInit == body \in PlayedBodies /\ frame = 0

PlayBody == frame' = NextBodyFrame(body, frame) /\ UNCHANGED body

BodySpec == BodyInit /\ [][PlayBody]_bodyVars

----------------------------------------------------------------------------
Foretold ==
  LET wait == PortalWait(body, Portals, frame)
  IN  /\ wait = 0 <=> frame \in Portals
      /\ wait > 0 => PortalWait(body, Portals, frame') = wait - 1
      /\ body.kind # "loop" => FinishWait(body, frame') = FinishWait(body, frame) - 1

(* The searches foretell the playback: a boundary is where the wait is     *)
(* zero, and each displayed frame takes one off the wait.                  *)
WaitsForetold == [][Foretold]_bodyVars
=============================================================================
