----------------------- MODULE MotionGraphProperties -----------------------
(***************************************************************************)
(* What MotionGraphEngine promises its host, stated over its state and a   *)
(* history of the requests it has settled.                                 *)
(***************************************************************************)
EXTENDS MotionGraph

VARIABLES
  fulfilled,  \* the ids of the requests that were resolved
  rejected,   \* the ids of the requests that were rejected
  started     \* the edge whose transitionstart was the last transition event

history == <<fulfilled, rejected, started>>
allVars == <<vars, history>>

Waiting == IF group = None THEN {} ELSE group.ids
Settled == fulfilled \cup rejected

HInit == Init /\ fulfilled = {} /\ rejected = {} /\ started = None

Record ==
  /\ fulfilled' = fulfilled \cup SettledBy(effects', Resolutions)
  /\ rejected'  = rejected  \cup SettledBy(effects', Rejections)
  /\ started'   = StartedAfter(effects', started)

HNext == Next /\ Record

HSpec == HInit /\ [][HNext]_allVars

(* The clock of the host: it ticks an animated graph for as long as it is  *)
(* one, and at a place where a route may depart its media are ready again  *)
(* and again.  The hosts inputs are bounded by MaxSequence, so that they   *)
(* end.                                                                    *)
Fairness ==
  /\ WF_allVars((\E routeReady \in BOOLEAN : Tick(routeReady)) /\ Record)
  /\ SF_allVars(TickDepart(TRUE) /\ Record)

FairSpec == HSpec /\ Fairness

----------------------------------------------------------------------------
(* Types.                                                                  *)

EdgeIds  == IF graph = None THEN {} ELSE EdgesOf(graph)
RouteSet == [edge : EdgeIds, seq : Nat] \cup {None}

Phases == {"unready", "preparing", "intro", "stable", "waiting", "locked",
           "reversible", "static", "error", "disposed"}
Readinesses == {"unready", "preparing", "animated", "static", "error", "disposed"}

PresentationSet ==
  {None} \cup [kind : {"static", "intro", "body"}, at : GraphStates, frame : Nat]
         \cup [kind : {"locked", "reversible"}, at : EdgeIds, frame : Int]

(* The type of every variable: routes and presentations name states and    *)
(* edges of the installed definition, and the installed definition is      *)
(* valid.                                                                  *)
TypeOK ==
  /\ graph \in Definitions \cup {None}
  /\ graph # None => Valid(graph)
  /\ readiness \in Readinesses
  /\ phase \in Phases
  /\ introPending \in BOOLEAN
  /\ graph # None => requested \in GraphStates /\ visual \in GraphStates
  /\ presentation \in PresentationSet
  /\ pending \in RouteSet /\ active \in RouteSet
  /\ followOn \in RouteSet /\ reversal \in RouteSet
  /\ group \in [target : GraphStates, ids : SUBSET Nat] \cup {None}
  /\ nextId \in Nat \ {0}
  /\ sequence \in 0..MaxSequence
  /\ inputs \in 0..MaxInputsPerTick

----------------------------------------------------------------------------
(* The slots of the route plan in each phase.                              *)

(* A pending route waits in the displayed state, and a state that waits    *)
(* has one: requirePendingRoute never throws.                              *)
PendingShape ==
  /\ phase = "waiting" => pending # None
  /\ pending # None => /\ Early \/ phase = "waiting"
                       /\ From(pending) = visual

(* A transition phase plays the unit of its active route from, or - after  *)
(* a reversal - towards, the displayed state: requireActiveRoute never     *)
(* throws.                                                                 *)
ActiveShape ==
  /\ active # None <=> InTransition
  /\ active # None => /\ Edge(active.edge).kind = phase
                      /\ visual \in {From(active), To(active)}
                      /\ phase = "locked" => visual = From(active)

(* Continuations hang on the active route: a queued reversal is its        *)
(* inverse, and a follow-on leaves the state the transition will reach.    *)
ContinuationShape ==
  /\ reversal # None => /\ phase = "reversible"
                        /\ reversal.edge \in InverseEdges(graph, active.edge)
  /\ followOn # None => InTransition /\ From(followOn) = To(Effective)

RouteShape == PendingShape /\ ActiveShape /\ ContinuationShape

(* What each phase displays, with a frame that exists: no handler meets a  *)
(* presentation of another phase.                                          *)
PresentationShape ==
  /\ phase = "unready" => graph = None
  /\ graph = None => phase \in {"unready", "disposed"}
  /\ phase \in {"preparing", "static"} => presentation = Static(visual)
  /\ phase = "intro" => /\ visual = graph.initial
                        /\ presentation.kind = "intro"
                        /\ presentation.at = visual
                        /\ presentation.frame \in 0..(graph.introFrames - 1)
  /\ phase \in {"stable", "waiting"} =>
       /\ presentation.kind = "body"
       /\ presentation.at = visual
       /\ presentation.frame \in 0..(graph.states[visual].frames - 1)
  /\ InTransition =>
       /\ presentation.kind = phase
       /\ presentation.at = active.edge
       /\ presentation.frame \in 0..(Edge(active.edge).frames - 1)

(* The readiness that each phase belongs to.                               *)
ReadinessShape ==
  /\ readiness = "animated" <=> phase \in {"intro", "stable", "waiting", "locked", "reversible"}
  /\ readiness # "animated" => readiness = phase
  /\ phase = "preparing" => visual = graph.initial

(* Each phase has the routes, the presentation and the readiness that its  *)
(* handler relies on, so that the internal errors of the tick reducer      *)
(* (engine.ts, engine-state.ts) are never thrown.                          *)
PhaseShape == RouteShape /\ PresentationShape /\ ReadinessShape

----------------------------------------------------------------------------
(* Safety.                                                                 *)

(* requestedState always says where the routes lead, whichever inputs,     *)
(* reversals and recoveries came before.  A graph that is stable or static *)
(* is therefore at rest in the state that was asked for, and beginStatic   *)
(* always finds its edge.                                                  *)
RequestedIsProspective ==
  graph # None /\ ~Terminated => requested = Prospective

(* Requests that wait have a route that leads to their target: no request  *)
(* is left waiting for a state nothing leads to.                           *)
GroupFollowsRoutes ==
  group # None => HasRoute /\ group.target = requested /\ group.ids # {}

(* An intro that is still to be played belongs to the state that is        *)
(* displayed: leaving the initial state, in motion or by a static commit,  *)
(* disarms it, and it never plays again.                                   *)
IntroArmed ==
  /\ introPending => graph # None /\ graph.introFrames > 0
  /\ introPending /\ ~Terminated => /\ visual = graph.initial
                                    /\ phase \in {"preparing", "intro", "static"}
  /\ phase = "preparing" => (introPending <=> graph.introFrames > 0)
  /\ phase = "intro" => introPending

(* How many frames the pending edge has to wait for.                       *)
Wait ==
  LET edge == Edge(pending.edge)
      body == graph.states[visual]
  IN  IF edge.start = "portal"
      THEN PortalWait(body, body.ports[edge.sourcePort], presentation.frame)
      ELSE FinishWait(body, presentation.frame)

(* The authored bound is honoured from wherever the wait begins: no        *)
(* boundary is further away than the maxWait that validation accepted.     *)
WaitBounded ==
  phase = "waiting" /\ Edge(pending.edge).start # "cut"
    => Wait \in 0..Edge(pending.edge).maxWait

(* No input and no tick meets an internal inconsistency that the engine    *)
(* would throw at: each is handled in every state an earlier call left.    *)
NeverThrows ==
  sequence < MaxSequence =>
    /\ \A target \in Targets : ENABLED Request(target)
    /\ \A event \in Events : ENABLED Send(event)
    /\ phase \notin {"unready", "error", "disposed"} =>
         \A routeReady \in BOOLEAN : ENABLED Tick(routeReady)
    /\ phase = "preparing" => ENABLED BeginStatic
    /\ phase = "static" => ENABLED ResumeAnimated

----------------------------------------------------------------------------
(* Action properties.                                                      *)

(* Transition events nest: a transitionend is for the edge that was started *)
(* last, and no edge ends twice.                                           *)
EndsFollowStarts ==
  [][\A i \in DOMAIN effects' :
       effects'[i].type = "end" =>
         effects'[i].edge = StartedAfter(SubSeq(effects', 1, i - 1), started)]_allVars

(* Every request is heard: it is settled in the end - by arriving, by      *)
(* being superseded, or because the playback stops - unless the graph      *)
(* leaves its animation.                                                   *)
EachSettles ==
  \A id \in 1..MaxSequence :
    id \in Waiting /\ readiness = "animated" ~> id \in Settled \/ readiness # "animated"

----------------------------------------------------------------------------
(* The engine implements the abstract settlement of requests, whichever    *)
(* routes, continuations and recoveries serve them.                        *)
Promised ==
  INSTANCE LatestWins WITH
    States    <- UNION {StatesOf(d) : d \in Definitions},
    made      <- nextId - 1,
    target    <- IF group = None THEN None ELSE group.target,
    waiting   <- Waiting,
    shown     <- visual

ImplementsLatestWins == Promised!Spec
============================================================================
