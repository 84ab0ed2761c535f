---------------------------- MODULE MotionGraph ----------------------------
(***************************************************************************)
(* MotionGraphEngine (packages/graph/src/engine.ts) with the objects it    *)
(* owns: the engine's fields (engine-state.ts), the route plan             *)
(* (route-plan.ts), the request ledger (request-ledger.ts), the input      *)
(* counters of the journal (operation-journal.ts) and the intent router    *)
(* (intent-router.ts).                                                     *)
(*                                                                         *)
(* Every public operation of the engine is synchronous, so each is one     *)
(* step; an operation whose plan has several outcomes has one action per   *)
(* outcome.  The effects of the operation, which the host publishes, are   *)
(* the value of effects after the step.                                    *)
(***************************************************************************)
EXTENDS GraphValidation, Sequences

CONSTANTS
  Definitions,        \* the definitions a host may pass to install
  Targets,            \* the state ids a host may request, authored or not
  Events,             \* the event names a host may send
  MaxInputsPerTick,   \* GRAPH_LIMITS.maxInputsPerTick
  MaxSequence,        \* Number.MAX_SAFE_INTEGER, past which an input throws
  None                \* null: no state, no route, no group, no definition

ASSUME LimitsAssumption == MaxInputsPerTick \in Nat /\ MaxSequence \in Nat

ASSUME DefinitionsAssumption == \A d \in Definitions : IsDefinition(d)

(* null is none of the values that it stands in for.                       *)
ASSUME NoneAssumption ==
  /\ None \notin Definitions
  /\ None \notin [edge : UNION {EdgesOf(d) : d \in Definitions}, seq : Nat]
  /\ None \notin [target : UNION {StatesOf(d) : d \in Definitions}, ids : SUBSET Nat]

VARIABLES
  graph,         \* the installed definition
  readiness, phase,
  introPending,  \* initialUnitPending: the intro has not been played
  requested,     \* requestedState
  visual,        \* visualState
  presentation,  \* what is to be displayed: [kind, at, frame]
  pending, active, followOn, reversal,  \* the slots of the route plan
  group,         \* the pending request group of the ledger: [target, ids]
  nextId,        \* the ledger's next request id
  sequence,      \* the journal's inputSequence
  inputs,        \* the journal's inputsSinceTick
  effects        \* the effects of the last operation, in order

installed == <<graph, introPending, visual, presentation>>
routes    == <<pending, active, followOn, reversal>>
vars == <<graph, readiness, phase, introPending, requested, visual, presentation,
          pending, active, followOn, reversal, group, nextId, sequence, inputs,
          effects>>

----------------------------------------------------------------------------
(* Values.                                                                 *)

Edge(e)     == graph.edges[e]
From(route) == graph.edges[route.edge].from
To(route)   == graph.edges[route.edge].to
GraphStates == IF graph = None THEN {} ELSE StatesOf(graph)

Route(e, seq) == [edge |-> e, seq |-> seq]

(* A presentation's unit and direction are those of its state or edge.     *)
Static(s)       == [kind |-> "static", at |-> s, frame |-> 0]
Intro(s, frame) == [kind |-> "intro", at |-> s, frame |-> frame]
Body(s, frame)  == [kind |-> "body", at |-> s, frame |-> frame]
Locked(e, frame)     == [kind |-> "locked", at |-> e, frame |-> frame]
Reversible(e, frame) == [kind |-> "reversible", at |-> e, frame |-> frame]

(* The route after which a continuation is chosen: a queued reversal       *)
(* replaces the active route.                                              *)
Effective == IF reversal # None THEN reversal ELSE active

(* prospectiveState: where the current routes lead.                        *)
Prospective ==
  IF followOn # None THEN To(followOn)
  ELSE IF reversal # None THEN To(reversal)
  ELSE IF active # None THEN To(active)
  ELSE IF pending # None THEN To(pending)
  ELSE visual

HasRoute == pending # None \/ active # None \/ followOn # None \/ reversal # None

(* recoveryCandidate: the route that best represents the intent.           *)
RecoveryCandidate ==
  IF followOn # None THEN followOn
  ELSE IF reversal # None THEN reversal
  ELSE IF active # None THEN active
  ELSE pending

Terminated == readiness \in {"disposed", "error"}
Early      == phase \in {"preparing", "intro"}
InTransition == phase \in {"locked", "reversible"}

(* The player asks for ticks while there is something to play (#needsTick):*)
NeedsTick ==
  \/ phase \notin {"stable", "static"}
  \/ /\ phase = "stable"
     /\ \/ HasRoute
        \/ presentation.kind # "body"
        \/ LET body == graph.states[visual]
           IN  \/ body.kind = "loop"
               \/ presentation.frame < body.frames - 1
               \/ CompletionEdges(graph, visual) # {}

----------------------------------------------------------------------------
(* Effects.  Each of the operators is the sequence of effects that one of  *)
(* the engine's helpers appends: none when the helper returns early.       *)

ReadinessChange(to) ==
  IF readiness = to THEN <<>> ELSE <<[type |-> "readiness", to |-> to]>>

RequestedChange(to) ==
  IF requested = to THEN <<>> ELSE <<[type |-> "requested", from |-> requested, to |-> to]>>

VisualChange(from, to) ==
  IF from = to THEN <<>> ELSE <<[type |-> "visual", from |-> from, to |-> to]>>

Start(e) == <<[type |-> "start", edge |-> e]>>
End(e)   == <<[type |-> "end", edge |-> e]>>

Settlement(ids, outcome) == <<[type |-> "settle", ids |-> ids, outcome |-> outcome]>>

(* settlePending and settleNew of the ledger.                              *)
SettleGroup(outcome) == IF group = None THEN <<>> ELSE Settlement(group.ids, outcome)
SettleNew(outcome)   == Settlement({nextId}, outcome)

(* Mutant: a request joins whatever group is pending.                          *)
Admitted_AlwaysJoins(target) ==
  [target |-> target, ids |-> (IF group = None THEN {} ELSE group.ids) \cup {nextId}]

(* RequestLedger.request: a request for the group's target joins it, any   *)
(* other target supersedes the group.                                      *)
Admitted(target) ==
  IF group # None /\ group.target = target
  THEN [target |-> target, ids |-> group.ids \cup {nextId}]
  ELSE [target |-> target, ids |-> {nextId}]

Superseded(target) ==
  IF group = None \/ group.target = target THEN <<>>
  ELSE Settlement(group.ids, "AbortError")

(* The outcomes of GraphSettlement.                                        *)
Resolutions == {"target-committed", "stable-noop", "static-recovery"}
Rejections  == {"AbortError", "NotReadyError", "RouteError", "InputOverflowError",
                "PlaybackError"}
Outcomes    == Resolutions \cup Rejections

(* The ids that a sequence of effects settles with one of the outcomes.    *)
SettledBy(es, outcomes) ==
  UNION {es[i].ids : i \in {j \in DOMAIN es : /\ es[j].type = "settle"
                                              /\ es[j].outcome \in outcomes}}

IsTransitionEvent(effect) == effect.type \in {"start", "end"}

(* The edge that is started after some effects, was being the one before.  *)
StartedAfter(es, was) ==
  LET events == {i \in DOMAIN es : IsTransitionEvent(es[i])}
      last   == es[Max(events)]
  IN  IF events = {} THEN was
      ELSE IF last.type = "start" THEN last.edge
      ELSE None

----------------------------------------------------------------------------
Init ==
  /\ graph = None
  /\ readiness = "unready" /\ phase = "unready"
  /\ introPending = FALSE
  /\ requested = None /\ visual = None /\ presentation = None
  /\ pending = None /\ active = None /\ followOn = None /\ reversal = None
  /\ group = None /\ nextId = 1
  /\ sequence = 0 /\ inputs = 0
  /\ effects = <<>>

----------------------------------------------------------------------------
(* Lifecycle.                                                              *)

ClearRoutes ==
  /\ pending' = None /\ active' = None /\ followOn' = None /\ reversal' = None

Install(d) ==
  /\ readiness = "unready"
  /\ Valid(d)
  /\ graph' = d
  /\ introPending' = (d.introFrames > 0)
  /\ requested' = d.initial /\ visual' = d.initial
  /\ presentation' = Static(d.initial)
  /\ readiness' = "preparing" /\ phase' = "preparing"
  /\ effects' = ReadinessChange("preparing")
  /\ UNCHANGED <<routes, group, nextId, sequence, inputs>>

(* The first animated presentation of state s.                             *)
EnterIntro(s) ==
  /\ presentation' = Intro(s, 0)
  /\ phase' = "intro"

BeginAnimated ==
  /\ phase = "preparing"
  /\ readiness' = "animated"
  /\ \/ /\ graph.introFrames > 0
        /\ EnterIntro(graph.initial)
     \/ /\ graph.introFrames = 0
        /\ presentation' = Body(graph.initial, 0)
        /\ phase' = IF pending = None THEN "stable" ELSE "waiting"
  /\ effects' = ReadinessChange("animated")
  /\ UNCHANGED <<graph, introPending, requested, visual, routes, group, nextId, sequence, inputs>>

(* Only from one settled static state; the intro is played if no static    *)
(* commit has left the initial state since it was armed.                   *)
ResumeAnimated ==
  /\ phase = "static" /\ readiness = "static"
  /\ presentation = Static(visual)
  /\ requested = visual
  /\ ~HasRoute
  /\ group = None
  /\ readiness' = "animated"
  /\ IF introPending /\ visual = graph.initial
     THEN EnterIntro(visual)
     ELSE presentation' = Body(visual, 0) /\ phase' = "stable"
  /\ effects' = ReadinessChange("animated")
  /\ UNCHANGED <<graph, introPending, requested, visual, routes, group, nextId, sequence, inputs>>

DisarmIntro(to) == introPending' = (introPending /\ to = graph.initial)

(* Mutant: a static commit does not clear the routes.                          *)
CommitStatic_KeepsRoutes(e, before, settlement) ==
  /\ presentation' = Static(Edge(e).to)
  /\ visual' = Edge(e).to
  /\ DisarmIntro(Edge(e).to)
  /\ effects' = before \o Start(e) \o VisualChange(visual, Edge(e).to) \o End(e) \o settlement
  /\ phase' = "static"
  /\ UNCHANGED routes

(* commitStaticEdge, with the effects that precede it.  The settlement is  *)
(* passed in: the group that is settled is the one after admission.        *)
CommitStatic(e, before, settlement) ==
  LET to == Edge(e).to
  IN  /\ presentation' = Static(to)
      /\ visual' = to
      /\ DisarmIntro(to)
      /\ effects' = before \o Start(e) \o VisualChange(visual, to) \o End(e) \o settlement
      /\ ClearRoutes
      /\ phase' = "static"

BeginStatic ==
  /\ phase = "preparing"
  /\ readiness' = "static"
  /\ \/ /\ visual # requested
        /\ \E e \in DirectEdges(graph, visual, requested) :
             CommitStatic(e, ReadinessChange("static"), SettleGroup("static-recovery"))
        /\ group' = None
     \/ /\ visual = requested
        /\ presentation' = Static(visual)
        /\ ClearRoutes
        /\ phase' = "static"
        /\ effects' = ReadinessChange("static")
        /\ UNCHANGED <<visual, introPending, group>>
  /\ UNCHANGED <<graph, requested, nextId, sequence, inputs>>

(* Mutant: whatever leads on is taken for the edge that started.               *)
Underway_Any(e) == active # None

(* An edge that has already emitted its start.                             *)
Underway(e) == active # None /\ active.edge = e

(* The transition events of a recovery from the drawn state: the route     *)
(* that best represents the intent ends there, and starts first unless it  *)
(* is the active one; a host override of the drawn state takes the direct  *)
(* edge, or no edge at all.                                                *)
RecoveryEvents(drawn) ==
  LET override == drawn # visual
      direct   == DirectEdges(graph, drawn, requested)
      chosen   == IF ~override /\ RecoveryCandidate # None
                  THEN {RecoveryCandidate.edge} ELSE direct
      wrap(e)  == (IF ~override /\ Underway(e) THEN <<>> ELSE Start(e))
                    \o VisualChange(drawn, requested) \o End(e)
  IN  IF chosen = {} THEN VisualChange(drawn, requested)
      ELSE wrap(CHOOSE e \in chosen : TRUE)

RecoverStatic(retained) ==
  LET drawn   == IF retained = None THEN visual ELSE retained
      settles == drawn # requested \/ HasRoute
  IN  /\ graph # None /\ ~Terminated
      /\ retained \in GraphStates \cup {None}
      /\ readiness' = "static"
      /\ presentation' = Static(IF settles THEN requested ELSE drawn)
      /\ visual' = IF settles THEN requested ELSE drawn
      /\ IF settles
         THEN /\ DisarmIntro(requested)
              /\ effects' = ReadinessChange("static") \o RecoveryEvents(drawn)
                              \o SettleGroup("static-recovery")
              /\ group' = None
         ELSE /\ effects' = ReadinessChange("static")
              /\ UNCHANGED <<introPending, group>>
      /\ ClearRoutes
      /\ phase' = "static"
      /\ UNCHANGED <<graph, requested, nextId, sequence, inputs>>

FailPlayback(retained) ==
  /\ graph # None /\ readiness # "disposed"
  /\ retained \in GraphStates \cup {None}
  /\ readiness' = "error" /\ phase' = "error"
  /\ IF retained = None THEN UNCHANGED <<visual, presentation>>
     ELSE visual' = retained /\ presentation' = Static(retained)
  /\ effects' = ReadinessChange("error") \o SettleGroup("PlaybackError")
  /\ group' = None
  /\ ClearRoutes
  /\ UNCHANGED <<graph, introPending, requested, nextId, sequence, inputs>>

Dispose(retained) ==
  /\ readiness # "disposed"
  /\ retained \in GraphStates \cup {None}
  /\ visual' = IF retained = None THEN visual ELSE retained
  /\ presentation' = None
  /\ readiness' = "disposed" /\ phase' = "disposed"
  /\ effects' = SettleGroup("AbortError") \o ReadinessChange("disposed")
  /\ group' = None
  /\ ClearRoutes
  /\ UNCHANGED <<graph, introPending, requested, nextId, sequence, inputs>>

----------------------------------------------------------------------------
(* Inputs.  beginInput allocates a sequence number even for an input over  *)
(* the limit, which it does not count.                                     *)

(* Mutant: one input too many.                                             *)
Overflowed_Late == inputs > MaxInputsPerTick

Overflowed == inputs >= MaxInputsPerTick
Routable   == ~Overflowed /\ readiness # "unready" /\ ~Terminated

Input ==
  /\ sequence < MaxSequence
  /\ sequence' = sequence + 1
  /\ inputs' = IF Overflowed THEN inputs ELSE inputs + 1
  /\ UNCHANGED <<graph, readiness>>

NewRequest == Input /\ nextId' = nextId + 1

(* The inverse of the active route, which may be queued to reverse it.     *)
ActiveInverses == IF phase = "reversible" THEN InverseEdges(graph, active.edge) ELSE {}

(* The state that the next edge leaves.                                    *)
Origin == IF InTransition THEN To(Effective) ELSE visual

(* planStateIntent's reject: no plan of the phase leads to the target.     *)
Unroutable(target) ==
  /\ target # Origin
  /\ phase = "waiting" => target # To(pending)
  /\ InTransition => target # To(active) /\ \A e \in ActiveInverses : Edge(e).to # target
  /\ DirectEdges(graph, Origin, target) = {}

RequestRefused(target) ==
  /\ NewRequest
  /\ \/ Overflowed /\ effects' = SettleNew("InputOverflowError")
     \/ ~Overflowed /\ readiness = "unready" /\ effects' = SettleNew("NotReadyError")
     \/ ~Overflowed /\ Terminated /\ effects' = SettleNew("AbortError")
     \/ /\ Routable
        /\ target \notin GraphStates \/ Unroutable(target)
        /\ effects' = SettleNew("RouteError")
  /\ UNCHANGED <<phase, installed, requested, routes, group>>

(* standalone-noop: the target is displayed and nothing leads away.        *)
RequestHere(target) ==
  /\ NewRequest /\ Routable
  /\ target = visual
  /\ phase \in {"stable", "static"} \/ (Early /\ pending = None /\ group = None)
  /\ effects' = SettleNew("stable-noop")
  /\ UNCHANGED <<phase, installed, requested, routes, group>>

(* join-pending: the group is joined and nothing else happens.             *)
RequestJoin(target) ==
  /\ NewRequest /\ Routable
  /\ phase = "waiting" /\ target = To(pending)
  /\ group' = Admitted(target)
  /\ effects' = <<>>
  /\ UNCHANGED <<phase, installed, requested, routes>>

(* cancel-before-stable and cancel-pending: back to the displayed state.   *)
RequestCancel(target) ==
  /\ NewRequest /\ Routable
  /\ target = visual
  /\ \/ Early /\ (pending # None \/ group # None) /\ phase' = phase
     \/ phase = "waiting" /\ target # To(pending) /\ phase' = "stable"
  /\ requested' = target
  /\ effects' = RequestedChange(target) \o Superseded(target)
                  \o Settlement(Admitted(target).ids, "stable-noop")
  /\ group' = None
  /\ pending' = None
  /\ UNCHANGED <<installed, active, followOn, reversal>>

(* What every other accepted request does before it changes the routes.    *)
Admit(target) ==
  /\ requested' = target
  /\ group' = Admitted(target)
  /\ effects' = RequestedChange(target) \o Superseded(target)

(* replacePending discards queued continuations.                           *)
ReplacePending(e) ==
  /\ pending' = Route(e, sequence')
  /\ followOn' = None /\ reversal' = None
  /\ phase' = IF Early THEN phase ELSE "waiting"
  /\ UNCHANGED <<installed, active>>

RequestReroute(target) ==
  /\ NewRequest /\ Routable
  /\ Early \/ phase = "stable" \/ (phase = "waiting" /\ target # To(pending))
  /\ target # visual
  /\ \E e \in DirectEdges(graph, visual, target) : ReplacePending(e)
  /\ Admit(target)

(* continue-active-target and continue-reversal-target: the continuation   *)
(* is dropped, and with the first the queued reversal too.                 *)
RequestContinue(target) ==
  /\ NewRequest /\ Routable
  /\ InTransition
  /\ target \in {To(active), To(Effective)}
  /\ followOn' = None
  /\ reversal' = IF target = To(active) THEN None ELSE reversal
  /\ Admit(target)
  /\ UNCHANGED <<phase, installed, pending, active>>

(* Mutant: a reversal keeps what was to follow the reversed edge.              *)
QueueReversal_KeepsFollowOn(e) ==
  /\ reversal' = Route(e, sequence')
  /\ UNCHANGED <<phase, installed, pending, active, followOn>>

QueueReversal(e) ==
  /\ reversal' = Route(e, sequence')
  /\ followOn' = None
  /\ UNCHANGED <<phase, installed, pending, active>>

RequestReverse(target) ==
  /\ NewRequest /\ Routable
  /\ InTransition
  /\ target \notin {To(active), To(Effective)}
  /\ \E e \in ActiveInverses : Edge(e).to = target /\ QueueReversal(e)
  /\ Admit(target)

QueueFollowOn(e) ==
  /\ followOn' = Route(e, sequence')
  /\ UNCHANGED <<phase, installed, pending, active, reversal>>

RequestFollowOn(target) ==
  /\ NewRequest /\ Routable
  /\ InTransition
  /\ target \notin {To(active), To(Effective)}
  /\ \A e \in ActiveInverses : Edge(e).to # target
  /\ \E e \in DirectEdges(graph, To(Effective), target) : QueueFollowOn(e)
  /\ Admit(target)

RequestStatic(target) ==
  /\ NewRequest /\ Routable
  /\ phase = "static" /\ target # visual
  /\ \E e \in DirectEdges(graph, visual, target) :
       CommitStatic(e, RequestedChange(target) \o Superseded(target),
                    Settlement(Admitted(target).ids, "target-committed"))
  /\ requested' = target
  /\ group' = None

----------------------------------------------------------------------------
(* Events.  resolveEventEdge: the inverse of the route in hand has the     *)
(* first claim on an event, then the active edge, then the edges of the    *)
(* state the route leads to.                                               *)

Triggered(es, event) == {e \in es : Edge(e).trigger = OnEvent(event)}

EventEdge(event) ==
  LET waitingOn == IF (Early \/ phase = "waiting") /\ pending # None
                   THEN InverseEdges(graph, pending.edge) ELSE {}
      opposite  == Triggered(ActiveInverses \cup waitingOn, event)
      current   == IF InTransition THEN Triggered({active.edge}, event) ELSE {}
  IN  IF opposite # {} THEN opposite
      ELSE IF current # {} THEN current
      ELSE EventEdges(graph, Origin, event)

SendRefused(event) ==
  /\ Input
  /\ Routable => EventEdge(event) = {}
  /\ effects' = <<>>
  /\ UNCHANGED <<phase, installed, requested, routes, group, nextId>>

(* accept-noop: the event selects the route that is already selected.      *)
SendNoop(event) ==
  /\ Input /\ Routable
  /\ \E e \in EventEdge(event) :
       \/ InTransition /\ followOn = None /\ e = Effective.edge
       \/ /\ InTransition /\ followOn # None
          /\ e \notin {active.edge} \cup ActiveInverses
          /\ e = followOn.edge
       \/ ~InTransition /\ pending # None /\ e = pending.edge
  /\ effects' = <<>>
  /\ UNCHANGED <<phase, installed, requested, routes, group, nextId>>

(* Mutant: an event changes the routes and not requestedState.                 *)
Direct_KeepsRequested(e) ==
  /\ group' = None
  /\ effects' = SettleGroup("AbortError")
  /\ UNCHANGED <<requested, nextId>>

(* Mutant: an event leaves the pending requests waiting.                       *)
Direct_KeepsGroup(e) ==
  /\ requested' = Edge(e).to
  /\ effects' = RequestedChange(Edge(e).to)
  /\ UNCHANGED <<group, nextId>>

(* What every other accepted event does first: it aborts the group, even   *)
(* one that waits for the state the event leads to.                        *)
Direct(e) ==
  /\ requested' = Edge(e).to
  /\ group' = None
  /\ effects' = RequestedChange(Edge(e).to) \o SettleGroup("AbortError")
  /\ UNCHANGED nextId

SendCancel(event) ==
  /\ Input /\ Routable
  /\ Early \/ phase = "waiting"
  /\ pending # None
  /\ \E e \in EventEdge(event) : Edge(e).to = visual /\ Direct(e)
  /\ pending' = None
  /\ phase' = IF phase = "waiting" THEN "stable" ELSE phase
  /\ UNCHANGED <<installed, active, followOn, reversal>>

SendReroute(event) ==
  /\ Input /\ Routable
  /\ Early \/ phase \in {"stable", "waiting"}
  /\ \E e \in EventEdge(event) :
       /\ pending # None => e # pending.edge /\ Edge(e).to # visual
       /\ ReplacePending(e)
       /\ Direct(e)

SendContinue(event) ==
  /\ Input /\ Routable
  /\ InTransition
  /\ followOn # None \/ active.edge # Effective.edge
  /\ \E e \in EventEdge(event) : e = active.edge /\ Direct(e)
  /\ followOn' = None /\ reversal' = None
  /\ UNCHANGED <<phase, installed, pending, active>>

SendReverse(event) ==
  /\ Input /\ Routable
  /\ InTransition
  /\ \E e \in EventEdge(event) :
       /\ e \in ActiveInverses
       /\ followOn # None \/ e # Effective.edge
       /\ QueueReversal(e)
       /\ Direct(e)

SendFollowOn(event) ==
  /\ Input /\ Routable
  /\ InTransition
  /\ \E e \in EventEdge(event) :
       /\ e \notin {active.edge} \cup ActiveInverses
       /\ followOn # None => e # followOn.edge
       /\ QueueFollowOn(e)
       /\ Direct(e)

SendStatic(event) ==
  /\ Input /\ Routable
  /\ phase = "static"
  /\ \E e \in EventEdge(event) :
       /\ CommitStatic(e, RequestedChange(Edge(e).to) \o SettleGroup("AbortError"), <<>>)
       /\ requested' = Edge(e).to
  /\ group' = None
  /\ UNCHANGED nextId

----------------------------------------------------------------------------
(* Ticks.  A tick presents one frame and may start or land one route; it   *)
(* reopens the input window.                                               *)

Ticking(at) ==
  /\ phase = at /\ ~Terminated
  /\ inputs' = 0
  /\ UNCHANGED <<graph, readiness, nextId>>

(* bodyPresentationOrThrow and tickWaiting's own check.                    *)
OnBody == presentation.kind = "body"

Present(p) ==
  /\ presentation' = p
  /\ effects' = <<>>
  /\ UNCHANGED <<phase, requested, visual, introPending, routes, group, sequence>>

TickIdle ==
  /\ Ticking("preparing") \/ Ticking("static")
  /\ Present(presentation)

TickIntro ==
  /\ Ticking("intro")
  /\ presentation.frame + 1 < graph.introFrames
  /\ Present(Intro(presentation.at, presentation.frame + 1))

(* The join: the intro is consumed and the body starts.                    *)
TickIntroJoin ==
  /\ Ticking("intro")
  /\ presentation.frame + 1 >= graph.introFrames
  /\ presentation' = Body(presentation.at, 0)
  /\ introPending' = FALSE
  /\ phase' = IF pending = None THEN "stable" ELSE "waiting"
  /\ effects' = <<>>
  /\ UNCHANGED <<requested, visual, routes, group, sequence>>

NextFrame == NextBodyFrame(graph.states[presentation.at], presentation.frame)

(* The group settles when nothing is promoted and what was requested is    *)
(* what is displayed.                                                      *)
Settles(to) == followOn = None /\ requested' = to

(* commitActiveEdge: the edge's target is displayed and the continuation   *)
(* is promoted.                                                            *)
Land(e, before) ==
  LET to == Edge(e).to
  IN  /\ presentation' = Body(to, 0)
      /\ visual' = to
      /\ active' = None /\ reversal' = None /\ followOn' = None
      /\ pending' = followOn
      /\ phase' = IF followOn = None THEN "stable" ELSE "waiting"
      /\ group' = IF Settles(to) THEN None ELSE group
      /\ effects' = before \o VisualChange(visual, to) \o End(e)
                      \o (IF Settles(to) THEN SettleGroup("target-committed") ELSE <<>>)
      /\ UNCHANGED introPending

FirstFrame(e) == IF Edge(e).direction = "forward" THEN 0 ELSE Edge(e).frames - 1

(* startEdge: activate consumes the pending slot; an edge without a        *)
(* transition lands at once.                                               *)
Depart(route, before) ==
  LET e == route.edge
  IN  \/ Edge(e).kind = "none" /\ Land(e, before \o Start(e))
      \/ /\ Edge(e).kind # "none"
         /\ pending' = None /\ active' = route
         /\ phase' = Edge(e).kind
         /\ presentation' = IF Edge(e).kind = "locked"
                            THEN Locked(e, 0) ELSE Reversible(e, FirstFrame(e))
         /\ effects' = before \o Start(e)
         /\ UNCHANGED <<visual, introPending, followOn, reversal, group>>

(* A completion edge departs from the last frame of its state's body.      *)
Completes(e, routeReady) ==
  /\ e \in CompletionEdges(graph, presentation.at)
  /\ presentation.frame = graph.states[presentation.at].frames - 1
  /\ routeReady \/ Edge(e).start = "cut"

TickCompletion(routeReady) ==
  /\ Ticking("stable") /\ OnBody
  /\ sequence < MaxSequence
  /\ sequence' = sequence + 1
  /\ \E e \in EdgesOf(graph) :
       /\ Completes(e, routeReady)
       /\ requested' = Edge(e).to
       /\ Depart(Route(e, sequence'), RequestedChange(Edge(e).to))

TickBody(routeReady) ==
  /\ Ticking("stable") /\ OnBody
  /\ \A e \in EdgesOf(graph) : ~Completes(e, routeReady)
  /\ Present(Body(presentation.at, NextFrame))

(* The pending edge may depart from the displayed frame.                   *)
Departs(routeReady) ==
  \/ Edge(pending.edge).start = "cut"
  \/ AtBoundary(graph, pending.edge, presentation.frame) /\ routeReady

TickWait(routeReady) ==
  /\ Ticking("waiting") /\ OnBody
  /\ ~Departs(routeReady)
  /\ Present(Body(presentation.at, NextFrame))

TickDepart(routeReady) ==
  /\ Ticking("waiting") /\ OnBody
  /\ Departs(routeReady)
  /\ UNCHANGED <<requested, sequence>>
  /\ Depart(pending, <<>>)

TickLocked ==
  /\ Ticking("locked")
  /\ presentation.frame + 1 < Edge(active.edge).frames
  /\ Present(Locked(active.edge, presentation.frame + 1))

TickLockedEnd ==
  /\ Ticking("locked")
  /\ presentation.frame + 1 >= Edge(active.edge).frames
  /\ UNCHANGED <<requested, sequence>>
  /\ Land(active.edge, <<>>)

(* A queued reversal becomes the active route on the next tick and plays   *)
(* the unit from the displayed frame.                                      *)
Turns == IF reversal = None THEN <<>> ELSE Start(reversal.edge)

ReversibleNext ==
  IF Edge(Effective.edge).direction = "forward"
  THEN presentation.frame + 1 ELSE presentation.frame - 1

InUnit(frame) == frame \in 0..(Edge(Effective.edge).frames - 1)

TickReversible ==
  /\ Ticking("reversible")
  /\ InUnit(ReversibleNext)
  /\ presentation' = Reversible(Effective.edge, ReversibleNext)
  /\ active' = Effective /\ reversal' = None
  /\ effects' = Turns
  /\ UNCHANGED <<phase, requested, visual, introPending, pending, followOn, group, sequence>>

TickReversibleEnd ==
  /\ Ticking("reversible")
  /\ ~InUnit(ReversibleNext)
  /\ UNCHANGED <<requested, sequence>>
  /\ Land(Effective.edge, Turns)

Tick(routeReady) ==
  \/ TickIdle
  \/ TickIntro \/ TickIntroJoin
  \/ TickBody(routeReady) \/ TickCompletion(routeReady)
  \/ TickWait(routeReady) \/ TickDepart(routeReady)
  \/ TickLocked \/ TickLockedEnd
  \/ TickReversible \/ TickReversibleEnd

----------------------------------------------------------------------------
Request(target) ==
  \/ RequestRefused(target) \/ RequestHere(target)
  \/ RequestJoin(target) \/ RequestCancel(target)
  \/ RequestReroute(target) \/ RequestContinue(target)
  \/ RequestReverse(target) \/ RequestFollowOn(target)
  \/ RequestStatic(target)

Send(event) ==
  \/ SendRefused(event) \/ SendNoop(event) \/ SendCancel(event)
  \/ SendReroute(event) \/ SendContinue(event) \/ SendReverse(event)
  \/ SendFollowOn(event) \/ SendStatic(event)

Lifecycle ==
  \/ readiness = "unready" /\ \E d \in Definitions : Install(d)
  \/ BeginAnimated \/ ResumeAnimated \/ BeginStatic
  \/ \E retained \in GraphStates \cup {None} :
       RecoverStatic(retained) \/ FailPlayback(retained) \/ Dispose(retained)

Next ==
  \/ Lifecycle
  \/ \E target \in Targets : Request(target)
  \/ \E event \in Events : Send(event)
  \/ \E routeReady \in BOOLEAN : Tick(routeReady)

Spec == Init /\ [][Next]_vars
============================================================================
