------------------------- MODULE MotionGraphProofs -------------------------
(***************************************************************************)
(* Theorems about MotionGraphEngine, for every set of definitions, targets *)
(* and events and every bound: it never contradicts itself, its effects    *)
(* tell what happened, and it implements the abstract settlement of        *)
(* requests (LatestWins).                                                  *)
(***************************************************************************)
EXTENDS MotionGraphProperties, TLAPS, SequenceTheorems, WellFoundedInduction

----------------------------------------------------------------------------
(* What validation gives the engine to rely on.                            *)
Sound(d) ==
  /\ d.initial \in StatesOf(d)
  /\ d.introFrames \in Nat
  /\ \A s \in StatesOf(d) : d.states[s].frames \in Nat \ {0}
  /\ \A e \in EdgesOf(d) :
       /\ d.edges[e].from \in StatesOf(d) /\ d.edges[e].to \in StatesOf(d)
       /\ d.edges[e].from # d.edges[e].to
       /\ d.edges[e].kind \in {"none", "locked", "reversible"}
       /\ d.edges[e].frames \in Nat
       /\ d.edges[e].kind # "none" => d.edges[e].frames >= 1
  /\ \A e \in EdgesOf(d) : \A f \in InverseEdges(d, e) :
       /\ f \in EdgesOf(d)
       /\ d.edges[f].kind = "reversible" /\ d.edges[e].kind = "reversible"
       /\ d.edges[f].from = d.edges[e].to /\ d.edges[f].to = d.edges[e].from
       /\ d.edges[f].frames = d.edges[e].frames

(* What the validation of a definition guarantees and the proofs use.      *)
LEMMA ValidIsSound ==
  ASSUME NEW d \in Definitions, Valid(d) PROVE Sound(d)
<1>1. IsDefinition(d)
  BY DefinitionsAssumption
<1>2. d.initial \in StatesOf(d) /\ d.introFrames \in Nat
  BY <1>1 DEF Valid, ValidStates, IsDefinition
<1>3. \A s \in StatesOf(d) : d.states[s].frames \in Nat \ {0}
  BY <1>1 DEF Valid, ValidStates, ValidBody, IsDefinition
<1>4. ASSUME NEW e \in EdgesOf(d)
      PROVE  /\ d.edges[e].from \in StatesOf(d) /\ d.edges[e].to \in StatesOf(d)
             /\ d.edges[e].from # d.edges[e].to
             /\ d.edges[e].kind \in {"none", "locked", "reversible"}
             /\ d.edges[e].frames \in Nat
             /\ d.edges[e].kind # "none" => d.edges[e].frames >= 1
  BY <1>1 DEF Valid, ValidShape, ValidReferences, IsDefinition
<1>5. ASSUME NEW e \in EdgesOf(d), NEW f \in InverseEdges(d, e)
      PROVE  /\ f \in EdgesOf(d)
             /\ d.edges[f].kind = "reversible" /\ d.edges[e].kind = "reversible"
             /\ d.edges[f].from = d.edges[e].to /\ d.edges[f].to = d.edges[e].from
             /\ d.edges[f].frames = d.edges[e].frames
  <2>1. f \in EdgesOf(d) /\ d.edges[f].kind = "reversible" /\ d.edges[e].kind = "reversible"
    BY DEF InverseEdges
  <2>2. ValidPair(d, e, f)
    BY <2>1 DEF Valid, ValidReversiblePairs
  <2> QED BY <2>1, <2>2 DEF ValidPair
<1> QED BY <1>2, <1>3, <1>4, <1>5 DEF Sound

----------------------------------------------------------------------------
(* The inductive invariant.                                                *)
Inv ==
  /\ TypeOK
  /\ RouteShape
  /\ PresentationShape
  /\ ReadinessShape
  /\ RequestedIsProspective
  /\ GroupFollowsRoutes
  /\ IntroArmed

(* The installed definition passed validation.                             *)
LEMMA InstalledIsSound == ASSUME TypeOK, graph # None PROVE Sound(graph)
BY ValidIsSound DEF TypeOK

(* A route is never mistaken for the absence of one.                       *)
LEMMA RouteIsSomething ==
  ASSUME TypeOK, NEW e \in EdgeIds, NEW seq \in Nat PROVE Route(e, seq) # None
<1>1. graph # None
  BY DEF EdgeIds
<1>2. e \in UNION {EdgesOf(d) : d \in Definitions}
  BY <1>1 DEF TypeOK, EdgeIds
<1> QED BY <1>2, NoneAssumption DEF Route

(* The ledger's request makes a group for the requested target.            *)
LEMMA AdmittedIsGroup ==
  ASSUME TypeOK, graph # None, NEW target \in GraphStates
  PROVE  /\ Admitted(target) \in [target : GraphStates, ids : SUBSET Nat]
         /\ Admitted(target) # None
         /\ Admitted(target).target = target
         /\ Admitted(target).ids # {}
<1>1. Admitted(target) \in [target : GraphStates, ids : SUBSET Nat]
  BY DEF Admitted, TypeOK
<1>2. GraphStates \subseteq UNION {StatesOf(d) : d \in Definitions}
  BY DEF TypeOK, GraphStates
<1>3. Admitted(target) # None
  BY <1>1, <1>2, NoneAssumption DEF Admitted
<1> QED BY <1>1, <1>3 DEF Admitted

----------------------------------------------------------------------------
(* Every step keeps the invariant.  Requests and events change the routes  *)
(* in the same ways, so that each way has a lemma: what it needs of the    *)
(* request or event is that it redirects the graph.                        *)
USE DEF Inv, RouteShape, PendingShape, ActiveShape, ContinuationShape,
        PresentationShape, ReadinessShape, RequestedIsProspective, GroupFollowsRoutes,
        IntroArmed, InTransition, Early, Terminated, From, To, Edge, Effective, Prospective, HasRoute,
        Route, RouteSet, EdgeIds, GraphStates, installed, routes

Numbered ==
  /\ sequence' \in 0..MaxSequence /\ inputs' \in 0..MaxInputsPerTick
  /\ nextId' \in Nat \ {0}
  /\ UNCHANGED graph

Counted == Numbered /\ UNCHANGED readiness

USE DEF Counted, Numbered

Redirected(target) ==
  /\ Counted
  /\ target \in GraphStates
  /\ requested' = target
  /\ group' # None => /\ group' \in [target : {target}, ids : SUBSET Nat]
                      /\ group'.ids # {}

(* An input leaves the counters of the journal and the ledger in their     *)
(* ranges.                                                                 *)
LEMMA InputCounts ==
  ASSUME TypeOK, Input, nextId' \in {nextId, nextId + 1} PROVE Counted
BY LimitsAssumption DEF TypeOK, Input, Overflowed, Counted

(* An admitted request moves requestedState and the group to its target.   *)
LEMMA AdmitRedirects ==
  ASSUME TypeOK, graph # None, NewRequest, NEW target \in GraphStates, Admit(target)
  PROVE  Redirected(target)
BY InputCounts, AdmittedIsGroup DEF TypeOK, NewRequest, Admit, Redirected

(* An event moves requestedState to its edge's target and drops the group. *)
LEMMA DirectRedirects ==
  ASSUME TypeOK, graph # None, Input, NEW e \in EdgeIds, Direct(e)
  PROVE  Redirected(Edge(e).to)
BY InputCounts, InstalledIsSound DEF Direct, Redirected, Sound

(* The pending route is replaced by an edge that leaves the displayed      *)
(* state.                                                                  *)
LEMMA ReplacePendingKeeps ==
  ASSUME Inv, NEW e \in EdgeIds, Edge(e).from = visual,
         Early \/ phase \in {"stable", "waiting"},
         ReplacePending(e), Redirected(Edge(e).to)
  PROVE  Inv'
<1>0. graph # None /\ Route(e, sequence') # None /\ pending' \in RouteSet
  BY RouteIsSomething DEF Redirected, Counted, ReplacePending
<1>1. TypeOK'
  BY <1>0 DEF TypeOK, ReplacePending, Redirected, Counted, PresentationSet, Phases, Readinesses
<1>2. (RouteShape /\ PresentationShape /\ ReadinessShape /\ IntroArmed)'
  BY <1>0 DEF TypeOK, ReplacePending, Redirected, Counted
<1>3. (RequestedIsProspective /\ GroupFollowsRoutes)'
  BY <1>0 DEF TypeOK, ReplacePending, Redirected, Counted
<1> QED BY <1>1, <1>2, <1>3

(* A reversal is queued: the inverse of the active route, which drops any  *)
(* follow-on.                                                              *)
LEMMA QueueReversalKeeps ==
  ASSUME Inv, NEW e \in InverseEdges(graph, active.edge), phase = "reversible",
         QueueReversal(e), Redirected(Edge(e).to)
  PROVE  Inv'
<1>0. /\ graph # None /\ active # None
      /\ e \in EdgeIds /\ active.edge \in EdgeIds
  BY InstalledIsSound DEF TypeOK, Sound
<1>1. Route(e, sequence') # None /\ reversal' \in RouteSet
  BY <1>0, RouteIsSomething DEF Redirected, Counted, QueueReversal
<1>2. TypeOK'
  BY <1>0, <1>1 DEF TypeOK, QueueReversal, Redirected, Counted, PresentationSet, Phases, Readinesses
<1>3. (RouteShape /\ PresentationShape /\ ReadinessShape /\ IntroArmed)'
  BY <1>0, <1>1 DEF TypeOK, QueueReversal, Redirected, Counted
<1>4. (RequestedIsProspective /\ GroupFollowsRoutes)'
  BY <1>0, <1>1 DEF TypeOK, QueueReversal, Redirected, Counted
<1> QED BY <1>2, <1>3, <1>4

(* A follow-on is queued: an edge that leaves where the transition is      *)
(* going.                                                                  *)
LEMMA QueueFollowOnKeeps ==
  ASSUME Inv, NEW e \in EdgeIds, InTransition, Edge(e).from = To(Effective),
         QueueFollowOn(e), Redirected(Edge(e).to)
  PROVE  Inv'
<1>0. graph # None /\ active # None
  BY DEF TypeOK
<1>1. Route(e, sequence') # None /\ followOn' \in RouteSet
  BY <1>0, RouteIsSomething DEF Redirected, Counted, QueueFollowOn
<1>2. TypeOK'
  BY <1>0, <1>1 DEF TypeOK, QueueFollowOn, Redirected, Counted, PresentationSet, Phases, Readinesses
<1>3. (RouteShape /\ PresentationShape /\ ReadinessShape /\ IntroArmed)'
  BY <1>0, <1>1 DEF TypeOK, QueueFollowOn, Redirected, Counted
<1>4. (RequestedIsProspective /\ GroupFollowsRoutes)'
  BY <1>0, <1>1 DEF TypeOK, QueueFollowOn, Redirected, Counted
<1> QED BY <1>2, <1>3, <1>4

(* The continuation is dropped: the transition, or the reversal that is    *)
(* queued, goes where the request or event leads.                          *)
LEMMA ContinueKeeps ==
  ASSUME Inv, InTransition, NEW target, Redirected(target),
         \/ target = To(active) /\ reversal' = None
         \/ target = To(Effective) /\ reversal' = reversal,
         followOn' = None,
         UNCHANGED <<phase, installed, pending, active>>
  PROVE  Inv'
<1>0. graph # None /\ active # None
  BY DEF TypeOK
<1>1. TypeOK'
  BY <1>0 DEF TypeOK, Redirected, Counted, PresentationSet, Phases, Readinesses
<1>2. (RouteShape /\ PresentationShape /\ ReadinessShape /\ IntroArmed)'
  BY <1>0 DEF TypeOK, Redirected, Counted
<1>3. (RequestedIsProspective /\ GroupFollowsRoutes)'
  BY <1>0 DEF TypeOK, Redirected, Counted
<1> QED BY <1>1, <1>2, <1>3

(* The pending route is dropped: the graph stays where it is.              *)
LEMMA CancelKeeps ==
  ASSUME Inv, Redirected(visual), group' = None, pending' = None,
         \/ Early /\ phase' = phase
         \/ phase = "waiting" /\ phase' = "stable",
         UNCHANGED <<installed, active, followOn, reversal>>
  PROVE  Inv'
<1>1. TypeOK'
  BY DEF TypeOK, Redirected, Counted, PresentationSet, Phases, Readinesses
<1>2. (RouteShape /\ PresentationShape /\ ReadinessShape /\ IntroArmed)'
  BY DEF TypeOK, Redirected, Counted
<1>3. (RequestedIsProspective /\ GroupFollowsRoutes)'
  BY DEF TypeOK, Redirected, Counted
<1> QED BY <1>1, <1>2, <1>3

(* A refused or idle input.                                                *)
LEMMA InertKeeps ==
  ASSUME Inv, Counted, UNCHANGED <<phase, installed, requested, routes, group>>
  PROVE  Inv'
<1>1. TypeOK'
  BY DEF TypeOK, Counted, PresentationSet, Phases, Readinesses
<1>2. (RouteShape /\ PresentationShape /\ ReadinessShape /\ IntroArmed)'
  BY DEF TypeOK, Counted
<1>3. (RequestedIsProspective /\ GroupFollowsRoutes)'
  BY DEF TypeOK, Counted
<1> QED BY <1>1, <1>2, <1>3

(* A static commit, or a recovery: the graph rests in its visual state.    *)
LEMMA StaticKeeps ==
  ASSUME Inv, graph # None, Numbered,
         readiness' = "static", phase' = "static",
         visual' \in GraphStates, requested' = visual', presentation' = Static(visual'),
         introPending' = (introPending /\ visual' = graph.initial),
         ClearRoutes, group' = None
  PROVE  Inv'
<1>1. TypeOK'
  BY DEF TypeOK, ClearRoutes, PresentationSet, Phases, Readinesses, Static
<1>2. (RouteShape /\ PresentationShape /\ ReadinessShape /\ IntroArmed)'
  BY DEF ClearRoutes
<1>3. (RequestedIsProspective /\ GroupFollowsRoutes)'
  BY DEF ClearRoutes
<1> QED BY <1>1, <1>2, <1>3

(* A static graph takes an edge at once.                                   *)
LEMMA CommitStaticKeeps ==
  ASSUME Inv, graph # None, Numbered, NEW e \in EdgeIds, NEW before, NEW settlement,
         CommitStatic(e, before, settlement), readiness' = "static",
         requested' = Edge(e).to, group' = None
  PROVE  Inv'
<1>1. Edge(e).to \in GraphStates
  BY InstalledIsSound DEF Sound
<1> QED BY <1>1, StaticKeeps DEF CommitStatic, DisarmIntro, TypeOK, Static

(* No route and no group are left in an engine that stops.                 *)
LEMMA StopKeeps ==
  ASSUME Inv, Numbered, NEW end \in {"error", "disposed"},
         graph = None => end = "disposed",
         readiness' = end, phase' = end, requested' = requested,
         graph # None => visual' \in GraphStates, presentation' \in PresentationSet,
         introPending' = introPending, ClearRoutes, group' = None
  PROVE  Inv'
<1>1. TypeOK'
  BY DEF TypeOK, ClearRoutes, PresentationSet, Phases, Readinesses
<1>2. (RouteShape /\ PresentationShape /\ ReadinessShape /\ IntroArmed)'
  BY DEF ClearRoutes
<1>3. (RequestedIsProspective /\ GroupFollowsRoutes)'
  BY DEF ClearRoutes
<1> QED BY <1>1, <1>2, <1>3

----------------------------------------------------------------------------
(* The lifecycle.                                                          *)

(* Installing a valid definition, preparing in its initial state.          *)
LEMMA InstallKeeps == ASSUME Inv, NEW d \in Definitions, Install(d) PROVE Inv'
<1>1. d # None /\ Sound(d)
  BY ValidIsSound, NoneAssumption DEF Install
<1>2. graph = None /\ phase = "unready" /\ ~HasRoute /\ group = None
  BY DEF Install
<1>3. TypeOK'
  BY <1>1, <1>2 DEF TypeOK, Install, Sound, PresentationSet, Phases, Readinesses, Static
<1>4. (RouteShape /\ PresentationShape /\ ReadinessShape /\ IntroArmed)'
  BY <1>1, <1>2 DEF Install
<1>5. (RequestedIsProspective /\ GroupFollowsRoutes)'
  BY <1>1, <1>2 DEF Install
<1> QED BY <1>3, <1>4, <1>5

(* The first animated frame, of the intro or of the body.                  *)
LEMMA BeginAnimatedKeeps == ASSUME Inv, BeginAnimated PROVE Inv'
<1>1. graph # None /\ visual = graph.initial /\ Sound(graph)
  BY InstalledIsSound DEF BeginAnimated
<1>5. graph.introFrames \in Nat /\ graph.states[visual].frames \in Nat \ {0}
  BY <1>1 DEF Sound
<1>2. TypeOK'
  BY <1>1 DEF TypeOK, Sound, BeginAnimated, EnterIntro, Intro, Body, PresentationSet, Phases, Readinesses
<1>3. (RouteShape /\ PresentationShape /\ ReadinessShape /\ IntroArmed)'
  <2>1. RouteShape'
    BY <1>1 DEF BeginAnimated, EnterIntro
  <2>2. PresentationShape'
    BY <1>1, <1>5 DEF BeginAnimated, EnterIntro, Intro, Body
  <2>3. ReadinessShape'
    BY DEF BeginAnimated, EnterIntro
  <2>4. introPending <=> graph.introFrames > 0
    BY <1>1 DEF BeginAnimated
  <2>5. IntroArmed'
    BY <1>1, <1>5, <2>4 DEF BeginAnimated, EnterIntro, Terminated
  <2> QED BY <2>1, <2>2, <2>3, <2>4, <2>5
<1>4. (RequestedIsProspective /\ GroupFollowsRoutes)'
  BY <1>1 DEF BeginAnimated, EnterIntro
<1> QED BY <1>2, <1>3, <1>4

(* Animation resumed from rest in a static state.                          *)
LEMMA ResumeAnimatedKeeps == ASSUME Inv, ResumeAnimated PROVE Inv'
<1>1. graph # None /\ Sound(graph)
  BY InstalledIsSound DEF ResumeAnimated
<1>2. graph.states[visual].frames \in Nat \ {0} /\ visual \in GraphStates
  BY <1>1 DEF TypeOK, Sound
<1>3. introPending => graph.introFrames \in Nat \ {0}
  BY <1>1 DEF Sound
<1>4. TypeOK'
  BY <1>1, <1>2 DEF TypeOK, Sound, ResumeAnimated, EnterIntro, Intro, Body, PresentationSet, Phases, Readinesses
<1>5. (RouteShape /\ PresentationShape /\ ReadinessShape /\ IntroArmed)'
  BY <1>1, <1>2, <1>3 DEF ResumeAnimated, EnterIntro, Intro, Body
<1>6. (RequestedIsProspective /\ GroupFollowsRoutes)'
  BY <1>1 DEF ResumeAnimated, EnterIntro
<1> QED BY <1>4, <1>5, <1>6

(* A graph in which nothing is on the way has no request waiting.          *)
LEMMA RestIsBare ==
  ASSUME Inv, visual = requested, ~InTransition, graph # None, ~Terminated
  PROVE  ~HasRoute /\ group = None
<1>1. pending = None
  <2>1. SUFFICES ASSUME pending # None PROVE FALSE
    OBVIOUS
  <2>2. pending.edge \in EdgeIds /\ From(pending) = visual /\ To(pending) = visual
    BY <2>1 DEF TypeOK
  <2> QED BY <2>2, InstalledIsSound DEF Sound
<1> QED BY <1>1

(* Preparation ends without animation, in the state that was asked for.    *)
LEMMA BeginStaticKeeps == ASSUME Inv, BeginStatic PROVE Inv'
<1>1. graph # None /\ Numbered /\ visual = graph.initial /\ visual \in GraphStates
  BY DEF TypeOK, BeginStatic
<1>2. ASSUME NEW e \in DirectEdges(graph, visual, requested),
             CommitStatic(e, ReadinessChange("static"), SettleGroup("static-recovery")),
             group' = None, requested' = requested, readiness' = "static"
      PROVE  Inv'
  BY <1>1, <1>2, CommitStaticKeeps DEF DirectEdges
<1>3. CASE visual = requested
  <2>1. ~HasRoute /\ group = None
    BY <1>1, <1>3, RestIsBare DEF BeginStatic
  <2> QED BY <1>1, <1>3, <2>1, StaticKeeps DEF BeginStatic, TypeOK
<1> QED BY <1>2, <1>3 DEF BeginStatic

(* Recovery to a static frame, from the drawn state or a host override.    *)
LEMMA RecoverStaticKeeps ==
  ASSUME Inv, NEW retained \in GraphStates \cup {None}, RecoverStatic(retained) PROVE Inv'
<1> DEFINE drawn == IF retained = None THEN visual ELSE retained
<1>1. graph # None /\ Numbered /\ drawn \in GraphStates /\ requested \in GraphStates
  BY DEF TypeOK, RecoverStatic
<1>2. CASE drawn # requested \/ HasRoute
  BY <1>1, <1>2, StaticKeeps DEF RecoverStatic, DisarmIntro
<1>3. CASE ~(drawn # requested \/ HasRoute)
  <2>1. group = None /\ visual = requested /\ drawn = visual
    BY <1>1, <1>3 DEF RecoverStatic
  <2>2. introPending' = (introPending /\ visual' = graph.initial)
    BY <1>1, <1>3, <2>1 DEF RecoverStatic, TypeOK
  <2> QED BY <1>1, <1>3, <2>1, <2>2, StaticKeeps DEF RecoverStatic
<1> QED BY <1>2, <1>3

(* A failed playback keeps what is displayed.                              *)
LEMMA FailPlaybackKeeps ==
  ASSUME Inv, NEW retained \in GraphStates \cup {None}, FailPlayback(retained) PROVE Inv'
BY StopKeeps, SMTT(30) DEF FailPlayback, TypeOK, PresentationSet, Static

(* A disposed engine displays nothing.                                     *)
LEMMA DisposeKeeps ==
  ASSUME Inv, NEW retained \in GraphStates \cup {None}, Dispose(retained) PROVE Inv'
BY StopKeeps, SMTT(30) DEF Dispose, TypeOK, PresentationSet

(* Every lifecycle operation keeps the invariant.                          *)
LEMMA LifecycleKeeps == ASSUME Inv, Lifecycle PROVE Inv'
BY InstallKeeps, BeginAnimatedKeeps, ResumeAnimatedKeeps, BeginStaticKeeps,
   RecoverStaticKeeps, FailPlaybackKeeps, DisposeKeeps DEF Lifecycle

----------------------------------------------------------------------------
(* Requests and events.                                                    *)

(* A direct edge leads from the one state to the other.                    *)
LEMMA DirectEdgeLeads ==
  ASSUME TypeOK, graph # None, NEW from, NEW to, NEW e \in DirectEdges(graph, from, to)
  PROVE  e \in EdgeIds /\ Edge(e).from = from /\ Edge(e).to = to /\ to \in GraphStates
BY InstalledIsSound DEF DirectEdges, Sound

(* The inverse of the active edge leads back to where it came from.        *)
LEMMA ActiveInverseLeads ==
  ASSUME Inv, NEW e \in ActiveInverses
  PROVE  phase = "reversible" /\ e \in InverseEdges(graph, active.edge) /\ e \in EdgeIds
BY InstalledIsSound DEF ActiveInverses, TypeOK, Sound

(* An event selects an edge of the route in hand, an edge back to the      *)
(* displayed state, or an edge of the state that the routes lead to.       *)
LEMMA EventEdgeLeads ==
  ASSUME Inv, graph # None, NEW event, NEW e \in EventEdge(event)
  PROVE  /\ e \in EdgeIds
         /\ InTransition => e \in ActiveInverses \/ e = active.edge \/ Edge(e).from = To(Effective)
         /\ ~InTransition => Edge(e).from = visual \/ (pending # None /\ Edge(e).to = visual)
<1> DEFINE waitingOn == IF (Early \/ phase = "waiting") /\ pending # None
                        THEN InverseEdges(graph, pending.edge) ELSE {}
<1>1. ASSUME e \in ActiveInverses PROVE e \in EdgeIds /\ InTransition
  BY <1>1, ActiveInverseLeads
<1>2. ASSUME e \in waitingOn
      PROVE  e \in EdgeIds /\ ~InTransition /\ pending # None /\ Edge(e).to = visual
  BY <1>2, InstalledIsSound DEF TypeOK, Sound
<1>3. ASSUME InTransition, e = active.edge PROVE e \in EdgeIds
  BY <1>3 DEF TypeOK
<1>4. ASSUME e \in EventEdges(graph, Origin, event)
      PROVE  e \in EdgeIds /\ Edge(e).from = IF InTransition THEN To(Effective) ELSE visual
  BY <1>4 DEF EventEdges, Origin
<1>5. \/ e \in ActiveInverses \cup waitingOn
      \/ InTransition /\ e = active.edge
      \/ e \in EventEdges(graph, Origin, event)
  BY SMTT(30) DEF EventEdge, Triggered
<1> QED BY <1>1, <1>2, <1>3, <1>4, <1>5

(* Every outcome of a request keeps the invariant.                         *)
LEMMA RequestKeeps == ASSUME Inv, NEW target, Request(target) PROVE Inv'
<1>1. CASE RequestRefused(target) \/ RequestHere(target)
  BY <1>1, InputCounts, InertKeeps DEF RequestRefused, RequestHere, NewRequest
<1>2. CASE RequestJoin(target)
  <2>1. graph # None /\ pending # None /\ target = requested /\ target \in GraphStates
    BY <1>2 DEF TypeOK, RequestJoin, Routable
  <2>2. Counted
    BY <1>2, InputCounts DEF RequestJoin, NewRequest
  <2>3. group' # None /\ group'.target = requested /\ group'.ids # {}
        /\ group' \in [target : GraphStates, ids : SUBSET Nat]
    BY <1>2, <2>1, AdmittedIsGroup DEF RequestJoin
  <2>4. TypeOK'
    BY <1>2, <2>2, <2>3 DEF TypeOK, RequestJoin, PresentationSet
  <2>5. (RouteShape /\ PresentationShape /\ ReadinessShape /\ IntroArmed)'
    BY <1>2, <2>2 DEF RequestJoin
  <2>6. (RequestedIsProspective /\ GroupFollowsRoutes)'
    BY <1>2, <2>1, <2>2, <2>3 DEF RequestJoin
  <2> QED BY <2>4, <2>5, <2>6
<1>3. CASE RequestCancel(target)
  <2>1. graph # None /\ visual \in GraphStates /\ target = visual
    BY <1>3 DEF TypeOK, RequestCancel, Routable
  <2>2. Redirected(visual)
    BY <1>3, <2>1, InputCounts DEF RequestCancel, NewRequest, Redirected
  <2> QED BY <1>3, <2>1, <2>2, CancelKeeps DEF RequestCancel
<1>4. CASE RequestReroute(target)
  <2>1. graph # None
    BY <1>4 DEF RequestReroute, Routable
  <2>2. PICK e \in DirectEdges(graph, visual, target) : ReplacePending(e)
    BY <1>4 DEF RequestReroute
  <2>3. e \in EdgeIds /\ Edge(e).from = visual /\ Edge(e).to = target /\ Redirected(target)
    BY <1>4, <2>1, DirectEdgeLeads, AdmitRedirects DEF RequestReroute
  <2> QED BY <1>4, <2>2, <2>3, ReplacePendingKeeps DEF RequestReroute
<1>5. CASE RequestContinue(target)
  <2>1. graph # None /\ target \in GraphStates
    BY <1>5, InstalledIsSound DEF RequestContinue, TypeOK, Sound
  <2>2. Redirected(target)
    BY <1>5, <2>1, AdmitRedirects DEF RequestContinue
  <2> QED BY <1>5, <2>2, ContinueKeeps DEF RequestContinue
<1>6. CASE RequestReverse(target)
  <2>1. PICK e \in ActiveInverses : Edge(e).to = target /\ QueueReversal(e)
    BY <1>6 DEF RequestReverse
  <2>2. graph # None /\ target \in GraphStates
    BY <1>6, <2>1, ActiveInverseLeads, InstalledIsSound DEF Sound, TypeOK
  <2>3. Redirected(target)
    BY <1>6, <2>2, AdmitRedirects, SMTT(30) DEF RequestReverse
  <2> QED BY <2>1, <2>3, ActiveInverseLeads, QueueReversalKeeps
<1>7. CASE RequestFollowOn(target)
  <2>1. graph # None
    BY <1>7 DEF RequestFollowOn, TypeOK
  <2>2. PICK e \in DirectEdges(graph, To(Effective), target) : QueueFollowOn(e)
    BY <1>7 DEF RequestFollowOn
  <2>3. e \in EdgeIds /\ Edge(e).from = To(Effective) /\ Edge(e).to = target /\ Redirected(target)
    BY <1>7, <2>1, DirectEdgeLeads, AdmitRedirects DEF RequestFollowOn
  <2> QED BY <1>7, <2>2, <2>3, QueueFollowOnKeeps DEF RequestFollowOn
<1>8. CASE RequestStatic(target)
  <2>1. graph # None /\ readiness = "static"
    BY <1>8 DEF RequestStatic
  <2>2. PICK e \in DirectEdges(graph, visual, target) :
             CommitStatic(e, RequestedChange(target) \o Superseded(target),
                          Settlement(Admitted(target).ids, "target-committed"))
    BY <1>8 DEF RequestStatic
  <2>3. e \in EdgeIds /\ Edge(e).to = target
    BY <2>1, DirectEdgeLeads
  <2>4. Counted
    BY <1>8, InputCounts, SMTT(30) DEF RequestStatic, NewRequest
  <2> QED BY <1>8, <2>1, <2>2, <2>3, <2>4, CommitStaticKeeps DEF RequestStatic
<1> QED BY <1>1, <1>2, <1>3, <1>4, <1>5, <1>6, <1>7, <1>8 DEF Request

(* Every outcome of an event keeps the invariant.                          *)
LEMMA SendKeeps == ASSUME Inv, NEW event, Send(event) PROVE Inv'
<1>1. CASE SendRefused(event) \/ SendNoop(event)
  BY <1>1, InputCounts, InertKeeps DEF SendRefused, SendNoop
<1>2. CASE SendCancel(event)
  <2>1. PICK e \in EventEdge(event) : Edge(e).to = visual /\ Direct(e)
    BY <1>2 DEF SendCancel
  <2>2. graph # None
    BY <1>2 DEF SendCancel, Routable
  <2>3. Redirected(visual) /\ group' = None
    BY <1>2, <2>1, <2>2, EventEdgeLeads, DirectRedirects DEF SendCancel, Direct
  <2> QED BY <1>2, <2>3, CancelKeeps DEF SendCancel
<1>3. CASE SendReroute(event)
  <2>1. PICK e \in EventEdge(event) :
               /\ pending # None => e # pending.edge /\ Edge(e).to # visual
               /\ ReplacePending(e) /\ Direct(e)
    BY <1>3 DEF SendReroute
  <2>2. graph # None
    BY <1>3 DEF SendReroute, Routable
  <2>3. e \in EdgeIds /\ Edge(e).from = visual
    BY <1>3, <2>1, <2>2, EventEdgeLeads DEF SendReroute
  <2> QED BY <1>3, <2>1, <2>2, <2>3, DirectRedirects, ReplacePendingKeeps DEF SendReroute
<1>4. CASE SendContinue(event)
  <2>1. PICK e \in EventEdge(event) : e = active.edge /\ Direct(e)
    BY <1>4 DEF SendContinue
  <2>2. graph # None
    BY <1>4 DEF SendContinue, Routable
  <2>3. Redirected(To(active))
    BY <1>4, <2>1, <2>2, EventEdgeLeads, DirectRedirects DEF SendContinue
  <2> QED BY <1>4, <2>3, ContinueKeeps DEF SendContinue
<1>5. CASE SendReverse(event)
  <2>1. PICK e \in EventEdge(event) : e \in ActiveInverses /\ QueueReversal(e) /\ Direct(e)
    BY <1>5 DEF SendReverse
  <2>2. graph # None
    BY <1>5 DEF SendReverse, Routable
  <2>3. Redirected(Edge(e).to)
    BY <1>5, <2>1, <2>2, ActiveInverseLeads, DirectRedirects DEF SendReverse
  <2> QED BY <2>1, <2>3, ActiveInverseLeads, QueueReversalKeeps
<1>6. CASE SendFollowOn(event)
  <2>1. PICK e \in EventEdge(event) :
               e \notin {active.edge} \cup ActiveInverses /\ QueueFollowOn(e) /\ Direct(e)
    BY <1>6 DEF SendFollowOn
  <2>2. graph # None
    BY <1>6 DEF SendFollowOn, Routable
  <2>3. e \in EdgeIds /\ Edge(e).from = To(Effective)
    BY <1>6, <2>1, <2>2, EventEdgeLeads DEF SendFollowOn
  <2> QED BY <1>6, <2>1, <2>2, <2>3, DirectRedirects, QueueFollowOnKeeps DEF SendFollowOn
<1>7. CASE SendStatic(event)
  <2>1. graph # None /\ readiness = "static"
    BY <1>7 DEF SendStatic
  <2>2. PICK e \in EventEdge(event) :
               /\ CommitStatic(e, RequestedChange(Edge(e).to) \o SettleGroup("AbortError"), <<>>)
               /\ requested' = Edge(e).to
    BY <1>7 DEF SendStatic
  <2>3. e \in EdgeIds
    BY <2>1, EventEdgeLeads
  <2>4. Counted
    BY <1>7, InputCounts DEF SendStatic
  <2> QED BY <1>7, <2>1, <2>2, <2>3, <2>4, CommitStaticKeeps DEF SendStatic
<1> QED BY <1>1, <1>2, <1>3, <1>4, <1>5, <1>6, <1>7 DEF Send

----------------------------------------------------------------------------
(* Ticks.                                                                  *)

(* A tick resets the input window and allocates nothing.                   *)
LEMMA TickCounts ==
  ASSUME TypeOK, NEW at, Ticking(at), sequence' \in {sequence, sequence + 1},
         sequence' \in 0..MaxSequence
  PROVE  Counted
BY LimitsAssumption DEF TypeOK, Ticking

(* A body frame is followed by a frame of the same body.                   *)
LEMMA NextFrameExists ==
  ASSUME NEW body, body.frames \in Nat \ {0}, NEW frame \in 0..(body.frames - 1)
  PROVE  NextBodyFrame(body, frame) \in 0..(body.frames - 1)
BY DEF NextBodyFrame

(* A landing promotes what was to follow and keeps the group for it.       *)
LEMMA LandKeeps ==
  ASSUME Inv, NEW e \in EdgeIds, NEW before, Land(e, before), Counted,
         readiness = "animated", phase # "intro",
         IF followOn = None THEN requested' = Edge(e).to
         ELSE requested' = requested /\ From(followOn) = Edge(e).to
  PROVE  Inv'
<1> DEFINE to == Edge(e).to
<1>1. graph # None /\ to \in GraphStates /\ graph.states[to].frames \in Nat \ {0}
  BY InstalledIsSound DEF Sound
<1>2. ~introPending /\ phase \in {"stable", "waiting", "locked", "reversible"}
  OBVIOUS
<1>3. TypeOK'
  BY <1>1 DEF TypeOK, Land, Body, PresentationSet, Phases, Readinesses
<1>4. (RouteShape /\ PresentationShape /\ ReadinessShape /\ IntroArmed)'
  <2>1. RouteShape' /\ ReadinessShape' /\ IntroArmed'
    BY <1>1, <1>2 DEF Land
  <2>2. PresentationShape'
    BY <1>1, <1>2, SMTT(30) DEF Land, Body
  <2> QED BY <2>1, <2>2
<1>5. RequestedIsProspective' /\ GroupFollowsRoutes'
  BY <1>1, <1>2 DEF Land, Settles
<1> QED BY <1>3, <1>4, <1>5

(* A departure from the displayed state: through a unit, or at once.       *)
LEMMA DepartKeeps ==
  ASSUME Inv, NEW route \in RouteSet, route # None, NEW before, Depart(route, before),
         Counted, From(route) = visual, phase \in {"stable", "waiting"},
         requested' = To(route), group # None => requested' = requested
  PROVE  Inv'
<1> DEFINE e == route.edge
<1>1. graph # None /\ e \in EdgeIds /\ readiness = "animated"
      /\ followOn = None /\ reversal = None /\ active = None /\ ~introPending
  BY DEF TypeOK
<1>2. CASE Land(e, before \o Start(e))
  BY <1>1, <1>2, LandKeeps
<1>3. CASE Edge(e).kind # "none"
  <2>1. /\ Edge(e).kind \in {"locked", "reversible"}
        /\ Edge(e).frames \in Nat \ {0}
        /\ FirstFrame(e) \in 0..(Edge(e).frames - 1)
        /\ To(route) \in GraphStates
    BY <1>1, <1>3, InstalledIsSound DEF Sound, FirstFrame
  <2>2. TypeOK'
    <3>1. presentation' \in PresentationSet' /\ phase' \in Phases
      BY <1>1, <1>3, <2>1 DEF Depart, Locked, Reversible, PresentationSet, Phases
    <3> QED BY <1>1, <1>3, <2>1, <3>1 DEF TypeOK, Depart
  <2>3. RouteShape' /\ ReadinessShape' /\ IntroArmed'
    BY <1>1, <1>3, <2>1 DEF Depart
  <2>4. PresentationShape'
    BY <1>1, <1>3, <2>1, SMTT(30) DEF Depart, Locked, Reversible
  <2>5. RequestedIsProspective' /\ GroupFollowsRoutes'
    BY <1>1, <1>3, <2>1 DEF Depart
  <2> QED BY <2>2, <2>3, <2>4, <2>5
<1> QED BY <1>2, <1>3 DEF Depart

(* A frame is presented and nothing else changes.                          *)
LEMMA PresentKeeps ==
  ASSUME Inv, Counted, NEW p \in PresentationSet, Present(p), PresentationShape'
  PROVE  Inv'
<1>1. TypeOK'
  BY DEF TypeOK, Present, PresentationSet
<1>2. (RouteShape /\ ReadinessShape /\ IntroArmed)'
  BY DEF Present
<1>3. (RequestedIsProspective /\ GroupFollowsRoutes)'
  BY SMTT(30) DEF Present
<1> QED BY <1>1, <1>2, <1>3

(* Every kind of tick keeps the invariant.                                 *)
LEMMA TickKeeps == ASSUME Inv, NEW routeReady \in BOOLEAN, Tick(routeReady) PROVE Inv'
<1>0. /\ graph # None => Sound(graph)
      /\ phase \in {"stable", "waiting"} => graph # None /\ visual \in GraphStates
           /\ graph.states[visual].frames \in Nat \ {0}
      /\ InTransition => graph # None /\ active.edge \in EdgeIds
           /\ Edge(active.edge).frames \in Nat \ {0}
  BY InstalledIsSound DEF TypeOK, Sound
<1>1. CASE TickIdle
  <2>1. Counted /\ PresentationShape'
    BY <1>1, TickCounts DEF TickIdle, Ticking, Present, TypeOK
  <2> QED BY <1>1, <2>1, PresentKeeps DEF TickIdle, TypeOK
<1>2. CASE TickIntro
  <2>1. Counted /\ graph # None /\ graph.introFrames \in Nat /\ visual \in GraphStates
    BY <1>0, <1>2, TickCounts DEF TickIntro, Ticking, Present, TypeOK, Sound
  <2>2. PresentationShape'
    BY <1>2, <2>1 DEF TickIntro, Ticking, Present, Intro
  <2>3. Intro(presentation.at, presentation.frame + 1) \in PresentationSet
    BY <1>2, <2>1 DEF TickIntro, Ticking, Intro, PresentationSet
  <2> QED BY <1>2, <2>1, <2>2, <2>3, PresentKeeps DEF TickIntro
<1>3. CASE TickIntroJoin
  <2>1. Counted /\ graph # None /\ visual \in GraphStates
        /\ graph.states[visual].frames \in Nat \ {0}
    BY <1>0, <1>3, TickCounts DEF TickIntroJoin, Ticking, TypeOK, Sound
  <2>2. TypeOK'
    BY <1>3, <2>1 DEF TypeOK, TickIntroJoin, Ticking, Body, PresentationSet, Phases, Readinesses
  <2>3. (RouteShape /\ ReadinessShape /\ IntroArmed)'
    BY <1>3, <2>1 DEF TickIntroJoin, Ticking
  <2>4. PresentationShape'
    BY <1>3, <2>1 DEF TickIntroJoin, Ticking, Body
  <2>5. (RequestedIsProspective /\ GroupFollowsRoutes)'
    BY <1>3, <2>1 DEF TickIntroJoin, Ticking
  <2> QED BY <2>2, <2>3, <2>4, <2>5
<1>4. CASE TickBody(routeReady) \/ TickWait(routeReady)
  <2>1. Counted /\ phase \in {"stable", "waiting"} /\ Present(Body(presentation.at, NextFrame))
    BY <1>4, TickCounts DEF TickBody, TickWait, Ticking, Present, TypeOK
  <2>2. presentation.at = visual /\ NextFrame \in 0..(graph.states[visual].frames - 1)
    BY <1>0, <2>1, NextFrameExists DEF NextFrame
  <2>3. PresentationShape'
    BY <1>0, <2>1, <2>2 DEF Present, Body
  <2>4. Body(presentation.at, NextFrame) \in PresentationSet
    BY <1>0, <2>1, <2>2, SMTT(30) DEF Body, PresentationSet
  <2> QED BY <2>1, <2>3, <2>4, PresentKeeps
<1>5. CASE TickCompletion(routeReady)
  <2>1. PICK e \in EdgesOf(graph) :
               /\ Completes(e, routeReady)
               /\ requested' = Edge(e).to
               /\ Depart(Route(e, sequence'), RequestedChange(Edge(e).to))
    BY <1>5 DEF TickCompletion
  <2>2. phase = "stable" /\ graph # None /\ Counted
    BY <1>0, <1>5, TickCounts, LimitsAssumption DEF TickCompletion, Ticking, TypeOK
  <2>3. group = None /\ e \in EdgeIds /\ Edge(e).from = visual
    BY <2>1, <2>2 DEF Completes, CompletionEdges
  <2>4. Route(e, sequence') \in RouteSet /\ Route(e, sequence') # None
    BY <2>2, <2>3, RouteIsSomething DEF TypeOK
  <2> QED BY <2>1, <2>2, <2>3, <2>4, DepartKeeps
<1>6. CASE TickDepart(routeReady)
  <2>1. /\ phase = "waiting" /\ pending \in RouteSet /\ pending # None
        /\ From(pending) = visual /\ requested = To(pending) /\ Counted
    BY <1>0, <1>6, TickCounts DEF TickDepart, Ticking, TypeOK
  <2> QED BY <1>6, <2>1, DepartKeeps DEF TickDepart
<1>7. CASE TickLocked
  <2>1. Counted /\ phase = "locked"
    BY <1>7, TickCounts DEF TickLocked, Ticking, Present, TypeOK
  <2>2. PresentationShape'
    BY <1>0, <1>7, <2>1 DEF TickLocked, Present, Locked
  <2>3. Locked(active.edge, presentation.frame + 1) \in PresentationSet
    BY <1>0, <2>1 DEF Locked, PresentationSet
  <2> QED BY <1>7, <2>1, <2>2, <2>3, PresentKeeps DEF TickLocked
<1>8. CASE TickLockedEnd
  <2>1. Counted /\ phase = "locked" /\ reversal = None
    BY <1>8, TickCounts DEF TickLockedEnd, Ticking, TypeOK
  <2> QED BY <1>0, <1>8, <2>1, LandKeeps DEF TickLockedEnd
<1>9. CASE TickReversible \/ TickReversibleEnd
  <2>1. Counted /\ phase = "reversible"
    BY <1>9, TickCounts DEF TickReversible, TickReversibleEnd, Ticking, TypeOK
  <2>2. /\ Effective \in RouteSet /\ Effective # None /\ Effective.edge \in EdgeIds
        /\ Edge(Effective.edge).kind = "reversible"
        /\ Edge(Effective.edge).frames \in Nat \ {0}
        /\ visual \in {From(Effective), To(Effective)}
    BY <1>0, <2>1 DEF TypeOK, Sound
  <2>3. CASE TickReversible
    <3>1. TypeOK'
      BY <2>1, <2>2, <2>3 DEF TypeOK, TickReversible, Reversible, ReversibleNext, InUnit, PresentationSet
    <3>2. RouteShape' /\ ReadinessShape' /\ IntroArmed'
      BY <2>1, <2>2, <2>3 DEF TickReversible
    <3>3. PresentationShape'
      BY <2>1, <2>2, <2>3 DEF TickReversible, Reversible, InUnit
    <3>4. (RequestedIsProspective /\ GroupFollowsRoutes)'
      BY <2>1, <2>2, <2>3 DEF TickReversible
    <3> QED BY <3>1, <3>2, <3>3, <3>4
  <2>4. CASE TickReversibleEnd
    BY <1>0, <2>1, <2>2, <2>4, LandKeeps DEF TickReversibleEnd
  <2> QED BY <1>9, <2>3, <2>4
<1> QED BY <1>1, <1>2, <1>3, <1>4, <1>5, <1>6, <1>7, <1>8, <1>9 DEF Tick

----------------------------------------------------------------------------
(* A step that changes nothing keeps the invariant.                        *)
LEMMA StutterKeeps == ASSUME Inv, UNCHANGED vars PROVE Inv'
<1>1. TypeOK'
  BY DEF vars, TypeOK, PresentationSet
<1>2. (RouteShape /\ PresentationShape /\ ReadinessShape /\ IntroArmed)'
  BY DEF vars
<1>3. (RequestedIsProspective /\ GroupFollowsRoutes)'
  BY DEF vars
<1> QED BY <1>1, <1>2, <1>3

(* A new engine satisfies the invariant.                                   *)
LEMMA InitEstablishes == Init => Inv
<1> SUFFICES ASSUME Init PROVE Inv
  OBVIOUS
<1>1. TypeOK
  <2>1. graph = None /\ requested = None /\ visual = None
    BY DEF Init
  <2>2. sequence \in 0..MaxSequence /\ inputs \in 0..MaxInputsPerTick /\ nextId \in Nat \ {0}
    BY LimitsAssumption DEF Init
  <2>3. readiness \in Readinesses /\ phase \in Phases /\ introPending \in BOOLEAN
    BY DEF Init, Phases, Readinesses
  <2>4. /\ presentation \in PresentationSet /\ group \in {None}
        /\ pending \in RouteSet /\ active \in RouteSet /\ followOn \in RouteSet /\ reversal \in RouteSet
    BY DEF Init, PresentationSet
  <2> QED BY <2>1, <2>2, <2>3, <2>4 DEF TypeOK
<1> QED BY <1>1 DEF Init

HIDE DEF Inv

(* The engine never contradicts itself: in every state that any sequence   *)
(* of calls reaches, whichever graph is installed, the routes fit the      *)
(* phase and the displayed frame, requestedState is where they lead, and   *)
(* a request that waits has a route that leads to its target.              *)
THEOREM InvariantHolds == HSpec => []Inv
<1>1. Inv /\ [HNext]_allVars => Inv'
  BY LifecycleKeeps, RequestKeeps, SendKeeps, TickKeeps, StutterKeeps DEF Next, HNext, allVars
<1>2. HInit => Inv
  BY InitEstablishes DEF HInit
<1> QED BY <1>1, <1>2, PTL DEF HSpec

(* Every variable keeps its type, and routes and presentations only ever   *)
(* name states and edges of the installed graph.                           *)
THEOREM TypesHold == HSpec => []TypeOK
<1>1. Inv => TypeOK
  BY DEF Inv
<1> QED BY <1>1, InvariantHolds, PTL

(* The reducer never throws: a phase that waits has a pending route that   *)
(* leaves the displayed state, a transition has an active one of its own   *)
(* kind, and every phase displays a frame that exists.                     *)
THEOREM PhasesHold == HSpec => []PhaseShape
<1>1. Inv => PhaseShape
  BY DEF Inv, PhaseShape
<1> QED BY <1>1, InvariantHolds, PTL

(* requestedState is always where the routes lead.                         *)
THEOREM RequestedWhereRoutesLead == HSpec => []RequestedIsProspective
<1>1. Inv => RequestedIsProspective
  BY DEF Inv
<1> QED BY <1>1, InvariantHolds, PTL

(* No request waits for a state that nothing leads to.                     *)
THEOREM NoRequestAdrift == HSpec => []GroupFollowsRoutes
<1>1. Inv => GroupFollowsRoutes
  BY DEF Inv
<1> QED BY <1>1, InvariantHolds, PTL

(* The intro is played at most once, and never once its state was left.    *)
THEOREM IntroOnce == HSpec => []IntroArmed
<1>1. Inv => IntroArmed
  BY DEF Inv
<1> QED BY <1>1, InvariantHolds, PTL

HIDE DEF RouteShape, PendingShape, ActiveShape, ContinuationShape,
         PresentationShape, ReadinessShape, RequestedIsProspective, GroupFollowsRoutes,
         IntroArmed, InTransition, Early, Terminated, From, To, Edge, Effective, Prospective, HasRoute,
         Route, RouteSet, EdgeIds, GraphStates, installed, routes, Counted, Numbered

----------------------------------------------------------------------------
(* Least and greatest numbers.                                             *)

(* A set of natural numbers has a least one.                               *)
LEMMA MinIsLeast ==
  ASSUME NEW S \in SUBSET Nat, S # {}
  PROVE  Min(S) \in S /\ \A n \in S : Min(S) <= n
<1> DEFINE less == {ss \in Nat \X Nat : ss[1] < ss[2]}
<1>1. OpToRel(<, Nat) = less
  BY DEF OpToRel
<1>2. IsWellFoundedOn(less, Nat)
  BY <1>1, NatLessThanWellFounded
<1>3. PICK x \in S : \A y \in S : ~(<<y, x>> \in less)
  <2> HIDE DEF less
  <2> QED BY <1>2, WFMin
<1>4. ASSUME NEW y \in S PROVE x <= y
  <2>1. y \in Nat /\ x \in Nat
    OBVIOUS
  <2>2. y < x => <<y, x>> \in less
    BY <2>1
  <2> QED BY <1>3, <2>1, <2>2
<1> QED BY <1>4 DEF Min

(* A set of natural numbers that has a bound has a greatest one.           *)
LEMMA MaxIsGreatest ==
  ASSUME NEW S \in SUBSET Nat, S # {}, NEW bound \in Nat, \A n \in S : n <= bound
  PROVE  Max(S) \in S /\ \A n \in S : Max(S) >= n
<1> DEFINE T == {bound - n : n \in S}
<1>1. T \in SUBSET Nat /\ T # {}
  <2>1. \A n \in S : n \in Nat /\ n <= bound
    OBVIOUS
  <2>2. \A n \in S : bound - n \in Nat
    BY <2>1
  <2> QED BY <2>2
<1>2. PICK t \in T : \A n \in T : t <= n
  <2> HIDE DEF T
  <2> QED BY <1>1, MinIsLeast
<1>3. PICK x \in S : t = bound - x
  BY <1>2
<1>4. \A y \in S : x >= y
  BY <1>2, <1>3
<1> QED BY <1>4 DEF Max

(* The greatest of a set of numbers.                                       *)
LEMMA MaxIs ==
  ASSUME NEW S \in SUBSET Int, NEW m \in S, \A n \in S : m >= n
  PROVE  Max(S) = m
<1>1. PICK x \in S : x = Max(S) /\ \A n \in S : x >= n
  BY DEF Max
<1>2. x >= m /\ m >= x /\ x \in Int /\ m \in Int
  BY <1>1
<1> QED BY <1>1, <1>2

----------------------------------------------------------------------------
(* What a sequence of effects tells of the states and of the edges.        *)

(* The effects of some types.                                              *)
At(es, types) == {i \in DOMAIN es : es[i].type \in types}

(* The state that the last change of a kind leads to, being was before.    *)
Changed(es, kind, was) ==
  IF At(es, {kind}) = {} THEN was ELSE es[Max(At(es, {kind}))].to

(* Every end is of the edge that was started last, being open before.      *)
Nests(es, open) ==
  \A i \in DOMAIN es : es[i].type = "end" => es[i].edge = StartedAfter(SubSeq(es, 1, i - 1), open)

(* Told these effects, a host that knew the requested state, the displayed *)
(* one and the open edge as they were knows them as they are.              *)
Recounts(es, was, is) ==
  /\ \E S : es \in Seq(S)
  /\ Changed(es, "requested", was[1]) = is[1]
  /\ Changed(es, "visual", was[2]) = is[2]
  /\ StartedAfter(es, was[3]) = is[3] /\ Nests(es, was[3])

(* The last effect of a type is in the second of two sequences, if there   *)
(* is one, and else in the first.                                          *)
LEMMA LastInOrder ==
  ASSUME NEW A, NEW s \in Seq(A), NEW t \in Seq(A), NEW types
  PROVE  /\ At(t, types) # {} => /\ At(s \o t, types) # {}
                                 /\ (s \o t)[Max(At(s \o t, types))] = t[Max(At(t, types))]
         /\ At(t, types) = {} => At(s \o t, types) = At(s, types)
         /\ \A i \in At(s, types) : (s \o t)[i] = s[i]
         /\ At(s, types) # {} => Max(At(s, types)) \in At(s, types)
<1> DEFINE st == s \o t
<1>1. /\ Len(s) \in Nat /\ DOMAIN s = 1 .. Len(s) /\ Len(t) \in Nat /\ DOMAIN t = 1 .. Len(t)
      /\ DOMAIN st = 1 .. Len(s) + Len(t)
      /\ \A i \in 1 .. Len(s) + Len(t) : st[i] = IF i <= Len(s) THEN s[i] ELSE t[i - Len(s)]
  BY ConcatProperties, LenProperties
<1> HIDE DEF st
<1>2. PICK a, b \in Nat : a = Len(s) /\ b = Len(t)
  BY <1>1
<1>3. ASSUME NEW i \in At(st, types)
      PROVE  (i <= a /\ i \in At(s, types)) \/ (i > a /\ i - a \in At(t, types))
  <2>1. i \in 1 .. a + b /\ st[i].type \in types
    BY <1>1, <1>2 DEF At
  <2>2. CASE i <= a
    <3>1. i \in DOMAIN s /\ s[i] = st[i]
      BY <1>1, <1>2, <2>1, <2>2
    <3> QED BY <2>1, <2>2, <3>1 DEF At
  <2>3. CASE i > a
    <3>1. i - a \in DOMAIN t /\ t[i - a] = st[i]
      BY <1>1, <1>2, <2>1, <2>3
    <3> QED BY <2>1, <2>3, <3>1 DEF At
  <2> QED BY <2>1, <2>2, <2>3
<1>4. ASSUME NEW i \in At(t, types)
      PROVE  i + a \in At(st, types) /\ st[i + a] = t[i] /\ i \in Nat
  <2>1. i \in 1 .. b /\ t[i].type \in types
    BY <1>1, <1>2 DEF At
  <2>2. i + a \in DOMAIN st /\ i + a > a /\ (i + a) - a = i
    BY <1>1, <1>2, <2>1
  <2>3. st[i + a] = t[i]
    BY <1>1, <1>2, <2>2
  <2> QED BY <2>1, <2>2, <2>3 DEF At
<1>5. \A i \in At(s, types) : i \in At(st, types) /\ st[i] = s[i] /\ i \in Nat /\ i <= a
  BY <1>1, <1>2 DEF At
<1>6. ASSUME At(t, types) # {}
      PROVE  At(st, types) # {} /\ st[Max(At(st, types))] = t[Max(At(t, types))]
  <2>1. At(t, types) \in SUBSET Nat /\ \A n \in At(t, types) : n <= b
    BY <1>1, <1>2 DEF At
  <2>2. PICK m \in At(t, types) : m = Max(At(t, types)) /\ \A n \in At(t, types) : m >= n
    BY <1>2, <1>6, <2>1, MaxIsGreatest
  <2>3. m + a \in At(st, types) /\ st[m + a] = t[m]
    BY <1>4
  <2>4. \A n \in At(st, types) : m + a >= n
    <3>1. ASSUME NEW n \in At(st, types) PROVE m + a >= n
      <4>1. (n <= a /\ n \in At(s, types)) \/ (n > a /\ n - a \in At(t, types))
        BY <1>3
      <4>2. n \in Nat /\ m \in Nat
        BY <1>1, <1>4 DEF At
      <4>3. n - a \in At(t, types) => m >= n - a
        BY <2>2
      <4> QED BY <1>2, <4>1, <4>2, <4>3
    <3> QED BY <3>1
  <2>5. At(st, types) \in SUBSET Int
    BY <1>1 DEF At
  <2>6. Max(At(st, types)) = m + a
    BY <2>3, <2>4, <2>5, MaxIs
  <2> QED BY <2>2, <2>3, <2>6
<1>7. ASSUME At(t, types) = {} PROVE At(st, types) = At(s, types)
  BY <1>3, <1>5, <1>7
<1>8. ASSUME At(s, types) # {} PROVE Max(At(s, types)) \in At(s, types)
  <2>1. At(s, types) \in SUBSET Nat /\ \A n \in At(s, types) : n <= a
    BY <1>1, <1>2 DEF At
  <2> QED BY <1>2, <1>8, <2>1, MaxIsGreatest
<1> QED BY <1>5, <1>6, <1>7, <1>8 DEF st

(* The open edge, by the effects of transitions.                           *)
LEMMA StartedIs ==
  ASSUME NEW es, NEW open
  PROVE  StartedAfter(es, open) =
           LET events == At(es, {"start", "end"})
           IN  IF events = {} THEN open
               ELSE IF es[Max(events)].type = "start" THEN es[Max(events)].edge ELSE None
<1>1. {i \in DOMAIN es : IsTransitionEvent(es[i])} = At(es, {"start", "end"})
  BY DEF At, IsTransitionEvent
<1> QED BY <1>1, Zenon DEF StartedAfter

(* Effects in order change the states and the open edge one after another. *)
LEMMA ChangesInOrder ==
  ASSUME NEW A, NEW s \in Seq(A), NEW t \in Seq(A)
  PROVE  /\ \A kind, was : Changed(s \o t, kind, was) = Changed(t, kind, Changed(s, kind, was))
         /\ \A open : StartedAfter(s \o t, open) = StartedAfter(t, StartedAfter(s, open))
<1> DEFINE st == s \o t
<1>0. ASSUME NEW types
      PROVE  /\ At(t, types) # {} => /\ At(st, types) # {}
                                     /\ st[Max(At(st, types))] = t[Max(At(t, types))]
             /\ At(t, types) = {} => At(st, types) = At(s, types)
             /\ At(s, types) # {} => st[Max(At(s, types))] = s[Max(At(s, types))]
  <2>1. /\ At(t, types) # {} => /\ At(st, types) # {}
                                /\ st[Max(At(st, types))] = t[Max(At(t, types))]
        /\ At(t, types) = {} => At(st, types) = At(s, types)
        /\ \A i \in At(s, types) : st[i] = s[i]
        /\ At(s, types) # {} => Max(At(s, types)) \in At(s, types)
    BY LastInOrder, Zenon
  <2> HIDE DEF st
  <2> QED BY <2>1, Zenon
<1> HIDE DEF st
<1>1. ASSUME NEW kind, NEW was
      PROVE  Changed(st, kind, was) = Changed(t, kind, Changed(s, kind, was))
  <2> DEFINE types == {kind}
  <2> HIDE DEF types
  <2>1. /\ At(t, types) # {} => /\ At(st, types) # {}
                                /\ st[Max(At(st, types))] = t[Max(At(t, types))]
        /\ At(t, types) = {} => At(st, types) = At(s, types)
        /\ At(s, types) # {} => st[Max(At(s, types))] = s[Max(At(s, types))]
    BY <1>0
  <2>2. \A es, before : Changed(es, kind, before)
                          = IF At(es, types) = {} THEN before ELSE es[Max(At(es, types))].to
    BY DEF Changed, types
  <2>3. CASE At(t, types) # {}
    BY <2>1, <2>2, <2>3, Zenon
  <2>4. CASE At(t, types) = {} /\ At(s, types) # {}
    <3>1. At(st, types) = At(s, types) /\ st[Max(At(s, types))] = s[Max(At(s, types))]
      BY <2>1, <2>4
    <3>2. st[Max(At(st, types))] = s[Max(At(s, types))]
      BY <3>1
    <3> QED BY <2>2, <2>4, <3>1, <3>2, Zenon
  <2>5. CASE At(t, types) = {} /\ At(s, types) = {}
    BY <2>1, <2>2, <2>5, Zenon
  <2> QED BY <2>3, <2>4, <2>5
<1>2. ASSUME NEW open
      PROVE  StartedAfter(st, open) = StartedAfter(t, StartedAfter(s, open))
  <2> DEFINE types == {"start", "end"}
  <2> HIDE DEF types
  <2>1. /\ At(t, types) # {} => /\ At(st, types) # {}
                                /\ st[Max(At(st, types))] = t[Max(At(t, types))]
        /\ At(t, types) = {} => At(st, types) = At(s, types)
        /\ At(s, types) # {} => st[Max(At(s, types))] = s[Max(At(s, types))]
    BY <1>0
  <2>2. \A es, before : StartedAfter(es, before)
                          = IF At(es, types) = {} THEN before
                            ELSE IF es[Max(At(es, types))].type = "start"
                                 THEN es[Max(At(es, types))].edge ELSE None
    BY StartedIs, Zenon DEF types
  <2>3. CASE At(t, types) # {}
    BY <2>1, <2>2, <2>3, Zenon
  <2>4. CASE At(t, types) = {} /\ At(s, types) # {}
    <3>1. At(st, types) = At(s, types) /\ st[Max(At(s, types))] = s[Max(At(s, types))]
      BY <2>1, <2>4
    <3>2. st[Max(At(st, types))] = s[Max(At(s, types))]
      BY <3>1
    <3> QED BY <2>2, <2>4, <3>1, <3>2, Zenon
  <2>5. CASE At(t, types) = {} /\ At(s, types) = {}
    BY <2>1, <2>2, <2>5, Zenon
  <2> QED BY <2>3, <2>4, <2>5
<1> QED BY <1>1, <1>2 DEF st

(* An end is of the edge that was open before it, in whichever of two      *)
(* sequences it is.                                                        *)
LEMMA NestsInOrder ==
  ASSUME NEW A, NEW s \in Seq(A), NEW t \in Seq(A), NEW open,
         Nests(s, open), Nests(t, StartedAfter(s, open))
  PROVE  Nests(s \o t, open)
<1> DEFINE st == s \o t
<1>1. /\ Len(s) \in Nat /\ DOMAIN s = 1 .. Len(s) /\ Len(t) \in Nat /\ DOMAIN t = 1 .. Len(t)
      /\ DOMAIN st = 1 .. Len(s) + Len(t) /\ st \in Seq(A)
      /\ \A i \in 1 .. Len(s) + Len(t) : st[i] = IF i <= Len(s) THEN s[i] ELSE t[i - Len(s)]
  BY ConcatProperties, LenProperties
<1>2. PICK a, b \in Nat : a = Len(s) /\ b = Len(t)
  BY <1>1
<1> SUFFICES ASSUME NEW i \in 1 .. a + b, st[i].type = "end"
             PROVE  st[i].edge = StartedAfter(SubSeq(st, 1, i - 1), open)
  BY <1>1, <1>2 DEF Nests
<1> HIDE DEF st
<1>3. CASE i <= a
  <2>1. /\ SubSeq(st, 1, i - 1) \in Seq(A) /\ Len(SubSeq(st, 1, i - 1)) = i - 1
        /\ \A j \in 1 .. i - 1 : SubSeq(st, 1, i - 1)[j] = st[j]
    BY <1>1, <1>2, <1>3
  <2>2. /\ SubSeq(s, 1, i - 1) \in Seq(A) /\ Len(SubSeq(s, 1, i - 1)) = i - 1
        /\ \A j \in 1 .. i - 1 : SubSeq(s, 1, i - 1)[j] = s[j]
    BY <1>1, <1>2, <1>3
  <2>3. SubSeq(st, 1, i - 1) = SubSeq(s, 1, i - 1)
    <3>1. \A j \in 1 .. i - 1 : st[j] = s[j]
      BY <1>1, <1>2, <1>3
    <3> QED BY <2>1, <2>2, <3>1, SeqEqual
  <2>4. i \in DOMAIN s /\ st[i] = s[i]
    BY <1>1, <1>2, <1>3
  <2> QED BY <2>3, <2>4 DEF Nests
<1>4. CASE i > a
  <2> DEFINE k == i - a
             before == SubSeq(t, 1, k - 1)
  <2>1. k \in 1 .. b /\ k \in DOMAIN t /\ st[i] = t[k]
    BY <1>1, <1>2, <1>4
  <2>2. before \in Seq(A) /\ Len(before) = k - 1 /\ \A j \in 1 .. k - 1 : before[j] = t[j]
    BY <1>1, <1>2, <2>1
  <2>3. /\ SubSeq(st, 1, i - 1) \in Seq(A) /\ Len(SubSeq(st, 1, i - 1)) = i - 1
        /\ \A j \in 1 .. i - 1 : SubSeq(st, 1, i - 1)[j] = st[j]
    BY <1>1, <1>2
  <2> HIDE DEF before
  <2>4. /\ s \o before \in Seq(A) /\ Len(s \o before) = i - 1
        /\ \A j \in 1 .. i - 1 : (s \o before)[j] = IF j <= a THEN s[j] ELSE before[j - a]
    BY <1>1, <1>2, <1>4, <2>2, ConcatProperties
  <2>5. SubSeq(st, 1, i - 1) = s \o before
    <3>1. \A j \in 1 .. i - 1 : st[j] = (s \o before)[j]
      <4> SUFFICES ASSUME NEW j \in 1 .. i - 1 PROVE st[j] = (s \o before)[j]
        OBVIOUS
      <4>1. CASE j <= a
        <5>1. (s \o before)[j] = s[j]
          BY <2>4, <4>1
        <5>2. st[j] = s[j]
          BY <1>1, <1>2, <4>1
        <5> QED BY <5>1, <5>2
      <4>2. CASE j > a
        <5>1. (s \o before)[j] = before[j - a]
          BY <1>2, <2>4, <4>2
        <5>2. st[j] = t[j - a]
          BY <1>1, <1>2, <4>2
        <5>3. j - a \in 1 .. k - 1
          BY <1>2, <4>2
        <5>4. before[j - a] = t[j - a]
          BY <2>2, <5>3, Zenon
        <5> QED BY <5>1, <5>2, <5>4
      <4>3. j <= a \/ j > a
        BY <1>2
      <4> QED BY <4>1, <4>2, <4>3, Zenon
    <3> QED BY <2>3, <2>4, <3>1, SeqEqual
  <2>6. t[k].edge = StartedAfter(before, StartedAfter(s, open))
    BY <2>1 DEF Nests, before
  <2>7. StartedAfter(s \o before, open) = StartedAfter(before, StartedAfter(s, open))
    BY <2>2, ChangesInOrder
  <2> QED BY <2>1, <2>5, <2>6, <2>7, Zenon
<1> QED BY <1>2, <1>3, <1>4

(* Effects in order tell what each of them tells.                          *)
LEMMA RecountsInOrder ==
  ASSUME NEW s, NEW t, NEW was, NEW is, NEW then, Recounts(s, was, is), Recounts(t, is, then)
  PROVE  Recounts(s \o t, was, then)
<1>1. PICK A : s \in Seq(A)
  BY DEF Recounts
<1>2. PICK B : t \in Seq(B)
  BY DEF Recounts
<1>3. s \in Seq(A \cup B) /\ t \in Seq(A \cup B)
  BY <1>1, <1>2
<1>4. s \o t \in Seq(A \cup B)
  BY <1>3, ConcatProperties
<1>5. Nests(s \o t, was[3])
  BY <1>3, NestsInOrder DEF Recounts
<1> QED BY <1>3, <1>4, <1>5, ChangesInOrder DEF Recounts

(* No effect tells nothing.                                                *)
LEMMA NoneRecounts == \A was : Recounts(<<>>, was, was)
<1>1. <<>> \in Seq({}) /\ DOMAIN <<>> = {}
  OBVIOUS
<1>2. \A types : At(<<>>, types) = {}
  BY DEF At
<1>3. \A kind, was : Changed(<<>>, kind, was) = was
  BY <1>2, Zenon DEF Changed
<1>4. \A open : StartedAfter(<<>>, open) = open
  BY <1>2, StartedIs, Zenon
<1>5. \A open : Nests(<<>>, open)
  BY <1>1 DEF Nests
<1> QED BY <1>1, <1>3, <1>4, <1>5, Zenon DEF Recounts

(* What one effect tells.                                                  *)
LEMMA OneRecounts ==
  ASSUME NEW x, NEW was, NEW is,
         is[1] = IF x.type = "requested" THEN x.to ELSE was[1],
         is[2] = IF x.type = "visual" THEN x.to ELSE was[2],
         is[3] = IF x.type = "start" THEN x.edge ELSE IF x.type = "end" THEN None ELSE was[3],
         x.type = "end" => x.edge = was[3]
  PROVE  Recounts(<<x>>, was, is)
<1> DEFINE es == <<x>>
<1>1. es \in Seq({x}) /\ DOMAIN es = {1} /\ es[1] = x
  OBVIOUS
<1>2. SubSeq(es, 1, 0) = <<>>
  BY <1>1, SubSeqProperties
<1> HIDE DEF es
<1>3. \A types : At(es, types) = IF x.type \in types THEN {1} ELSE {}
  BY <1>1 DEF At
<1>4. Max({1}) = 1
  BY MaxIs
<1>5. ASSUME NEW kind, NEW before
      PROVE  Changed(es, kind, before) = IF x.type = kind THEN x.to ELSE before
  BY <1>1, <1>3, <1>4 DEF Changed
<1>6. ASSUME NEW open
      PROVE  StartedAfter(es, open) = IF x.type = "start" THEN x.edge
                                      ELSE IF x.type = "end" THEN None ELSE open
  <2>1. StartedAfter(es, open) = IF x.type \in {"start", "end"}
                                 THEN IF x.type = "start" THEN x.edge ELSE None
                                 ELSE open
    BY <1>1, <1>3, <1>4, StartedIs
  <2> QED BY <2>1
<1>7. StartedAfter(<<>>, was[3]) = was[3]
  BY NoneRecounts DEF Recounts
<1>8. Nests(es, was[3])
  <2>1. ASSUME NEW i \in DOMAIN es, es[i].type = "end"
        PROVE  es[i].edge = StartedAfter(SubSeq(es, 1, i - 1), was[3])
    <3>1. i - 1 = 0 /\ es[i] = x
      BY <1>1
    <3>2. SubSeq(es, 1, i - 1) = <<>>
      BY <1>2, <3>1
    <3> QED BY <1>7, <2>1, <3>1, <3>2
  <2> QED BY <2>1 DEF Nests
<1>9. \E S : es \in Seq(S)
  BY <1>1
<1> QED BY <1>5, <1>6, <1>8, <1>9 DEF Recounts, es

(* An effect that tells nothing of the states and of the edges.            *)
Silent(es) == \A was : Recounts(es, was, was)

(* What the helpers of the operations tell.                                *)
LEMMA HelpersRecount ==
  /\ \A to : Silent(ReadinessChange(to)) /\ Silent(Superseded(to))
  /\ \A ids, outcome : Silent(Settlement(ids, outcome)) /\ Silent(SettleGroup(outcome))
                       /\ Silent(SettleNew(outcome))
  /\ \A to, v, o : Recounts(RequestedChange(to), <<requested, v, o>>, <<to, v, o>>)
  /\ \A r, from, to, o : Recounts(VisualChange(from, to), <<r, from, o>>, <<r, to, o>>)
  /\ \A e, r, v, o : Recounts(Start(e), <<r, v, o>>, <<r, v, e>>)
  /\ \A e, r, v : Recounts(End(e), <<r, v, e>>, <<r, v, None>>)
<1>1. ASSUME NEW x, x.type \in {"readiness", "settle"} PROVE Silent(<<x>>)
  BY <1>1, OneRecounts DEF Silent
<1>2. Silent(<<>>)
  BY NoneRecounts DEF Silent
<1>3. \A to : Silent(ReadinessChange(to))
  BY <1>1, <1>2 DEF ReadinessChange
<1>4. \A ids, outcome : Silent(Settlement(ids, outcome))
  BY <1>1 DEF Settlement
<1>5. \A to, outcome : Silent(Superseded(to)) /\ Silent(SettleGroup(outcome)) /\ Silent(SettleNew(outcome))
  BY <1>2, <1>4, Zenon DEF Superseded, SettleGroup, SettleNew
<1>6. ASSUME NEW to, NEW v, NEW o
      PROVE  Recounts(RequestedChange(to), <<requested, v, o>>, <<to, v, o>>)
  <2>1. CASE requested = to
    BY <2>1, NoneRecounts DEF RequestedChange
  <2>2. CASE requested # to
    <3> DEFINE x == [type |-> "requested", from |-> requested, to |-> to]
    <3>1. x.type = "requested" /\ x.to = to
      OBVIOUS
    <3> HIDE DEF x
    <3>2. Recounts(<<x>>, <<requested, v, o>>, <<to, v, o>>)
      BY <3>1, OneRecounts
    <3> QED BY <2>2, <3>2 DEF RequestedChange, x
  <2> QED BY <2>1, <2>2
<1>7. ASSUME NEW r, NEW from, NEW to, NEW o
      PROVE  Recounts(VisualChange(from, to), <<r, from, o>>, <<r, to, o>>)
  <2>1. CASE from = to
    BY <2>1, NoneRecounts DEF VisualChange
  <2>2. CASE from # to
    <3> DEFINE x == [type |-> "visual", from |-> from, to |-> to]
    <3>1. x.type = "visual" /\ x.to = to
      OBVIOUS
    <3> HIDE DEF x
    <3>2. Recounts(<<x>>, <<r, from, o>>, <<r, to, o>>)
      BY <3>1, OneRecounts
    <3> QED BY <2>2, <3>2 DEF VisualChange, x
  <2> QED BY <2>1, <2>2
<1>8. ASSUME NEW e, NEW r, NEW v, NEW o
      PROVE  Recounts(Start(e), <<r, v, o>>, <<r, v, e>>)
  <2> DEFINE x == [type |-> "start", edge |-> e]
  <2>1. x.type = "start" /\ x.edge = e
    OBVIOUS
  <2> HIDE DEF x
  <2>2. Recounts(<<x>>, <<r, v, o>>, <<r, v, e>>)
    BY <2>1, OneRecounts
  <2> QED BY <2>2 DEF Start, x
<1>9. ASSUME NEW e, NEW r, NEW v
      PROVE  Recounts(End(e), <<r, v, e>>, <<r, v, None>>)
  <2> DEFINE x == [type |-> "end", edge |-> e]
  <2>1. x.type = "end" /\ x.edge = e
    OBVIOUS
  <2> HIDE DEF x
  <2>2. Recounts(<<x>>, <<r, v, e>>, <<r, v, None>>)
    BY <2>1, OneRecounts
  <2> QED BY <2>2 DEF End, x
<1> QED BY <1>3, <1>4, <1>5, <1>6, <1>7, <1>8, <1>9

(* Effects that tell nothing may come after others.                        *)
LEMMA SilentAfter ==
  ASSUME NEW s, NEW was, NEW is, Recounts(s, was, is), NEW t, Silent(t)
  PROVE  Recounts(s \o t, was, is)
<1>1. Recounts(t, is, is)
  BY DEF Silent
<1> QED BY <1>1, RecountsInOrder

(* An edge that is on the way ends where it leads.                         *)
LEMMA EndingRecounts ==
  ASSUME NEW s, NEW was, NEW r, NEW v, NEW to, NEW e, Recounts(s, was, <<r, v, e>>)
  PROVE  Recounts(s \o VisualChange(v, to) \o End(e), was, <<r, to, None>>)
<1>1. Recounts(s \o VisualChange(v, to), was, <<r, to, e>>)
  <2>1. Recounts(VisualChange(v, to), <<r, v, e>>, <<r, to, e>>)
    BY HelpersRecount
  <2> QED BY <2>1, RecountsInOrder
<1>2. Recounts(End(e), <<r, to, e>>, <<r, to, None>>)
  BY HelpersRecount
<1> QED BY <1>1, <1>2, RecountsInOrder

(* An edge starts.                                                         *)
LEMMA StartingRecounts ==
  ASSUME NEW s, NEW was, NEW r, NEW v, NEW o, NEW e, Recounts(s, was, <<r, v, o>>)
  PROVE  Recounts(s \o Start(e), was, <<r, v, e>>)
<1>1. Recounts(Start(e), <<r, v, o>>, <<r, v, e>>)
  BY HelpersRecount
<1> QED BY <1>1, RecountsInOrder

----------------------------------------------------------------------------
(* What a sequence of effects settles.                                     *)

(* The ids of ok are resolved by it, those of bad rejected, and no others. *)
Says(es, ok, bad) ==
  /\ \E S : es \in Seq(S)
  /\ SettledBy(es, Resolutions) = ok /\ SettledBy(es, Rejections) = bad

(* Effects in order settle what each of them settles.                      *)
LEMMA SaysInOrder ==
  ASSUME NEW s, NEW ok, NEW bad, Says(s, ok, bad),
         NEW t, NEW okay, NEW worse, Says(t, okay, worse)
  PROVE  Says(s \o t, ok \cup okay, bad \cup worse)
<1>1. PICK A : s \in Seq(A)
  BY DEF Says
<1>2. PICK B : t \in Seq(B)
  BY DEF Says
<1>3. s \in Seq(A \cup B) /\ t \in Seq(A \cup B)
  BY <1>1, <1>2
<1>4. /\ s \o t \in Seq(A \cup B) /\ Len(s \o t) = Len(s) + Len(t)
      /\ \A i \in 1 .. Len(s) + Len(t) :
           (s \o t)[i] = IF i <= Len(s) THEN s[i] ELSE t[i - Len(s)]
  BY <1>3, ConcatProperties
<1>5. /\ Len(s) \in Nat /\ DOMAIN s = 1 .. Len(s) /\ Len(t) \in Nat /\ DOMAIN t = 1 .. Len(t)
      /\ DOMAIN (s \o t) = 1 .. Len(s) + Len(t)
  BY <1>3, <1>4, LenProperties
<1>6. /\ \A i \in DOMAIN s : i \in DOMAIN (s \o t) /\ (s \o t)[i] = s[i]
      /\ \A i \in DOMAIN t : i + Len(s) \in DOMAIN (s \o t) /\ (s \o t)[i + Len(s)] = t[i]
      /\ \A i \in DOMAIN (s \o t) :
           \/ i \in DOMAIN s /\ (s \o t)[i] = s[i]
           \/ i - Len(s) \in DOMAIN t /\ (s \o t)[i] = t[i - Len(s)]
  BY <1>4, <1>5
<1> DEFINE st == s \o t
<1> HIDE DEF st
<1>7. ASSUME NEW outcomes
      PROVE  SettledBy(st, outcomes) = SettledBy(s, outcomes) \cup SettledBy(t, outcomes)
  <2>1. ASSUME NEW id PROVE id \in SettledBy(st, outcomes)
                        <=> \E i \in DOMAIN st : /\ st[i].type = "settle"
                                                 /\ st[i].outcome \in outcomes /\ id \in st[i].ids
    BY DEF SettledBy
  <2>2. ASSUME NEW id PROVE id \in SettledBy(s, outcomes)
                        <=> \E i \in DOMAIN s : /\ s[i].type = "settle"
                                                /\ s[i].outcome \in outcomes /\ id \in s[i].ids
    BY DEF SettledBy
  <2>3. ASSUME NEW id PROVE id \in SettledBy(t, outcomes)
                        <=> \E i \in DOMAIN t : /\ t[i].type = "settle"
                                                /\ t[i].outcome \in outcomes /\ id \in t[i].ids
    BY DEF SettledBy
  <2>4. /\ \A i \in DOMAIN s : i \in DOMAIN st /\ st[i] = s[i]
        /\ \A i \in DOMAIN t : \E k \in DOMAIN st : st[k] = t[i]
        /\ \A i \in DOMAIN st : (\E k \in DOMAIN s : st[i] = s[k]) \/ (\E k \in DOMAIN t : st[i] = t[k])
    BY <1>6 DEF st
  <2>5. ASSUME NEW id, id \in SettledBy(st, outcomes)
        PROVE  id \in SettledBy(s, outcomes) \cup SettledBy(t, outcomes)
    <3>1. PICK i \in DOMAIN st : /\ st[i].type = "settle"
                                 /\ st[i].outcome \in outcomes /\ id \in st[i].ids
      BY <2>1, <2>5
    <3>2. CASE \E k \in DOMAIN s : st[i] = s[k]
      BY <2>2, <3>1, <3>2
    <3>3. CASE \E k \in DOMAIN t : st[i] = t[k]
      BY <2>3, <3>1, <3>3
    <3> QED BY <2>4, <3>2, <3>3
  <2>6. ASSUME NEW id, id \in SettledBy(s, outcomes) \cup SettledBy(t, outcomes)
        PROVE  id \in SettledBy(st, outcomes)
    <3>1. CASE id \in SettledBy(s, outcomes)
      BY <2>1, <2>2, <2>4, <3>1
    <3>2. CASE id \in SettledBy(t, outcomes)
      BY <2>1, <2>3, <2>4, <3>2
    <3> QED BY <2>6, <3>1, <3>2
  <2> QED BY <2>5, <2>6
<1> QED BY <1>4, <1>7 DEF Says, st

(* Effects that settle nothing may come before or after.                   *)
LEMMA QuietlyInOrder ==
  ASSUME NEW s, NEW ok, NEW bad, Says(s, ok, bad), NEW t, Says(t, {}, {})
  PROVE  Says(s \o t, ok, bad) /\ Says(t \o s, ok, bad)
<1>1. Says(s \o t, ok \cup {}, bad \cup {}) /\ Says(t \o s, {} \cup ok, {} \cup bad)
  BY SaysInOrder
<1>2. ok \cup {} = ok /\ {} \cup ok = ok /\ bad \cup {} = bad /\ {} \cup bad = bad
  OBVIOUS
<1> QED BY <1>1, <1>2, Zenon

(* Nothing is settled by no effect, and by one of another type.            *)
LEMMA SilentSays ==
  /\ Says(<<>>, {}, {})
  /\ \A effect : effect.type # "settle" => Says(<<effect>>, {}, {})
<1>1. Says(<<>>, {}, {})
  <2>1. <<>> \in Seq({}) /\ \A outcomes : SettledBy(<<>>, outcomes) = {}
    BY DEF SettledBy
  <2> QED BY <2>1 DEF Says
<1>2. ASSUME NEW effect, effect.type # "settle"
      PROVE  Says(<<effect>>, {}, {})
  <2>1. <<effect>> \in Seq({effect}) /\ \A i \in DOMAIN <<effect>> : <<effect>>[i] = effect
    OBVIOUS
  <2>2. \A outcomes : SettledBy(<<effect>>, outcomes) = {}
    BY <1>2, <2>1 DEF SettledBy
  <2> QED BY <2>1, <2>2 DEF Says
<1> QED BY <1>1, <1>2

(* A settlement resolves its ids, or rejects them.                         *)
LEMMA SettlementSays ==
  ASSUME NEW ids
  PROVE  /\ \A outcome \in Resolutions : Says(Settlement(ids, outcome), ids, {})
         /\ \A outcome \in Rejections : Says(Settlement(ids, outcome), {}, ids)
<1>1. ASSUME NEW outcome, NEW outcomes
      PROVE  /\ \E S : Settlement(ids, outcome) \in Seq(S)
             /\ SettledBy(Settlement(ids, outcome), outcomes)
                  = IF outcome \in outcomes THEN ids ELSE {}
  <2> DEFINE effect == [type |-> "settle", ids |-> ids, outcome |-> outcome]
  <2>1. effect.type = "settle" /\ effect.ids = ids /\ effect.outcome = outcome
    OBVIOUS
  <2>2. Settlement(ids, outcome) = <<effect>>
    BY DEF Settlement
  <2> HIDE DEF effect
  <2>3. /\ <<effect>> \in Seq({effect}) /\ DOMAIN <<effect>> = {1} /\ <<effect>>[1] = effect
    OBVIOUS
  <2>4. SettledBy(<<effect>>, outcomes) = IF outcome \in outcomes THEN ids ELSE {}
    BY <2>1, <2>3 DEF SettledBy
  <2> QED BY <2>2, <2>3, <2>4
<1>2. Resolutions \cap Rejections = {}
  BY DEF Resolutions, Rejections
<1> QED BY <1>1, <1>2 DEF Says

(* What the helpers of the operations settle.                              *)
LEMMA HelpersSay ==
  /\ \A to : Says(ReadinessChange(to), {}, {}) /\ Says(RequestedChange(to), {}, {})
  /\ \A from, to : Says(VisualChange(from, to), {}, {})
  /\ \A e : Says(Start(e), {}, {}) /\ Says(End(e), {}, {})
  /\ \A outcome \in Resolutions : Says(SettleGroup(outcome), Waiting, {})
  /\ \A outcome \in Rejections : Says(SettleGroup(outcome), {}, Waiting)
  /\ \A outcome \in Rejections : Says(SettleNew(outcome), {}, {nextId})
  /\ \A outcome \in Resolutions : Says(SettleNew(outcome), {nextId}, {})
  /\ \A target : Says(Superseded(target), {},
                       IF group # None /\ group.target = target THEN {} ELSE Waiting)
<1>1. \A to : Says(ReadinessChange(to), {}, {}) /\ Says(RequestedChange(to), {}, {})
  BY SilentSays DEF ReadinessChange, RequestedChange
<1>2. \A from, to : Says(VisualChange(from, to), {}, {})
  BY SilentSays DEF VisualChange
<1>3. \A e : Says(Start(e), {}, {}) /\ Says(End(e), {}, {})
  BY SilentSays DEF Start, End
<1>4. /\ \A outcome \in Resolutions : Says(SettleGroup(outcome), Waiting, {})
      /\ \A outcome \in Rejections : Says(SettleGroup(outcome), {}, Waiting)
  BY SilentSays, SettlementSays DEF SettleGroup, Waiting
<1>5. /\ \A outcome \in Rejections : Says(SettleNew(outcome), {}, {nextId})
      /\ \A outcome \in Resolutions : Says(SettleNew(outcome), {nextId}, {})
  BY SettlementSays DEF SettleNew
<1>6. ASSUME NEW target
      PROVE  Says(Superseded(target), {},
                  IF group # None /\ group.target = target THEN {} ELSE Waiting)
  <2>1. "AbortError" \in Rejections
    BY DEF Rejections
  <2> QED BY <2>1, SilentSays, SettlementSays DEF Superseded, Waiting
<1> QED BY <1>1, <1>2, <1>3, <1>4, <1>5, <1>6
----------------------------------------------------------------------------
(* How an operation accounts for those who wait.                           *)

AllStates == UNION {StatesOf(d) : d \in Definitions}

Joined(target) == group # None /\ group.target = target

\* Nobody is answered, and the display may change.
Leaves ==
  /\ Says(effects', {}, {}) /\ UNCHANGED <<group, nextId>>
  /\ visual' \in AllStates \cup {visual}

\* Those who wait are rejected.
Aborts ==
  /\ Says(effects', {}, Waiting) /\ group' = None /\ UNCHANGED nextId
  /\ visual' \in AllStates \cup {visual}
  /\ group # None => group.ids # {} /\ visual' \in AllStates

\* Those who wait are answered with what is displayed then.
Arrives ==
  /\ Says(effects', Waiting, {}) /\ group' = None /\ UNCHANGED nextId
  /\ visual' \in AllStates \cup {visual}
  /\ group # None => group.ids # {} /\ visual' = group.target

\* A request is answered by itself.
Refuses ==
  /\ Says(effects', {}, {nextId}) /\ nextId \in Nat /\ nextId' = nextId + 1
  /\ UNCHANGED <<group, visual>>

\* A request waits, with those who wait for the same or in their place.
Queues(target) ==
  /\ Says(effects', {}, IF Joined(target) THEN {} ELSE Waiting)
  /\ nextId \in Nat /\ nextId' = nextId + 1
  /\ group' = Admitted(target) /\ group' # None /\ UNCHANGED visual

\* A request is answered at once, with those who wait for the same and in
\* the place of any others.
Serves(target) ==
  /\ Says(effects', Admitted(target).ids, IF Joined(target) THEN {} ELSE Waiting)
  /\ nextId \in Nat /\ nextId' = nextId + 1
  /\ group' = None /\ visual' = target

Accounted ==
  \/ Leaves \/ Aborts \/ Arrives \/ Refuses
  \/ \E target \in AllStates : Queues(target) \/ Serves(target)

(* What is recorded is what the effects say.                               *)
LEMMA Recorded ==
  ASSUME Record, NEW ok, NEW bad, Says(effects', ok, bad)
  PROVE  fulfilled' = fulfilled \cup ok /\ rejected' = rejected \cup bad
BY DEF Record, Says

(* Each of these ways is a step of the abstract specification, or changes  *)
(* nothing that it speaks of.                                              *)
LEMMA AccountedRefines ==
  ASSUME Accounted, Record PROVE [Promised!Next]_(Promised!vars)
<1> DEFINE Abstractly == [Promised!Next]_(Promised!vars)
<1>1. ASSUME Leaves PROVE Abstractly
  <2>1. fulfilled' = fulfilled /\ rejected' = rejected
    BY <1>1, Recorded DEF Leaves
  <2>2. CASE visual' \in AllStates
    BY <1>1, <2>1, <2>2 DEF Leaves, Promised!Next, Promised!Move, Waiting, AllStates
  <2>3. CASE visual' = visual
    BY <1>1, <2>1, <2>3 DEF Leaves, Promised!vars, Waiting
  <2> QED BY <1>1, <2>2, <2>3 DEF Leaves
<1>2. ASSUME Aborts PROVE Abstractly
  <2>1. fulfilled' = fulfilled /\ rejected' = rejected \cup Waiting
    BY <1>2, Recorded DEF Aborts
  <2>2. CASE group # None
    BY <1>2, <2>1, <2>2, SMTT(30) DEF Aborts, Promised!Next, Promised!Abort, Waiting, AllStates
  <2>3. CASE group = None
    BY <1>1, <1>2, <2>3 DEF Aborts, Leaves, Waiting
  <2> QED BY <2>2, <2>3
<1>3. ASSUME Arrives PROVE Abstractly
  <2>1. fulfilled' = fulfilled \cup Waiting /\ rejected' = rejected
    BY <1>3, Recorded DEF Arrives
  <2>2. CASE group # None
    BY <1>3, <2>1, <2>2, SMTT(30) DEF Arrives, Promised!Next, Promised!Arrive, Waiting
  <2>3. CASE group = None
    BY <1>1, <1>3, <2>3 DEF Arrives, Leaves, Waiting
  <2> QED BY <2>2, <2>3
<1>4. nextId \in Nat /\ nextId' = nextId + 1
        => nextId' - 1 = nextId /\ nextId' - 1 = nextId - 1 + 1
  OBVIOUS
<1>5. ASSUME Refuses PROVE Abstractly
  <2>1. fulfilled' = fulfilled /\ rejected' = rejected \cup {nextId}
    BY <1>5, Recorded DEF Refuses
  <2> QED BY <1>4, <1>5, <2>1
          DEF Refuses, Promised!Next, Promised!Refuse, Promised!NewRequest, Waiting
<1>6. ASSUME NEW target \in AllStates, Queues(target) PROVE Abstractly
  <2>1. fulfilled' = fulfilled /\ rejected' = rejected \cup (IF Joined(target) THEN {} ELSE Waiting)
    BY <1>6, Recorded DEF Queues
  <2>2. /\ group'.target = target
        /\ group'.ids = IF Joined(target) THEN Waiting \cup {nextId} ELSE {nextId}
    BY <1>6 DEF Queues, Admitted, Joined, Waiting
  <2>3. Promised!Queue(target)
    BY <1>4, <1>6, <2>1, <2>2 DEF Queues, Promised!Queue, Promised!NewRequest, Waiting, Joined
  <2> QED BY <2>3 DEF Promised!Next, AllStates
<1>7. ASSUME NEW target \in AllStates, Serves(target) PROVE Abstractly
  <2>1. /\ fulfilled' = fulfilled \cup Admitted(target).ids
        /\ rejected' = rejected \cup (IF Joined(target) THEN {} ELSE Waiting)
    BY <1>7, Recorded DEF Serves
  <2>2. Admitted(target).ids = IF Joined(target) THEN Waiting \cup {nextId} ELSE {nextId}
    BY DEF Admitted, Joined, Waiting
  <2>3. Promised!Serve(target)
    BY <1>4, <1>7, <2>1, <2>2 DEF Serves, Promised!Serve, Promised!NewRequest, Waiting, Joined
  <2> QED BY <2>3 DEF Promised!Next, AllStates
<1> QED BY <1>1, <1>2, <1>3, <1>5, <1>6, <1>7 DEF Accounted

(* An operation settles a request that waits or the new one, and none that *)
(* goes on waiting.                                                        *)
LEMMA AccountedConserves ==
  ASSUME Accounted, nextId \in Nat, \A id \in Waiting : id \in Nat /\ id < nextId
  PROVE  \E ok, bad :
           /\ Says(effects', ok, bad) /\ ok \cap bad = {}
           /\ Waiting' \cap (ok \cup bad) = {}
           /\ \/ nextId' = nextId /\ Waiting = Waiting' \cup ok \cup bad
              \/ nextId' = nextId + 1 /\ Waiting \cup {nextId} = Waiting' \cup ok \cup bad
<1>0. nextId \notin Waiting
  OBVIOUS
<1>1. CASE Leaves
  BY <1>1 DEF Leaves, Waiting
<1>2. CASE Aborts
  BY <1>2 DEF Aborts, Waiting
<1>3. CASE Arrives
  BY <1>3 DEF Arrives, Waiting
<1>4. CASE Refuses
  <2>1. Waiting' = Waiting
    BY <1>4 DEF Refuses, Waiting
  <2> QED BY <1>0, <1>4, <2>1 DEF Refuses
<1>5. ASSUME NEW target \in AllStates, Queues(target) \/ Serves(target)
      PROVE  \E ok, bad :
               /\ Says(effects', ok, bad) /\ ok \cap bad = {}
               /\ Waiting' \cap (ok \cup bad) = {}
               /\ nextId' = nextId + 1 /\ Waiting \cup {nextId} = Waiting' \cup ok \cup bad
  <2> DEFINE others == IF Joined(target) THEN {} ELSE Waiting
  <2>1. Admitted(target).ids = IF Joined(target) THEN Waiting \cup {nextId} ELSE {nextId}
    BY DEF Admitted, Joined, Waiting
  <2>2. others \cap Admitted(target).ids = {}
        /\ Waiting \cup {nextId} = Admitted(target).ids \cup others
    BY <1>0, <2>1
  <2>3. CASE Queues(target)
    <3>1. Waiting' = Admitted(target).ids
      BY <2>3 DEF Queues, Waiting
    <3>2. Says(effects', {}, others) /\ nextId' = nextId + 1
      BY <2>3 DEF Queues
    <3> HIDE DEF others
    <3>3. {} \cap others = {} /\ Waiting' \cap ({} \cup others) = {}
          /\ Waiting \cup {nextId} = Waiting' \cup {} \cup others
      BY <2>2, <3>1
    <3> QED BY <3>2, <3>3, Zenon
  <2>4. CASE Serves(target)
    <3>1. Waiting' = {}
      BY <2>4 DEF Serves, Waiting
    <3>2. Says(effects', Admitted(target).ids, others) /\ nextId' = nextId + 1
      BY <2>4 DEF Serves
    <3> HIDE DEF others
    <3>3. Admitted(target).ids \cap others = {} /\ Waiting' \cap (Admitted(target).ids \cup others) = {}
          /\ Waiting \cup {nextId} = Waiting' \cup Admitted(target).ids \cup others
      BY <2>2, <3>1
    <3> QED BY <3>2, <3>3, Zenon
  <2> QED BY <1>5, <2>3, <2>4
<1> QED BY <1>1, <1>2, <1>3, <1>4, <1>5 DEF Accounted

(* The states of the installed definition are states.                      *)
LEMMA StatesKnown == ASSUME TypeOK, graph # None PROVE GraphStates \subseteq AllStates
BY DEF TypeOK, AllStates, GraphStates

----------------------------------------------------------------------------
(* Each operation accounts for those who wait.                             *)
USE DEF InTransition, Early, Terminated, From, To, Edge, Effective, HasRoute, GraphStates, EdgeIds,
        RouteSet, installed, routes

(* A static commit displays its target, and settles what it is told to.    *)
LEMMA CommitSays ==
  ASSUME NEW e, NEW before, NEW settlement, CommitStatic(e, before, settlement),
         NEW worse, Says(before, {}, worse), NEW ok, NEW bad, Says(settlement, ok, bad)
  PROVE  Says(effects', ok, worse \cup bad) /\ visual' = Edge(e).to
<1> DEFINE change == VisualChange(visual, Edge(e).to)
<1>1. Says(Start(e), {}, {}) /\ Says(change, {}, {}) /\ Says(End(e), {}, {})
  BY HelpersSay
<1>2. effects' = before \o Start(e) \o change \o End(e) \o settlement /\ visual' = Edge(e).to
  BY DEF CommitStatic
<1> HIDE DEF change
<1>3. Says(before \o Start(e) \o change \o End(e), {}, worse)
  BY <1>1, QuietlyInOrder
<1>4. Says(before \o Start(e) \o change \o End(e) \o settlement, {} \cup ok, worse \cup bad)
  BY <1>3, SaysInOrder
<1>5. {} \cup ok = ok
  OBVIOUS
<1> QED BY <1>2, <1>4, <1>5, Zenon

(* A lifecycle operation answers those who wait, or rejects them, or       *)
(* leaves them waiting.                                                    *)
LEMMA LifecycleAccounts == ASSUME Inv, Inv', Lifecycle PROVE Accounted
<1>0. /\ graph # None => GraphStates \subseteq AllStates /\ visual \in AllStates /\ requested \in AllStates
      /\ group # None => group.ids # {} /\ group.target = requested
  BY StatesKnown DEF Inv, TypeOK, GroupFollowsRoutes
<1>1. ASSUME NEW d \in Definitions, Install(d) PROVE Accounted
  <2>1. Says(effects', {}, {}) /\ UNCHANGED <<group, nextId>> /\ visual' = d.initial
    BY <1>1, HelpersSay DEF Install
  <2>2. visual' \in AllStates
    BY <1>1, <2>1, ValidIsSound DEF Install, Sound, AllStates
  <2> QED BY <2>1, <2>2 DEF Accounted, Leaves
<1>2. CASE BeginAnimated \/ ResumeAnimated
  <2>1. Says(effects', {}, {}) /\ UNCHANGED <<group, nextId, visual>>
    BY <1>2, HelpersSay DEF BeginAnimated, ResumeAnimated
  <2> QED BY <2>1 DEF Accounted, Leaves
<1>3. CASE BeginStatic
  <2>1. graph # None /\ UNCHANGED nextId
    BY <1>3 DEF BeginStatic, Inv, PresentationShape
  <2>2. CASE visual = requested
    <3>1. Says(effects', {}, {}) /\ UNCHANGED <<group, nextId, visual>>
      BY <1>3, <2>2, HelpersSay DEF BeginStatic
    <3> QED BY <3>1 DEF Accounted, Leaves
  <2>3. CASE visual # requested
    <3>1. PICK e \in DirectEdges(graph, visual, requested) :
                 CommitStatic(e, ReadinessChange("static"), SettleGroup("static-recovery"))
      BY <1>3, <2>3 DEF BeginStatic
    <3>2. Says(effects', Waiting, {} \cup {}) /\ visual' = Edge(e).to /\ group' = None
      <4>1. Says(SettleGroup("static-recovery"), Waiting, {}) /\ Says(ReadinessChange("static"), {}, {})
        BY HelpersSay DEF Resolutions
      <4> QED BY <1>3, <2>3, <3>1, <4>1, CommitSays DEF BeginStatic
    <3>3. Edge(e).to = requested /\ {} \cup {} = {}
      BY <2>1, DirectEdgeLeads DEF Inv
    <3> QED BY <1>0, <2>1, <3>2, <3>3 DEF Accounted, Arrives
  <2> QED BY <2>2, <2>3
<1>4. ASSUME NEW retained \in GraphStates \cup {None}, RecoverStatic(retained) PROVE Accounted
  <2> DEFINE drawn == IF retained = None THEN visual ELSE retained
  <2>1. graph # None /\ drawn \in AllStates /\ UNCHANGED nextId
    BY <1>0, <1>4 DEF RecoverStatic
  <2>2. CASE drawn # requested \/ HasRoute
    <3>1. /\ effects' = ReadinessChange("static") \o RecoveryEvents(drawn) \o SettleGroup("static-recovery")
          /\ group' = None /\ visual' = requested
      BY <1>4, <2>2 DEF RecoverStatic
    <3>2. Says(RecoveryEvents(drawn), {}, {})
      <4>1. ASSUME NEW s, Says(s, {}, {})
            PROVE  \A e : Says(s \o VisualChange(drawn, requested) \o End(e), {}, {})
        BY <4>1, HelpersSay, QuietlyInOrder
      <4>2. \A e : Says(<<>>, {}, {}) /\ Says(Start(e), {}, {}) /\ Says(VisualChange(drawn, requested), {}, {})
        BY HelpersSay, SilentSays
      <4> QED BY <4>1, <4>2, Zenon DEF RecoveryEvents
    <3>3. Says(effects', Waiting, {})
      <4>1. Says(SettleGroup("static-recovery"), Waiting, {}) /\ Says(ReadinessChange("static"), {}, {})
        BY HelpersSay DEF Resolutions
      <4>2. Says(ReadinessChange("static") \o RecoveryEvents(drawn), {}, {})
        BY <3>2, <4>1, QuietlyInOrder
      <4> QED BY <3>1, <4>1, <4>2, QuietlyInOrder
    <3> QED BY <1>0, <2>1, <3>1, <3>3 DEF Accounted, Arrives
  <2>3. CASE ~(drawn # requested \/ HasRoute)
    <3>1. Says(effects', {}, {}) /\ UNCHANGED <<group, nextId>> /\ visual' = drawn
      BY <1>4, <2>3, HelpersSay DEF RecoverStatic
    <3> QED BY <2>1, <3>1 DEF Accounted, Leaves
  <2> QED BY <2>2, <2>3
<1>5. ASSUME NEW retained \in GraphStates \cup {None}, FailPlayback(retained) \/ Dispose(retained)
      PROVE  Accounted
  <2>1. /\ group' = None /\ UNCHANGED nextId
        /\ visual' = visual \/ visual' \in GraphStates
    BY <1>5 DEF FailPlayback, Dispose
  <2>2. graph = None => group = None /\ visual' = visual
    BY <1>5 DEF FailPlayback, Dispose, Inv, TypeOK, GroupFollowsRoutes
  <2>3. Says(effects', {}, Waiting)
    <3>1. /\ Says(SettleGroup("PlaybackError"), {}, Waiting) /\ Says(SettleGroup("AbortError"), {}, Waiting)
          /\ Says(ReadinessChange("error"), {}, {}) /\ Says(ReadinessChange("disposed"), {}, {})
      BY HelpersSay DEF Rejections
    <3>2. /\ Says(ReadinessChange("error") \o SettleGroup("PlaybackError"), {}, Waiting)
          /\ Says(SettleGroup("AbortError") \o ReadinessChange("disposed"), {}, Waiting)
      BY <3>1, QuietlyInOrder
    <3> QED BY <1>5, <3>2 DEF FailPlayback, Dispose
  <2> QED BY <1>0, <2>1, <2>2, <2>3 DEF Accounted, Aborts
<1> QED BY <1>1, <1>2, <1>3, <1>4, <1>5 DEF Lifecycle

(* An admitted request changes requestedState and supersedes.              *)
LEMMA AdmissionSays ==
  ASSUME NEW target
  PROVE  Says(RequestedChange(target) \o Superseded(target), {},
              IF Joined(target) THEN {} ELSE Waiting)
<1>1. Says(RequestedChange(target), {}, {})
  BY HelpersSay
<1>2. Says(Superseded(target), {}, IF Joined(target) THEN {} ELSE Waiting)
  BY HelpersSay DEF Joined
<1> QED BY <1>1, <1>2, QuietlyInOrder

(* An admitted request waits.                                              *)
LEMMA AdmitStep ==
  ASSUME Inv, NewRequest, graph # None, NEW target \in GraphStates, Admit(target),
         UNCHANGED visual
  PROVE  Accounted
<1>1. target \in AllStates /\ nextId \in Nat /\ group' # None
  BY StatesKnown, AdmittedIsGroup DEF Inv, TypeOK, Admit
<1> QED BY <1>1, AdmissionSays DEF Accounted, Queues, Admit, NewRequest

(* A request is refused, served at once, or waits with those who wait for  *)
(* the same.                                                               *)
LEMMA RequestAccounts == ASSUME Inv, NEW target, Request(target) PROVE Accounted
<1>0. /\ nextId \in Nat /\ nextId' = nextId + 1
      /\ graph # None => visual \in AllStates /\ visual \in GraphStates
      /\ NewRequest
  BY StatesKnown DEF Inv, TypeOK, Request, RequestRefused, RequestHere, RequestJoin, RequestCancel,
     RequestReroute, RequestContinue, RequestReverse, RequestFollowOn, RequestStatic, NewRequest
<1>1. CASE RequestRefused(target)
  <2>1. PICK outcome \in Rejections : effects' = SettleNew(outcome)
    BY <1>1 DEF RequestRefused, Rejections
  <2> QED BY <1>0, <1>1, <2>1, HelpersSay DEF Accounted, Refuses, RequestRefused
<1>2. CASE RequestHere(target)
  <2>1. graph # None /\ target = visual /\ target \in AllStates
    BY <1>0, <1>2 DEF RequestHere, Routable, Inv, PresentationShape, ReadinessShape
  <2>2. group = None
    BY <1>2, <2>1 DEF RequestHere, Inv, GroupFollowsRoutes, RequestedIsProspective, Prospective,
       RouteShape, PendingShape, ActiveShape, ContinuationShape
  <2>3. Admitted(target).ids = {nextId} /\ ~Joined(target) /\ Waiting = {}
    BY <2>2 DEF Admitted, Joined, Waiting
  <2>4. Says(effects', {nextId}, {})
    BY <1>2, HelpersSay DEF RequestHere, Resolutions
  <2> QED BY <1>0, <1>2, <2>1, <2>2, <2>3, <2>4 DEF Accounted, Serves, RequestHere
<1>3. CASE RequestJoin(target)
  <2>1. graph # None /\ target \in GraphStates /\ target \in AllStates /\ target = requested
    BY <1>3, InstalledIsSound, StatesKnown
       DEF RequestJoin, Routable, Inv, TypeOK, Sound, RouteShape, PendingShape, ActiveShape,
           ContinuationShape, RequestedIsProspective, Prospective, PresentationShape
  <2>2. Joined(target) \/ Waiting = {}
    BY <2>1 DEF Joined, Waiting, Inv, GroupFollowsRoutes
  <2>3. Says(effects', {}, IF Joined(target) THEN {} ELSE Waiting)
    BY <1>3, <2>2, SilentSays DEF RequestJoin
  <2>4. group' # None /\ group' = Admitted(target)
    BY <1>3, <2>1, AdmittedIsGroup DEF RequestJoin, Inv
  <2> QED BY <1>0, <1>3, <2>1, <2>3, <2>4 DEF Accounted, Queues, RequestJoin
<1>4. CASE RequestCancel(target)
  <2>1. graph # None /\ target = visual /\ target \in AllStates
    BY <1>0, <1>4 DEF RequestCancel, Routable, Inv, PresentationShape, ReadinessShape
  <2>2. Says(Settlement(Admitted(target).ids, "stable-noop"), Admitted(target).ids, {})
    BY SettlementSays DEF Resolutions
  <2>3. Says(effects', Admitted(target).ids, IF Joined(target) THEN {} ELSE Waiting)
    <3>1. Says(RequestedChange(target) \o Superseded(target), {}, IF Joined(target) THEN {} ELSE Waiting)
      BY AdmissionSays
    <3>2. Says(RequestedChange(target) \o Superseded(target)
                 \o Settlement(Admitted(target).ids, "stable-noop"),
               {} \cup Admitted(target).ids, (IF Joined(target) THEN {} ELSE Waiting) \cup {})
      BY <2>2, <3>1, SaysInOrder
    <3>3. \A S : {} \cup S = S /\ S \cup {} = S
      OBVIOUS
    <3> QED BY <1>4, <3>2, <3>3, Zenon DEF RequestCancel
  <2> QED BY <1>0, <1>4, <2>1, <2>3 DEF Accounted, Serves, RequestCancel
<1>5. CASE \/ RequestReroute(target) \/ RequestContinue(target)
           \/ RequestReverse(target) \/ RequestFollowOn(target)
  <2>1. Admit(target) /\ graph # None /\ UNCHANGED visual
    BY <1>5 DEF RequestReroute, RequestContinue, RequestReverse, RequestFollowOn, Routable,
       ReplacePending, QueueReversal, QueueFollowOn, Inv, PresentationShape, ReadinessShape
  <2>2. target \in GraphStates
    <3>1. CASE RequestReroute(target)
      BY <2>1, <3>1, DirectEdgeLeads DEF RequestReroute, Inv
    <3>2. CASE RequestContinue(target)
      BY <2>1, <3>2, InstalledIsSound DEF RequestContinue, Inv, TypeOK, Sound, RouteShape,
         ActiveShape, ContinuationShape
    <3>3. CASE RequestReverse(target)
      BY <2>1, <3>3, ActiveInverseLeads, InstalledIsSound DEF RequestReverse, Inv, Sound
    <3>4. CASE RequestFollowOn(target)
      BY <2>1, <3>4, DirectEdgeLeads DEF RequestFollowOn, Inv
    <3> QED BY <1>5, <3>1, <3>2, <3>3, <3>4
  <2> QED BY <1>0, <2>1, <2>2, AdmitStep
<1>6. CASE RequestStatic(target)
  <2>1. graph # None
    BY <1>6 DEF RequestStatic, Inv, PresentationShape
  <2>2. PICK e \in DirectEdges(graph, visual, target) :
               CommitStatic(e, RequestedChange(target) \o Superseded(target),
                            Settlement(Admitted(target).ids, "target-committed"))
    BY <1>6 DEF RequestStatic
  <2>3. Edge(e).to = target /\ target \in AllStates
    BY <2>1, DirectEdgeLeads, StatesKnown DEF Inv
  <2>4. Says(Settlement(Admitted(target).ids, "target-committed"), Admitted(target).ids, {})
    BY SettlementSays DEF Resolutions
  <2>5. /\ Says(effects', Admitted(target).ids, (IF Joined(target) THEN {} ELSE Waiting) \cup {})
        /\ visual' = target
    BY <2>2, <2>3, <2>4, AdmissionSays, CommitSays
  <2>6. \A S : S \cup {} = S
    OBVIOUS
  <2>7. Says(effects', Admitted(target).ids, IF Joined(target) THEN {} ELSE Waiting)
    BY <2>5, <2>6, Zenon
  <2> QED BY <1>0, <1>6, <2>3, <2>5, <2>7 DEF Accounted, Serves, RequestStatic
<1> QED BY <1>1, <1>2, <1>3, <1>4, <1>5, <1>6 DEF Request

(* An event aborts those who wait, even for where it leads.                *)
LEMMA SendAccounts == ASSUME Inv, NEW event, Send(event) PROVE Accounted
<1>0. /\ graph # None => GraphStates \subseteq AllStates /\ visual \in AllStates
      /\ group # None => graph # None /\ group.ids # {}
  BY StatesKnown DEF Inv, TypeOK, GroupFollowsRoutes
<1>1. CASE SendRefused(event) \/ SendNoop(event)
  BY <1>1, SilentSays DEF Accounted, Leaves, SendRefused, SendNoop
<1>2. CASE \/ SendCancel(event) \/ SendReroute(event) \/ SendContinue(event)
           \/ SendReverse(event) \/ SendFollowOn(event)
  <2>1. PICK e : Direct(e)
    BY <1>2 DEF SendCancel, SendReroute, SendContinue, SendReverse, SendFollowOn
  <2>2. UNCHANGED visual
    BY <1>2 DEF SendCancel, SendReroute, SendContinue, SendReverse, SendFollowOn,
       ReplacePending, QueueReversal, QueueFollowOn
  <2>3. Says(effects', {}, Waiting)
    <3>1. Says(RequestedChange(Edge(e).to), {}, {}) /\ Says(SettleGroup("AbortError"), {}, Waiting)
      BY HelpersSay DEF Rejections
    <3> QED BY <2>1, <3>1, QuietlyInOrder DEF Direct
  <2> QED BY <1>0, <2>1, <2>2, <2>3 DEF Accounted, Aborts, Direct
<1>3. CASE SendStatic(event)
  <2>1. PICK e \in EventEdge(event) :
               CommitStatic(e, RequestedChange(Edge(e).to) \o SettleGroup("AbortError"), <<>>)
    BY <1>3 DEF SendStatic
  <2>2. Edge(e).to \in AllStates
    <3>1. graph # None
      BY <1>3 DEF SendStatic, Inv, PresentationShape
    <3> QED BY <1>0, <2>1, <3>1, EventEdgeLeads, InstalledIsSound DEF Inv, Sound
  <2>3. Says(RequestedChange(Edge(e).to) \o SettleGroup("AbortError"), {}, Waiting)
    <3>1. Says(RequestedChange(Edge(e).to), {}, {}) /\ Says(SettleGroup("AbortError"), {}, Waiting)
      BY HelpersSay DEF Rejections
    <3> QED BY <3>1, QuietlyInOrder
  <2>4. Says(effects', {}, Waiting \cup {}) /\ visual' = Edge(e).to
    BY <2>1, <2>3, SilentSays, CommitSays
  <2>5. Waiting \cup {} = Waiting
    OBVIOUS
  <2> QED BY <1>0, <1>3, <2>2, <2>4, <2>5 DEF Accounted, Aborts, SendStatic
<1> QED BY <1>1, <1>2, <1>3 DEF Send

(* A landing answers those who wait, unless it is only on their way.       *)
LEMMA LandStep ==
  ASSUME UNCHANGED nextId, NEW e, NEW before, Says(before, {}, {}), Land(e, before),
         Edge(e).to \in AllStates,
         group # None => group.ids # {} /\ group.target = requested'
  PROVE  Accounted
<1> DEFINE way == before \o VisualChange(visual, Edge(e).to) \o End(e)
<1>1. Says(way, {}, {})
  BY HelpersSay, QuietlyInOrder
<1>2. /\ effects' = way \o (IF Settles(Edge(e).to) THEN SettleGroup("target-committed") ELSE <<>>)
      /\ visual' = Edge(e).to
      /\ group' = IF Settles(Edge(e).to) THEN None ELSE group
  BY DEF Land
<1> HIDE DEF way
<1>3. CASE Settles(Edge(e).to)
  <2>1. Says(SettleGroup("target-committed"), Waiting, {})
    BY HelpersSay DEF Resolutions
  <2>2. Says(effects', Waiting, {})
    BY <1>1, <1>2, <1>3, <2>1, QuietlyInOrder
  <2> QED BY <1>2, <1>3, <2>2 DEF Accounted, Arrives, Settles
<1>4. CASE ~Settles(Edge(e).to)
  <2>1. Says(effects', {}, {})
    BY <1>1, <1>2, <1>4, SilentSays, QuietlyInOrder
  <2> QED BY <1>2, <1>4, <2>1 DEF Accounted, Leaves
<1> QED BY <1>3, <1>4

(* A departure settles nothing, but where it lands at once.                *)
LEMMA DepartStep ==
  ASSUME UNCHANGED nextId, NEW route, NEW before, Says(before, {}, {}),
         Depart(route, before), To(route) \in AllStates,
         group # None => group.ids # {} /\ group.target = requested'
  PROVE  Accounted
<1>1. Says(before \o Start(route.edge), {}, {})
  BY HelpersSay, QuietlyInOrder
<1>2. CASE Land(route.edge, before \o Start(route.edge))
  BY <1>1, <1>2, LandStep
<1>3. CASE Edge(route.edge).kind # "none"
  BY <1>1, <1>3 DEF Accounted, Leaves, Depart
<1> QED BY <1>2, <1>3 DEF Depart

(* A tick answers those who wait when it lands where they want to be.      *)
LEMMA TickAccounts ==
  ASSUME Inv, NEW routeReady \in BOOLEAN, Tick(routeReady) PROVE Accounted
<1>0. /\ group # None => group.ids # {} /\ group.target = requested
      /\ UNCHANGED nextId
      /\ graph # None => Sound(graph) /\ GraphStates \subseteq AllStates
  BY InstalledIsSound, StatesKnown DEF Inv, GroupFollowsRoutes, Tick, TickIdle, TickIntro, TickIntroJoin,
     TickBody, TickCompletion, TickWait, TickDepart, TickLocked, TickLockedEnd, TickReversible,
     TickReversibleEnd, Ticking
<1>1. CASE \/ TickIdle \/ TickIntro \/ TickIntroJoin \/ TickBody(routeReady)
           \/ TickWait(routeReady) \/ TickLocked
  BY <1>0, <1>1, SilentSays DEF Accounted, Leaves, TickIdle, TickIntro, TickIntroJoin, TickBody, TickWait,
     TickLocked, Present
<1>2. CASE TickReversible
  <2>1. Says(Turns, {}, {})
    BY HelpersSay, SilentSays DEF Turns
  <2> QED BY <1>0, <1>2, <2>1 DEF Accounted, Leaves, TickReversible
<1>3. CASE TickCompletion(routeReady)
  <2>1. PICK e \in EdgesOf(graph) :
               /\ requested' = Edge(e).to
               /\ Depart(Route(e, sequence'), RequestedChange(Edge(e).to))
    BY <1>3 DEF TickCompletion
  <2>2. graph # None /\ group = None
    BY <1>3 DEF TickCompletion, Ticking, Inv, GroupFollowsRoutes, RouteShape, PendingShape,
       ActiveShape, ContinuationShape, PresentationShape
  <2>3. To(Route(e, sequence')) \in AllStates
    BY <1>0, <2>2 DEF Sound, Route
  <2>4. Says(RequestedChange(Edge(e).to), {}, {})
    BY HelpersSay
  <2> QED BY <1>0, <2>1, <2>2, <2>3, <2>4, DepartStep
<1>4. CASE TickDepart(routeReady)
  <2>1. graph # None /\ pending # None /\ pending.edge \in EdgesOf(graph)
    BY <1>4 DEF TickDepart, Ticking, Inv, TypeOK, RouteShape, PendingShape, PresentationShape
  <2>2. To(pending) \in AllStates
    BY <1>0, <2>1 DEF Sound
  <2> QED BY <1>0, <1>4, <2>2, SilentSays, DepartStep DEF TickDepart
<1>5. CASE TickLockedEnd
  <2>1. graph # None /\ active # None /\ active.edge \in EdgesOf(graph)
    BY <1>5 DEF TickLockedEnd, Ticking, Inv, TypeOK, RouteShape, ActiveShape, PresentationShape
  <2>2. Edge(active.edge).to \in AllStates
    BY <1>0, <2>1 DEF Sound
  <2> QED BY <1>0, <1>5, <2>2, SilentSays, LandStep DEF TickLockedEnd
<1>6. CASE TickReversibleEnd
  <2>1. graph # None /\ Effective # None /\ Effective.edge \in EdgesOf(graph)
    BY <1>6 DEF TickReversibleEnd, Ticking, Inv, TypeOK, RouteShape, ActiveShape, PresentationShape
  <2>2. Edge(Effective.edge).to \in AllStates
    BY <1>0, <2>1 DEF Sound
  <2>3. Says(Turns, {}, {})
    BY HelpersSay, SilentSays DEF Turns
  <2> QED BY <1>0, <1>6, <2>2, <2>3, LandStep DEF TickReversibleEnd
<1> QED BY <1>1, <1>2, <1>3, <1>4, <1>5, <1>6 DEF Tick

----------------------------------------------------------------------------
(* A new engine is a new ledger.                                           *)
LEMMA InitRefines == HInit => Promised!Init
BY DEF HInit, Init, Promised!Init, Waiting

(* Every step of the engine is one of the abstract settlement.             *)
LEMMA StepRefines ==
  ASSUME Inv, Inv', [HNext]_allVars PROVE [Promised!Next]_(Promised!vars)
<1>1. CASE HNext
  <2>1. Accounted /\ Record
    BY <1>1, LifecycleAccounts, RequestAccounts, SendAccounts, TickAccounts DEF HNext, Next
  <2> QED BY <2>1, AccountedRefines
<1>2. CASE UNCHANGED allVars
  BY <1>2 DEF allVars, vars, history, Promised!vars, Waiting
<1> QED BY <1>1, <1>2

(* setState() is latest-wins, whichever graph is installed and whatever    *)
(* becomes of its routes: a request joins the ones for the same target,    *)
(* takes the place of any others, and is answered once - with the target   *)
(* on display, or by a rejection.                                          *)
THEOREM EngineImplementsLatestWins == HSpec => ImplementsLatestWins
<1>1. Inv /\ Inv' /\ [HNext]_allVars => [Promised!Next]_(Promised!vars)
  BY StepRefines
<1> QED BY <1>1, InitRefines, InvariantHolds, PTL DEF HSpec, ImplementsLatestWins, Promised!Spec

----------------------------------------------------------------------------
(* A host that knew the requested state, the displayed one and the edge    *)
(* that is on the way knows them after an operation, too.                  *)
Follows ==
  \A o : (active # None => o = active.edge) =>
    \E then :
      /\ Recounts(effects', <<requested, visual, o>>, <<requested', visual', then>>)
      /\ active' # None => then = active'.edge
      /\ active' = None /\ (active # None \/ o = None) => then = None

(* Effects that only change the requested state.                           *)
Redirects(es, to) == \A v, o : Recounts(es, <<requested, v, o>>, <<to, v, o>>)

(* The changes of the requested state by requests and events.              *)
LEMMA RedirectsRecount ==
  /\ Redirects(<<>>, requested)
  /\ \A s : Silent(s) => Redirects(s, requested)
  /\ \A to : Redirects(RequestedChange(to), to)
  /\ \A s, to, t : Redirects(s, to) /\ Silent(t) => Redirects(s \o t, to)
<1>1. \A s : Silent(s) => Redirects(s, requested)
  BY DEF Silent, Redirects
<1>2. Redirects(<<>>, requested)
  BY <1>1, NoneRecounts DEF Silent
<1>3. \A to : Redirects(RequestedChange(to), to)
  BY HelpersRecount DEF Redirects
<1>4. ASSUME NEW s, NEW to, NEW t, Redirects(s, to), Silent(t) PROVE Redirects(s \o t, to)
  BY <1>4, SilentAfter DEF Redirects
<1> QED BY <1>1, <1>2, <1>3, <1>4

(* A change of the routes that leaves the active one.                      *)
LEMMA RedirectFollows ==
  ASSUME Redirects(effects', requested'), UNCHANGED <<visual, active>> PROVE Follows
<1> SUFFICES ASSUME NEW o, active # None => o = active.edge
             PROVE  \E then :
                      /\ Recounts(effects', <<requested, visual, o>>, <<requested', visual', then>>)
                      /\ active' # None => then = active'.edge
                      /\ active' = None /\ (active # None \/ o = None) => then = None
  BY DEF Follows
<1>1. Recounts(effects', <<requested, visual, o>>, <<requested', visual', o>>)
  BY DEF Redirects
<1> QED BY <1>1

(* A static commit.                                                        *)
LEMMA CommitFollows ==
  ASSUME NEW e, NEW before, NEW settlement, CommitStatic(e, before, settlement),
         Redirects(before, requested'), Silent(settlement)
  PROVE  Follows
<1> SUFFICES ASSUME NEW o, active # None => o = active.edge
             PROVE  \E then :
                      /\ Recounts(effects', <<requested, visual, o>>, <<requested', visual', then>>)
                      /\ active' # None => then = active'.edge
                      /\ active' = None /\ (active # None \/ o = None) => then = None
  BY DEF Follows
<1> DEFINE was == <<requested, visual, o>>
<1>1. /\ effects' = before \o Start(e) \o VisualChange(visual, Edge(e).to) \o End(e) \o settlement
      /\ visual' = Edge(e).to /\ active' = None
  BY DEF CommitStatic, ClearRoutes
<1>2. Recounts(before, was, <<requested', visual, o>>)
  BY DEF Redirects
<1> HIDE DEF was
<1>3. Recounts(before \o Start(e), was, <<requested', visual, e>>)
  BY <1>2, StartingRecounts
<1>4. Recounts(before \o Start(e) \o VisualChange(visual, Edge(e).to) \o End(e), was,
               <<requested', Edge(e).to, None>>)
  BY <1>3, EndingRecounts
<1>5. Recounts(effects', was, <<requested', visual', None>>)
  BY <1>1, <1>4, SilentAfter
<1> QED BY <1>1, <1>5 DEF was

(* A landing of the edge that is open after the effects before.            *)
LEMMA LandFollows ==
  ASSUME NEW e, NEW before, Land(e, before),
         \A o : (active # None => o = active.edge)
           => Recounts(before, <<requested, visual, o>>, <<requested', visual, e>>)
  PROVE  Follows
<1> SUFFICES ASSUME NEW o, active # None => o = active.edge
             PROVE  \E then :
                      /\ Recounts(effects', <<requested, visual, o>>, <<requested', visual', then>>)
                      /\ active' # None => then = active'.edge
                      /\ active' = None /\ (active # None \/ o = None) => then = None
  BY DEF Follows
<1> DEFINE was == <<requested, visual, o>>
           settlement == IF Settles(Edge(e).to) THEN SettleGroup("target-committed") ELSE <<>>
<1>1. /\ effects' = before \o VisualChange(visual, Edge(e).to) \o End(e) \o settlement
      /\ visual' = Edge(e).to /\ active' = None
  BY DEF Land
<1>2. Recounts(before, was, <<requested', visual, e>>)
  OBVIOUS
<1>3. Silent(settlement)
  BY HelpersRecount, NoneRecounts DEF Silent
<1> HIDE DEF was, settlement
<1>4. Recounts(before \o VisualChange(visual, Edge(e).to) \o End(e), was,
               <<requested', Edge(e).to, None>>)
  BY <1>2, EndingRecounts
<1>5. Recounts(effects', was, <<requested', visual', None>>)
  BY <1>1, <1>3, <1>4, SilentAfter
<1> QED BY <1>1, <1>5 DEF was

(* A departure, through a unit or at once.                                 *)
LEMMA DepartFollows ==
  ASSUME NEW route, route # None, NEW before, Depart(route, before), Redirects(before, requested')
  PROVE  Follows
<1> DEFINE e == route.edge
<1>1. ASSUME NEW o
      PROVE  Recounts(before \o Start(e), <<requested, visual, o>>, <<requested', visual, e>>)
  <2>1. Recounts(before, <<requested, visual, o>>, <<requested', visual, o>>)
    BY DEF Redirects
  <2> QED BY <2>1, StartingRecounts
<1>2. CASE Land(e, before \o Start(e))
  BY <1>1, <1>2, LandFollows
<1>3. CASE active' = route /\ effects' = before \o Start(e) /\ UNCHANGED visual
  BY <1>1, <1>3 DEF Follows
<1> QED BY <1>2, <1>3 DEF Depart

(* A tick tells what it presents.                                          *)
LEMMA TickFollows == ASSUME Inv, NEW routeReady \in BOOLEAN, Tick(routeReady) PROVE Follows
<1>1. CASE \/ TickIdle \/ TickIntro \/ TickIntroJoin \/ TickBody(routeReady)
           \/ TickWait(routeReady) \/ TickLocked
  <2>1. effects' = <<>> /\ UNCHANGED <<requested, visual, active>>
    BY <1>1 DEF TickIdle, TickIntro, TickIntroJoin, TickBody, TickWait, TickLocked, Present
  <2>2. Redirects(effects', requested')
    BY <2>1, RedirectsRecount
  <2> QED BY <2>1, <2>2, RedirectFollows
<1>2. ASSUME NEW o, phase = "reversible", active # None => o = active.edge
      PROVE  Recounts(Turns, <<requested, visual, o>>, <<requested, visual, Effective.edge>>)
  <2>1. active # None
    BY <1>2 DEF Inv, RouteShape, ActiveShape
  <2>2. CASE reversal = None
    BY <1>2, <2>1, <2>2, NoneRecounts DEF Turns
  <2>3. CASE reversal # None
    BY <2>3, HelpersRecount DEF Turns
  <2> QED BY <2>2, <2>3
<1>3. CASE TickReversible
  BY <1>2, <1>3 DEF Follows, TickReversible, Ticking, Inv, RouteShape, ActiveShape
<1>4. CASE TickReversibleEnd
  BY <1>2, <1>4, LandFollows DEF TickReversibleEnd, Ticking
<1>5. CASE TickLockedEnd
  <2>1. active # None
    BY <1>5 DEF TickLockedEnd, Ticking, Inv, RouteShape, ActiveShape
  <2>2. \A o : o = active.edge => Recounts(<<>>, <<requested, visual, o>>, <<requested', visual, active.edge>>)
    BY <1>5, NoneRecounts DEF TickLockedEnd
  <2> QED BY <1>5, <2>1, <2>2, LandFollows DEF TickLockedEnd
<1>6. CASE TickCompletion(routeReady)
  <2>1. PICK e \in EdgesOf(graph) :
               /\ requested' = Edge(e).to
               /\ Depart(Route(e, sequence'), RequestedChange(Edge(e).to))
    BY <1>6 DEF TickCompletion
  <2>2. Route(e, sequence') # None
    <3>1. graph # None /\ sequence' \in Nat
      BY <1>6 DEF TickCompletion, Ticking, Inv, PresentationShape, TypeOK
    <3> QED BY <3>1, RouteIsSomething DEF Inv
  <2> QED BY <2>1, <2>2, DepartFollows, RedirectsRecount
<1>7. CASE TickDepart(routeReady)
  <2>1. pending # None
    BY <1>7 DEF TickDepart, Ticking, Inv, RouteShape, PendingShape
  <2> QED BY <1>7, <2>1, DepartFollows, RedirectsRecount DEF TickDepart
<1> QED BY <1>1, <1>3, <1>4, <1>5, <1>6, <1>7 DEF Tick

(* A request of a graph that is not static only changes the requested      *)
(* state.                                                                  *)
LEMMA RequestRedirects ==
  ASSUME phase # "static", NEW target, Request(target)
  PROVE  Redirects(effects', requested') /\ UNCHANGED <<visual, active>>
<1>1. CASE RequestRefused(target) \/ RequestHere(target)
  <2>1. Silent(effects') /\ UNCHANGED <<requested, visual, active>>
    BY <1>1, HelpersRecount DEF RequestRefused, RequestHere
  <2> QED BY <2>1, RedirectsRecount
<1>2. CASE RequestJoin(target)
  <2>1. effects' = <<>> /\ UNCHANGED <<requested, visual, active>>
    BY <1>2 DEF RequestJoin
  <2> QED BY <2>1, RedirectsRecount
<1>3. Redirects(RequestedChange(target) \o Superseded(target), target)
  BY HelpersRecount, RedirectsRecount
<1>4. CASE RequestCancel(target)
  <2>1. Redirects(RequestedChange(target) \o Superseded(target)
                    \o Settlement(Admitted(target).ids, "stable-noop"), target)
    BY <1>3, HelpersRecount, RedirectsRecount
  <2> QED BY <1>4, <2>1 DEF RequestCancel
<1>5. CASE \/ RequestReroute(target) \/ RequestContinue(target)
           \/ RequestReverse(target) \/ RequestFollowOn(target)
  <2>1. Admit(target) /\ UNCHANGED <<visual, active>>
    BY <1>5 DEF RequestReroute, RequestContinue, RequestReverse, RequestFollowOn,
       ReplacePending, QueueReversal, QueueFollowOn
  <2> QED BY <1>3, <2>1 DEF Admit
<1>6. ~RequestStatic(target)
  BY DEF RequestStatic
<1> QED BY <1>1, <1>2, <1>4, <1>5, <1>6 DEF Request

(* A request tells where it leads.                                         *)
LEMMA RequestFollows == ASSUME NEW target, Request(target) PROVE Follows
<1>1. CASE phase # "static"
  BY <1>1, RequestRedirects, RedirectFollows
<1>2. CASE RequestStatic(target)
  <2>1. PICK e : CommitStatic(e, RequestedChange(target) \o Superseded(target),
                              Settlement(Admitted(target).ids, "target-committed"))
    BY <1>2 DEF RequestStatic
  <2>2. Silent(Settlement(Admitted(target).ids, "target-committed"))
        /\ Redirects(RequestedChange(target) \o Superseded(target), target)
    BY HelpersRecount, RedirectsRecount
  <2> QED BY <1>2, <2>1, <2>2, CommitFollows DEF RequestStatic
<1>3. CASE phase = "static" /\ ~RequestStatic(target)
  <2>1. RequestRefused(target) \/ RequestHere(target)
    BY <1>3 DEF Request, RequestJoin, RequestCancel, RequestReroute, RequestContinue, RequestReverse,
       RequestFollowOn
  <2>2. Silent(effects') /\ UNCHANGED <<requested, visual, active>>
    BY <2>1, HelpersRecount DEF RequestRefused, RequestHere
  <2> QED BY <2>2, RedirectsRecount, RedirectFollows
<1> QED BY <1>1, <1>2, <1>3

(* An event of a graph that is not static only changes the requested state.*)
LEMMA SendRedirects ==
  ASSUME phase # "static", NEW event, Send(event)
  PROVE  Redirects(effects', requested') /\ UNCHANGED <<visual, active>>
<1>1. CASE SendRefused(event) \/ SendNoop(event)
  <2>1. effects' = <<>> /\ UNCHANGED <<requested, visual, active>>
    BY <1>1 DEF SendRefused, SendNoop
  <2> QED BY <2>1, RedirectsRecount
<1>2. \A e : Redirects(RequestedChange(Edge(e).to) \o SettleGroup("AbortError"), Edge(e).to)
  BY HelpersRecount, RedirectsRecount
<1>3. CASE \/ SendCancel(event) \/ SendReroute(event) \/ SendContinue(event)
           \/ SendReverse(event) \/ SendFollowOn(event)
  <2>1. PICK e : Direct(e)
    BY <1>3 DEF SendCancel, SendReroute, SendContinue, SendReverse, SendFollowOn
  <2>2. UNCHANGED <<visual, active>>
    BY <1>3 DEF SendCancel, SendReroute, SendContinue, SendReverse, SendFollowOn,
       ReplacePending, QueueReversal, QueueFollowOn
  <2> QED BY <1>2, <2>1, <2>2 DEF Direct
<1>4. ~SendStatic(event)
  BY DEF SendStatic
<1> QED BY <1>1, <1>3, <1>4 DEF Send

(* An event tells where it leads.                                          *)
LEMMA SendFollows == ASSUME NEW event, Send(event) PROVE Follows
<1>1. CASE phase # "static"
  BY <1>1, SendRedirects, RedirectFollows
<1>2. CASE SendStatic(event)
  <2>1. PICK e : /\ CommitStatic(e, RequestedChange(Edge(e).to) \o SettleGroup("AbortError"), <<>>)
                 /\ requested' = Edge(e).to
    BY <1>2 DEF SendStatic
  <2>2. Silent(<<>>) /\ Redirects(RequestedChange(Edge(e).to) \o SettleGroup("AbortError"), Edge(e).to)
    BY HelpersRecount, NoneRecounts, RedirectsRecount DEF Silent
  <2> QED BY <2>1, <2>2, CommitFollows
<1>3. CASE phase = "static" /\ ~SendStatic(event)
  <2>1. SendRefused(event) \/ SendNoop(event)
    BY <1>3 DEF Send, SendCancel, SendReroute, SendContinue, SendReverse, SendFollowOn
  <2>2. effects' = <<>> /\ UNCHANGED <<requested, visual, active>>
    BY <2>1 DEF SendRefused, SendNoop
  <2> QED BY <2>2, RedirectsRecount, RedirectFollows
<1> QED BY <1>1, <1>2, <1>3

----------------------------------------------------------------------------
(* The animation begins in the state that was known.                       *)
LEMMA BeginningFollows == ASSUME Inv, BeginAnimated \/ ResumeAnimated PROVE Follows
<1>1. Silent(effects') /\ UNCHANGED <<requested, visual, active>>
  BY HelpersRecount DEF BeginAnimated, ResumeAnimated
<1> QED BY <1>1, RedirectsRecount, RedirectFollows

(* The static frame that ends a preparation is told.                       *)
LEMMA BeginStaticFollows == ASSUME Inv, BeginStatic PROVE Follows
<1>1. Silent(ReadinessChange("static")) /\ Silent(SettleGroup("static-recovery"))
      /\ UNCHANGED requested
  BY HelpersRecount DEF BeginStatic
<1>2. CASE visual # requested
  <2>1. PICK e : CommitStatic(e, ReadinessChange("static"), SettleGroup("static-recovery"))
    BY <1>2 DEF BeginStatic
  <2> QED BY <1>1, <2>1, RedirectsRecount, CommitFollows
<1>3. CASE visual = requested
  <2>1. effects' = ReadinessChange("static") /\ visual' = visual /\ active' = None
    BY <1>3 DEF BeginStatic, ClearRoutes
  <2>2. active = None
    BY DEF BeginStatic, Inv, RouteShape, ActiveShape
  <2> QED BY <1>1, <2>1, <2>2, RedirectsRecount, RedirectFollows
<1> QED BY <1>2, <1>3

(* A recovery from any drawn state ends the edge that is on the way, or    *)
(* starts and ends another.                                                *)
LEMMA RecoveryRecounts ==
  ASSUME Inv, graph # None, ~Terminated, NEW drawn, NEW o, active # None => o = active.edge
  PROVE  \E then :
           /\ Recounts(RecoveryEvents(drawn), <<requested, drawn, o>>, <<requested, requested, then>>)
           /\ drawn = visual /\ (active # None \/ o = None) => then = None
<1> DEFINE override == drawn # visual
           was == <<requested, drawn, o>>
           chosen == IF ~override /\ RecoveryCandidate # None
                     THEN {RecoveryCandidate.edge} ELSE DirectEdges(graph, drawn, requested)
<1>1. CASE chosen = {}
  <2>1. RecoveryEvents(drawn) = VisualChange(drawn, requested)
    BY <1>1 DEF RecoveryEvents
  <2>2. Recounts(RecoveryEvents(drawn), was, <<requested, requested, o>>)
    BY <2>1, HelpersRecount
  <2>3. drawn = visual => active = None
    BY <1>1 DEF RecoveryCandidate
  <2> QED BY <2>2, <2>3
<1>2. CASE chosen # {}
  <2> DEFINE e == CHOOSE x \in chosen : TRUE
             first == IF ~override /\ Underway(e) THEN <<>> ELSE Start(e)
  <2>1. RecoveryEvents(drawn) = first \o VisualChange(drawn, requested) \o End(e)
    BY <1>2 DEF RecoveryEvents
  <2>2. Recounts(first, was, <<requested, drawn, e>>)
    <3>1. CASE ~override /\ Underway(e)
      BY <3>1, NoneRecounts DEF Underway
    <3>2. CASE override \/ ~Underway(e)
      BY <3>2, HelpersRecount
    <3> QED BY <3>1, <3>2
  <2> HIDE DEF e, first, was
  <2>3. Recounts(RecoveryEvents(drawn), was, <<requested, requested, None>>)
    BY <2>1, <2>2, EndingRecounts
  <2> QED BY <2>3 DEF was
<1> QED BY <1>1, <1>2

(* A recovery that draws what is displayed is told.                        *)
LEMMA RecoverStaticFollows ==
  ASSUME Inv, NEW retained \in {None, visual}, RecoverStatic(retained) PROVE Follows
<1>1. /\ graph # None /\ ~Terminated /\ UNCHANGED requested /\ active' = None
      /\ (IF retained = None THEN visual ELSE retained) = visual
  BY DEF RecoverStatic, ClearRoutes
<1>2. Silent(ReadinessChange("static")) /\ Silent(SettleGroup("static-recovery"))
  BY HelpersRecount
<1>3. CASE visual # requested \/ HasRoute
  <2> SUFFICES ASSUME NEW o, active # None => o = active.edge
               PROVE  \E then :
                        /\ Recounts(effects', <<requested, visual, o>>, <<requested', visual', then>>)
                        /\ active' # None => then = active'.edge
                        /\ active' = None /\ (active # None \/ o = None) => then = None
    BY DEF Follows
  <2>1. /\ effects' = ReadinessChange("static") \o RecoveryEvents(visual)
                        \o SettleGroup("static-recovery")
        /\ visual' = requested
    BY <1>1, <1>3 DEF RecoverStatic
  <2>2. PICK then :
          /\ Recounts(RecoveryEvents(visual), <<requested, visual, o>>, <<requested, requested, then>>)
          /\ active # None \/ o = None => then = None
    BY <1>1, RecoveryRecounts
  <2>3. Recounts(ReadinessChange("static"), <<requested, visual, o>>, <<requested, visual, o>>)
    BY <1>2 DEF Silent
  <2>4. Recounts(effects', <<requested, visual, o>>, <<requested, requested, then>>)
    BY <1>2, <2>1, <2>2, <2>3, RecountsInOrder, SilentAfter
  <2> QED BY <1>1, <2>1, <2>2, <2>4
<1>4. CASE ~(visual # requested \/ HasRoute)
  <2>1. effects' = ReadinessChange("static") /\ UNCHANGED <<visual, active>>
    BY <1>1, <1>4 DEF RecoverStatic
  <2> QED BY <1>1, <1>2, <2>1, RedirectsRecount, RedirectFollows
<1> QED BY <1>3, <1>4

----------------------------------------------------------------------------
(* Whatever the operation, the effects nest, and the edge that is on the   *)
(* way afterwards is the one that was started last.                        *)
Nested ==
  \A o : (active # None => o = active.edge) =>
    Nests(effects', o) /\ (active' # None => StartedAfter(effects', o) = active'.edge)

LEMMA FollowsNests == Follows => Nested
<1> SUFFICES ASSUME Follows, NEW o, active # None => o = active.edge
             PROVE  Nests(effects', o) /\ (active' # None => StartedAfter(effects', o) = active'.edge)
  BY DEF Nested
<1>1. PICK then :
        /\ Recounts(effects', <<requested, visual, o>>, <<requested', visual', then>>)
        /\ active' # None => then = active'.edge
  BY DEF Follows
<1> QED BY <1>1 DEF Recounts

LEMMA SilentNests ==
  ASSUME NEW s, NEW t, effects' = s \o t, Silent(s), Silent(t), active' = None PROVE Nested
<1>1. \A o : Recounts(effects', <<None, None, o>>, <<None, None, o>>)
  BY SilentAfter DEF Silent
<1> QED BY <1>1 DEF Nested, Recounts

LEMMA LifecycleNests == ASSUME Inv, Lifecycle PROVE Nested
<1>1. ASSUME NEW d \in Definitions, Install(d) PROVE Nested
  <2>1. active = None /\ active' = None
    BY <1>1 DEF Install, Inv, RouteShape, ActiveShape, ReadinessShape
  <2>2. \A o : Recounts(effects', <<None, None, o>>, <<None, None, o>>)
    BY <1>1, HelpersRecount DEF Install, Silent
  <2> QED BY <2>1, <2>2 DEF Nested, Recounts
<1>2. ASSUME NEW retained \in GraphStates \cup {None}, RecoverStatic(retained) PROVE Nested
  <2> DEFINE drawn == IF retained = None THEN visual ELSE retained
  <2>1. graph # None /\ ~Terminated /\ active' = None
    BY <1>2 DEF RecoverStatic, ClearRoutes
  <2>2. Silent(ReadinessChange("static")) /\ Silent(SettleGroup("static-recovery"))
    BY HelpersRecount
  <2>3. CASE drawn # requested \/ HasRoute
    <3> SUFFICES ASSUME NEW o, active # None => o = active.edge PROVE Nests(effects', o)
      BY <2>1 DEF Nested
    <3>1. effects' = ReadinessChange("static") \o RecoveryEvents(drawn)
                       \o SettleGroup("static-recovery")
      BY <1>2, <2>3 DEF RecoverStatic
    <3> HIDE DEF drawn
    <3>2. PICK then :
            Recounts(RecoveryEvents(drawn), <<requested, drawn, o>>, <<requested, requested, then>>)
      BY <2>1, RecoveryRecounts
    <3>3. Recounts(ReadinessChange("static"), <<requested, drawn, o>>, <<requested, drawn, o>>)
      BY <2>2 DEF Silent
    <3>4. Recounts(effects', <<requested, drawn, o>>, <<requested, requested, then>>)
      BY <2>2, <3>1, <3>2, <3>3, RecountsInOrder, SilentAfter
    <3> QED BY <3>4 DEF Recounts
  <2>4. CASE ~(drawn # requested \/ HasRoute)
    <3>1. effects' = ReadinessChange("static")
      BY <1>2, <2>4 DEF RecoverStatic
    <3>2. \A o : Recounts(effects', <<None, None, o>>, <<None, None, o>>)
      BY <2>2, <3>1 DEF Silent
    <3> QED BY <2>1, <3>2 DEF Nested, Recounts
  <2> QED BY <2>3, <2>4
<1>3. ASSUME NEW retained \in GraphStates \cup {None}, FailPlayback(retained) \/ Dispose(retained)
      PROVE  Nested
  <2>1. active' = None
    BY <1>3 DEF FailPlayback, Dispose, ClearRoutes
  <2>2. \A to, outcome : Silent(ReadinessChange(to)) /\ Silent(SettleGroup(outcome))
    BY HelpersRecount
  <2>3. \/ effects' = ReadinessChange("error") \o SettleGroup("PlaybackError")
        \/ effects' = SettleGroup("AbortError") \o ReadinessChange("disposed")
    BY <1>3 DEF FailPlayback, Dispose
  <2> QED BY <2>1, <2>2, <2>3, SilentNests
<1>4. CASE BeginAnimated \/ ResumeAnimated \/ BeginStatic
  BY <1>4, BeginningFollows, BeginStaticFollows, FollowsNests
<1> QED BY <1>1, <1>2, <1>3, <1>4 DEF Lifecycle

(* The history of started edges agrees with the routes.                    *)
StartedIsActive == active # None => started = active.edge

(* Transition events nest, whichever routes, reversals, recoveries and     *)
(* landings produced them: an edge that ends is the one that was started   *)
(* last, in this operation or in an earlier one, and no edge ends twice.   *)
THEOREM EventsNest == HSpec => EndsFollowStarts
<1>1. HInit => StartedIsActive
  BY DEF HInit, Init, StartedIsActive
<1>2. ASSUME Inv, StartedIsActive, HNext PROVE Nests(effects', started) /\ StartedIsActive'
  <2>1. Nested
    BY <1>2, LifecycleNests, RequestFollows, SendFollows, TickFollows, FollowsNests DEF HNext, Next
  <2> QED BY <1>2, <2>1 DEF Nested, StartedIsActive, HNext, Record
<1>3. Inv /\ StartedIsActive /\ [HNext]_allVars
        => StartedIsActive' /\ [Nests(effects', started)]_allVars
  <2>1. ASSUME StartedIsActive, UNCHANGED allVars PROVE StartedIsActive'
    BY <2>1 DEF StartedIsActive, allVars, vars, history
  <2> QED BY <1>2, <2>1
<1>4. EndsFollowStarts <=> [][Nests(effects', started)]_allVars
  BY PTL DEF EndsFollowStarts, Nests
<1> QED BY <1>1, <1>3, <1>4, InvariantHolds, PTL DEF HSpec
============================================================================
