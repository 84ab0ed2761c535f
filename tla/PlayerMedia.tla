---------------------------- MODULE PlayerMedia ----------------------------
(***************************************************************************)
(* The media of a player: PlayerMediaRuntime and PlayerMediaStreamOwner    *)
(* (packages/element/src/player-media-runtime.ts, player-media-stream.ts), *)
(* which bring the frames of the motion graph from the two lanes of the    *)
(* decoder pool to the renderer, and the frame loop of PlayerSession       *)
(* (player-session.ts) that drives them.                                   *)
(*                                                                         *)
(* A step is what runs from one await to the next.  Bytes, decoders and    *)
(* the renderer take as long as they like; when one of them fails, the     *)
(* player retires its media, as it may at any time.                        *)
(***************************************************************************)
EXTENDS RoutePrefetch

VARIABLES
  stage,     \* how far the media got
  stored,    \* the resident units that were stored
  work,      \* the run that the preparation owns: [unit, run]
  playing,   \* what is displayed: [unit, run, last], with no run when resident
  drawing,   \* the draw in flight and what it leases: [lease, unit, run]
  lastDraw   \* the presentation that was drawn last

mediaVars == <<queue, lanes, foreground, stage, stored, work, playing, drawing, lastDraw>>
streams   == <<stage, stored, work, playing, drawing, lastDraw>>
playerVars   == <<vars, mediaVars>>

(* null is none of the units, runs and records that it stands in for.      *)
ASSUME MediaAssumption ==
  /\ None \notin Units /\ None \notin Lanes
  /\ None \notin [unit : Units, run : Lanes]
  /\ None \notin [unit : Units, run : Lanes \cup {None}, last : Int]
  /\ None \notin [lease : {"none", "foreground", "candidate"},
                  unit : Units \cup {<<>>}, run : Lanes \cup {None}]
  /\ None \notin {"intro", "body", "locked", "reversible"} \X Units \X Int

Put(m) ==
  \E next \in {m} : queue' = next.queue /\ lanes' = next.lanes /\ foreground' = next.foreground

(* The queue is reconciled with the units of a plan, after m.              *)
Reconcile(m, plan) ==
  \E intents \in {plan} : \E desired \in {Unique(intents)} : Put(Reconciled(m, desired))

Retired  == stage \in {"retired", "disposed"}
Prepared == lastDraw # None /\ ~Retired

MediaInit ==
  /\ Init
  /\ queue = <<>> /\ lanes = [l \in Lanes |-> "idle"] /\ foreground = 1
  /\ stage = "fresh" /\ stored = {}
  /\ work = None /\ playing = None /\ drawing = None /\ lastDraw = None

----------------------------------------------------------------------------
(* prepareRoutes.                                                          *)

Streamed(p) == IF p = None \/ p.run = None THEN None ELSE p.unit

PendingReady(route, q) == route # None /\ EdgeReady(q, route.edge)

PlanFor(s, p, q) == Plan(s, Streamed(p), PendingReady(s.pending, q))

(* The plan while a frame waits for unit u.                                *)
WaitingPlan(u) == Prioritized(u, PlanFor(Snapshot, playing, queue))

----------------------------------------------------------------------------
(* Preparation.                                                            *)

MediaInstall(d) == Install(d) /\ UNCHANGED mediaVars

(* The units that stay decoded: reversible ones, the bodies at their ends, *)
(* and those that a cut leads to (createReadinessPlan).                    *)
Resident ==
  UNION {CASE Edge(e).kind = "reversible" ->
                {TransitionUnit(e), BodyUnit(Edge(e).from), BodyUnit(Edge(e).to)}
           [] Edge(e).start = "cut" -> {BodyUnit(Edge(e).to)}
           [] OTHER -> {} : e \in EdgesOf(graph)}

InitialUnit ==
  IF graph.introFrames > 0 THEN IntroUnit(graph.initial) ELSE BodyUnit(graph.initial)

(* Packed alpha is qualified by a frame of a run on the candidate's lane,  *)
(* opaque media have nothing to qualify.                                   *)
Qualify ==
  /\ stage = "fresh" /\ graph # None
  /\ \/ stage' = "qualifying" /\ lanes' = [lanes EXCEPT ![3 - foreground] = "open"]
     \/ stage' = "storing" /\ UNCHANGED lanes
  /\ UNCHANGED <<vars, queue, foreground, stored, work, playing, drawing, lastDraw>>

Qualified ==
  /\ stage = "qualifying"
  /\ stage' = "storing"
  /\ lanes' = ClosedRun(lanes, 3 - foreground)
  /\ UNCHANGED <<vars, queue, foreground, stored, work, playing, drawing, lastDraw>>

(* createForegroundRun, for a unit that is to be stored or to open with.   *)
OpenWork(u) ==
  /\ work' = [unit |-> u, run |-> foreground]
  /\ lanes' = [lanes EXCEPT ![foreground] = "open"]
  /\ UNCHANGED <<vars, queue, foreground, stored, playing, drawing, lastDraw>>

Store ==
  /\ stage = "storing" /\ work = None
  /\ \E u \in Resident \ stored : OpenWork(u)
  /\ UNCHANGED stage

(* Mutant: a stored unit is closed when its last frame was taken.          *)
Flushed_Taken(l) == lanes[l] \in {"open", "flushed"}

Flushed(l) == lanes[l] = "flushed"

(* complete(): every frame was taken and the lane is flushed.              *)
Stored ==
  /\ stage = "storing" /\ work # None /\ Flushed(work.run)
  /\ stored' = stored \cup {work.unit}
  /\ work' = None
  /\ lanes' = ClosedRun(lanes, work.run)
  /\ UNCHANGED <<vars, queue, foreground, stage, playing, drawing, lastDraw>>

OpenInitial ==
  /\ stage = "storing" /\ work = None /\ Resident \subseteq stored
  /\ stage' = "opening"
  /\ OpenWork(InitialUnit)

(* The initial run is ready: the graph begins and its first frame is drawn. *)
BeginPlaying ==
  /\ stage = "opening"
  /\ BeginAnimated
  /\ stage' = "playing"
  /\ drawing' = [lease |-> "foreground", unit |-> work.unit, run |-> work.run]
  /\ work' = None
  /\ UNCHANGED <<queue, lanes, foreground, stored, playing, lastDraw>>

----------------------------------------------------------------------------
(* Inputs, which change the routes and so what is to be decoded.           *)

Routed(input) ==
  /\ ~Retired /\ input
  /\ IF Prepared
     THEN Reconcile(media, Plan(Snapshot', Streamed(playing), PendingReady(pending', queue)))
     ELSE UNCHANGED <<queue, lanes, foreground>>
  /\ UNCHANGED streams

HearEvent(event)   == graph # None /\ Routed(Send(event))
HearRequest(state) == Prepared /\ Routed(Request(state))

----------------------------------------------------------------------------
(* Frames.                                                                 *)

AtLastFrame == OnBody /\ presentation.frame = PlayedBody(Snapshot).frames - 1

(* The edge that the media are asked about.                                *)
Departure ==
  IF pending # None THEN {pending.edge}
  ELSE IF phase = "stable" /\ AtLastFrame THEN CompletionEdges(graph, presentation.at)
  ELSE {}

RouteReady == \A e \in Departure : EdgeReady(queue, e)

(* routeWaitBlocksPresentation: a body that does not loop holds its last   *)
(* frame until the route is ready.                                         *)
Blocks ==
  /\ ~RouteReady
  /\ AtLastFrame /\ PlayedBody(Snapshot).kind # "loop"
  /\ \A e \in Departure : Edge(e).start # "cut"

Opening(e) ==
  CASE Edge(e).kind = "none"       -> Body(Edge(e).to, 0)
    [] Edge(e).kind = "locked"     -> Locked(e, 0)
    [] Edge(e).kind = "reversible" -> Reversible(e, FirstFrame(e))

(* previewTick: what the next tick displays.                               *)
Preview ==
  LET next == presentation.frame + 1
      leaving == CASE phase = "stable"  -> {e \in EdgesOf(graph) : Completes(e, RouteReady)}
                   [] phase = "waiting" -> {e \in {pending.edge} : Departs(RouteReady)}
                   [] OTHER -> {}
  IN  IF leaving # {} THEN Opening(CHOOSE e \in leaving : TRUE)
      ELSE CASE OnBody -> Body(presentation.at, NextFrame)
             [] phase = "intro" -> IF next < graph.introFrames THEN Intro(presentation.at, next)
                                   ELSE Body(presentation.at, 0)
             [] phase = "locked" -> IF next < Edge(active.edge).frames
                                    THEN Locked(active.edge, next)
                                    ELSE Body(To(active), 0)
             [] phase = "reversible" -> IF InUnit(ReversibleNext)
                                        THEN Reversible(Effective.edge, ReversibleNext)
                                        ELSE Body(To(Effective), 0)

Key(p) == <<p.kind, UnitOf(p), p.frame>>

(* A run gives its frames once and in order.                               *)
Replaces(p) ==
  playing = None \/ playing.run = None \/ playing.unit # UnitOf(p) \/ p.frame <= playing.last

(* requiredUnit: what a presentation needs a new run of, if anything.      *)
Required(p) ==
  IF p.kind \in {"static", "reversible"} \/ Key(p) = lastDraw \/ ~Replaces(p)
  THEN None ELSE UnitOf(p)

NoLease == [lease |-> "none", unit |-> <<>>, run |-> None]

(* A callback of the scheduler: nothing is drawn and there is more to see. *)
MayAdvance == Prepared /\ drawing = None /\ NeedsTick

(* The next frame is committed and drawn, with the ready head of the queue *)
(* when it needs a run.                                                    *)
Advance ==
  /\ MayAdvance /\ ~Blocks
  /\ Tick(RouteReady)
  /\ LET u == Required(presentation')
     IN  IF u = None
         THEN drawing' = NoLease /\ Put(AdmitHead(media))
         ELSE /\ Ready(queue, u)
              /\ drawing' = [lease |-> "candidate", unit |-> u, run |-> Head(queue).run]
              /\ queue' = Tail(queue) /\ UNCHANGED <<lanes, foreground>>
  /\ UNCHANGED <<stage, stored, work, playing, lastDraw>>

(* The next frame needs a run that is not ready: nothing is committed.     *)
Await ==
  /\ MayAdvance /\ ~Blocks
  /\ LET u == Required(Preview)
     IN  /\ u # None /\ ~Ready(queue, u)
         /\ \E intents \in {WaitingPlan(u)} : \E desired \in {Unique(intents)} :
              Put(Reconciled(AdmitHead(media), SubSeq(desired, 1, Min({Len(desired), MaxIntents}))))
  /\ UNCHANGED <<vars, streams>>

----------------------------------------------------------------------------
(* A draw is done.                                                         *)

NowPlaying ==
  IF presentation.kind = "reversible"
  THEN [unit |-> UnitOf(presentation), run |-> None, last |-> presentation.frame]
  ELSE IF drawing.lease # "none"
  THEN [unit |-> drawing.unit, run |-> drawing.run, last |-> presentation.frame]
  ELSE [playing EXCEPT !.last = presentation.frame]

OldRun == IF playing = None THEN None ELSE playing.run

(* Mutant: a candidate that is committed leaves the old run open.          *)
Committed_KeepsOld ==
  IF drawing.lease = "candidate" THEN [media EXCEPT !.foreground = CandidateLane(media)]
  ELSE media

(* commitStream and activateResident: the lanes swap for a candidate, and  *)
(* the run that it, or a resident unit, takes the place of is closed.      *)
Committed ==
  IF drawing.lease = "candidate"
  THEN [media EXCEPT !.foreground = CandidateLane(media), !.lanes = ClosedRun(@, foreground)]
  ELSE IF presentation.kind = "reversible" /\ OldRun # None
  THEN [media EXCEPT !.lanes = ClosedRun(@, OldRun)]
  ELSE media

Drawn ==
  /\ drawing # None /\ ~Retired
  /\ drawing' = None
  /\ IF Key(presentation) = lastDraw
     THEN UNCHANGED playing /\ Reconcile(media, PlanFor(Snapshot, playing, queue))
     ELSE playing' = NowPlaying /\ Reconcile(Committed, PlanFor(Snapshot, NowPlaying, queue))
  /\ lastDraw' = Key(presentation)
  /\ UNCHANGED <<vars, stage, stored, work>>

----------------------------------------------------------------------------
(* What the queue waits for.                                               *)

Loaded(i) ==
  /\ i \in DOMAIN queue /\ queue[i].state = "loading"
  /\ Put(AdmitHead([media EXCEPT !.queue[i].state = "loaded"]))
  /\ UNCHANGED <<vars, streams>>

RunReady ==
  /\ queue # <<>> /\ Head(queue).state = "preparing"
  /\ queue' = [queue EXCEPT ![1].state = "ready"]
  /\ UNCHANGED <<vars, lanes, foreground, streams>>

(* The worker of a lane has decoded all of its run, or is done with a run  *)
(* that was closed before; the queue is not told.                          *)
LaneFlushes(l) ==
  /\ lanes[l] = "open"
  /\ lanes' = [lanes EXCEPT ![l] = "flushed"]
  /\ UNCHANGED <<vars, queue, foreground, streams>>

LaneRetires(l) ==
  /\ lanes[l] = "closing"
  /\ lanes' = [lanes EXCEPT ![l] = "idle"]
  /\ UNCHANGED <<vars, queue, foreground, streams>>

----------------------------------------------------------------------------
(* Retirement: a failure, a static recovery, a restart or a disposal.      *)

LeasedRun == IF drawing = None \/ drawing.lease = "none" THEN {} ELSE {drawing.run}

(* Mutant: a lease that a draw holds is left to the draw.                  *)
HeldRuns_NoLease == RunsOf(queue) \cup (IF OldRun = None THEN {} ELSE {OldRun})

HeldRuns == RunsOf(queue) \cup (IF OldRun = None THEN {} ELSE {OldRun}) \cup LeasedRun

(* The runs are closed at once, that of the qualification by its signal;   *)
(* a preparation or a draw that is under way finds out when it resumes.    *)
Retire ==
  /\ ~Retired
  /\ stage' = "retired"
  /\ queue' = <<>>
  /\ lanes' = ClosedRuns(lanes, HeldRuns \cup
                (IF stage = "qualifying" THEN {3 - foreground} ELSE {}))
  /\ playing' = None
  /\ drawing' = IF drawing = None THEN None ELSE NoLease
  /\ UNCHANGED <<vars, foreground, stored, work, lastDraw>>

WorkAborts ==
  /\ stage = "retired" /\ work # None
  /\ lanes' = ClosedRun(lanes, work.run)
  /\ work' = None
  /\ UNCHANGED <<vars, queue, foreground, stage, stored, playing, drawing, lastDraw>>

DrawAborts ==
  /\ stage = "retired" /\ drawing # None
  /\ drawing' = None
  /\ UNCHANGED <<vars, queue, lanes, foreground, stage, stored, work, playing, lastDraw>>

(* The pool is disposed when every operation is over.                      *)
DisposeMedia ==
  /\ stage = "retired" /\ work = None /\ drawing = None
  /\ stage' = "disposed"
  /\ lanes' = [l \in Lanes |-> "idle"]
  /\ UNCHANGED <<vars, queue, foreground, stored, work, playing, drawing, lastDraw>>

----------------------------------------------------------------------------
Prepare ==
  \/ \E d \in Definitions : MediaInstall(d)
  \/ Qualify \/ Qualified \/ Store \/ Stored \/ OpenInitial \/ BeginPlaying

Frame == Advance \/ Await

MediaNext ==
  \/ Prepare
  \/ \E event \in Events : HearEvent(event)
  \/ \E state \in Targets : HearRequest(state)
  \/ Frame \/ Drawn
  \/ (\E i \in DOMAIN queue : Loaded(i)) \/ RunReady
  \/ \E l \in Lanes : LaneFlushes(l) \/ LaneRetires(l)
  \/ Retire \/ WorkAborts \/ DrawAborts \/ DisposeMedia

MediaSpec == MediaInit /\ [][MediaNext]_playerVars
============================================================================
