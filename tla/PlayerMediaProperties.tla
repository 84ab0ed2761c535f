------------------------ MODULE PlayerMediaProperties ------------------------
(***************************************************************************)
(* What the media of a player promise: who owns the runs of the two lanes, *)
(* and that the frame and the route that somebody waits for come.          *)
(***************************************************************************)
EXTENDS PlayerMedia

Owner(by, run) == [by |-> by, run |-> run]

(* Who owns the runs.                                                      *)
Owners ==
  {Owner("queue", run) : run \in RunsOf(queue)}
    \cup (IF OldRun = None THEN {} ELSE {Owner("playing", OldRun)})
    \cup {Owner("lease", run) : run \in LeasedRun}
    \cup (IF work = None THEN {} ELSE {Owner("work", work.run)})
    \cup (IF stage = "qualifying" THEN {Owner("witness", CandidateLane(media))} ELSE {})

Occupied == {l \in Lanes : lanes[l] \in {"open", "flushed"}}

(* Every run that is open has one owner, who is going to close it, and no  *)
(* owner has a run that was closed: whichever plan, draw, commit or        *)
(* retirement came in between, nothing leaks a decoder and nothing reads a *)
(* run that is gone (player-media-stream.ts, route-prefetch.ts).           *)
OneOwner ==
  /\ {o.run : o \in Owners} = Occupied
  /\ \A o, p \in Owners : o # p => o.run # p.run

(* The pool agrees on which lane is whose: candidates and the witness live *)
(* on one lane, the displayed and the prepared run on the other, so that   *)
(* commit() and createForegroundRun() of decoder-pool.ts never throw.      *)
PoolAgrees ==
  \A o \in Owners :
    o.run = IF o.by \in {"playing", "work"} \/ (o.by = "lease" /\ drawing.lease = "foreground")
            THEN foreground ELSE CandidateLane(media)

(* Each run has one owner, on the lane that this owner means.              *)
RunsOwned == OneOwner /\ PoolAgrees

(* The preparation closes one run and opens the next without asking        *)
(* whether the lane is free: it always is (#cacheResidentFrames).          *)
ForegroundFree ==
  [][work' # None /\ work' # work => lanes[work'.run] = "idle"]_playerVars

(* The queue stays within the bounds its owner throws at: distinct units,  *)
(* at most MAX_ROUTE_PREFETCH_INTENTS, and the head alone owns a run.      *)
QueueFits ==
  /\ Len(queue) <= MaxIntents
  /\ \A i, j \in DOMAIN queue : i # j => queue[i].unit # queue[j].unit
  /\ \A i \in DOMAIN queue : HasRun(queue[i]) => i = 1

(* The unit that the next frame needs is in the plan already, so that a    *)
(* frame never waits for media that nobody had asked for: the plan of the  *)
(* routes and the preview of the engine agree (planRoutePrefetch and       *)
(* previewTick, each with its own reading of the snapshot).                *)
NextPlanned ==
  MayAdvance /\ ~Blocks /\ Required(Preview) # None
    => Required(Preview) \in ToSet(PlanFor(Snapshot, playing, queue))

----------------------------------------------------------------------------
(* Liveness.                                                               *)

(* The scheduler requests frames for as long as there is something to      *)
(* play, and the browser loads, decodes and draws what it is asked for.    *)
MediaFairness ==
  /\ WF_playerVars(Frame) /\ WF_playerVars(Drawn)
  /\ WF_playerVars(Loaded(1)) /\ WF_playerVars(RunReady)
  /\ \A l \in Lanes : WF_playerVars(LaneRetires(l))

FairMediaSpec == MediaSpec /\ MediaFairness

(* A player that is to advance does so: the run that its next frame needs  *)
(* gets a lane and the head of the queue, whatever else was prefetched.    *)
FrameComes ==
  MayAdvance ~> ~MayAdvance \/ Blocks

----------------------------------------------------------------------------
(* What the documents say.                                                 *)

(* The head of the queue is what the pending route departs with.           *)
ForDeparture ==
  pending # None /\ queue # <<>> /\ Departing(pending.edge) = <<Head(queue).unit>>

(* Media that are not always slower than the frames: a route that asks     *)
(* again and again finds its unit loaded, its lane retired and its run     *)
(* ready before the next frame.                                            *)
FastSpec ==
  /\ FairMediaSpec
  /\ SF_playerVars(Loaded(1) /\ ForDeparture)
  /\ SF_playerVars(RunReady /\ ForDeparture)
  /\ SF_playerVars((\E l \in Lanes : LaneRetires(l)) /\ ForDeparture)

(* A route that waits departs, or the body that it leaves holds its last   *)
(* frame for it.                                                           *)
RouteDeparts ==
  phase = "waiting" /\ Prepared ~> phase # "waiting" \/ Blocks \/ Retired

(* A unit that is loaded at the head of the queue gets the candidate lane. *)
HeadAdmitted ==
  Prepared /\ queue # <<>> /\ Head(queue).state = "loaded"
    ~> queue = <<>> \/ Head(queue).state # "loaded" \/ Retired
==============================================================================
