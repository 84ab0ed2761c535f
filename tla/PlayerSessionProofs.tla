------------------------ MODULE PlayerSessionProofs ------------------------
(***************************************************************************)
(* Theorems about PlayerSession, for every set of definitions, targets and *)
(* events and every bound: no promise is lost, no frame is missed or drawn *)
(* in vain, the host knows what is displayed and hears nothing stale.      *)
(* They rest on the invariant of the engine, which each step calls at most *)
(* once, and on what its effects tell and settle (MotionGraphProofs).      *)
(***************************************************************************)
EXTENDS PlayerSessionProperties, MotionGraphProofs

----------------------------------------------------------------------------
(* The inductive invariant.                                                *)

SessionTypes ==
  /\ prep \in {"idle", "media", "drawing", "restoring", "recovering", "done", "rejected"}
  /\ firstDraw \in {"none", "current", "stale"} /\ tickDraw \in {"none", "current", "stale"}
  /\ staticReason \in Reasons \cup {None}
  /\ recovery \in Recoveries \cup {None}
  /\ retirement \in {"none", "running", "done"}
  /\ terminal \in {"none", "first", "second", "over", "done"}

Retiring == recovery # None /\ recovery.stage = "retiring"

(* What comes before what: the graph before the recovery and the end of    *)
(* the preparation, this before publication, and publication before the    *)
(* draws of ticks; and where the engine stands by then.                    *)
Order ==
  /\ prep \notin {"idle", "rejected"} => graph # None
  /\ prep = "done" => prepared
  /\ published => prep = "done"
  /\ tickDraw # "none" => published
  /\ recovery # None => graph # None
  /\ Retiring => staticReason # None
  /\ Stopped => /\ prep \in {"done", "rejected"}
                /\ graph = None \/ readiness = "disposed"
  /\ graph # None /\ ~Stopped => ~Terminated
  /\ readiness = "static" => staticReason # None
  /\ prep = "idle" /\ ~cancelled /\ graph # None /\ ~Stopped => readiness = "preparing"
  /\ retirement # "none" /\ ~Stopped /\ (recovery = None \/ Retiring) => readiness = "static"

(* A draw that is stale belongs to an animation that ended, waits for its  *)
(* context, or asked to be started anew, and then there is no other.       *)
DrawsFit ==
  /\ DOMAIN firstPost = {}
  /\ tickDraw = "current" => ~awaiting
  /\ tickDraw = "stale" => staticReason # None \/ awaiting \/ restarting \/ Stopped
  /\ restarting /\ staticReason = None => ~raf /\ tickDraw # "current"

Shape == SessionTypes /\ Order /\ DrawsFit /\ FramesFit

----------------------------------------------------------------------------
(* What the session needs to know of the operations of its engine.         *)

(* An operation that does not take place changes nothing.                  *)
LEMMA NothingMoves ==
  ASSUME UNCHANGED vars
  PROVE  /\ UNCHANGED <<graph, readiness, phase, requested, visual, active, group, nextId, effects>>
         /\ NeedsTick' <=> NeedsTick
BY DEF vars, NeedsTick, HasRoute

(* The first operations of the engine, and its last.                       *)
LEMMA EndsMove ==
  /\ \A d \in Definitions : Install(d) => /\ graph' = d /\ d # None
                                          /\ readiness = "unready" /\ readiness' = "preparing"
  /\ Inv /\ BeginAnimated => readiness = "preparing" /\ readiness' = "animated" /\ UNCHANGED graph
  /\ BeginStatic => readiness' = "static" /\ UNCHANGED graph
  /\ \A retained : RecoverStatic(retained) => readiness' = "static" /\ UNCHANGED graph
  /\ \A retained : Dispose(retained) => readiness' = "disposed" /\ UNCHANGED graph
  /\ GraphToStatic => readiness' = "static" /\ UNCHANGED graph
BY NoneAssumption
   DEF Install, BeginAnimated, BeginStatic, RecoverStatic, Dispose, GraphToStatic, Inv, ReadinessShape

(* Inputs and ticks leave the graph in its readiness.                      *)
LEMMA InputsMove ==
  /\ \A target : Request(target) => UNCHANGED <<graph, readiness>>
  /\ \A event : Send(event) => UNCHANGED <<graph, readiness>>
  /\ \A routeReady : Tick(routeReady) => UNCHANGED <<graph, readiness>>
<1>1. ASSUME NEW target, Request(target) PROVE Input
  BY <1>1 DEF Request, RequestRefused, RequestHere, RequestJoin, RequestCancel, RequestReroute,
     RequestContinue, RequestReverse, RequestFollowOn, RequestStatic, NewRequest
<1>2. ASSUME NEW event, Send(event) PROVE Input
  BY <1>2 DEF Send, SendRefused, SendNoop, SendCancel, SendReroute, SendContinue, SendReverse,
     SendFollowOn, SendStatic
<1>3. ASSUME NEW routeReady, Tick(routeReady) PROVE UNCHANGED <<graph, readiness>>
  BY <1>3 DEF Tick, TickIdle, TickIntro, TickIntroJoin, TickBody, TickCompletion, TickWait, TickDepart,
     TickLocked, TickLockedEnd, TickReversible, TickReversibleEnd, Ticking
<1> QED BY <1>1, <1>2, <1>3 DEF Input

(* An engine that is not installed is unready, or disposed.                *)
LEMMA UninstalledIsUnready ==
  ASSUME Inv
  PROVE  /\ graph = None => readiness \in {"unready", "disposed"} /\ group = None
         /\ graph # None => readiness # "unready"
BY DEF Inv, PresentationShape, ReadinessShape, TypeOK, GroupFollowsRoutes, GraphStates

(* The beginning of the animation is told before its draw.                 *)
LEMMA BeginningIsTold ==
  ASSUME BeginAnimated PROVE DOMAIN AfterDraw(effects') = {}
<1>1. \A i \in DOMAIN effects' : effects'[i].type = "readiness"
  BY DEF BeginAnimated, ReadinessChange
<1> QED BY <1>1 DEF AfterDraw, IsAfterDraw

----------------------------------------------------------------------------
(* Every step keeps the shape.                                             *)
USE SessionAssumption
USE DEF Reasons, Recoveries, SessionTypes, Retiring, Order, DrawsFit, FramesFit, NoLostWakeup, NoStrayFrame,
        Failed, Stopped, opening, preparation, host, ticking, context, endings, Cancel,
        ShouldRun, MayRun, Stands, Stale, Invalidate, Recover, Underway_, Diverted, StartRetirement

(* A frame that is requested anew is wanted.                               *)
LEMMA Scheduled ==
  ASSUME Shape, Schedule, raf => visible' /\ ~paused' /\ published',
         UNCHANGED <<staticReason, awaiting, recovery, restarting, terminal, disposed>>
  PROVE  FramesFit' /\ (raf' => raf \/ ~restarting')
<1>1. raf' = (raf \/ MayRun')
  BY DEF Schedule
<1>2. MayRun' => /\ visible' /\ ~paused' /\ ~awaiting' /\ ~Stopped' /\ published'
                 /\ staticReason' = None /\ ~restarting'
  OBVIOUS
<1>3. NoLostWakeup'
  BY <1>1, Zenon
<1>4. NoStrayFrame'
  BY <1>1, <1>2 DEF Shape
<1> QED BY <1>1, <1>2, <1>3, <1>4, Zenon

LEMMA ActivateKeeps == ASSUME Inv, Shape, NEW d \in Definitions, Activate(d) PROVE Shape'
BY EndsMove, UninstalledIsUnready DEF Shape, Activate, Terminated

LEMMA PublishKeeps == ASSUME Inv, Shape, Publish PROVE Shape'
<1>1. FramesFit' /\ (raf' => raf \/ ~restarting')
  BY Scheduled DEF Shape, Publish
<1>2. SessionTypes' /\ DrawsFit'
  BY <1>1, NothingMoves DEF Shape, Publish
<1>3. Order'
  BY NothingMoves DEF Shape, Publish, Terminated
<1> QED BY <1>1, <1>2, <1>3 DEF Shape

LEMMA PrepareStaticKeeps == ASSUME Inv, Shape, PrepareStatic PROVE Shape'
<1>1. /\ UNCHANGED <<graph, published, raf>> /\ ~published /\ ~raf /\ prep' = "recovering"
      /\ readiness' \in {"static", readiness}
      /\ retirement = "none" /\ retirement' # "none" => readiness' = "static"
  BY NothingMoves, EndsMove DEF Shape, PrepareStatic, Inv, ReadinessShape
<1>2. SessionTypes' /\ DrawsFit' /\ FramesFit'
  BY <1>1 DEF Shape, PrepareStatic
<1>3. Order'
  BY <1>1 DEF Shape, PrepareStatic, Terminated
<1> QED BY <1>2, <1>3 DEF Shape

LEMMA GoStaticKeeps == ASSUME Inv, Shape, NEW reason \in Reasons, GoStatic(reason) PROVE Shape'
BY NothingMoves DEF Shape, GoStatic, Terminated

LEMMA ReduceMotionKeeps == ASSUME Inv, Shape, ReduceMotion PROVE Shape'
BY NothingMoves, GoStaticKeeps DEF Shape, ReduceMotion, Terminated

LEMMA AllowMotionKeeps == ASSUME Inv, Shape, AllowMotion PROVE Shape'
BY NothingMoves DEF Shape, AllowMotion, Terminated

LEMMA PerformRecoveryKeeps == ASSUME Inv, Shape, PerformRecovery PROVE Shape'
<1>1. CASE disposed
  BY <1>1, NothingMoves DEF Shape, PerformRecovery, Terminated
<1>2. CASE ~disposed
  <2>1. UNCHANGED graph /\ IF Terminated THEN UNCHANGED readiness ELSE readiness' = "static"
    BY <1>2, NothingMoves, EndsMove DEF PerformRecovery
  <2>2. SessionTypes' /\ DrawsFit' /\ FramesFit'
    BY <1>2, <2>1 DEF Shape, PerformRecovery
  <2>3. Order'
    BY <1>2, <2>1 DEF Shape, PerformRecovery, Terminated
  <2> QED BY <2>2, <2>3 DEF Shape
<1> QED BY <1>1, <1>2

LEMMA FinishRecoveryKeeps == ASSUME Inv, Shape, FinishRecovery PROVE Shape'
BY NothingMoves DEF Shape, FinishRecovery, Terminated

LEMMA RetiredKeeps == ASSUME Inv, Shape, Retired PROVE Shape'
BY NothingMoves DEF Shape, Retired, Terminated

LEMMA RetirementFailsKeeps == ASSUME Inv, Shape, RetirementFails PROVE Shape'
BY NothingMoves DEF Shape, RetirementFails, NextAttempt, Terminated

LEMMA TerminateKeeps ==
  ASSUME Inv, Shape, Terminate, UNCHANGED opening,
         UNCHANGED ticking \/ (tickDraw' = "none" /\ tickPost' = <<>>)
  PROVE  Shape'
<1>1. UNCHANGED graph /\ (graph # None => readiness' = "disposed")
      /\ (graph = None => UNCHANGED readiness)
  BY NothingMoves, EndsMove DEF Terminate
<1> QED BY <1>1, UninstalledIsUnready DEF Shape, Terminate, Terminated

LEMMA FinishTerminalKeeps == ASSUME Inv, Shape, FinishTerminal PROVE Shape'
BY NothingMoves DEF Shape, FinishTerminal, Terminated

LEMMA DisposeSessionKeeps == ASSUME Inv, Shape, DisposeSession PROVE Shape'
<1>1. UNCHANGED graph /\ (graph # None => readiness' = "disposed")
      /\ (graph = None => UNCHANGED readiness)
  BY NothingMoves, EndsMove DEF DisposeSession
<1>2. SessionTypes' /\ DrawsFit' /\ FramesFit'
  BY <1>1 DEF Shape, DisposeSession
<1>3. Order'
  BY <1>1, UninstalledIsUnready DEF Shape, DisposeSession, Terminated
<1> QED BY <1>2, <1>3 DEF Shape

LEMMA DisposeAgainKeeps == ASSUME Inv, Shape, DisposeAgain PROVE Shape'
BY NothingMoves DEF Shape, DisposeAgain, Terminated

LEMMA StartPreparationKeeps == ASSUME Inv, Shape, StartPreparation PROVE Shape'
BY NothingMoves DEF Shape, StartPreparation, Terminated

LEMMA MediaReadyKeeps == ASSUME Inv, Shape, MediaReady PROVE Shape'
<1>1. SessionTypes' /\ DrawsFit'
  BY EndsMove, BeginningIsTold DEF Shape, MediaReady
<1>2. Order'
  BY EndsMove, BeginningIsTold DEF Shape, MediaReady, Terminated
<1>3. FramesFit'
  BY EndsMove, BeginningIsTold DEF Shape, MediaReady
<1> QED BY <1>1, <1>2, <1>3 DEF Shape

LEMMA FirstDrawnKeeps == ASSUME Inv, Shape, FirstDrawn PROVE Shape'
<1>1. FramesFit' /\ (raf' => raf \/ ~restarting')
  <2>1. CASE Schedule
    BY <2>1, Scheduled DEF Shape, FirstDrawn
  <2>2. CASE UNCHANGED raf /\ (prep' = "done" => prep = "done")
    <3>1. UNCHANGED <<published, paused, visible, tickDraw, staticReason, awaiting, restarting, recovery,
                      terminal, disposed, graph, readiness>> /\ (NeedsTick' <=> NeedsTick)
      BY NothingMoves DEF FirstDrawn
    <3> QED BY <2>2, <3>1 DEF Shape
  <2>3. Schedule \/ (UNCHANGED raf /\ (prep' = "done" => prep = "done"))
    <3>1. CASE prep = "drawing" /\ Stands(firstDraw)
      BY <3>1, Zenon DEF FirstDrawn
    <3>2. CASE ~(prep = "drawing" /\ Stands(firstDraw))
      BY <3>2 DEF FirstDrawn
    <3> QED BY <3>1, <3>2
  <2> QED BY <2>1, <2>2, <2>3
<1>2. SessionTypes' /\ DrawsFit'
  BY <1>1, NothingMoves DEF Shape, FirstDrawn
<1>3. Order'
  BY NothingMoves DEF Shape, FirstDrawn, Terminated
<1> QED BY <1>1, <1>2, <1>3 DEF Shape

LEMMA DrawAgainKeeps == ASSUME Inv, Shape, DrawAgain PROVE Shape'
BY NothingMoves DEF Shape, DrawAgain, Terminated

LEMMA FrameKeeps == ASSUME Inv, Shape, NEW routeReady, Frame(routeReady) PROVE Shape'
BY InputsMove DEF Shape, Frame, Terminated

LEMMA DrawnKeeps == ASSUME Inv, Shape, Drawn PROVE Shape'
<1>1. FramesFit' /\ (raf' => raf \/ ~restarting')
  BY Scheduled DEF Shape, Drawn
<1>2. SessionTypes' /\ DrawsFit'
  BY <1>1, NothingMoves DEF Shape, Drawn
<1>3. Order'
  BY NothingMoves DEF Shape, Drawn, Terminated
<1> QED BY <1>1, <1>2, <1>3 DEF Shape

LEMMA SetStateKeeps == ASSUME Inv, Shape, NEW state, SetState(state) PROVE Shape'
<1>1. FramesFit' /\ (raf' => raf \/ ~restarting')
  BY Scheduled DEF Shape, SetState
<1>2. SessionTypes' /\ DrawsFit'
  BY <1>1, InputsMove DEF Shape, SetState
<1>3. Order'
  BY InputsMove DEF Shape, SetState, Terminated
<1> QED BY <1>1, <1>2, <1>3 DEF Shape

LEMMA SendEventKeeps == ASSUME Inv, Shape, NEW event, SendEvent(event) PROVE Shape'
<1>1. FramesFit' /\ (raf' => raf \/ ~restarting')
  BY Scheduled DEF Shape, SendEvent
<1>2. SessionTypes' /\ DrawsFit'
  BY <1>1, InputsMove DEF Shape, SendEvent
<1>3. Order'
  BY InputsMove DEF Shape, SendEvent, Terminated
<1> QED BY <1>1, <1>2, <1>3 DEF Shape

LEMMA PauseKeeps == ASSUME Inv, Shape, Pause PROVE Shape'
<1>1. SessionTypes' /\ DrawsFit'
  BY DEF Shape, Pause
<1>2. Order'
  BY NothingMoves DEF Shape, Pause, Terminated
<1>3. NoLostWakeup'
  BY NothingMoves DEF Shape, Pause
<1>4. NoStrayFrame'
  BY DEF Shape, Pause
<1> QED BY <1>1, <1>2, <1>3, <1>4 DEF Shape

LEMMA ResumeKeeps == ASSUME Inv, Shape, Resume PROVE Shape'
<1>1. SessionTypes' /\ DrawsFit'
  BY DEF Shape, Resume
<1>2. Order'
  BY NothingMoves DEF Shape, Resume, Terminated
<1>3. NoLostWakeup'
  BY NothingMoves DEF Shape, Resume
<1>4. NoStrayFrame'
  BY DEF Shape, Resume
<1> QED BY <1>1, <1>2, <1>3, <1>4 DEF Shape

LEMMA ResumePreparedKeeps == ASSUME Inv, Shape, ResumePrepared PROVE Shape'
<1>1. FramesFit' /\ (raf' => raf \/ ~restarting')
  BY Scheduled DEF Shape, ResumePrepared
<1>2. SessionTypes' /\ DrawsFit'
  BY <1>1, NothingMoves DEF Shape, ResumePrepared
<1>3. Order'
  BY NothingMoves DEF Shape, ResumePrepared, Terminated
<1> QED BY <1>1, <1>2, <1>3 DEF Shape

LEMMA SetVisibleKeeps == ASSUME Inv, Shape, NEW seen \in BOOLEAN, SetVisible(seen) PROVE Shape'
<1>1. FramesFit' /\ (raf' => raf \/ ~restarting')
  <2>1. CASE seen
    <3>1. visible' /\ Schedule
      BY <2>1 DEF SetVisible
    <3> QED BY <3>1, Scheduled DEF Shape, SetVisible
  <2>2. CASE ~seen
    <3>1. ~visible' /\ ~raf'
      BY <2>2 DEF SetVisible
    <3> QED BY <3>1 DEF Shape, SetVisible
  <2> QED BY <2>1, <2>2
<1>2. SessionTypes' /\ DrawsFit'
  BY <1>1 DEF Shape, SetVisible
<1>3. Order'
  BY NothingMoves DEF Shape, SetVisible, Terminated
<1> QED BY <1>1, <1>2, <1>3 DEF Shape

LEMMA ContextLostKeeps == ASSUME Inv, Shape, ContextLost PROVE Shape'
<1>1. SessionTypes' /\ DrawsFit'
  BY DEF Shape, ContextLost
<1>2. Order'
  BY NothingMoves DEF Shape, ContextLost, Terminated
<1>3. NoLostWakeup'
  BY NothingMoves DEF Shape, ContextLost
<1>4. NoStrayFrame'
  BY DEF Shape, ContextLost
<1> QED BY <1>1, <1>2, <1>3, <1>4 DEF Shape

LEMMA ContextRestoredKeeps == ASSUME Inv, Shape, ContextRestored PROVE Shape'
<1>1. SessionTypes' /\ DrawsFit'
  BY DEF Shape, ContextRestored
<1>2. Order'
  BY NothingMoves DEF Shape, ContextRestored, Terminated
<1>3. NoLostWakeup'
  BY NothingMoves DEF Shape, ContextRestored
<1>4. NoStrayFrame'
  BY DEF Shape, ContextRestored
<1> QED BY <1>1, <1>2, <1>3, <1>4 DEF Shape

----------------------------------------------------------------------------
(* The calls of the engine.                                                *)

(* The state that was drawn is one of the graph, or null.                  *)
LEMMA VisualIsRetained == ASSUME Inv, graph # None PROVE visual \in GraphStates
BY DEF Inv, TypeOK

(* A step of the session makes at most one call of its engine.             *)
OneCall ==
  \/ UNCHANGED vars
  \/ \E d \in Definitions : Install(d)
  \/ BeginAnimated \/ BeginStatic \/ RecoverStatic(visual)
  \/ \E retained \in GraphStates \cup {None} : Dispose(retained)
  \/ \E state : Request(state)
  \/ \E event : Send(event)
  \/ \E routeReady \in BOOLEAN : Tick(routeReady)

LEMMA CallsOne == ASSUME Inv, SessionNext PROVE OneCall
<1>1. ASSUME NEW retained, Dispose(retained) PROVE OneCall
  BY <1>1 DEF Dispose, OneCall
<1>2. CASE \/ \E d \in Definitions : Activate(d)
           \/ PrepareStatic \/ MediaReady \/ PerformRecovery
           \/ MediaFail \/ PreparationFails \/ ContextTimesOut \/ DrawFails \/ DisposeSession
           \/ \E routeReady \in BOOLEAN : Frame(routeReady)
           \/ \E state \in Targets : SetState(state)
           \/ \E event \in Events : SendEvent(event)
  BY <1>1, <1>2
     DEF Activate, PrepareStatic, MediaReady, PerformRecovery, GraphToStatic, MediaFail, PreparationFails,
         ContextTimesOut, DrawFails, DisposeSession, Terminate, Frame, SetState, SendEvent, OneCall
<1>3. CASE \/ Publish \/ StartPreparation \/ FirstDrawn \/ DrawAgain \/ Suspend \/ ReduceMotion
           \/ AllowMotion \/ FinishRecovery \/ Retired \/ RetirementFails \/ FinishTerminal
           \/ DisposeAgain \/ Drawn \/ Pause \/ Resume \/ ResumePrepared
           \/ (\E seen \in BOOLEAN : SetVisible(seen)) \/ ContextLost \/ ContextRestored
  BY <1>3
     DEF Publish, StartPreparation, FirstDrawn, DrawAgain, Suspend, GoStatic, ReduceMotion, AllowMotion,
         FinishRecovery, Retired, RetirementFails, FinishTerminal, DisposeAgain, Drawn, Pause, Resume,
         ResumePrepared, SetVisible, ContextLost, ContextRestored, OneCall
<1> QED BY <1>2, <1>3 DEF SessionNext

(* And so the engine keeps its invariant.                                  *)
LEMMA EngineKeeps == ASSUME Inv, OneCall PROVE Inv'
<1>1. ASSUME RecoverStatic(visual) PROVE Inv'
  BY <1>1, RecoverStaticKeeps DEF RecoverStatic
<1> QED BY <1>1, StutterKeeps, InstallKeeps, BeginAnimatedKeeps, BeginStaticKeeps, DisposeKeeps,
           RequestKeeps, SendKeeps, TickKeeps DEF OneCall

----------------------------------------------------------------------------
(* The first theorems.                                                     *)

LEMMA ShapeKept == ASSUME Inv, Shape, SessionNext PROVE Shape'
<1>1. CASE Suspend
  BY <1>1, GoStaticKeeps DEF Suspend
<1>2. CASE MediaFail \/ PreparationFails \/ ContextTimesOut \/ DrawFails
  BY <1>2, TerminateKeeps DEF MediaFail, PreparationFails, ContextTimesOut, DrawFails
<1> QED BY <1>1, <1>2, ActivateKeeps, PublishKeeps, StartPreparationKeeps, PrepareStaticKeeps, MediaReadyKeeps,
           FirstDrawnKeeps, DrawAgainKeeps, ReduceMotionKeeps, AllowMotionKeeps, PerformRecoveryKeeps,
           FinishRecoveryKeeps, RetiredKeeps, RetirementFailsKeeps, FinishTerminalKeeps, DisposeSessionKeeps,
           DisposeAgainKeeps, FrameKeeps, DrawnKeeps, SetStateKeeps, SendEventKeeps, PauseKeeps, ResumeKeeps,
           ResumePreparedKeeps, SetVisibleKeeps, ContextLostKeeps, ContextRestoredKeeps DEF SessionNext

LEMMA ShapeStutters == ASSUME Shape, UNCHANGED sessionVars PROVE Shape'
<1>1. UNCHANGED <<vars, told, asked, shown, open, registered, resolved, refused>>
  BY DEF sessionVars, publication
<1>2. UNCHANGED <<prep, prepared, cancelled, firstDraw, firstPost, published, paused, visible, resuming, raf,
                  tickDraw, tickPost, awaiting, restarting, staticReason, recovery, retirement, terminal,
                  disposed>>
  BY DEF sessionVars
<1>3. SessionTypes' /\ DrawsFit' /\ FramesFit'
  BY <1>1, <1>2, NothingMoves DEF Shape
<1>4. Order'
  BY <1>1, <1>2, NothingMoves DEF Shape, Terminated
<1> QED BY <1>3, <1>4 DEF Shape

LEMMA SessionStarts == ASSUME SessionInit PROVE Inv /\ Shape
<1>1. Inv
  BY InitEstablishes DEF SessionInit
<1>2. SessionTypes /\ DrawsFit /\ FramesFit
  BY DEF SessionInit
<1>3. Order
  BY DEF SessionInit, Init, Terminated
<1> QED BY <1>1, <1>2, <1>3 DEF Shape

LEMMA ShapeHolds == SessionSpec => [](Inv /\ Shape)
<1>1. Inv /\ Shape /\ [SessionNext]_sessionVars => (Inv /\ Shape)'
  <2>1. ASSUME Inv, Shape, SessionNext PROVE (Inv /\ Shape)'
    BY <2>1, CallsOne, EngineKeeps, ShapeKept
  <2>2. ASSUME Inv, Shape, UNCHANGED sessionVars PROVE (Inv /\ Shape)'
    BY <2>2, ShapeStutters, StutterKeeps DEF sessionVars
  <2> QED BY <2>1, <2>2
<1>2. SessionInit => Inv /\ Shape
  BY SessionStarts
<1> QED BY <1>1, <1>2, PTL DEF SessionSpec

(* A frame is requested while the session is published, animated, seen,    *)
(* not paused and has frames to play, and no draw is in flight; and never  *)
(* for a session that is hidden, paused, waits for its context, rests in a *)
(* static frame or has stopped: whatever the order of the host's calls, of *)
(* the draws, of a lost context and of a recovery.                         *)
THEOREM FramesAlwaysFit == SessionSpec => []FramesFit
<1>1. Inv /\ Shape => FramesFit
  BY DEF Shape
<1> QED BY <1>1, ShapeHolds, PTL

(* A static graph has no routes, and nobody waits for one.                 *)
LEMMA StaticIsBare ==
  ASSUME Inv, readiness = "static" PROVE visual = requested /\ ~HasRoute /\ group = None
<1>1. phase = "static" /\ graph # None /\ ~Terminated
  BY DEF Inv, ReadinessShape, PresentationShape, Terminated
<1>2. pending = None /\ active = None /\ followOn = None /\ reversal = None
  BY <1>1 DEF Inv, RouteShape, PendingShape, ActiveShape, ContinuationShape, Early, InTransition
<1>3. visual = requested
  BY <1>1, <1>2 DEF Inv, RequestedIsProspective, Prospective
<1> QED BY <1>2, <1>3 DEF Inv, HasRoute, GroupFollowsRoutes

(* A session whose animation has been retired rests in the state that was  *)
(* asked for: no route and no request is left behind in the engine.        *)
THEOREM StaticRests == SessionSpec => []StaticAtRest
<1>1. Inv /\ Shape => StaticAtRest
  BY StaticIsBare DEF Shape, StaticAtRest
<1> QED BY <1>1, ShapeHolds, PTL

----------------------------------------------------------------------------
(* What is published before a draw, and what after it.                     *)

(* The last change of a kind, in the words of the engine's proofs.         *)
LEMMA LastIsChanged ==
  ASSUME NEW es, NEW kind, NEW was PROVE LastTo(es, kind, was) = Changed(es, kind, was)
<1>1. {i \in DOMAIN es : es[i].type = kind} = At(es, {kind})
  BY DEF At
<1> QED BY <1>1, Zenon DEF LastTo, Changed

(* The last of some types of effects is an effect.                         *)
LEMMA LastIsThere ==
  ASSUME NEW S, NEW es \in Seq(S), NEW types, At(es, types) # {}
  PROVE  Max(At(es, types)) \in At(es, types)
<1>1. At(es, types) \in SUBSET Nat /\ Len(es) \in Nat /\ \A i \in At(es, types) : i <= Len(es)
  BY DEF At
<1> QED BY <1>1, MaxIsGreatest

(* A part of the effects that has all those of a type tells the same of it *)
(* as all of them, and one that has none tells nothing.                    *)
LEMMA PartsTell ==
  ASSUME NEW S, NEW es \in Seq(S), NEW part, NEW types,
         \A i \in DOMAIN part : i \in DOMAIN es /\ part[i] = es[i]
  PROVE  /\ At(es, types) \subseteq DOMAIN part =>
              /\ At(part, types) = At(es, types)
              /\ At(es, types) # {} => part[Max(At(es, types))] = es[Max(At(es, types))]
         /\ At(es, types) \cap DOMAIN part = {} => At(part, types) = {}
<1>1. At(es, types) \subseteq DOMAIN part => At(part, types) = At(es, types)
  BY DEF At
<1>2. At(es, types) \cap DOMAIN part = {} => At(part, types) = {}
  BY DEF At
<1>3. ASSUME At(es, types) \subseteq DOMAIN part, At(es, types) # {}
      PROVE  part[Max(At(es, types))] = es[Max(At(es, types))]
  <2>1. Max(At(es, types)) \in At(es, types)
    BY <1>3, LastIsThere
  <2> QED BY <1>3, <2>1
<1> QED BY <1>1, <1>2, <1>3

(* What is asked for is told before the draw; what is displayed and which  *)
(* edge is open, after it.                                                 *)
LEMMA DrawsTell ==
  ASSUME NEW S, NEW es \in Seq(S), NEW was, NEW is, Recounts(es, was, is)
  PROVE  /\ LastTo(BeforeDraw(es), "requested", was[1]) = is[1]
         /\ LastTo(BeforeDraw(es), "visual", was[2]) = was[2]
         /\ StartedAfter(BeforeDraw(es), was[3]) = was[3]
         /\ LastTo(AfterDraw(es), "visual", was[2]) = is[2]
         /\ StartedAfter(AfterDraw(es), was[3]) = is[3]
         /\ \A i \in DOMAIN AfterDraw(es) : IsAfterDraw(AfterDraw(es)[i])
<1> DEFINE before == BeforeDraw(es)
           after  == AfterDraw(es)
<1>1. /\ DOMAIN before = {i \in DOMAIN es : ~IsAfterDraw(es[i])}
      /\ \A i \in DOMAIN before : before[i] = es[i]
  BY DEF BeforeDraw
<1>2. /\ DOMAIN after = {i \in DOMAIN es : IsAfterDraw(es[i])}
      /\ \A i \in DOMAIN after : after[i] = es[i]
  BY DEF AfterDraw
<1> HIDE DEF before, after
<1>3. /\ At(es, {"requested"}) \subseteq DOMAIN before
      /\ At(es, {"visual"}) \cap DOMAIN before = {}
      /\ At(es, {"start", "end"}) \cap DOMAIN before = {}
      /\ At(es, {"visual"}) \subseteq DOMAIN after
      /\ At(es, {"start", "end"}) \subseteq DOMAIN after
  BY <1>1, <1>2 DEF At, IsAfterDraw
<1>4. /\ \A i \in DOMAIN before : i \in DOMAIN es /\ before[i] = es[i]
      /\ \A i \in DOMAIN after : i \in DOMAIN es /\ after[i] = es[i]
  BY <1>1, <1>2
<1>5. Changed(before, "requested", was[1]) = is[1]
  <2>1. /\ At(before, {"requested"}) = At(es, {"requested"})
        /\ At(es, {"requested"}) # {} =>
             before[Max(At(es, {"requested"}))] = es[Max(At(es, {"requested"}))]
    BY <1>3, <1>4, PartsTell
  <2> QED BY <2>1 DEF Changed, Recounts
<1>6. Changed(before, "visual", was[2]) = was[2]
  <2>1. At(before, {"visual"}) = {}
    BY <1>3, <1>4, PartsTell
  <2> QED BY <2>1 DEF Changed
<1>7. StartedAfter(before, was[3]) = was[3]
  <2>1. At(before, {"start", "end"}) = {}
    BY <1>3, <1>4, PartsTell
  <2> QED BY <2>1, StartedIs
<1>8. Changed(after, "visual", was[2]) = is[2]
  <2>1. /\ At(after, {"visual"}) = At(es, {"visual"})
        /\ At(es, {"visual"}) # {} => after[Max(At(es, {"visual"}))] = es[Max(At(es, {"visual"}))]
    BY <1>3, <1>4, PartsTell
  <2> QED BY <2>1 DEF Changed, Recounts
<1>9. StartedAfter(after, was[3]) = is[3]
  <2>1. /\ At(after, {"start", "end"}) = At(es, {"start", "end"})
        /\ At(es, {"start", "end"}) # {} =>
             after[Max(At(es, {"start", "end"}))] = es[Max(At(es, {"start", "end"}))]
    BY <1>3, <1>4, PartsTell
  <2> QED BY <2>1, StartedIs DEF Recounts
<1>10. \A i \in DOMAIN after : IsAfterDraw(after[i])
  BY <1>2
<1> QED BY <1>5, <1>6, <1>7, <1>8, <1>9, <1>10, LastIsChanged DEF before, after

(* All settlements wait for the draw.                                      *)
LEMMA DrawsSettle ==
  ASSUME NEW es, NEW outcomes
  PROVE  /\ SettledBy(BeforeDraw(es), outcomes) = {}
         /\ SettledBy(AfterDraw(es), outcomes) = SettledBy(es, outcomes)
<1> DEFINE before == BeforeDraw(es)
           after  == AfterDraw(es)
<1>1. /\ DOMAIN before = {i \in DOMAIN es : ~IsAfterDraw(es[i])}
      /\ \A i \in DOMAIN before : before[i] = es[i]
  BY DEF BeforeDraw
<1>2. /\ DOMAIN after = {i \in DOMAIN es : IsAfterDraw(es[i])}
      /\ \A i \in DOMAIN after : after[i] = es[i]
  BY DEF AfterDraw
<1> HIDE DEF before, after
<1>3. \A i \in DOMAIN es : es[i].type = "settle" => IsAfterDraw(es[i])
  BY DEF IsAfterDraw
<1>4. SettledBy(before, outcomes) = {}
  BY <1>1, <1>3 DEF SettledBy
<1>5. {i \in DOMAIN after : after[i].type = "settle" /\ after[i].outcome \in outcomes}
        = {i \in DOMAIN es : es[i].type = "settle" /\ es[i].outcome \in outcomes}
  BY <1>2, <1>3
<1>6. SettledBy(after, outcomes) = SettledBy(es, outcomes)
  BY <1>2, <1>5 DEF SettledBy
<1> QED BY <1>4, <1>6 DEF before, after

(* Of effects without settlements nobody hears, and nothing is said of     *)
(* what was asked for by effects that waited for a draw.                   *)
LEMMA NothingTold ==
  /\ \A es, outcomes : DOMAIN es = {} => SettledBy(es, outcomes) = {}
  /\ \A es, kind, was : DOMAIN es = {} => LastTo(es, kind, was) = was
  /\ \A es, was : DOMAIN es = {} => StartedAfter(es, was) = was
  /\ \A es, was : (\A i \in DOMAIN es : IsAfterDraw(es[i])) => LastTo(es, "requested", was) = was
BY DEF SettledBy, LastTo, StartedAfter, IsAfterDraw

(* Every settlement resolves or rejects.                                   *)
LEMMA OutcomesSplit ==
  ASSUME NEW es
  PROVE  SettledBy(es, Outcomes) = SettledBy(es, Resolutions) \cup SettledBy(es, Rejections)
BY DEF SettledBy, Outcomes

----------------------------------------------------------------------------
(* What the host knows.                                                    *)

OpenEdge == IF active = None THEN None ELSE active.edge

(* The session animates, as far as it knows.                               *)
Live == graph # None /\ ~Stopped /\ staticReason = None /\ ~restarting

(* A host is told at once what is asked for.  While the session animates,  *)
(* it knows what is displayed, and which edge is open, as soon as it is    *)
(* told what waits for the draw in flight.                                 *)
Known ==
  /\ \A i \in DOMAIN tickPost : IsAfterDraw(tickPost[i])
  /\ graph = None => open = None
  /\ AskedIsRequested
  /\ Live => /\ tickDraw = "none" /\ (~awaiting \/ ~prepared) => shown = visual /\ open = OpenEdge
             /\ tickDraw = "current" => /\ LastTo(tickPost, "visual", shown) = visual
                                        /\ StartedAfter(tickPost, open) = OpenEdge

(* What the engine says of a step, the host learns: what was asked for at  *)
(* once, and the rest when all is published.                               *)
LEMMA FollowsTells ==
  ASSUME Inv, Inv', Follows, graph # None, UNCHANGED graph, asked = requested, shown = visual, open = OpenEdge
  PROVE  /\ \E S : effects' \in Seq(S)
         /\ LastTo(BeforeDraw(effects'), "requested", asked) = requested'
         /\ LastTo(BeforeDraw(effects'), "visual", shown) = shown
         /\ StartedAfter(BeforeDraw(effects'), open) = open
         /\ LastTo(AfterDraw(effects'), "visual", shown) = visual'
         /\ StartedAfter(AfterDraw(effects'), open) = OpenEdge'
         /\ \A i \in DOMAIN AfterDraw(effects') : IsAfterDraw(AfterDraw(effects')[i])
<1>1. PICK then :
        /\ Recounts(effects', <<requested, visual, open>>, <<requested', visual', then>>)
        /\ active' # None => then = active'.edge
        /\ active' = None /\ (active # None \/ open = None) => then = None
  BY DEF Follows, OpenEdge
<1>2. then = OpenEdge'
  BY <1>1 DEF OpenEdge
<1>3. PICK S : effects' \in Seq(S)
  BY <1>1 DEF Recounts
<1> DEFINE was == <<requested, visual, open>>
           is  == <<requested', visual', then>>
<1>4. /\ was[1] = requested /\ was[2] = visual /\ was[3] = open
      /\ is[1] = requested' /\ is[2] = visual' /\ is[3] = then
  OBVIOUS
<1>5. Recounts(effects', was, is)
  BY <1>1
<1> HIDE DEF was, is
<1>6. /\ LastTo(BeforeDraw(effects'), "requested", was[1]) = is[1]
      /\ LastTo(BeforeDraw(effects'), "visual", was[2]) = was[2]
      /\ StartedAfter(BeforeDraw(effects'), was[3]) = was[3]
      /\ LastTo(AfterDraw(effects'), "visual", was[2]) = is[2]
      /\ StartedAfter(AfterDraw(effects'), was[3]) = is[3]
      /\ \A i \in DOMAIN AfterDraw(effects') : IsAfterDraw(AfterDraw(effects')[i])
  BY <1>3, <1>5, DrawsTell
<1> QED BY <1>2, <1>3, <1>4, <1>6

(* What is asked for is told by every way of saying it.                    *)
LEMMA FollowsAsks ==
  ASSUME Follows, asked = requested PROVE LastTo(effects', "requested", asked) = requested'
<1>1. PICK then : Recounts(effects', <<requested, visual, OpenEdge>>, <<requested', visual', then>>)
  BY DEF Follows, OpenEdge
<1> QED BY <1>1, LastIsChanged DEF Recounts

(* A command of an animated graph changes only what is asked for.          *)
LEMMA RedirectsTells ==
  ASSUME Redirects(effects', requested'), asked = requested
  PROVE  /\ LastTo(effects', "requested", asked) = requested'
         /\ LastTo(effects', "visual", shown) = shown
         /\ StartedAfter(effects', open) = open
<1>1. Recounts(effects', <<requested, shown, open>>, <<requested', shown, open>>)
  BY DEF Redirects
<1> QED BY <1>1, LastIsChanged DEF Recounts

(* A graph that is static rests for a reason.                              *)
LEMMA StaticForReason ==
  ASSUME Inv, Shape, graph # None, staticReason = None, ~Stopped PROVE phase # "static"
BY DEF Inv, ReadinessShape, Shape

(* Steps of the session that tell nothing, and change neither what is      *)
(* asked for nor what is displayed.                                        *)
LEMMA QuietKnows ==
  ASSUME Known, Quiet, UNCHANGED <<graph, requested, visual, active>>, Stopped => Stopped',
         UNCHANGED tickPost \/ (tickPost' = <<>> /\ tickDraw' = "none"),
         Live' => /\ Live
                  /\ tickDraw' = "none" /\ (~awaiting' \/ ~prepared')
                       => tickDraw = "none" /\ (~awaiting \/ ~prepared)
                  /\ tickDraw' = "current" => tickDraw = "current"
  PROVE  Known'
BY DEF Known, Quiet, AskedIsRequested, OpenEdge, Live

(* Steps that end the session.                                             *)
LEMMA StoppedKnows ==
  ASSUME Known, Stopped', UNCHANGED <<graph, open>>, UNCHANGED tickPost \/ tickPost' = <<>>
  PROVE  Known'
BY DEF Known, AskedIsRequested, Live

(* Every step lets the host know.                                          *)
LEMMA QuietStepsKnow ==
  ASSUME Inv, Shape, Known,
         \/ Publish \/ StartPreparation \/ DrawAgain \/ Suspend \/ ReduceMotion \/ AllowMotion
         \/ FinishRecovery \/ Retired \/ RetirementFails \/ DisposeAgain
         \/ Pause \/ Resume \/ ResumePrepared \/ (\E seen \in BOOLEAN : SetVisible(seen))
         \/ ContextLost \/ ContextRestored
  PROVE  Known'
<1>0. UNCHANGED vars => UNCHANGED <<graph, requested, visual, active>>
  BY NothingMoves
<1>1. CASE Publish \/ StartPreparation \/ Retired \/ DisposeAgain \/ Pause \/ Resume \/ ResumePrepared
           \/ (\E seen \in BOOLEAN : SetVisible(seen))
  BY <1>0, <1>1, QuietKnows DEF Publish, StartPreparation, Retired, DisposeAgain, Pause, Resume, ResumePrepared,
     SetVisible, Live
<1>2. CASE DrawAgain \/ RetirementFails
  BY <1>0, <1>2, QuietKnows DEF DrawAgain, RetirementFails, NextAttempt, Live
<1>3. ASSUME NEW reason \in Reasons, GoStatic(reason) PROVE Known'
  <2>1. staticReason' # None
    BY <1>3 DEF GoStatic
  <2> QED BY <1>0, <1>3, <2>1, QuietKnows DEF GoStatic, Live
<1>4. CASE Suspend \/ ReduceMotion \/ AllowMotion
  <2>1. CASE \E reason \in Reasons : GoStatic(reason)
    BY <1>3, <2>1
  <2>2. CASE ~\E reason \in Reasons : GoStatic(reason)
    <3>1. staticReason = "reduced-motion" /\ UNCHANGED staticReason /\ Quiet /\ UNCHANGED vars
          /\ UNCHANGED <<disposed, terminal, tickPost>>
      BY <1>4, <2>2 DEF Suspend, ReduceMotion, AllowMotion
    <3>2. ~Live'
      BY <3>1 DEF Live
    <3> QED BY <1>0, <3>1, <3>2, QuietKnows
  <2> QED BY <2>1, <2>2
<1>5. CASE FinishRecovery
  <2>1. staticReason' # None
    BY <1>5 DEF FinishRecovery, Shape
  <2> QED BY <1>0, <1>5, <2>1, QuietKnows DEF FinishRecovery, Live
<1>6. CASE ContextLost
  <2>1. tickDraw' # "current" /\ (tickDraw' = "none" => tickDraw = "none")
    BY <1>6 DEF ContextLost
  <2> QED BY <1>0, <1>6, <2>1, QuietKnows DEF ContextLost, Live
<1>7. CASE ContextRestored
  BY <1>0, <1>7, QuietKnows DEF ContextRestored, Live
<1> QED BY <1>1, <1>2, <1>4, <1>5, <1>6, <1>7

LEMMA EndsKnow ==
  ASSUME Inv, Shape, Known, Terminate \/ FinishTerminal \/ DisposeSession,
         UNCHANGED tickPost \/ tickPost' = <<>>
  PROVE  Known'
<1>1. Stopped' /\ UNCHANGED graph
  BY NothingMoves, EndsMove DEF Terminate, FinishTerminal, DisposeSession
<1>2. UNCHANGED open
  BY DEF Terminate, FinishTerminal, DisposeSession, Quiet, RejectAll
<1> QED BY <1>1, <1>2, StoppedKnows

LEMMA ActivateKnows == ASSUME Inv, Shape, Known, NEW d \in Definitions, Activate(d) PROVE Known'
<1>1. open' = None /\ active' = None
  BY DEF Known, Activate, Install, routes, Inv, RouteShape, ActiveShape, ReadinessShape, InTransition
<1>2. tickDraw' = "none"
  BY DEF Activate, Shape
<1>3. /\ asked' = requested' /\ shown' = visual' /\ UNCHANGED tickPost
      /\ graph' # None
  BY NoneAssumption DEF Activate, Install
<1> QED BY <1>1, <1>2, <1>3 DEF Known, AskedIsRequested, Live, OpenEdge

LEMMA PrepareStaticKnows == ASSUME Inv, Inv', Shape, Known, PrepareStatic PROVE Known'
<1>1. ~Live' /\ graph' # None /\ UNCHANGED tickPost
  BY NothingMoves, EndsMove DEF PrepareStatic, Live
<1>2. asked' = requested'
  BY FollowsAsks, BeginStaticFollows, NothingMoves
     DEF PrepareStatic, Known, AskedIsRequested, Apply, Quiet
<1> QED BY <1>1, <1>2 DEF Known, AskedIsRequested

LEMMA PerformRecoveryKnows == ASSUME Inv, Inv', Shape, Known, PerformRecovery PROVE Known'
<1>1. graph' # None /\ UNCHANGED <<graph, tickPost, terminal, disposed>>
  BY NothingMoves, EndsMove DEF PerformRecovery, Shape
<1>2. ~Live'
  BY <1>1 DEF PerformRecovery, Live, Shape
<1>3. ASSUME ~Stopped PROVE asked' = requested'
  <2>1. GraphToStatic => Follows
    BY BeginStaticFollows, RecoverStaticFollows DEF GraphToStatic
  <2> QED BY <1>1, <1>3, <2>1, FollowsAsks, NothingMoves
          DEF PerformRecovery, Known, AskedIsRequested, Apply, Quiet
<1> QED BY <1>1, <1>2, <1>3 DEF Known, AskedIsRequested

LEMMA MediaReadyKnows == ASSUME Inv, Inv', Shape, Known, MediaReady PROVE Known'
<1>1. /\ graph' # None /\ graph # None /\ UNCHANGED <<graph, requested, visual, active, tickPost, tickDraw, endings>>
      /\ UNCHANGED <<awaiting, restarting, prepared>>
  BY EndsMove, UninstalledIsUnready DEF MediaReady, BeginAnimated, routes
<1>2. Redirects(effects', requested')
  <2>1. Silent(effects')
    BY HelpersRecount DEF MediaReady, BeginAnimated
  <2> QED BY <1>1, <2>1, RedirectsRecount
<1>3. ASSUME ~Stopped
      PROVE  asked' = requested' /\ UNCHANGED <<shown, open>>
  <2>0. asked = requested
    BY <1>1, <1>3 DEF Known, AskedIsRequested
  <2>1. Recounts(effects', <<requested, shown, open>>, <<requested', shown, open>>)
    BY <1>2 DEF Redirects
  <2> DEFINE was == <<requested, shown, open>>
             is  == <<requested', shown, open>>
  <2>2. /\ was[1] = requested /\ was[2] = shown /\ was[3] = open
        /\ is[1] = requested' /\ is[2] = shown /\ is[3] = open
        /\ Recounts(effects', was, is)
    BY <2>1
  <2> HIDE DEF was, is
  <2>3. PICK S : effects' \in Seq(S)
    BY <2>2 DEF Recounts
  <2>4. /\ LastTo(BeforeDraw(effects'), "requested", was[1]) = is[1]
        /\ LastTo(BeforeDraw(effects'), "visual", was[2]) = was[2]
        /\ StartedAfter(BeforeDraw(effects'), was[3]) = was[3]
    BY <2>2, <2>3, DrawsTell
  <2> QED BY <2>0, <2>2, <2>4 DEF MediaReady, Apply
<1> QED BY <1>1, <1>3 DEF Known, AskedIsRequested, Live, OpenEdge

LEMMA FirstDrawnKnows == ASSUME Inv, Shape, Known, FirstDrawn PROVE Known'
<1>1. UNCHANGED <<graph, requested, visual, active, tickPost, tickDraw, awaiting, restarting, endings>>
  BY NothingMoves DEF FirstDrawn
<1>2. UNCHANGED <<asked, shown, open>>
  BY NothingTold DEF FirstDrawn, Apply, Quiet, Shape
<1>3. ~prepared /\ prepared' => ~awaiting
  BY DEF FirstDrawn
<1>4. prepared => prepared'
  BY DEF FirstDrawn
<1> QED BY <1>1, <1>2, <1>3, <1>4 DEF Known, AskedIsRequested, Live, OpenEdge

LEMMA FrameKnows ==
  ASSUME Inv, Inv', Shape, Known, NEW routeReady \in BOOLEAN, Frame(routeReady) PROVE Known'
<1>1. graph # None /\ UNCHANGED <<graph, awaiting, restarting, prepared, endings>>
  BY InputsMove DEF Frame, Shape
<1>2. Follows
  BY TickFollows DEF Frame
<1>3. asked = requested
  BY <1>1 DEF Frame, Shape, Known, AskedIsRequested
<1>4. asked' = requested'
  <2>1. LastTo(effects', "requested", asked) = requested'
    BY <1>2, <1>3, FollowsAsks
  <2>2. PICK S, was, is :
          /\ effects' \in Seq(S) /\ Recounts(effects', was, is)
          /\ was[1] = requested /\ is[1] = requested'
    <3>1. PICK then : Recounts(effects', <<requested, visual, OpenEdge>>, <<requested', visual', then>>)
      BY <1>2 DEF Follows, OpenEdge
    <3>2. /\ <<requested, visual, OpenEdge>>[1] = requested
          /\ <<requested', visual', then>>[1] = requested'
      OBVIOUS
    <3> QED BY <3>1, <3>2 DEF Recounts
  <2>3. LastTo(BeforeDraw(effects'), "requested", was[1]) = is[1]
    BY <2>2, DrawsTell
  <2> QED BY <1>3, <2>2, <2>3 DEF Frame, Apply
<1>5. \A i \in DOMAIN tickPost' : IsAfterDraw(tickPost'[i])
  BY DEF Frame, AfterDraw
<1>6. ASSUME Live
      PROVE  LastTo(tickPost', "visual", shown') = visual' /\ StartedAfter(tickPost', open') = OpenEdge'
  <2>1. shown = visual /\ open = OpenEdge
    BY <1>6 DEF Frame, Shape, Known
  <2> QED BY <1>1, <1>2, <1>3, <2>1, FollowsTells DEF Frame, Apply
<1>7. Live' => Live
  BY <1>1 DEF Live
<1>8. tickDraw' = "current"
  BY DEF Frame
<1> QED BY <1>1, <1>4, <1>5, <1>6, <1>7, <1>8 DEF Known, AskedIsRequested

LEMMA DrawnKnows == ASSUME Inv, Shape, Known, Drawn PROVE Known'
<1>1. /\ UNCHANGED <<graph, requested, visual, active, awaiting, restarting, prepared, endings>>
      /\ tickDraw # "none" /\ tickDraw' = "none" /\ graph # None
  BY NothingMoves DEF Drawn, Shape
<1>2. DOMAIN tickPost' = {}
  BY DEF Drawn
<1>3. asked' = asked
  BY NothingTold DEF Drawn, Apply, Quiet, Known
<1>4. ASSUME Live, ~awaiting \/ ~prepared PROVE shown' = visual /\ open' = OpenEdge
  <2>1. ~awaiting /\ tickDraw = "current"
    BY <1>1, <1>4 DEF Live, Shape
  <2>2. Apply(tickPost, registered)
    BY <1>4, <2>1 DEF Drawn, Live
  <2> QED BY <1>4, <2>1, <2>2 DEF Apply, Known
<1> QED BY <1>1, <1>2, <1>3, <1>4 DEF Known, AskedIsRequested, Live, OpenEdge

(* Commands, before and after the graph became static.                     *)
LEMMA CommandKnows ==
  ASSUME Inv, Shape, Known, graph # None, Follows,
         phase # "static" => Redirects(effects', requested') /\ UNCHANGED <<visual, active>>,
         NEW held, Apply(effects', held),
         UNCHANGED <<graph, preparation, host, ticking, context, endings>>
  PROVE  Known'
<1>1. ASSUME ~Stopped PROVE asked' = requested'
  BY <1>1, FollowsAsks DEF Known, AskedIsRequested, Apply
<1>2. ASSUME Live PROVE UNCHANGED <<shown, open, visual, active>>
  <2>1. phase # "static"
    BY <1>2, StaticForReason DEF Live
  <2> QED BY <1>2, <2>1, RedirectsTells DEF Known, AskedIsRequested, Apply, Live
<1> QED BY <1>1, <1>2 DEF Known, AskedIsRequested, Live, OpenEdge

LEMMA SetStateKnows == ASSUME Inv, Shape, Known, NEW state, SetState(state) PROVE Known'
<1>1. graph # None /\ UNCHANGED graph
  BY InputsMove DEF SetState, Shape
<1> QED BY <1>1, CommandKnows, RequestFollows, RequestRedirects DEF SetState

LEMMA SendEventKnows == ASSUME Inv, Shape, Known, NEW event, SendEvent(event) PROVE Known'
<1>1. graph # None /\ UNCHANGED graph
  BY InputsMove DEF SendEvent
<1> QED BY <1>1, CommandKnows, SendFollows, SendRedirects DEF SendEvent

LEMMA StepsKnow == ASSUME Inv, Inv', Shape, Known, SessionNext PROVE Known'
<1>1. CASE MediaFail \/ PreparationFails \/ ContextTimesOut \/ DrawFails
  BY <1>1, EndsKnow DEF MediaFail, PreparationFails, ContextTimesOut, DrawFails
<1>2. CASE FinishTerminal \/ DisposeSession
  BY <1>2, EndsKnow DEF FinishTerminal, DisposeSession
<1> QED BY <1>1, <1>2, QuietStepsKnow, ActivateKnows, PrepareStaticKnows, PerformRecoveryKnows, MediaReadyKnows,
           FirstDrawnKnows, FrameKnows, DrawnKnows, SetStateKnows, SendEventKnows DEF SessionNext

LEMMA KnownHolds == SessionSpec => []Known
<1>1. Inv /\ Inv' /\ Shape /\ Known /\ [SessionNext]_sessionVars => Known'
  <2>1. ASSUME Known, UNCHANGED sessionVars PROVE Known'
    <3>1. UNCHANGED <<graph, requested, visual, active>>
      BY <2>1, NothingMoves DEF sessionVars
    <3> QED BY <2>1, <3>1 DEF sessionVars, publication, Known, AskedIsRequested, Live, OpenEdge
  <2> QED BY <2>1, StepsKnow
<1>2. SessionInit => Known
  BY DEF SessionInit, Init, Known, AskedIsRequested, Live
<1> QED BY <1>1, <1>2, ShapeHolds, PTL DEF SessionSpec

(* The host is told the truth: at once where the routes lead, and, while   *)
(* the session animates, with each draw what is displayed and which edge   *)
(* is on the way; no draw that was lost, made anew or overtaken by         *)
(* commands leaves the host with another state than the engine's.          *)
THEOREM HostAlwaysKnows == SessionSpec => []HostKnows
<1>1. Known => HostKnows
  BY DEF Known, HostKnows, ShownIsVisual, Animating, Live, OpenEdge
<1> QED BY <1>1, KnownHolds, PTL

----------------------------------------------------------------------------
(* What is never published.                                                *)

(* The last effects of an engine.                                          *)
LEMMA DisposingSays ==
  ASSUME NEW retained, Dispose(retained)
  PROVE  \A i \in DOMAIN effects' : effects'[i].type \in {"settle", "readiness"}
<1>1. \A x \in {effects'[i] : i \in DOMAIN effects'} : x.type \in {"settle", "readiness"}
  <2>1. effects' = SettleGroup("AbortError") \o ReadinessChange("disposed")
    BY DEF Dispose
  <2>2. CASE group = None
    BY <2>1, <2>2 DEF Dispose, SettleGroup, ReadinessChange
  <2>3. CASE group # None
    BY <2>1, <2>3 DEF Dispose, SettleGroup, ReadinessChange, Settlement
  <2> QED BY <2>2, <2>3
<1> QED BY <1>1

(* A request of an engine that was disposed of is only refused.            *)
LEMMA RefusalSays ==
  ASSUME readiness = "disposed", Inv, NEW target, Request(target)
  PROVE  \A i \in DOMAIN effects' : effects'[i].type \in {"settle", "readiness"}
<1>1. RequestRefused(target)
  BY DEF Request, RequestHere, RequestJoin, RequestCancel, RequestReroute, RequestContinue,
         RequestReverse, RequestFollowOn, RequestStatic, Routable, Terminated
<1> QED BY <1>1 DEF RequestRefused, SettleNew, Settlement

OnlySettles == \A i \in DOMAIN told' : told'[i].type \in {"settle", "readiness"}

LEMMA StoppedTells == ASSUME Inv, Shape, Stopped, SessionNext PROVE OnlySettles
<1>0. told' = <<>> => OnlySettles
  BY DEF OnlySettles
<1>1. CASE \/ \E d \in Definitions : Activate(d)
           \/ Publish \/ StartPreparation \/ PrepareStatic \/ MediaReady \/ FirstDrawn \/ DrawAgain
           \/ Suspend \/ ReduceMotion \/ AllowMotion
  BY <1>0, <1>1 DEF Activate, Publish, StartPreparation, PrepareStatic, MediaReady, FirstDrawn, DrawAgain,
     Suspend, ReduceMotion, AllowMotion, GoStatic, Quiet, Shape
<1>2. CASE PerformRecovery
  BY <1>0, <1>2 DEF PerformRecovery, Quiet, Shape, Terminated
<1>3. CASE \/ FinishRecovery \/ Retired \/ RetirementFails \/ DisposeAgain \/ FinishTerminal
           \/ Drawn \/ Pause \/ Resume \/ ResumePrepared \/ (\E seen \in BOOLEAN : SetVisible(seen))
           \/ ContextLost \/ ContextRestored
           \/ MediaFail \/ PreparationFails \/ ContextTimesOut \/ DrawFails
  BY <1>0, <1>3 DEF FinishRecovery, Retired, RetirementFails, DisposeAgain, FinishTerminal, RejectAll, Drawn,
     Pause, Resume, ResumePrepared, SetVisible, ContextLost, ContextRestored,
     MediaFail, PreparationFails, ContextTimesOut, DrawFails, Terminate, Quiet
<1>4. CASE DisposeSession
  BY <1>0, <1>4, DisposingSays DEF DisposeSession, RejectAll, OnlySettles
<1>5. ASSUME NEW state, SetState(state) PROVE OnlySettles
  <2>1. graph # None /\ readiness = "disposed"
    BY <1>5 DEF SetState, Shape
  <2> QED BY <1>5, <2>1, RefusalSays DEF SetState, Apply, OnlySettles
<1>6. CASE \/ \E routeReady \in BOOLEAN : Frame(routeReady)
           \/ \E event \in Events : SendEvent(event)
  BY <1>6 DEF Frame, SendEvent, Shape
<1> QED BY <1>1, <1>2, <1>3, <1>4, <1>5, <1>6 DEF SessionNext

LEMMA RestartingTells ==
  ASSUME Inv, Shape, restarting, tickDraw # "none", tickDraw' = "none", SessionNext PROVE told' = <<>>
<1>1. CASE Drawn \/ DrawFails
  BY <1>1 DEF Drawn, DrawFails, Terminate, Quiet, Shape
<1>2. CASE \/ \E d \in Definitions : Activate(d)
           \/ Publish \/ StartPreparation \/ PrepareStatic \/ MediaReady \/ FirstDrawn \/ DrawAgain
           \/ Suspend \/ ReduceMotion \/ AllowMotion
  BY <1>2 DEF Activate, Publish, StartPreparation, PrepareStatic, MediaReady, FirstDrawn, DrawAgain,
     Suspend, ReduceMotion, AllowMotion, GoStatic
<1>3. CASE \/ PerformRecovery \/ FinishRecovery \/ Retired \/ RetirementFails \/ DisposeAgain
           \/ FinishTerminal \/ DisposeSession \/ MediaFail \/ PreparationFails \/ ContextTimesOut
  BY <1>3 DEF PerformRecovery, FinishRecovery, Retired, RetirementFails, DisposeAgain, FinishTerminal,
     DisposeSession, MediaFail, PreparationFails, ContextTimesOut
<1>4. CASE \/ Pause \/ Resume \/ ResumePrepared \/ (\E seen \in BOOLEAN : SetVisible(seen))
           \/ ContextLost \/ ContextRestored \/ (\E routeReady \in BOOLEAN : Frame(routeReady))
           \/ (\E state \in Targets : SetState(state)) \/ (\E event \in Events : SendEvent(event))
  BY <1>4 DEF Pause, Resume, ResumePrepared, SetVisible, ContextLost, ContextRestored, Frame, SetState, SendEvent
<1> QED BY <1>1, <1>2, <1>3, <1>4 DEF SessionNext

(* A session that was disposed of or has failed publishes nothing but the  *)
(* end of promises; and the draw that is in flight when a session asks to  *)
(* be started anew publishes nothing when it ends.                         *)
THEOREM NothingIsStale == SessionSpec => NothingStale
<1> DEFINE A == /\ Stopped => OnlySettles
                /\ restarting /\ tickDraw # "none" /\ tickDraw' = "none" => told' = <<>>
<1>1. Inv /\ Shape /\ [SessionNext]_sessionVars => [A]_sessionVars
  BY StoppedTells, RestartingTells
<1>2. SessionSpec => [][A]_sessionVars
  BY <1>1, ShapeHolds, PTL DEF SessionSpec
<1> QED BY <1>2 DEF NothingStale, OnlySettles

----------------------------------------------------------------------------
(* What becomes of the promises.                                           *)

(* The settlements that wait for a draw are of promises that are held, and *)
(* that the engine has no more to do with.                                 *)
Due(D) == D \subseteq registered /\ D \cap Waiting = {}

Deferred ==
  tickDraw # "none" /\ ~Stopped =>
    /\ Due(SettledBy(tickPost, Outcomes))
    /\ SettledBy(tickPost, Resolutions) \cap SettledBy(tickPost, Rejections) = {}

(* Those who wait are promised an answer.                                  *)
LEMMA WaitingIsHeld ==
  ASSUME PromisesKept, Inv
  PROVE  /\ nextId \in Nat /\ Waiting \subseteq registered
         /\ \A id \in registered : id \in Nat /\ id < nextId
BY DEF PromisesKept, Waiting, Inv, TypeOK

(* An operation of the engine that is published at once.                   *)
LEMMA AppliedKeeps ==
  ASSUME Inv, PromisesKept, Accounted, NEW held, Apply(effects', held),
         held = IF nextId' = nextId THEN registered ELSE registered \cup {nextId}
  PROVE  PromisesKept' /\ \A D : Due(D) => Due(D)'
<1>1. PICK ok, bad :
        /\ Says(effects', ok, bad) /\ ok \cap bad = {}
        /\ Waiting' \cap (ok \cup bad) = {}
        /\ \/ nextId' = nextId /\ Waiting = Waiting' \cup ok \cup bad
           \/ nextId' = nextId + 1 /\ Waiting \cup {nextId} = Waiting' \cup ok \cup bad
  BY WaitingIsHeld, AccountedConserves
<1>2. /\ registered' = held \ (ok \cup bad)
      /\ resolved' = resolved \cup ok /\ refused' = refused \cup bad
  BY <1>1, OutcomesSplit DEF Apply, Says
<1>3. /\ nextId \in Nat /\ nextId' \in Nat /\ held = registered \cup (nextId .. nextId' - 1)
      /\ ok \cup bad \subseteq held /\ Waiting' \subseteq held
  BY <1>1, WaitingIsHeld
<1>4. registered' \cup resolved' \cup refused' = 1 .. nextId' - 1
  <2>1. held \cup resolved \cup refused = 1 .. nextId' - 1
    BY <1>1, <1>3 DEF PromisesKept, Inv, TypeOK
  <2> QED BY <1>2, <1>3, <2>1
<1>5. registered' \cap (resolved' \cup refused') = {} /\ resolved' \cap refused' = {}
  <2>1. held \cap (resolved \cup refused) = {}
    BY <1>1, <1>3 DEF PromisesKept
  <2> QED BY <1>1, <1>2, <1>3, <2>1 DEF PromisesKept
<1>6. Waiting' \subseteq registered'
  BY <1>1, <1>2, <1>3
<1>7. ASSUME NEW D, Due(D) PROVE Due(D)'
  <2>1. D \subseteq registered /\ D \cap Waiting = {} /\ nextId \notin D
    BY <1>7, WaitingIsHeld DEF Due
  <2>2. D \cap (Waiting' \cup ok \cup bad) = {}
    BY <1>1, <2>1
  <2>3. D \subseteq registered' /\ D \cap Waiting' = {}
    BY <1>2, <1>3, <2>1, <2>2
  <2> QED BY <2>3 DEF Due
<1> QED BY <1>4, <1>5, <1>6, <1>7 DEF PromisesKept, Waiting

(* Steps that settle nothing, in public.                                   *)
LEMMA UnsettledKeeps ==
  ASSUME PromisesKept, Deferred, UNCHANGED <<registered, resolved, refused, nextId>>,
         group' \in {group, None}, Stopped => Stopped',
         tickDraw' # "none" /\ ~Stopped' => tickDraw # "none" /\ UNCHANGED tickPost
  PROVE  PromisesKept' /\ Deferred'
<1>1. PromisesKept'
  BY DEF PromisesKept
<1>2. Waiting' \subseteq Waiting
  BY DEF Waiting
<1>3. Deferred'
  BY <1>2 DEF Deferred, Due
<1> QED BY <1>1, <1>3

(* Steps that are published at once, while a draw may be in flight.        *)
LEMMA AnswersKeep ==
  ASSUME Inv, PromisesKept, Deferred, Accounted, NEW held, Apply(effects', held),
         held = IF nextId' = nextId THEN registered ELSE registered \cup {nextId},
         Stopped => Stopped', UNCHANGED tickPost, tickDraw' # "none" => tickDraw # "none"
  PROVE  PromisesKept' /\ Deferred'
BY AppliedKeeps DEF Deferred

(* The end of every promise that is held.                                  *)
LEMMA RejectedKeeps ==
  ASSUME PromisesKept, NEW es, RejectAll(es), UNCHANGED nextId, group' = None, Stopped'
  PROVE  PromisesKept' /\ Deferred'
BY DEF PromisesKept, RejectAll, Deferred

LEMMA QuietStepsKeepPromises ==
  ASSUME Inv, Shape, PromisesKept, Deferred,
         \/ Publish \/ StartPreparation \/ DrawAgain \/ Suspend \/ ReduceMotion \/ AllowMotion
         \/ FinishRecovery \/ Retired \/ RetirementFails \/ DisposeAgain
         \/ Pause \/ Resume \/ ResumePrepared \/ (\E seen \in BOOLEAN : SetVisible(seen))
         \/ ContextLost \/ ContextRestored
  PROVE  PromisesKept' /\ Deferred'
<1>1. Quiet /\ UNCHANGED <<vars, tickPost, disposed>>
  BY DEF Publish, StartPreparation, DrawAgain, Suspend, ReduceMotion, AllowMotion, GoStatic, FinishRecovery,
     Retired, RetirementFails, DisposeAgain, Pause, Resume, ResumePrepared, SetVisible, ContextLost, ContextRestored
<1>2. terminal' \in {terminal, NextAttempt} /\ (tickDraw' # "none" => tickDraw # "none")
  BY DEF Publish, StartPreparation, DrawAgain, Suspend, ReduceMotion, AllowMotion, GoStatic, FinishRecovery,
     Retired, RetirementFails, DisposeAgain, Pause, Resume, ResumePrepared, SetVisible, ContextLost, ContextRestored
<1>3. Stopped => Stopped'
  BY <1>1, <1>2 DEF NextAttempt
<1>4. UNCHANGED <<registered, resolved, refused, nextId, group>>
  BY <1>1, NothingMoves DEF Quiet
<1> QED BY <1>1, <1>2, <1>3, <1>4, UnsettledKeeps

LEMMA PreparationKeepsPromises ==
  ASSUME Inv, Inv', Shape, PromisesKept, Deferred,
         \/ \E d \in Definitions : Activate(d)
         \/ PrepareStatic \/ MediaReady \/ FirstDrawn
  PROVE  PromisesKept' /\ Deferred'
<1>1. CASE \E d \in Definitions : Activate(d)
  BY <1>1, UnsettledKeeps DEF Activate, Install
<1>2. CASE PrepareStatic
  <2>1. UNCHANGED <<tickPost, terminal, disposed>> /\ (tickDraw' # "none" => tickDraw # "none")
    BY <1>2 DEF PrepareStatic
  <2>2. CASE UNCHANGED vars /\ Quiet
    BY <2>1, <2>2, NothingMoves, UnsettledKeeps DEF Quiet
  <2>3. CASE BeginStatic /\ Apply(effects', registered)
    <3>1. Accounted
      BY <2>3, LifecycleAccounts DEF Lifecycle
    <3> QED BY <2>1, <2>3, <3>1, AnswersKeep DEF BeginStatic
  <2> QED BY <1>2, <2>2, <2>3 DEF PrepareStatic
<1>3. CASE MediaReady
  <2>1. UNCHANGED <<registered, resolved, refused>>
    BY <1>3, DrawsSettle DEF MediaReady, Apply
  <2> QED BY <1>3, <2>1, UnsettledKeeps DEF MediaReady, BeginAnimated
<1>4. CASE FirstDrawn
  <2>1. UNCHANGED <<registered, resolved, refused, nextId, group, tickPost, tickDraw, terminal, disposed>>
    BY <1>4, NothingMoves, NothingTold DEF FirstDrawn, Apply, Quiet, Shape
  <2> QED BY <2>1, UnsettledKeeps
<1> QED BY <1>1, <1>2, <1>3, <1>4

LEMMA EndsKeepPromises ==
  ASSUME Inv, Inv', Shape, PromisesKept, Deferred,
         \/ PerformRecovery \/ MediaFail \/ PreparationFails \/ ContextTimesOut \/ DrawFails
         \/ FinishTerminal \/ DisposeSession
  PROVE  PromisesKept' /\ Deferred'
<1>1. CASE PerformRecovery
  <2>1. UNCHANGED <<tickPost, tickDraw, terminal, disposed>>
    BY <1>1 DEF PerformRecovery
  <2>2. CASE UNCHANGED vars /\ Quiet
    BY <2>1, <2>2, NothingMoves, UnsettledKeeps DEF Quiet
  <2>3. CASE GraphToStatic /\ Apply(effects', registered)
    <3>1. Accounted /\ UNCHANGED nextId
      BY <2>3, LifecycleAccounts DEF Lifecycle, GraphToStatic, BeginStatic, RecoverStatic
    <3> QED BY <2>1, <2>3, <3>1, AnswersKeep
  <2> QED BY <1>1, <2>2, <2>3 DEF PerformRecovery
<1>2. CASE MediaFail \/ PreparationFails \/ ContextTimesOut \/ DrawFails
  <2>1. Terminate
    BY <1>2 DEF MediaFail, PreparationFails, ContextTimesOut, DrawFails
  <2>2. UNCHANGED nextId /\ group' \in {group, None}
    BY <2>1, NothingMoves DEF Terminate, Dispose
  <2> QED BY <2>1, <2>2, UnsettledKeeps DEF Terminate, Quiet
<1>3. CASE FinishTerminal
  <2>1. group = None
    BY <1>3, UninstalledIsUnready
       DEF FinishTerminal, Shape, Inv, GroupFollowsRoutes, RouteShape, PendingShape, ActiveShape,
           ContinuationShape, ReadinessShape, HasRoute, Early, InTransition
  <2> QED BY <1>3, <2>1, NothingMoves, RejectedKeeps DEF FinishTerminal
<1>4. CASE DisposeSession
  <2>1. CASE UNCHANGED vars /\ RejectAll(<<>>)
    <3>1. group = None
      BY <1>4, <2>1, UninstalledIsUnready
         DEF DisposeSession, Dispose, vars, Inv, GroupFollowsRoutes, RouteShape, PendingShape, ActiveShape,
             ContinuationShape, ReadinessShape, HasRoute, Early, InTransition
    <3> QED BY <1>4, <2>1, <3>1, NothingMoves, RejectedKeeps DEF DisposeSession
  <2>2. CASE Dispose(visual) /\ RejectAll(effects')
    BY <1>4, <2>2, RejectedKeeps DEF DisposeSession, Dispose
  <2> QED BY <1>4, <2>1, <2>2 DEF DisposeSession
<1> QED BY <1>1, <1>2, <1>3, <1>4

(* What a tick settles waits for its draw.                                 *)
LEMMA FrameKeepsPromises ==
  ASSUME Inv, Shape, PromisesKept, Deferred, NEW routeReady \in BOOLEAN, Frame(routeReady)
  PROVE  PromisesKept' /\ Deferred'
<1>1. Accounted
  BY TickAccounts DEF Frame
<1>2. UNCHANGED nextId
  BY DEF Frame, Tick, TickIdle, TickIntro, TickIntroJoin, TickBody, TickCompletion, TickWait, TickDepart,
         TickLocked, TickLockedEnd, TickReversible, TickReversibleEnd, Ticking
<1>3. PICK ok, bad :
        /\ Says(effects', ok, bad) /\ ok \cap bad = {}
        /\ Waiting' \cap (ok \cup bad) = {}
        /\ Waiting = Waiting' \cup ok \cup bad
  BY <1>1, <1>2, WaitingIsHeld, AccountedConserves
<1>4. UNCHANGED <<registered, resolved, refused>>
  BY DrawsSettle DEF Frame, Apply
<1>5. /\ SettledBy(tickPost', Outcomes) = ok \cup bad
      /\ SettledBy(tickPost', Resolutions) = ok /\ SettledBy(tickPost', Rejections) = bad
  BY <1>3, DrawsSettle, OutcomesSplit DEF Frame, Says
<1>6. Waiting \subseteq registered
  BY WaitingIsHeld
<1>7. Due(ok \cup bad)'
  <2>1. ok \cup bad \subseteq registered' /\ (ok \cup bad) \cap Waiting' = {}
    BY <1>3, <1>4, <1>6
  <2> QED BY <2>1 DEF Due
<1>8. Deferred'
  BY <1>3, <1>5, <1>7 DEF Deferred, Due
<1>9. PromisesKept'
  BY <1>2, <1>3, <1>4, <1>6 DEF PromisesKept, Waiting
<1> QED BY <1>8, <1>9

(* When the draw is over it is published, unless it came to nothing.       *)
LEMMA DrawnKeepsPromises ==
  ASSUME Inv, Shape, PromisesKept, Deferred, Drawn PROVE PromisesKept' /\ Deferred'
<1>1. Deferred' /\ UNCHANGED <<nextId, group>>
  BY NothingMoves DEF Drawn, Deferred
<1>2. CASE Quiet
  BY <1>1, <1>2 DEF Quiet, PromisesKept
<1>3. CASE Stands(tickDraw) /\ Apply(tickPost, registered)
  <2> DEFINE ok  == SettledBy(tickPost, Resolutions)
             bad == SettledBy(tickPost, Rejections)
  <2>1. ok \cup bad \subseteq registered /\ (ok \cup bad) \cap Waiting = {} /\ ok \cap bad = {}
    BY <1>3, OutcomesSplit DEF Drawn, Deferred, Due
  <2>2. /\ registered' = registered \ (ok \cup bad)
        /\ resolved' = resolved \cup ok /\ refused' = refused \cup bad
    BY <1>3, OutcomesSplit DEF Apply
  <2> HIDE DEF ok, bad
  <2>3. registered' \cup resolved' \cup refused' = 1 .. nextId' - 1
    BY <1>1, <2>1, <2>2 DEF PromisesKept
  <2>4. registered' \cap (resolved' \cup refused') = {} /\ resolved' \cap refused' = {}
    BY <2>1, <2>2 DEF PromisesKept
  <2>5. group' # None => group'.ids \subseteq registered'
    BY <1>1, <2>1, <2>2 DEF PromisesKept, Waiting
  <2> QED BY <1>1, <2>3, <2>4, <2>5 DEF PromisesKept
<1> QED BY <1>2, <1>3 DEF Drawn

LEMMA CommandsKeepPromises ==
  ASSUME Inv, Shape, PromisesKept, Deferred, NEW input, SetState(input) \/ SendEvent(input)
  PROVE  PromisesKept' /\ Deferred'
<1>1. UNCHANGED <<tickPost, tickDraw, terminal, disposed>>
  BY DEF SetState, SendEvent
<1>2. nextId \in Nat
  BY WaitingIsHeld
<1>3. CASE SetState(input)
  <2>1. Accounted /\ nextId' = nextId + 1
    BY <1>3, RequestAccounts DEF SetState, Request, RequestRefused, RequestHere, RequestJoin, RequestCancel,
       RequestReroute, RequestContinue, RequestReverse, RequestFollowOn, RequestStatic, NewRequest
  <2> QED BY <1>1, <1>2, <1>3, <2>1, AnswersKeep DEF SetState
<1>4. CASE SendEvent(input)
  <2>1. Accounted /\ UNCHANGED nextId
    BY <1>4, SendAccounts DEF SendEvent, Send, SendRefused, SendNoop, SendCancel, SendReroute, SendContinue,
       SendReverse, SendFollowOn, SendStatic, Direct
  <2> QED BY <1>1, <1>4, <2>1, AnswersKeep DEF SendEvent
<1> QED BY <1>3, <1>4

LEMMA PromisesHold == SessionSpec => [](PromisesKept /\ Deferred)
<1>1. Inv /\ Inv' /\ Shape /\ PromisesKept /\ Deferred /\ [SessionNext]_sessionVars => (PromisesKept /\ Deferred)'
  <2>1. ASSUME PromisesKept, Deferred, UNCHANGED sessionVars PROVE PromisesKept' /\ Deferred'
    BY <2>1, NothingMoves, UnsettledKeeps DEF sessionVars, publication, vars
  <2>2. ASSUME Inv, Inv', Shape, PromisesKept, Deferred, SessionNext PROVE PromisesKept' /\ Deferred'
    BY <2>2, QuietStepsKeepPromises, PreparationKeepsPromises, EndsKeepPromises, FrameKeepsPromises,
       DrawnKeepsPromises, CommandsKeepPromises DEF SessionNext
  <2> QED BY <2>1, <2>2
<1>2. SessionInit => PromisesKept /\ Deferred
  BY DEF SessionInit, Init, PromisesKept, Deferred
<1> QED BY <1>1, <1>2, ShapeHolds, PTL DEF SessionSpec

(* Every promise of setState that was ever made is held, resolved or       *)
(* rejected, and only one of these; those the engine has yet to settle are *)
(* held.  So the session never settles one twice, never one that it does   *)
(* not know, and loses none, though what a tick settles waits for a draw   *)
(* that may be overtaken by commands, fail or come to nothing.             *)
THEOREM PromisesAreKept == SessionSpec => []PromisesKept
BY PromisesHold, PTL
============================================================================
