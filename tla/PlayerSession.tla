--------------------------- MODULE PlayerSession ---------------------------
(***************************************************************************)
(* PlayerSession (packages/element/src/player-session.ts) with its frame   *)
(* scheduler and its effects (player-session-scheduler.ts,                 *)
(* player-session-effects.ts): the owner of one motion graph engine, whose *)
(* every step becomes public only after a draw that takes time.            *)
(*                                                                         *)
(* JavaScript runs one callback at a time, so a step is what runs from one *)
(* await to the next.  The engine is the module MotionGraph itself: a step *)
(* of the session makes at most one call of it.  Media, draws and the      *)
(* retirement of resources are the environment: they take as long as they  *)
(* like, and may fail.  The session starts when the element activates it,  *)
(* and is published after its preparation, as ElementRuntimeSession does.  *)
(***************************************************************************)
EXTENDS MotionGraph

(* Why a session rests in a static frame, and how far a recovery got.      *)
Reasons    == {"reduced-motion", "visibility-suspended", "decoder-queued"}
Recoveries == [stage : {"queued", "retiring"}, reason : Reasons]

(* null is no reason and no recovery.                                      *)
ASSUME SessionAssumption == None \notin Reasons /\ None \notin Recoveries

VARIABLES
  \* What the host was told.
  told,          \* the effects that the last step published
  asked, shown,  \* the target of the last requested- and visualstatechange
  open,          \* the edge whose transitionstart awaits its transitionend
  \* The promises of setState, by request id.
  registered,    \* still held by PlayerSessionEffects
  resolved, refused,
  \* The preparation.
  prep,          \* how far prepare() got
  prepared,
  cancelled,     \* its deadline was cancelled
  firstDraw,     \* the initial draw: in flight as "current" or "stale", or "none"
  firstPost,     \* the effects to publish after it
  \* The scheduler.
  published,     \* the session is published, and so is the scheduler enabled
  raf,           \* an animation frame is requested
  tickDraw,      \* the draw of a tick; while it is in flight the scheduler is busy
  tickPost,
  paused, visible,
  resuming,      \* a resume() awaits the preparation in the current pause epoch
  \* The context of the renderer.
  awaiting,      \* awaitingContextRestore
  restarting,    \* restartRequested
  \* The ways out of animation.
  staticReason,
  recovery,      \* the recovery under way: [stage, reason]
  retirement,    \* of the animation resources
  terminal,      \* how far the terminal work got
  disposed

publication == <<told, asked, shown, open, registered, resolved, refused>>
opening     == <<firstDraw, firstPost>>
preparation == <<prep, prepared, cancelled, opening>>
host        == <<published, paused, visible, resuming>>
ticking     == <<tickDraw, tickPost>>
context     == <<awaiting, restarting>>
endings     == <<staticReason, recovery, retirement, terminal, disposed>>

sessionVars == <<vars, publication, preparation, host, raf, ticking, context, endings>>

Failed  == terminal # "none"
Stopped == disposed \/ Failed

----------------------------------------------------------------------------
(* Publication (PlayerSessionEffects).                                     *)

(* Mutant: a transition is said to have ended before its last draw.        *)
IsAfterDraw_EndsEarly(effect) == effect.type \in {"start", "visual", "settle"}

IsAfterDraw(effect) == effect.type \in {"start", "visual", "end", "settle"}

\* The effects, each at its place, that are published before and after.
BeforeDraw(es) == [i \in {j \in DOMAIN es : ~IsAfterDraw(es[j])} |-> es[i]]
AfterDraw(es)  == [i \in {j \in DOMAIN es : IsAfterDraw(es[j])} |-> es[i]]

(* The state that the last change of a kind leads to, being was before.    *)
LastTo(es, kind, was) ==
  LET changes == {i \in DOMAIN es : es[i].type = kind}
  IN  IF changes = {} THEN was ELSE es[Max(changes)].to

(* Mutant: a promise that was settled is not given up.                     *)
Apply_KeepsHeld(es, held) ==
  /\ told' = es
  /\ asked' = LastTo(es, "requested", asked)
  /\ shown' = LastTo(es, "visual", shown)
  /\ open' = StartedAfter(es, open)
  /\ registered' = held
  /\ resolved' = resolved \cup SettledBy(es, Resolutions)
  /\ refused' = refused \cup SettledBy(es, Rejections)

(* The effects are published in order, and their settlements end the       *)
(* promises; held are the promises that there are, of setState's own       *)
(* request too.                                                            *)
Apply(es, held) ==
  /\ told' = es
  /\ asked' = LastTo(es, "requested", asked)
  /\ shown' = LastTo(es, "visual", shown)
  /\ open' = StartedAfter(es, open)
  /\ registered' = held \ SettledBy(es, Outcomes)
  /\ resolved' = resolved \cup SettledBy(es, Resolutions)
  /\ refused' = refused \cup SettledBy(es, Rejections)

Quiet == told' = <<>> /\ UNCHANGED <<asked, shown, open, registered, resolved, refused>>

(* Some last effects, then rejectAll.                                      *)
RejectAll(es) ==
  /\ told' = es
  /\ refused' = refused \cup registered
  /\ registered' = {}
  /\ UNCHANGED <<asked, shown, open, resolved>>

----------------------------------------------------------------------------
(* The scheduler.                                                          *)

(* #shouldSchedule.                                                        *)
ShouldRun ==
  /\ published /\ ~Stopped
  /\ staticReason = None /\ ~awaiting /\ ~restarting
  /\ graph # None /\ readiness = "animated" /\ NeedsTick

(* Mutant: a hidden session goes on requesting frames.                         *)
MayRun_Hidden == ~paused /\ tickDraw = "none" /\ ShouldRun

MayRun == ~paused /\ visible /\ tickDraw = "none" /\ ShouldRun

(* schedule() and cancel(), after everything else the step does.           *)
Schedule == raf' = (raf \/ MayRun')
Cancel   == raf' = FALSE

----------------------------------------------------------------------------
(* Draws.  A draw is current while the generation of the animation is the  *)
(* one it began in.                                                        *)

Stale(draw) == IF draw = "none" THEN "none" ELSE "stale"

(* A new generation: the draws in flight are of one that has ended.        *)
Invalidate ==
  /\ firstDraw' = Stale(firstDraw) /\ tickDraw' = Stale(tickDraw)
  /\ UNCHANGED <<firstPost, tickPost>>

(* Mutant: a draw is published although its animation was invalidated.     *)
Stands_Always(draw) == TRUE

(* assertSessionAnimation: the draw is still of the animation it was for.  *)
Stands(draw) == ~Stopped /\ ~awaiting /\ staticReason = None /\ draw = "current"

----------------------------------------------------------------------------
SessionInit ==
  /\ Init
  /\ told = <<>> /\ asked = None /\ shown = None /\ open = None
  /\ registered = {} /\ resolved = {} /\ refused = {}
  /\ prep = "idle" /\ prepared = FALSE /\ cancelled = FALSE
  /\ firstDraw = "none" /\ firstPost = <<>>
  /\ published = FALSE /\ raf = FALSE /\ tickDraw = "none" /\ tickPost = <<>>
  /\ paused \in BOOLEAN /\ visible \in BOOLEAN /\ resuming = FALSE
  /\ awaiting = FALSE /\ restarting = FALSE
  /\ staticReason \in Reasons \cup {None}
  /\ recovery = None /\ retirement = "none" /\ terminal = "none" /\ disposed = FALSE

(* The graph is installed and its initial state announced (seed).          *)
Activate(d) ==
  /\ graph = None /\ ~Stopped
  /\ Install(d)
  /\ asked' = d.initial /\ shown' = d.initial
  /\ told' = <<>>
  /\ UNCHANGED <<open, registered, resolved, refused, preparation, host, raf, ticking,
                 context, endings>>

(* The frames begin, unless the session was discarded.                     *)
Publish ==
  /\ ~published /\ ~Stopped /\ graph # None
  /\ prep = "done"
  /\ published' = TRUE
  /\ Quiet
  /\ UNCHANGED <<vars, preparation, paused, visible, resuming, ticking, context, endings>>
  /\ Schedule

----------------------------------------------------------------------------
(* Recovery into a static frame, and the retirement it ends with.          *)

(* #recoverStatic: one at a time; it acts in a microtask of its own.       *)
Recover(reason) ==
  IF recovery # None THEN UNCHANGED <<recovery, opening, ticking>>
  ELSE /\ recovery' = [stage |-> "queued", reason |-> reason]
       /\ Invalidate

(* An abort of the preparation sends it into the recovery.                 *)
Underway_ == {"media", "drawing", "restoring"}
Diverted  == IF prep \in Underway_ THEN "recovering" ELSE prep

(* Preparation of a session that is static from the start, or has become   *)
(* so; the deadline is cancelled before it or by its retirement.           *)
PrepareStatic ==
  /\ prep = "idle" /\ graph # None /\ ~Stopped
  /\ staticReason # None
  /\ prep' = "recovering"
  /\ IF phase = "preparing" /\ ~cancelled
     THEN BeginStatic /\ Apply(effects', registered)
     ELSE UNCHANGED vars /\ Quiet
  /\ retirement' = IF retirement = "none" /\ ~cancelled THEN "running" ELSE retirement
  /\ cancelled' = TRUE
  /\ Recover(staticReason)
  /\ UNCHANGED <<prepared, host, raf, context, staticReason, terminal, disposed>>

(* suspend, and setMotion to a policy that reduces the motion.             *)
GoStatic(reason) ==
  /\ ~Failed /\ graph # None
  /\ staticReason' = reason
  /\ cancelled' = TRUE
  /\ Recover(reason)
  /\ prep' = Diverted
  /\ Quiet
  /\ UNCHANGED <<vars, prepared, host, raf, context, retirement, terminal, disposed>>

Suspend == ~disposed /\ GoStatic("visibility-suspended")

(* A session that is reduced already only tries its recovery again.        *)
ReduceMotion ==
  \/ staticReason # "reduced-motion" /\ GoStatic("reduced-motion")
  \/ /\ staticReason = "reduced-motion" /\ recovery = None /\ retirement # "done"
     /\ ~Failed /\ graph # None
     /\ Recover(staticReason)
     /\ Quiet
     /\ UNCHANGED <<vars, prep, prepared, cancelled, host, raf, context,
                    staticReason, retirement, terminal, disposed>>

(* setMotion to a policy that does not: a reduced session asks to be       *)
(* started anew.  (In an animated session it is a Resume.)                 *)
AllowMotion ==
  /\ ~Failed /\ staticReason = "reduced-motion" /\ ~restarting /\ graph # None
  /\ restarting' = TRUE
  /\ Quiet
  /\ UNCHANGED <<vars, preparation, host, raf, ticking, awaiting, endings>>

(* performAnimationResourceRetirement, up to the retirement of the media.  *)
StartRetirement ==
  /\ retirement' = IF retirement = "done" THEN "done" ELSE "running"
  /\ awaiting' = FALSE
  /\ cancelled' = TRUE

(* Mutant: only a graph that is preparing is taken into its static frame.  *)
GraphToStatic_OnlyPreparing ==
  IF phase = "preparing" THEN BeginStatic ELSE UNCHANGED vars

GraphToStatic == IF phase = "preparing" THEN BeginStatic ELSE RecoverStatic(visual)

(* #performRecovery, up to its await.                                      *)
PerformRecovery ==
  /\ recovery # None /\ recovery.stage = "queued"
  /\ IF disposed
     THEN /\ recovery' = None
          /\ Quiet
          /\ UNCHANGED <<vars, staticReason, awaiting, cancelled, retirement>>
          /\ UNCHANGED raf
     ELSE /\ recovery' = [recovery EXCEPT !.stage = "retiring"]
          /\ staticReason' = recovery.reason
          /\ Cancel
          /\ IF Terminated THEN UNCHANGED vars /\ Quiet
             ELSE GraphToStatic /\ Apply(effects', registered)
          /\ StartRetirement
  /\ UNCHANGED <<prep, prepared, opening, host, ticking, restarting, terminal, disposed>>

FinishRecovery ==
  /\ recovery # None /\ recovery.stage = "retiring" /\ retirement = "done"
  /\ recovery' = None
  /\ IF Failed
     THEN prep' = (IF prep = "recovering" THEN "rejected" ELSE prep) /\ UNCHANGED prepared
     ELSE prep' = "done" /\ prepared' = TRUE
  /\ Quiet
  /\ UNCHANGED <<vars, cancelled, opening, host, raf, ticking, context,
                 staticReason, retirement, terminal, disposed>>

Retired ==
  /\ retirement = "running"
  /\ retirement' = "done"
  /\ Quiet
  /\ UNCHANGED <<vars, preparation, host, raf, ticking, context,
                 staticReason, recovery, terminal, disposed>>

(* Mutant: a second failure of the retirement leaves the failure untold.   *)
NextAttempt_GivesUp == IF terminal = "first" THEN "second" ELSE terminal

NextAttempt == CASE terminal = "first" -> "second"
                 [] terminal = "second" -> "over"
                 [] OTHER -> terminal

(* A failed retirement rejects the recovery, and is tried twice by the     *)
(* terminal work.                                                          *)
RetirementFails ==
  /\ retirement = "running"
  /\ recovery' = IF recovery # None /\ recovery.stage = "retiring" THEN None ELSE recovery
  /\ prep' = IF prep = "recovering" /\ recovery' = None THEN "rejected" ELSE prep
  /\ terminal' = NextAttempt
  /\ retirement' = IF terminal = "first" THEN "running" ELSE "none"
  /\ Quiet
  /\ UNCHANGED <<vars, prepared, cancelled, opening, host, raf, ticking, context,
                 staticReason, disposed>>

----------------------------------------------------------------------------
(* Failure.                                                                *)

(* #terminate, up to its await: the engine is disposed of, and nothing     *)
(* that it says of it is published.                                        *)
Terminate ==
  /\ ~Stopped
  /\ terminal' = "first"
  /\ IF graph = None THEN UNCHANGED vars ELSE Dispose(None)
  /\ StartRetirement
  /\ Cancel
  /\ prep' = IF prep = "done" THEN prep ELSE "rejected"
  /\ Quiet
  /\ UNCHANGED <<prepared, host, restarting, staticReason, recovery, disposed>>

(* The media fail on their own, or the context does.                       *)
MediaFail == Terminate /\ UNCHANGED <<opening, ticking>>

(* The preparation fails or its deadline passes.                           *)
PreparationFails ==
  /\ prep \in Underway_
  /\ Terminate
  /\ UNCHANGED <<opening, ticking>>

(* A context that was lost is not restored within CONTEXT_RESTORE_MS.      *)
ContextTimesOut ==
  /\ awaiting /\ staticReason = None
  /\ Terminate
  /\ UNCHANGED <<opening, ticking>>

(* The error is reported and every promise is rejected.                    *)
FinishTerminal ==
  /\ Failed /\ terminal # "done"
  /\ retirement = "done" \/ terminal = "over"
  /\ terminal' = "done"
  /\ RejectAll(<<>>)
  /\ UNCHANGED <<vars, preparation, host, raf, ticking, context,
                 staticReason, recovery, retirement, disposed>>

(* dispose(), which is tried again until its retirement succeeds.          *)
DisposeSession ==
  /\ ~disposed
  /\ disposed' = TRUE
  /\ IF graph = None \/ readiness = "disposed" THEN UNCHANGED vars /\ RejectAll(<<>>)
     ELSE Dispose(visual) /\ RejectAll(effects')
  /\ StartRetirement
  /\ Cancel
  /\ prep' = IF prep = "done" THEN prep ELSE "rejected"
  /\ UNCHANGED <<prepared, opening, ticking, host, restarting,
                 staticReason, recovery, terminal>>

DisposeAgain ==
  /\ disposed /\ retirement = "none"
  /\ retirement' = "running"
  /\ Quiet
  /\ UNCHANGED <<vars, preparation, host, raf, ticking, context,
                 staticReason, recovery, terminal, disposed>>

----------------------------------------------------------------------------
(* Preparation of an animated session (#start).                            *)

StartPreparation ==
  /\ prep = "idle" /\ graph # None /\ ~Stopped
  /\ staticReason = None
  /\ prep' = "media"
  /\ Quiet
  /\ UNCHANGED <<vars, prepared, cancelled, opening, host, raf, ticking, context, endings>>

(* The output is qualified and the first media are prepared.               *)
MediaReady ==
  /\ prep = "media"
  /\ BeginAnimated
  /\ Apply(BeforeDraw(effects'), registered)
  /\ firstDraw' = "current" /\ firstPost' = AfterDraw(effects')
  /\ prep' = "drawing"
  /\ UNCHANGED <<prepared, cancelled, host, raf, ticking, context, endings>>

(* The initial draw ends.  When the context was lost meanwhile it is drawn *)
(* again, after the context is restored.                                   *)
FirstDrawn ==
  /\ firstDraw # "none"
  /\ IF prep = "drawing" /\ Stands(firstDraw)
     THEN /\ firstDraw' = "none"
          /\ prep' = "done" /\ prepared' = TRUE
          /\ Apply(firstPost, registered)
          /\ UNCHANGED <<vars, cancelled, host, ticking, context, endings>>
          /\ Schedule
     ELSE /\ firstDraw' = IF prep = "drawing" /\ ~awaiting
                          THEN "current" ELSE "none"
          /\ prep' = IF prep = "drawing" /\ awaiting THEN "restoring" ELSE prep
          /\ Quiet
          /\ UNCHANGED <<vars, prepared, cancelled, host, raf, ticking, context, endings>>
  /\ UNCHANGED firstPost

DrawAgain ==
  /\ prep = "restoring" /\ ~awaiting
  /\ prep' = "drawing"
  /\ firstDraw' = "current" /\ UNCHANGED firstPost
  /\ Quiet
  /\ UNCHANGED <<vars, prepared, cancelled, host, raf, ticking, context, endings>>

----------------------------------------------------------------------------
(* Frames.                                                                 *)

(* An animation frame in which the media are ready: the engine ticks, and  *)
(* what must not be seen before the draw is kept for after it.  (When they *)
(* are not, the frame is requested again and nothing changes.)  No frame   *)
(* comes before a microtask that is queued.                                *)
Frame(routeReady) ==
  /\ raf /\ tickDraw = "none"
  /\ recovery # None => recovery.stage # "queued"
  /\ Tick(routeReady)
  /\ Apply(BeforeDraw(effects'), registered)
  /\ raf' = FALSE
  /\ tickDraw' = "current" /\ tickPost' = AfterDraw(effects')
  /\ UNCHANGED <<preparation, host, context, endings>>

(* Mutant: no frame is requested after a draw.                             *)
Drawn_Sleeps ==
  /\ tickDraw # "none"
  /\ tickDraw' = "none" /\ tickPost' = <<>>
  /\ IF Stands(tickDraw) THEN Apply(tickPost, registered) ELSE Quiet
  /\ UNCHANGED <<vars, preparation, host, raf, context, endings>>

(* The draw ends and the next frame is requested.                          *)
Drawn ==
  /\ tickDraw # "none"
  /\ tickDraw' = "none" /\ tickPost' = <<>>
  /\ IF Stands(tickDraw) THEN Apply(tickPost, registered) ELSE Quiet
  /\ UNCHANGED <<vars, preparation, host, context, endings>>
  /\ Schedule

(* The draw fails, not because its animation was ended.                    *)
DrawFails ==
  /\ tickDraw # "none"
  /\ tickDraw' = "none" /\ tickPost' = <<>>
  /\ Terminate
  /\ UNCHANGED opening

----------------------------------------------------------------------------
(* Commands.                                                               *)

(* setState, once prepare() has resolved.                                  *)
SetState(state) ==
  /\ prep = "done" /\ ~Failed
  /\ state \in GraphStates
  /\ Request(state)
  /\ Apply(effects', registered \cup {nextId})
  /\ UNCHANGED <<preparation, host, ticking, context, endings>>
  /\ Schedule

SendEvent(event) ==
  /\ graph # None /\ ~Stopped
  /\ Send(event)
  /\ Apply(effects', registered)
  /\ UNCHANGED <<preparation, host, ticking, context, endings>>
  /\ Schedule

Pause ==
  /\ paused' = TRUE /\ resuming' = FALSE
  /\ Cancel
  /\ Quiet
  /\ UNCHANGED <<vars, preparation, published, visible, ticking, context, endings>>

(* resume() before the candidate is installed only takes the pause back;   *)
(* after it, it waits for the preparation, and a pause in between wins.    *)
Resume ==
  /\ IF prep = "idle" THEN paused' = FALSE /\ UNCHANGED resuming
     ELSE ~Failed /\ resuming' = TRUE /\ UNCHANGED paused
  /\ Quiet
  /\ UNCHANGED <<vars, preparation, published, visible, raf, ticking, context, endings>>

ResumePrepared ==
  /\ resuming /\ prep = "done" /\ ~Stopped
  /\ paused' = FALSE /\ resuming' = FALSE
  /\ Quiet
  /\ UNCHANGED <<vars, preparation, published, visible, ticking, context, endings>>
  /\ Schedule

SetVisible(seen) ==
  /\ visible' = seen
  /\ Quiet
  /\ UNCHANGED <<vars, preparation, published, paused, resuming, ticking, context, endings>>
  /\ IF seen THEN Schedule ELSE Cancel

(* The draws in flight are no longer of the current animation.             *)
ContextLost ==
  /\ ~Stopped /\ staticReason = None /\ ~awaiting
  /\ awaiting' = TRUE
  /\ Invalidate
  /\ Cancel
  /\ Quiet
  /\ UNCHANGED <<vars, prep, prepared, cancelled, host, restarting, endings>>

(* A prepared session asks to be started anew.                             *)
ContextRestored ==
  /\ ~Stopped /\ staticReason = None /\ awaiting
  /\ awaiting' = FALSE
  /\ restarting' = (restarting \/ prepared)
  /\ Quiet
  /\ UNCHANGED <<vars, preparation, host, raf, ticking, endings>>

----------------------------------------------------------------------------
SessionNext ==
  \/ \E d \in Definitions : Activate(d)
  \/ Publish
  \/ StartPreparation \/ PrepareStatic \/ MediaReady \/ FirstDrawn \/ DrawAgain
  \/ Suspend \/ ReduceMotion \/ AllowMotion
  \/ PerformRecovery \/ FinishRecovery \/ Retired \/ RetirementFails
  \/ MediaFail \/ PreparationFails \/ ContextTimesOut \/ FinishTerminal
  \/ DisposeSession \/ DisposeAgain
  \/ \E routeReady \in BOOLEAN : Frame(routeReady)
  \/ Drawn \/ DrawFails
  \/ \E state \in Targets : SetState(state)
  \/ \E event \in Events : SendEvent(event)
  \/ Pause \/ Resume \/ ResumePrepared
  \/ \E seen \in BOOLEAN : SetVisible(seen)
  \/ ContextLost \/ ContextRestored

SessionSpec == SessionInit /\ [][SessionNext]_sessionVars
============================================================================
