--------------------------- MODULE ElementRuntime ---------------------------
(***************************************************************************)
(* The runtime session of an element: element-runtime-session.ts, which    *)
(* starts and retires one source generation at a time on a lifecycle lane  *)
(* (lifecycle-lane.ts), and the startup of a player inside a generation    *)
(* (player.ts, provisional-startup.ts, player-selection.ts).  The player   *)
(* itself is what the session sees of player-session.ts: PlayerSession is  *)
(* the module that models it.  The page answers a claim of the decoder     *)
(* either way: PageResources is the module that models it.                 *)
(*                                                                         *)
(* `el` is everything synchronous code reads and writes: the public state  *)
(* of the element, the fields of the session, its lane and its players.    *)
(* An operation of the lane runs from await to await: `op` is the place    *)
(* the operation at the head of the lane has reached.  A player is named   *)
(* by a number from 1, in the order they are made; 0 is null.  The motion  *)
(* policy and the preference are one flag, `reduced`.                      *)
(***************************************************************************)
EXTENDS Naturals, Sequences, FiniteSets

CONSTANTS MaxPlayers,   \* how many players are ever made (bound)
          MaxCalls      \* how many calls and events reach the element (bound)

ASSUME RuntimeAssumption == MaxPlayers \in Nat \ {0} /\ MaxCalls \in Nat

VARIABLES el, op, calls

vars == <<el, op, calls>>

Players == 1 .. MaxPlayers

(* Of a player the model keeps                                             *)
(*   reason     staticReason: "none", "visibility-suspended",              *)
(*              "reduced-motion" or "decoder-queued"                       *)
(*   ready      its preparation: "pending", "animated", "static", "failed" *)
(*   qualifies  whether its output is to be qualified                      *)
(*   installed  whether the candidate installation is settled              *)
(*   recovering whether a static recovery is running                       *)
(*   suspend    its last suspend(): "no", "pending", "kept", "broken"      *)
(*   paused, shown   of its scheduler                                      *)
(*   resuming   a resume() that no pause() has outdated                    *)
(*   moving     a setMotion() the session awaits                           *)
(*   published, restartHeld   onRestart waits for publish()                *)
(*   restartRequested                                                      *)
(*   disposed   whether dispose() was called                               *)
(*   retired    whether its media are retired                              *)

(* What load stands for: nothing, the generation or the suspension that is *)
(* awaited, and what is left of one that was answered.                     *)
NoLoad == <<"none", 0>>
Ready == <<"ready", 0>>
Broken == <<"broken", 0>>
Terminal == <<"terminal", 0>>
Generation(token) == <<"generation", token>>
Suspension(i) == <<"suspension", i>>
Settled == {NoLoad, Ready, Broken, Terminal}

(* resume(), of which one is awaited at a time: what it waits for, whether *)
(* it is the latest call about playing, what was before, and its player.   *)
NoCall == [step |-> "none", on |-> NoLoad, latest |-> FALSE, previous |-> FALSE, player |-> 0]

(***************************************************************************)
(* The player, as the session calls it.                                    *)
(***************************************************************************)
Made(hidden, reduced, queued) ==
  [reason |-> IF hidden THEN "visibility-suspended"
              ELSE IF reduced THEN "reduced-motion"
              ELSE IF queued THEN "decoder-queued" ELSE "none",
   ready |-> "pending", qualifies |-> ~hidden /\ ~reduced /\ ~queued,
   installed |-> FALSE, recovering |-> FALSE, suspend |-> "no",
   paused |-> FALSE, shown |-> ~hidden, resuming |-> FALSE, moving |-> FALSE,
   published |-> FALSE, restartHeld |-> FALSE, restartRequested |-> FALSE,
   disposed |-> FALSE, retired |-> FALSE]

\* A player that is retired has nothing left to tell.
Gone == [Made(FALSE, FALSE, FALSE) EXCEPT !.ready = "failed", !.installed = TRUE,
                                          !.disposed = TRUE, !.retired = TRUE]

\* Mutant: a resume() that is under way ends after a pause().
PausePlayer_Outlived(w, i) == [w EXCEPT !.p[i].paused = TRUE]

PausePlayer(w, i) == [w EXCEPT !.p[i].paused = TRUE, !.p[i].resuming = FALSE]

\* Before it is installed a player has nothing to wait for.
ResumePlayer(w, i) ==
  IF w.p[i].installed THEN [w EXCEPT !.p[i].resuming = TRUE]
  ELSE [w EXCEPT !.p[i].paused = FALSE]

\* A recovery that runs already is shared, and keeps the last reason.  (That
\* it sets its first reason again in the microtask that begins it, so that a
\* call of the same task is overruled, is left out: here every event is a
\* task.  PlayerSession has the two stages.)
Recover(w, i, reason) ==
  [w EXCEPT !.p[i].reason = reason, !.p[i].recovering = TRUE]

(***************************************************************************)
(* The lane.                                                               *)
(***************************************************************************)
Current(w) == w.controller = "live" /\ ~w.finalDisposed

\* Every operation of the lane outdates the ones before it.
Enqueue(w, kind) ==
  [w EXCEPT !.sequence = @ + 1,
            !.controller = IF @ = "live" THEN "aborted" ELSE @,
            !.ops = Append(@, [kind |-> kind, token |-> w.sequence + 1])]

\* queueGeneration, whose result becomes the load.
Load(w) == [Enqueue(w, "generation") EXCEPT !.load = Generation(w.sequence + 1)]

\* A load that is answered; a rejection is forgotten unless nobody tracks it.
\* Mutant: who waits for a load that was replaced is not told.
Answer_Current(w, load, outcome) ==
  IF w.load # load THEN w
  ELSE [w EXCEPT !.load = IF outcome = Broken /\ load[1] = "generation" THEN NoLoad ELSE outcome,
                 !.call.on = IF @ = load THEN outcome ELSE @]

Answer(w, load, outcome) ==
  [w EXCEPT !.load = IF @ # load THEN @
                     ELSE IF outcome = Broken /\ load[1] = "generation" THEN NoLoad
                     ELSE outcome,
            !.call.on = IF @ = load THEN outcome ELSE @]

PublishTerminal(w) ==
  IF w.terminal THEN w
  ELSE [w EXCEPT !.terminal = TRUE, !.load = Terminal]

(***************************************************************************)
(* Reloads and restarts.                                                   *)
(***************************************************************************)
NoRestart == [asked |-> FALSE, player |-> 0, visibleOnly |-> FALSE]
Restart(i, visibleOnly) == [asked |-> TRUE, player |-> i, visibleOnly |-> visibleOnly]

ScheduleReload(w, replace, resetRestart) ==
  IF ~w.connected \/ w.finalDisposed THEN w
  ELSE [w EXCEPT !.restart = IF resetRestart THEN NoRestart ELSE @,
                 !.reloadReplace = @ \/ replace,
                 !.reloadQueued = TRUE,
                 !.reloadTasks = IF w.reloadQueued THEN @ ELSE @ + 1]

ScheduleRestart(w, i) ==
  IF w.finalDisposed \/ ~w.connected \/ i # w.player \/ i = 0 THEN w
  ELSE IF w.restart.asked /\ w.restart.player = i THEN w
  ELSE ScheduleReload([w EXCEPT !.restart = Restart(i, TRUE)], TRUE, FALSE)

FlushSourceMutations(w, changed) ==
  LET replace == w.reloadReplace \/ changed
      flushed == [w EXCEPT !.restart = IF changed THEN NoRestart ELSE @,
                           !.reloadQueued = FALSE, !.reloadReplace = FALSE]
  IN  IF ~changed /\ ~w.reloadQueued THEN w
      ELSE IF replace /\ w.connected /\ ~w.finalDisposed THEN Load(flushed)
      ELSE flushed

\* ensure(): the load that is under way, or a new one.
Ensure(w) ==
  IF w.load # NoLoad \/ ~w.connected \/ w.finalDisposed THEN w ELSE Load(w)

(***************************************************************************)
(* Visibility, motion and playback.                                        *)
(***************************************************************************)
UpdatePlayback(w) ==
  IF w.player = 0 THEN w
  ELSE IF ~w.playing \/ ~w.visible THEN PausePlayer(w, w.player)
  ELSE IF w.player \notin {w.suspended, w.suspending} THEN ResumePlayer(w, w.player)
  ELSE w

SuspendForVisibility(w, i) ==
  IF w.suspending = i THEN w
  ELSE IF w.p[i].disposed \/ w.p[i].ready = "failed"
       THEN [w EXCEPT !.p[i].suspend = "broken"]
  ELSE [Recover(w, i, "visibility-suspended")
          EXCEPT !.suspending = i, !.p[i].suspend = "pending"]

CompleteVisibilitySuspension(w, i) ==
  LET settled == [w EXCEPT !.suspending = IF @ = i THEN 0 ELSE @,
                           !.suspended = IF i = w.player THEN i ELSE @]
  IN  IF i = w.player /\ w.visible THEN ScheduleRestart(settled, i) ELSE settled

VisibilityChanged(w, visible) ==
  LET i == w.player
      seen == [w EXCEPT !.visible = visible, !.seen = i]
      told == UpdatePlayback([seen EXCEPT !.p[i].shown = visible])
  IN  IF visible = w.visible /\ i = w.seen THEN w
      ELSE IF i = 0 THEN seen
      ELSE IF ~visible /\ i \notin {w.suspended, w.suspending}
           THEN [SuspendForVisibility(told, i) EXCEPT !.load =
                   IF SuspendForVisibility(told, i).p[i].suspend = "broken"
                   THEN Broken ELSE Suspension(i)]
      ELSE IF visible /\ i = w.suspended THEN ScheduleRestart(told, i)
      ELSE told

SetMotion(w, i) ==
  LET q == w.p[i]
  IN  IF q.ready = "failed" \/ q.disposed THEN w
      ELSE IF w.reduced
           THEN IF q.reason = "reduced-motion" /\ q.retired THEN w
                ELSE Recover(w, i, "reduced-motion")
      ELSE IF q.reason = "reduced-motion"
           THEN IF q.restartRequested THEN w
                ELSE LET asked == [w EXCEPT !.p[i].restartRequested = TRUE]
                     IN  IF q.published
                         THEN IF Current(w) THEN ScheduleRestart(asked, i) ELSE asked
                         ELSE [asked EXCEPT !.p[i].restartHeld = TRUE]
      ELSE IF q.reason = "none" THEN ResumePlayer(w, i) ELSE w

(***************************************************************************)
(* An operation of the lane, from await to await.                          *)
(***************************************************************************)
Idle == [step |-> "idle", player |-> 0, hidden |-> FALSE, reduced |-> FALSE,
         applied |-> FALSE, after |-> "none", playback |-> FALSE]

GenerationCurrent(w) == Head(w.ops).token = w.sequence /\ ~w.finalDisposed

PendingOperation(w) ==
  w.ops # <<>> \/ w.reloadQueued \/ w.suspending # 0 \/ w.restart.asked

\* A disposal is complete when its retirement is, nothing is left and
\* nothing is pending; else it may be asked for again.
CompleteDisposal(w, ok) ==
  LET left == ~ok \/ w.player # 0 \/ w.retiring # 0 \/ w.controller # "none"
  IN  IF ~left /\ ~PendingOperation(w) THEN [w EXCEPT !.disposal = "done"]
      ELSE [w EXCEPT !.disposal = "none"]

\* Only the last of several adoptions installs the host environment again.
FinishAdoption(w) ==
  IF w.finalDisposed \/ ~w.connected \/ \E k \in DOMAIN w.ops : w.ops[k].kind = "adoption" THEN w
  ELSE ScheduleReload([w EXCEPT !.observed = TRUE], FALSE, TRUE)

\* The operation leaves the lane, and what awaits it goes on.
Finish(w, ok) ==
  LET head == Head(w.ops)
      rest == [w EXCEPT !.ops = Tail(@)]
  IN  /\ op' = Idle
      /\ el' = CASE head.kind = "generation" ->
                     Answer(rest, Generation(head.token), IF ok THEN Ready ELSE Broken)
                [] head.kind = "adoption" -> FinishAdoption(rest)
                [] head.kind = "disposal" -> CompleteDisposal(rest, ok)
                [] OTHER -> rest

DisposePlayer(w, i) ==
  [w EXCEPT !.p[i].disposed = TRUE, !.p[i].installed = TRUE, !.p[i].resuming = FALSE]

\* retireGeneration, until player.dispose() is awaited.
BeginRetirement(w, after, playback) ==
  LET i == IF w.player # 0 THEN w.player ELSE w.retiring
      waits == i # 0 /\ w.suspending = i
      begun == [w EXCEPT !.controller = "none", !.player = 0, !.retiring = i,
                         !.seen = IF @ = i THEN 0 ELSE @]
  IN  /\ el' = IF i = 0 \/ waits THEN begun ELSE DisposePlayer(begun, i)
      /\ op' = [op EXCEPT !.step = IF i = 0 THEN "retired"
                                   ELSE IF waits THEN "suspended" ELSE "disposing",
                          !.player = i, !.after = after, !.playback = playback]

ConcludeFailure(w, playback) ==
  Finish(IF playback \/ ~GenerationCurrent(w) THEN w ELSE PublishTerminal(w), FALSE)

GenerationFailed(w, playback) ==
  IF ~Current(w) THEN Finish(w, FALSE)
  ELSE IF w.player # 0 THEN BeginRetirement(w, "conclude", playback)
  ELSE ConcludeFailure(w, playback)

\* createPlayer throws: the failure is the element's unless it was aborted.
StartupFailed(w) ==
  IF ~Current(w) THEN Finish(w, FALSE)
  ELSE GenerationFailed(PublishTerminal(w), TRUE)

Started ==
  /\ op.step = "idle" /\ el.ops # <<>>
  /\ LET head == Head(el.ops)
     IN  IF head.kind # "generation" THEN BeginRetirement(el, "finish", FALSE)
         ELSE IF head.token # el.sequence THEN Finish(el, FALSE)
         ELSE BeginRetirement(el, "start", FALSE)

(* The suspension that is retired with its player has settled.             *)
RetirementProceeds ==
  /\ op.step = "suspended" /\ el.p[op.player].suspend # "pending"
  /\ el' = DisposePlayer(el, op.player)
  /\ op' = [op EXCEPT !.step = "disposing"]

\* Mutant: a player whose cleanup is not proven is forgotten.
ClearPlayerReferences_Forgets(w, i) ==
  [w EXCEPT !.preparing = IF @ = i THEN 0 ELSE @,
            !.suspending = IF @ = i THEN 0 ELSE @,
            !.suspended = IF @ = i THEN 0 ELSE @,
            !.retiring = 0,
            !.restart = IF @.asked /\ @.player = i THEN NoRestart ELSE @]

ClearPlayerReferences(w, i) ==
  [w EXCEPT !.preparing = IF @ = i THEN 0 ELSE @,
            !.suspending = IF @ = i THEN 0 ELSE @,
            !.suspended = IF @ = i THEN 0 ELSE @,
            !.restart = IF @.asked /\ @.player = i THEN NoRestart ELSE @]

PlayerRetired ==
  /\ op.step = "disposing" /\ ~el.p[op.player].recovering
  /\ el' = [ClearPlayerReferences(el, op.player)
              EXCEPT !.retiring = 0, !.p[op.player] = Gone]
  /\ op' = [op EXCEPT !.step = "retired"]

(* The disposal of the player fails, or its cleanup is not proven.         *)
RetirementFails ==
  /\ op.step = "disposing" /\ ~el.p[op.player].recovering /\ ~el.p[op.player].retired
  /\ LET w == ClearPlayerReferences(el, op.player)
     IN  IF op.after = "conclude" THEN ConcludeFailure(w, op.playback) ELSE Finish(w, FALSE)

Retired ==
  /\ op.step = "retired" /\ op.after # "start" /\ el.reloadTasks = 0
  /\ IF op.after = "conclude" THEN ConcludeFailure(el, op.playback)
     ELSE Finish(el, op.after = "finish")

GenerationStarts ==
  /\ op.step = "retired" /\ op.after = "start" /\ el.reloadTasks = 0
  /\ IF ~GenerationCurrent(el) \/ ~el.connected THEN Finish(el, FALSE)
     ELSE LET w == [el EXCEPT !.restart = NoRestart, !.controller = "live",
                              !.terminal = FALSE]
          IN  \/ Finish(PublishTerminal(w), FALSE)  \* no source, or no support
              \/ el' = w /\ op' = [Idle EXCEPT !.step = "loading"]

(* The runtime is loaded: visibility and motion are read for the player.   *)
RuntimeLoaded ==
  /\ op.step = "loading" /\ Current(el)
  /\ op' = [op EXCEPT !.step = "probing", !.hidden = ~el.visible, !.reduced = el.reduced]
  /\ UNCHANGED el

RuntimeFails == op.step = "loading" /\ GenerationFailed(el, FALSE)

ProbeFails == op.step = "probing" /\ StartupFailed(el)

AcceptCandidate(w, i, made) ==
  [w EXCEPT !.p[i] = made, !.made = i, !.player = i, !.preparing = i,
            !.seen = 0, !.suspended = 0, !.suspending = 0]

CandidateFails(w, i) ==
  el' = DisposePlayer(w, i) /\ op' = [op EXCEPT !.step = "rejecting", !.player = i]

\* A candidate that is static has nothing to qualify.
CompleteInstallation(w, i) ==
  /\ el' = [w EXCEPT !.p[i].installed = TRUE]
  /\ op' = [op EXCEPT !.step = IF w.p[i].qualifies THEN "qualifying" ELSE "created",
                      !.player = i]

\* What onCandidate does once the motion is the one that is asked for.
InstallCandidate(w, i) ==
  LET seen == UpdatePlayback(IF w.known THEN VisibilityChanged(w, w.visible) ELSE w)
  IN  IF seen.suspending = i
      THEN el' = seen /\ op' = [op EXCEPT !.step = "installing", !.player = i]
      ELSE CompleteInstallation(seen, i)

ReconcileMotion(w, i, applied) ==
  IF w.reduced = applied THEN InstallCandidate(w, i)
  ELSE /\ el' = SetMotion(w, i)
       /\ op' = [op EXCEPT !.step = "reconciling", !.applied = w.reduced, !.player = i]

(* A candidate is probed, made and offered to the session.                 *)
CandidateProbed(queued) ==
  /\ op.step = "probing" /\ Current(el) /\ el.made < MaxPlayers
  /\ queued => ~op.hidden /\ ~op.reduced
  /\ LET i == el.made + 1
     IN  ReconcileMotion(AcceptCandidate(el, i, Made(op.hidden, op.reduced, queued)),
                         i, op.reduced)

MotionReconciled ==
  /\ op.step = "reconciling" /\ ~el.p[op.player].recovering /\ ~el.p[op.player].resuming
  /\ IF ~Current(el) \/ el.p[op.player].ready = "failed" THEN CandidateFails(el, op.player)
     ELSE ReconcileMotion(el, op.player, op.applied)

CandidateSuspended ==
  /\ op.step = "installing" /\ el.p[op.player].suspend # "pending"
  /\ IF Current(el) /\ el.p[op.player].suspend = "kept"
     THEN CompleteInstallation(el, op.player) ELSE CandidateFails(el, op.player)

CandidateQualified ==
  /\ op.step = "qualifying" /\ el.p[op.player].ready # "pending"
  /\ IF el.p[op.player].ready = "failed" THEN CandidateFails(el, op.player)
     ELSE UNCHANGED el /\ op' = [op EXCEPT !.step = "created"]

(* The deadline of the installation or of the preparation passes, or the   *)
(* generation is aborted.                                                  *)
CandidateTimesOut ==
  op.step \in {"reconciling", "installing", "qualifying"} /\ CandidateFails(el, op.player)

(* The candidate is retired: the next one is probed, or the startup fails. *)
CandidateRejected(ok, retry) ==
  /\ op.step = "rejecting" /\ ~el.p[op.player].recovering
  /\ el.p[op.player].retired => ok
  /\ retry => ok /\ Current(el)
  /\ LET w == IF ok THEN [el EXCEPT !.p[op.player] = Gone] ELSE el
     IN  IF retry THEN el' = w /\ op' = [op EXCEPT !.step = "probing"] ELSE StartupFailed(w)

PlayerCreated ==
  /\ op.step = "created"
  /\ IF ~Current(el) THEN BeginRetirement(el, "abort", FALSE)
     ELSE /\ op' = [op EXCEPT !.step = IF el.suspending = op.player
                                       THEN "awaiting" ELSE "preparing"]
          /\ UNCHANGED el

\* publish(), which tells the session of a restart that was held back.
Publish(w, i) ==
  LET live == ~w.p[i].disposed /\ w.p[i].ready # "failed"
      published == [w EXCEPT !.p[i].published = live, !.p[i].restartHeld = FALSE]
  IN  IF ~Current(w) THEN Finish(w, FALSE)
      ELSE Finish(IF live /\ w.p[i].restartHeld THEN ScheduleRestart(published, i)
                  ELSE published, TRUE)

PlayerPrepared ==
  LET i == op.player
      w == [el EXCEPT !.preparing = IF @ = i THEN 0 ELSE @]
      kept == IF op.step = "awaiting" THEN el.p[i].suspend = "kept"
              ELSE el.p[i].ready # "failed"
  IN  /\ \/ op.step = "awaiting" /\ el.p[i].suspend # "pending"
         \/ op.step = "preparing" /\ el.p[i].ready # "pending"
      /\ IF ~Current(w) THEN Finish(w, FALSE)
         ELSE IF ~kept THEN IF op.step = "awaiting" THEN GenerationFailed(w, FALSE)
                            ELSE GenerationFailed(PublishTerminal(w), TRUE)
         ELSE IF w.visible THEN Publish(w, i)
         ELSE IF w.p[i].ready = "static" /\ w.p[i].reason = "visibility-suspended"
              THEN Publish(CompleteVisibilitySuspension(w, i), i)
         ELSE el' = SuspendForVisibility(w, i) /\ op' = [op EXCEPT !.step = "hiding"]

PlayerHidden ==
  /\ op.step = "hiding" /\ el.p[op.player].suspend # "pending"
  /\ IF el.p[op.player].suspend = "kept" THEN Publish(el, op.player)
     ELSE GenerationFailed(el, FALSE)

(***************************************************************************)
(* What the player does by itself.                                         *)
(***************************************************************************)
\* Only a current generation prepares an animation; an aborted one fails.
PreparationEnds(i, ready) ==
  LET q == el.p[i]
  IN  /\ q.ready = "pending" /\ q.installed /\ ~q.recovering
      /\ CASE ready = "animated" -> q.reason = "none" /\ ~q.disposed /\ Current(el)
         [] ready = "static" -> q.reason # "none" /\ ~q.disposed
         [] OTHER -> TRUE
      /\ el' = [el EXCEPT !.p[i].ready = ready, !.p[i].retired = @ \/ ready = "static"]

(* A recovery ends with the reason of the last call that shares it.        *)
RecoveryEnds(i) ==
  LET q == el.p[i]
      kept == q.reason = "visibility-suspended"
      w == [el EXCEPT !.p[i].recovering = FALSE, !.p[i].ready = "static",
                      !.p[i].retired = TRUE,
                      !.p[i].suspend = IF @ # "pending" THEN @
                                       ELSE IF kept THEN "kept" ELSE "broken"]
  IN  /\ q.recovering /\ q.ready # "failed"
      /\ el' = IF q.suspend # "pending" THEN w
               ELSE IF kept THEN CompleteVisibilitySuspension(Answer(w, Suspension(i), Ready), i)
               ELSE Answer(w, Suspension(i), Broken)

RecoveryFails(i) ==
  LET q == el.p[i]
      w == [el EXCEPT !.p[i].recovering = FALSE,
                      !.p[i].ready = IF @ = "pending" THEN "failed" ELSE @,
                      !.p[i].suspend = IF @ = "pending" THEN "broken" ELSE @]
  IN  /\ q.recovering
      /\ el' = IF q.suspend # "pending" THEN w
               ELSE Answer([w EXCEPT !.suspending = IF @ = i THEN 0 ELSE @],
                           Suspension(i), Broken)

PlayerResumes(i) ==
  LET q == el.p[i]
  IN  /\ q.resuming /\ q.ready # "pending"
      /\ el' = [el EXCEPT !.p[i].resuming = FALSE,
                          !.p[i].paused = @ /\ q.ready = "failed"]

\* What setMotion() awaits, and what resume() does.
MotionSettled(q) ==
  ~q.recovering /\ ~q.resuming /\ (q.ready # "pending" \/ ~q.installed)

ResumeSettled(q) ==
  ~q.resuming /\ (q.ready # "pending" \/ q.disposed \/ ~q.installed)

MotionSettles(i) ==
  LET q == el.p[i]
      w == [el EXCEPT !.p[i].moving = FALSE]
  IN  /\ q.moving /\ MotionSettled(q)
      /\ el' = IF i = el.player /\ q.ready # "failed" THEN UpdatePlayback(w) ELSE w

(* The playback fails: the generation is retired by a microtask.           *)
PlaybackFails(i) ==
  LET w == [el EXCEPT !.p[i].ready = "failed"]
  IN  /\ el.p[i].ready = "animated" /\ ~el.p[i].disposed
      /\ op.player = i => op.step \notin {"reconciling", "installing", "qualifying"}
      /\ el' = IF ~Current(el) THEN w
               ELSE [PublishTerminal(w) EXCEPT !.failing = IF el.preparing = i THEN @ ELSE i]

(***************************************************************************)
(* Microtasks.                                                             *)
(***************************************************************************)
\* Mutant: a reload that was flushed is forgotten.
ReloadTask_Flushed ==
  /\ el.reloadTasks > 0
  /\ LET w == [el EXCEPT !.reloadTasks = @ - 1, !.reloadQueued = FALSE, !.reloadReplace = FALSE]
     IN  el' = IF ~el.connected \/ el.finalDisposed \/ ~el.reloadQueued THEN w
               ELSE IF el.restart.asked /\ el.restart.visibleOnly /\ ~el.visible
                    THEN [w EXCEPT !.restart = NoRestart]
               ELSE IF ~el.reloadReplace /\ el.load # NoLoad THEN w
               ELSE Load(w)

ReloadTask ==
  /\ el.reloadTasks > 0
  /\ LET w == [el EXCEPT !.reloadTasks = @ - 1, !.reloadQueued = FALSE, !.reloadReplace = FALSE]
     IN  el' = IF ~el.connected \/ el.finalDisposed THEN w
               ELSE IF el.restart.asked /\ el.restart.visibleOnly /\ ~el.visible
                    THEN [w EXCEPT !.restart = NoRestart]
               ELSE IF ~el.reloadReplace /\ el.load # NoLoad THEN w
               ELSE Load(w)

FailureTask ==
  /\ el.failing # 0
  /\ LET w == [el EXCEPT !.failing = 0]
     IN  el' = IF el.terminal /\ el.player = el.failing /\ Current(el)
               THEN Enqueue(w, "retirement") ELSE w

(* resume() goes on when the load it awaits is answered.                   *)
Abandon(w) ==
  LET c == w.call
      undone == c.player # 0 /\
                (c.latest \/ c.player # w.player \/ ~w.playing \/
                 ~w.visible \/ c.player \in {w.suspended, w.suspending})
      paused == IF undone THEN PausePlayer(w, c.player) ELSE w
  IN  [paused EXCEPT !.call = NoCall,
                     !.playing = IF c.latest THEN c.previous ELSE @]

ResumeEnsured ==
  LET c == el.call
  IN  /\ c.step = "ensuring" /\ c.on \in Settled
      /\ el' = IF \/ c.on # Ready \/ el.terminal
                  \/ ~c.latest \/ ~el.playing \/ el.player = 0
               THEN Abandon(el)
               ELSE IF el.visible /\ el.player \notin {el.suspended, el.suspending}
               THEN ResumePlayer([el EXCEPT !.call.step = "resuming",
                                            !.call.player = el.player], el.player)
               ELSE [el EXCEPT !.call = NoCall]

ResumeAnswered ==
  LET c == el.call
      q == el.p[c.player]
  IN  /\ c.step = "resuming" /\ ResumeSettled(q)
      /\ el' = IF \/ q.ready \in {"failed", "pending"} /\ q.installed
                  \/ el.terminal
                  \/ ~c.latest \/ ~el.playing \/ ~el.visible
                  \/ c.player # el.player \/ c.player \in {el.suspended, el.suspending}
               THEN Abandon(el) ELSE [el EXCEPT !.call = NoCall]

(***************************************************************************)
(* Calls of the application and events of the page.                        *)
(***************************************************************************)
\* Until an element is seen to intersect the viewport it is not visible.
Unobserved == [el EXCEPT !.observed = FALSE, !.known = FALSE, !.visible = FALSE, !.load = NoLoad]

Connect ==
  /\ ~el.finalDisposed /\ ~el.connected
  /\ el' = ScheduleReload([el EXCEPT !.connected = TRUE, !.observed = TRUE], FALSE, TRUE)

Disconnect ==
  /\ ~el.finalDisposed /\ el.connected
  /\ el' = [Enqueue(Unobserved, "retirement") EXCEPT !.connected = FALSE]

Adopt ==
  /\ ~el.finalDisposed /\ el.connected
  /\ el' = Enqueue(Unobserved, "adoption")

SourceChange ==
  /\ ~el.finalDisposed /\ el.observed
  /\ el' = ScheduleReload(el, TRUE, TRUE)

(* prepare(), and setState() as far as the session goes.                   *)
Prepare(changed) ==
  /\ ~el.finalDisposed /\ (changed => el.observed)
  /\ el' = Ensure(FlushSourceMutations(el, changed))

Pause(changed) ==
  /\ ~el.finalDisposed /\ (changed => el.observed)
  /\ LET w == [FlushSourceMutations(el, changed) EXCEPT !.playing = FALSE, !.call.latest = FALSE]
     IN  el' = IF w.player = 0 THEN w ELSE PausePlayer(w, w.player)

Resume(changed) ==
  /\ ~el.finalDisposed /\ (changed => el.observed) /\ el.call.step = "none"
  /\ LET w == Ensure([FlushSourceMutations(el, changed) EXCEPT !.playing = TRUE])
     IN  el' = [w EXCEPT !.call = [step |-> "ensuring", on |-> w.load, latest |-> TRUE,
                                   previous |-> el.playing, player |-> 0]]

AutoplayChange(playing) ==
  /\ ~el.finalDisposed
  /\ el' = UpdatePlayback([el EXCEPT !.playing = playing, !.call.latest = FALSE])

MotionChange ==
  /\ ~el.finalDisposed
  /\ LET w == [el EXCEPT !.reduced = ~@]
     IN  el' = IF w.player = 0 THEN w
               ELSE [SetMotion(w, w.player) EXCEPT !.p[w.player].moving = TRUE]

FirstSample(visible) ==
  /\ el.observed /\ ~el.known
  /\ el' = VisibilityChanged([el EXCEPT !.known = TRUE], visible)

VisibilityChange ==
  /\ el.observed /\ el.known
  /\ el' = VisibilityChanged(el, ~el.visible)

(* The page is hidden and kept: nothing runs before it is shown again.     *)
PageHide ==
  /\ el.observed
  /\ el' = [VisibilityChanged(el, FALSE) EXCEPT !.frozen = TRUE]

\* Without a player the state to restart in may be known or not.
RestoreFromPageCache(known) ==
  /\ el.frozen /\ (el.player # 0 => known)
  /\ LET w == [el EXCEPT !.frozen = FALSE, !.visible = el.known,
                         !.restart = IF known THEN Restart(el.player, FALSE) ELSE @]
     IN  el' = ScheduleReload(w, TRUE, FALSE)
  /\ UNCHANGED <<op, calls>>

(* The page grants the decoder that the player was refused.                *)
DecoderGranted ==
  /\ ~el.finalDisposed /\ el.connected /\ el.player # 0 /\ ~el.reloadQueued
  /\ el.p[el.player].reason = "decoder-queued" /\ Current(el)
  /\ el' = ScheduleRestart(el, el.player)

Dispose ==
  /\ el.disposal = "none"
  /\ el' = Enqueue([Unobserved EXCEPT !.connected = FALSE, !.finalDisposed = TRUE,
                                       !.disposal = "pending"], "disposal")

(***************************************************************************)
(* The specification.                                                      *)
(***************************************************************************)
Init ==
  /\ \E playing \in BOOLEAN :
       el = [connected |-> FALSE, visible |-> FALSE, playing |-> playing, reduced |-> FALSE,
             observed |-> FALSE, known |-> FALSE, frozen |-> FALSE,
             player |-> 0, retiring |-> 0, seen |-> 0, preparing |-> 0, suspending |-> 0,
             suspended |-> 0, restart |-> NoRestart, load |-> NoLoad, controller |-> "none",
             finalDisposed |-> FALSE, disposal |-> "none",
             reloadQueued |-> FALSE, reloadReplace |-> FALSE, reloadTasks |-> 0,
             terminal |-> FALSE, failing |-> 0, call |-> NoCall,
             sequence |-> 0, ops |-> <<>>, made |-> 0,
             p |-> [i \in Players |-> Made(FALSE, FALSE, FALSE)]]
  /\ op = Idle
  /\ calls = 0

(* Something awaited has settled, or a microtask was queued.               *)
MicrotaskDue ==
  \/ op.step = "idle" /\ el.ops # <<>>
  \/ op.step \in {"retired", "created"} \/ el.reloadTasks > 0 \/ el.failing # 0
  \/ /\ op.step \in {"suspended", "installing", "awaiting", "hiding"}
     /\ el.p[op.player].suspend # "pending"
  \/ op.step \in {"qualifying", "preparing"} /\ el.p[op.player].ready # "pending"
  \/ /\ op.step = "reconciling"
     /\ ~el.p[op.player].recovering /\ ~el.p[op.player].resuming
  \/ el.call.step = "ensuring" /\ el.call.on \in Settled
  \/ el.call.step = "resuming" /\ ResumeSettled(el.p[el.call.player])
  \/ \E i \in 1 .. el.made : LET q == el.p[i] IN
       \/ q.resuming /\ q.ready # "pending"
       \/ q.moving /\ MotionSettled(q)

(* What runs before anything else is awaited.                              *)
Microtask ==
  \/ Started \/ RetirementProceeds \/ Retired \/ GenerationStarts
  \/ MotionReconciled \/ CandidateSuspended \/ CandidateQualified
  \/ PlayerCreated \/ PlayerPrepared \/ PlayerHidden
  \/ /\ \/ ReloadTask \/ FailureTask \/ ResumeEnsured \/ ResumeAnswered
        \/ \E i \in 1 .. el.made : PlayerResumes(i) \/ MotionSettles(i)
     /\ UNCHANGED op

(* What the network, the decoders, the page and the timers bring about.    *)
Completion ==
  \/ PlayerRetired \/ RetirementFails \/ RuntimeLoaded \/ RuntimeFails \/ ProbeFails
  \/ \E queued \in BOOLEAN : CandidateProbed(queued)
  \/ CandidateTimesOut
  \/ \E ok, retry \in BOOLEAN : CandidateRejected(ok, retry)
  \/ /\ \E i \in 1 .. el.made :
           \/ \E ready \in {"animated", "static", "failed"} : PreparationEnds(i, ready)
           \/ RecoveryEnds(i) \/ RecoveryFails(i) \/ PlaybackFails(i)
     /\ UNCHANGED op

(* The application may call at any time, and an event of the page comes    *)
(* when the microtasks have run.                                           *)
Call ==
  \/ \E changed \in BOOLEAN : Prepare(changed) \/ Pause(changed) \/ Resume(changed)
  \/ \E playing \in BOOLEAN : AutoplayChange(playing)
  \/ MotionChange \/ Dispose

Event ==
  \/ Disconnect \/ Adopt \/ SourceChange \/ PageHide \/ DecoderGranted
  \/ VisibilityChange

(* These are as many as the disconnections and the adoptions allow.        *)
Appearance == Connect \/ \E visible \in BOOLEAN : FirstSample(visible)

(* What goes on by itself: microtasks first.                               *)
Advance ==
  /\ ~el.frozen
  /\ Microtask \/ (~MicrotaskDue /\ Completion)
  /\ UNCHANGED calls

Occur ==
  /\ ~el.frozen
  /\ UNCHANGED op
  /\ \/ calls < MaxCalls /\ calls' = calls + 1 /\ (Call \/ (~MicrotaskDue /\ Event))
     \/ ~MicrotaskDue /\ Appearance /\ UNCHANGED calls

Next == Advance \/ Occur \/ \E known \in BOOLEAN : RestoreFromPageCache(known)

Spec == Init /\ [][Next]_vars

(* Microtasks run, and what is awaited from outside comes to an end: media *)
(* are loaded, prepared and retired within their deadlines.  Nobody has to *)
(* call, nothing has to happen to the page.                                *)
FairSpec == Spec /\ WF_vars(Advance)
=============================================================================
