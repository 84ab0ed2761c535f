------------------------ MODULE ElementRuntimeProofs ------------------------
(***************************************************************************)
(* One player at a time, and the one that was asked for at rest, for any   *)
(* number of players, calls and events.                                    *)
(*                                                                         *)
(* The first part is about who has resources.  Most of what is called in a *)
(* step concerns neither that nor the lane: Follows says what such an      *)
(* operation leaves as it is.  What remains - a player is accepted, taken  *)
(* over by its retirement, proven to be retired, and an operation leaves   *)
(* the lane - is taken step by step.                                       *)
(*                                                                         *)
(* The second part is about what a player stands for.  Sound says what     *)
(* holds of the element between two awaits, Where what the operation at    *)
(* the head of the lane has come to.  Most of what is called in a step     *)
(* keeps the first and does not disturb the second: Stays.                 *)
(***************************************************************************)
EXTENDS ElementRuntimeProperties, FiniteSetTheorems, SequenceTheorems, TLAPS

----------------------------------------------------------------------------
(* What the proof looks at: who has resources, and what was disposed.      *)

ElementFields ==
  {"connected", "visible", "playing", "reduced", "observed", "known", "frozen", "player",
   "retiring", "seen", "preparing", "suspending", "suspended", "restart", "load", "controller",
   "finalDisposed", "disposal", "reloadQueued", "reloadReplace", "reloadTasks", "terminal",
   "failing", "call", "sequence", "ops", "made", "p"}

PlayerFields ==
  {"reason", "ready", "qualifies", "installed", "recovering", "suspend", "paused", "shown",
   "resuming", "moving", "published", "restartHeld", "restartRequested", "disposed", "retired"}

Operations == [kind : {"generation", "retirement", "adoption", "disposal"}, token : Nat]

Shape(w) ==
  /\ DOMAIN w = ElementFields
  /\ DOMAIN w.p = Players /\ \A i \in Players : DOMAIN w.p[i] = PlayerFields
  /\ w.ops \in Seq(Operations) /\ w.sequence \in Nat
  /\ w.made \in 0 .. MaxPlayers

(* A disposal that waits on the lane is a final one.                       *)
Good(w) ==
  /\ Shape(w)
  /\ \A k \in DOMAIN w.ops : w.ops[k].kind = "disposal" => w.finalDisposed

(* Nobody is made or forgotten, and nothing given back is taken again.     *)
Follows(w, v) ==
  /\ Good(v)
  /\ v.player = w.player /\ v.retiring = w.retiring /\ v.made = w.made
  /\ v.finalDisposed = w.finalDisposed /\ v.disposal = w.disposal
  /\ w.ops # <<>> => v.ops # <<>>
  /\ \A i \in Players : /\ w.p[i].disposed => v.p[i].disposed
                        /\ w.p[i].retired => v.p[i].retired

(* All that has resources is among S.                                      *)
Only(w, S) == \A i \in 1 .. w.made : i \in S \/ (w.p[i].disposed /\ w.p[i].retired)

----------------------------------------------------------------------------
(* What one operation follows by the next one.                             *)
LEMMA FollowsSelf == ASSUME NEW w, Good(w) PROVE Follows(w, w)
BY DEF Follows

LEMMA FollowsOn ==
  ASSUME NEW w, NEW v, NEW u, Follows(w, v), Follows(v, u) PROVE Follows(w, u)
BY DEF Follows

LEMMA PausePlayerFollows ==
  ASSUME NEW w, Good(w), NEW i PROVE Follows(w, PausePlayer(w, i))
BY DEF Follows, Good, Shape, PausePlayer, ElementFields, PlayerFields

LEMMA ResumePlayerFollows ==
  ASSUME NEW w, Good(w), NEW i PROVE Follows(w, ResumePlayer(w, i))
BY DEF Follows, Good, Shape, ResumePlayer, ElementFields, PlayerFields

LEMMA RecoverFollows ==
  ASSUME NEW w, Good(w), NEW i, NEW reason PROVE Follows(w, Recover(w, i, reason))
BY DEF Follows, Good, Shape, Recover, ElementFields, PlayerFields

LEMMA AnswerFollows ==
  ASSUME NEW w, Good(w), NEW load, NEW outcome PROVE Follows(w, Answer(w, load, outcome))
BY DEF Follows, Good, Shape, Answer, ElementFields

LEMMA EnqueueFollows ==
  ASSUME NEW w, Good(w), NEW kind \in {"generation", "retirement", "adoption"}
  PROVE  Follows(w, Enqueue(w, kind))
<1> DEFINE o == [kind |-> kind, token |-> w.sequence + 1]
<1>1. o \in Operations /\ w.ops \in Seq(Operations) BY DEF Operations, Good, Shape
<1>2. /\ Append(w.ops, o) \in Seq(Operations) /\ Append(w.ops, o) # <<>>
      /\ \A k \in DOMAIN Append(w.ops, o) :
           Append(w.ops, o)[k].kind = "disposal" => k \in DOMAIN w.ops /\ w.ops[k].kind = "disposal"
  BY <1>1
<1> HIDE DEF o
<1>3. Enqueue(w, kind).ops = Append(w.ops, o) BY DEF Enqueue, Good, Shape, ElementFields, o
<1> QED BY <1>2, <1>3 DEF Follows, Good, Shape, Enqueue, ElementFields, PlayerFields

LEMMA LoadFollows == ASSUME NEW w, Good(w) PROVE Follows(w, Load(w))
<1>1. Follows(w, Enqueue(w, "generation")) BY EnqueueFollows
<1> HIDE DEF Enqueue
<1> QED BY <1>1 DEF Follows, Good, Shape, Load, ElementFields, PlayerFields

LEMMA PublishTerminalFollows == ASSUME NEW w, Good(w) PROVE Follows(w, PublishTerminal(w))
BY DEF Follows, Good, Shape, PublishTerminal, ElementFields

LEMMA ScheduleReloadFollows ==
  ASSUME NEW w, Good(w), NEW replace, NEW resetRestart
  PROVE  Follows(w, ScheduleReload(w, replace, resetRestart))
BY DEF Follows, Good, Shape, ScheduleReload, ElementFields

LEMMA ScheduleRestartFollows ==
  ASSUME NEW w, Good(w), NEW i PROVE Follows(w, ScheduleRestart(w, i))
<1> DEFINE asked == [w EXCEPT !.restart = Restart(i, TRUE)]
<1>1. Follows(w, asked) BY DEF Follows, Good, Shape, ElementFields
<1>2. Follows(asked, ScheduleReload(asked, TRUE, FALSE))
  BY <1>1, ScheduleReloadFollows DEF Follows
<1> HIDE DEF asked
<1>3. Follows(w, ScheduleReload(asked, TRUE, FALSE)) BY <1>1, <1>2, FollowsOn
<1>4. ScheduleRestart(w, i) \in {w, ScheduleReload(asked, TRUE, FALSE)}
  BY DEF ScheduleRestart, asked
<1> QED BY <1>3, <1>4, FollowsSelf

LEMMA FlushFollows ==
  ASSUME NEW w, Good(w), NEW changed PROVE Follows(w, FlushSourceMutations(w, changed))
<1> DEFINE flushed == [w EXCEPT !.restart = IF changed THEN NoRestart ELSE @,
                                !.reloadQueued = FALSE, !.reloadReplace = FALSE]
<1>1. Follows(w, flushed) BY DEF Follows, Good, Shape, ElementFields
<1>2. FlushSourceMutations(w, changed) \in {w, flushed, Load(flushed)}
  BY DEF FlushSourceMutations
<1> HIDE DEF flushed
<1>3. Follows(flushed, Load(flushed)) BY <1>1, LoadFollows DEF Follows
<1> QED BY <1>1, <1>2, <1>3, FollowsOn, FollowsSelf

LEMMA EnsureFollows == ASSUME NEW w, Good(w) PROVE Follows(w, Ensure(w))
BY FollowsSelf, LoadFollows DEF Ensure

LEMMA UpdatePlaybackFollows == ASSUME NEW w, Good(w) PROVE Follows(w, UpdatePlayback(w))
BY FollowsSelf, PausePlayerFollows, ResumePlayerFollows DEF UpdatePlayback

LEMMA SuspendFollows ==
  ASSUME NEW w, Good(w), NEW i PROVE Follows(w, SuspendForVisibility(w, i))
<1> DEFINE r == Recover(w, i, "visibility-suspended")
           s == [r EXCEPT !.suspending = i, !.p[i].suspend = "pending"]
           b == [w EXCEPT !.p[i].suspend = "broken"]
<1>1. Follows(w, b) BY DEF Follows, Good, Shape, ElementFields, PlayerFields
<1>2. Follows(w, r) BY RecoverFollows
<1>3. SuspendForVisibility(w, i) \in {w, b, s} BY DEF SuspendForVisibility
<1> HIDE DEF r
<1>4. Follows(r, s) BY <1>2 DEF Follows, Good, Shape, ElementFields, PlayerFields
<1> HIDE DEF b, s
<1> QED BY <1>1, <1>2, <1>3, <1>4, FollowsOn, FollowsSelf

LEMMA CompleteFollows ==
  ASSUME NEW w, Good(w), NEW i PROVE Follows(w, CompleteVisibilitySuspension(w, i))
<1> DEFINE settled == [w EXCEPT !.suspending = IF @ = i THEN 0 ELSE @,
                                !.suspended = IF i = w.player THEN i ELSE @]
<1>1. Follows(w, settled) BY DEF Follows, Good, Shape, ElementFields
<1>2. CompleteVisibilitySuspension(w, i) \in {settled, ScheduleRestart(settled, i)}
  BY DEF CompleteVisibilitySuspension
<1> HIDE DEF settled
<1>3. Follows(settled, ScheduleRestart(settled, i)) BY <1>1, ScheduleRestartFollows DEF Follows
<1> QED BY <1>1, <1>2, <1>3, FollowsOn

LEMMA VisibilityChangedFollows ==
  ASSUME NEW w, Good(w), NEW visible PROVE Follows(w, VisibilityChanged(w, visible))
<1> DEFINE i == w.player
           seen == [w EXCEPT !.visible = visible, !.seen = i]
           showing == [seen EXCEPT !.p[i].shown = visible]
           told == UpdatePlayback(showing)
           s == SuspendForVisibility(told, i)
           l == [s EXCEPT !.load = IF s.p[i].suspend = "broken" THEN Broken ELSE Suspension(i)]
<1>1. VisibilityChanged(w, visible) \in {w, seen, told, l, ScheduleRestart(told, i)}
  BY DEF VisibilityChanged
<1>2. Follows(w, seen) BY DEF Follows, Good, Shape, ElementFields
<1> HIDE DEF seen
<1>3. Follows(seen, showing) BY <1>2 DEF Follows, Good, Shape, ElementFields, PlayerFields
<1> HIDE DEF showing
<1>4. Follows(showing, told) BY <1>3, UpdatePlaybackFollows DEF Follows
<1> HIDE DEF told
<1>5. Follows(told, s) BY <1>4, SuspendFollows DEF Follows
<1> HIDE DEF s
<1>6. Follows(s, l) BY <1>5 DEF Follows, Good, Shape, ElementFields, PlayerFields
<1>7. Follows(told, ScheduleRestart(told, i)) BY <1>4, ScheduleRestartFollows DEF Follows
<1> HIDE DEF l
<1>8. Follows(w, told) BY <1>2, <1>3, <1>4, FollowsOn
<1>9. Follows(w, l) BY <1>5, <1>6, <1>8, FollowsOn
<1>10. Follows(w, ScheduleRestart(told, i)) BY <1>7, <1>8, FollowsOn
<1> QED BY <1>1, <1>2, <1>8, <1>9, <1>10, FollowsSelf

LEMMA SetMotionFollows ==
  ASSUME NEW w, Good(w), NEW i PROVE Follows(w, SetMotion(w, i))
<1> DEFINE asked == [w EXCEPT !.p[i].restartRequested = TRUE]
           held == [asked EXCEPT !.p[i].restartHeld = TRUE]
<1>1. SetMotion(w, i) \in {w, Recover(w, i, "reduced-motion"), ResumePlayer(w, i),
                            asked, held, ScheduleRestart(asked, i)}
  BY DEF SetMotion
<1>2. Follows(w, asked) BY DEF Follows, Good, Shape, ElementFields, PlayerFields
<1> HIDE DEF asked
<1>3. Follows(asked, held) BY <1>2 DEF Follows, Good, Shape, ElementFields, PlayerFields
<1>4. Follows(asked, ScheduleRestart(asked, i)) BY <1>2, ScheduleRestartFollows DEF Follows
<1> HIDE DEF held
<1> QED BY <1>1, <1>2, <1>3, <1>4, FollowsOn, FollowsSelf, RecoverFollows, ResumePlayerFollows

LEMMA FinishAdoptionFollows == ASSUME NEW w, Good(w) PROVE Follows(w, FinishAdoption(w))
<1> DEFINE observed == [w EXCEPT !.observed = TRUE]
<1>1. Follows(w, observed) BY DEF Follows, Good, Shape, ElementFields
<1>2. Follows(observed, ScheduleReload(observed, FALSE, TRUE))
  BY <1>1, ScheduleReloadFollows DEF Follows
<1>3. FinishAdoption(w) \in {w, ScheduleReload(observed, FALSE, TRUE)} BY DEF FinishAdoption
<1> HIDE DEF observed
<1>4. Follows(w, ScheduleReload(observed, FALSE, TRUE)) BY <1>1, <1>2, FollowsOn
<1> QED BY <1>3, <1>4, FollowsSelf

LEMMA AbandonFollows == ASSUME NEW w, Good(w) PROVE Follows(w, Abandon(w))
<1> DEFINE paused == PausePlayer(w, w.call.player)
           done(x) == [x EXCEPT !.call = NoCall,
                                !.playing = IF w.call.latest THEN w.call.previous ELSE @]
<1>1. Abandon(w) \in {done(w), done(paused)} BY DEF Abandon
<1>2. Follows(w, paused) BY PausePlayerFollows
<1> HIDE DEF paused
<1>3. \A x : Good(x) => Follows(x, done(x)) BY DEF Follows, Good, Shape, ElementFields
<1> HIDE DEF done
<1>4. Good(paused) BY <1>2 DEF Follows
<1> QED BY <1>1, <1>2, <1>3, <1>4, FollowsOn

LEMMA ClearFollows ==
  ASSUME NEW w, Good(w), NEW i PROVE Follows(w, ClearPlayerReferences(w, i))
BY DEF Follows, Good, Shape, ClearPlayerReferences, ElementFields

LEMMA DisposePlayerFollows ==
  ASSUME NEW w, Good(w), NEW i PROVE Follows(w, DisposePlayer(w, i))
BY DEF Follows, Good, Shape, DisposePlayer, ElementFields, PlayerFields

----------------------------------------------------------------------------
(* The inductive invariant: who may have resources, whatever the lane is   *)
(* doing, and what the operation at the head of the lane relies on.        *)
Held(w) ==
  /\ Good(w)
  /\ w.player # 0 => w.retiring = 0
  /\ Only(w, {w.player, w.retiring})
  /\ w.disposal = "done" => w.finalDisposed /\ Only(w, {})

OperationFields == {"step", "player", "hidden", "reduced", "applied", "after", "playback"}

Candidacy == {"reconciling", "installing", "qualifying", "rejecting"}

At(w, o) ==
  /\ DOMAIN o = OperationFields
  /\ o.step # "idle" => w.ops # <<>>
  /\ o.step \in {"retired", "loading", "probing"} => w.retiring = 0 /\ Only(w, {})
  /\ o.step \in Candidacy => o.player # 0 /\ w.player = o.player
  /\ o.step \in {"suspended", "disposing"} =>
       o.player # 0 /\ w.player = 0 /\ w.retiring = o.player

Inv == Held(el) /\ At(el, op)

LEMMA HeldFollows ==
  ASSUME NEW w, NEW v, Held(w), Follows(w, v) PROVE Held(v)
BY RuntimeAssumption DEF Held, Follows, Only, Good, Shape, Players

LEMMA AtFollows ==
  ASSUME NEW w, NEW v, NEW o, At(w, o), Follows(w, v) PROVE At(v, o)
BY RuntimeAssumption DEF At, Follows, Only, Candidacy, Good, Shape, Players

LEMMA InitInv == Init => Inv
<1> SUFFICES ASSUME Init PROVE Inv OBVIOUS
<1>1. el.ops = <<>> /\ el.made = 0 /\ el.player = 0 /\ el.retiring = 0 /\ el.disposal = "none"
  BY DEF Init
<1>2. Shape(el)
  BY RuntimeAssumption DEF Init, Shape, ElementFields, PlayerFields, Made, Players
<1>3. Held(el) BY <1>1, <1>2 DEF Held, Good, Only
<1>4. At(el, op) BY <1>1 DEF Init, Idle, At, OperationFields, Candidacy
<1> QED BY <1>3, <1>4 DEF Inv

(* The operation leaves the lane.                                          *)
LEMMA FinishInv ==
  ASSUME NEW w, Held(w), w.ops # <<>>, NEW ok, Finish(w, ok) PROVE Inv'
<1> DEFINE head == Head(w.ops)
           rest == [w EXCEPT !.ops = Tail(@)]
<1>1. /\ Tail(w.ops) \in Seq(Operations) /\ head \in Operations /\ 1 \in DOMAIN w.ops
      /\ head = w.ops[1]
      /\ \A k \in DOMAIN Tail(w.ops) : k + 1 \in DOMAIN w.ops /\ Tail(w.ops)[k] = w.ops[k + 1]
  BY DEF Held, Good, Shape
<1>2. Good(rest) BY <1>1 DEF Held, Good, Shape, ElementFields
<1>3. Held(rest) BY <1>2 DEF Held, Good, Shape, ElementFields, Only
<1>4. /\ op' = Idle
      /\ \/ el' = Answer(rest, Generation(head.token), IF ok THEN Ready ELSE Broken)
         \/ el' = FinishAdoption(rest)
         \/ head.kind = "disposal" /\ el' = CompleteDisposal(rest, ok)
         \/ el' = rest
  <2>1. head.kind \in {"generation", "retirement", "adoption", "disposal"}
    BY <1>1 DEF Operations
  <2> QED BY <2>1 DEF Finish
<1>5. head.kind = "disposal" => rest.finalDisposed
  BY <1>1 DEF Held, Good, Shape, ElementFields
<1> HIDE DEF rest, head
<1>6. Held(el')
  <2>1. CASE \/ el' = Answer(rest, Generation(head.token), IF ok THEN Ready ELSE Broken)
             \/ el' = FinishAdoption(rest) \/ el' = rest
    BY <1>2, <1>3, <2>1, AnswerFollows, FinishAdoptionFollows, HeldFollows
  <2>2. CASE head.kind = "disposal" /\ el' = CompleteDisposal(rest, ok)
    BY <1>3, <1>5, <2>2 DEF CompleteDisposal, Held, Good, Shape, ElementFields, Only
  <2> QED BY <1>4, <2>1, <2>2
<1>7. At(el', op') BY <1>4 DEF At, Idle, OperationFields, Candidacy
<1> QED BY <1>6, <1>7 DEF Inv

LEMMA BeginRetirementInv ==
  ASSUME NEW w, Held(w), w.ops # <<>>, DOMAIN op = OperationFields, NEW after, NEW playback,
         BeginRetirement(w, after, playback)
  PROVE  Inv'
<1> DEFINE i == IF w.player # 0 THEN w.player ELSE w.retiring
           begun == [w EXCEPT !.controller = "none", !.player = 0, !.retiring = i,
                              !.seen = IF @ = i THEN 0 ELSE @]
<1>1. /\ el' = begun \/ el' = DisposePlayer(begun, i)
      /\ op'.step = IF i = 0 THEN "retired"
                    ELSE IF w.suspending = i THEN "suspended" ELSE "disposing"
      /\ op'.player = i /\ DOMAIN op' = OperationFields
  BY DEF BeginRetirement, OperationFields
<1>2. Good(begun) /\ Held(begun) /\ begun.ops # <<>> /\ begun.player = 0 /\ begun.retiring = i
  BY DEF Held, Good, Shape, ElementFields, Only
<1> HIDE DEF begun, i
<1>3. Follows(begun, el') BY <1>1, <1>2, DisposePlayerFollows, FollowsSelf
<1>4. Held(el') BY <1>2, <1>3, HeldFollows
<1>5. el'.ops # <<>> /\ el'.player = 0 /\ el'.retiring = i BY <1>2, <1>3 DEF Follows
<1>6. i = 0 => Only(el', {}) BY <1>4, <1>5 DEF Held, Good, Shape, Only
<1>7. At(el', op') BY <1>1, <1>5, <1>6 DEF At, Candidacy
<1> QED BY <1>4, <1>7 DEF Inv

LEMMA ConcludeInv ==
  ASSUME NEW w, Held(w), w.ops # <<>>, NEW playback, ConcludeFailure(w, playback) PROVE Inv'
<1>1. Finish(w, FALSE) \/ Finish(PublishTerminal(w), FALSE) BY DEF ConcludeFailure
<1>2. Follows(w, PublishTerminal(w)) BY PublishTerminalFollows DEF Held
<1>3. Held(PublishTerminal(w)) /\ PublishTerminal(w).ops # <<>>
  BY <1>2, HeldFollows DEF Follows
<1> QED BY <1>1, <1>3, FinishInv

LEMMA GenerationFailedInv ==
  ASSUME NEW w, Held(w), w.ops # <<>>, DOMAIN op = OperationFields, NEW playback,
         GenerationFailed(w, playback)
  PROVE  Inv'
<1>1. \/ Finish(w, FALSE) \/ BeginRetirement(w, "conclude", playback)
      \/ ConcludeFailure(w, playback)
  BY DEF GenerationFailed
<1> QED BY <1>1, FinishInv, BeginRetirementInv, ConcludeInv

LEMMA StartupFailedInv ==
  ASSUME NEW w, Held(w), w.ops # <<>>, DOMAIN op = OperationFields, StartupFailed(w)
  PROVE  Inv'
<1>1. Finish(w, FALSE) \/ GenerationFailed(PublishTerminal(w), TRUE) BY DEF StartupFailed
<1>2. Follows(w, PublishTerminal(w)) BY PublishTerminalFollows DEF Held
<1>3. Held(PublishTerminal(w)) /\ PublishTerminal(w).ops # <<>>
  BY <1>2, HeldFollows DEF Follows
<1> QED BY <1>1, <1>3, FinishInv, GenerationFailedInv

LEMMA PublishInv ==
  ASSUME NEW w, Held(w), w.ops # <<>>, NEW i, Publish(w, i) PROVE Inv'
<1> DEFINE live == ~w.p[i].disposed /\ w.p[i].ready # "failed"
           published == [w EXCEPT !.p[i].published = live, !.p[i].restartHeld = FALSE]
<1>1. \/ Finish(w, FALSE) \/ Finish(published, TRUE)
      \/ Finish(ScheduleRestart(published, i), TRUE)
  BY DEF Publish
<1>2. Follows(w, published) BY DEF Held, Follows, Good, Shape, ElementFields, PlayerFields
<1> HIDE DEF published
<1>3. Follows(w, ScheduleRestart(published, i))
  BY <1>2, ScheduleRestartFollows, FollowsOn DEF Follows
<1>4. \A v : Follows(w, v) => Held(v) /\ v.ops # <<>> BY HeldFollows DEF Follows
<1> QED BY <1>1, <1>2, <1>3, <1>4, FinishInv

----------------------------------------------------------------------------
(* The steps of the lane.                                                  *)
LEMMA FollowsInv ==
  ASSUME Inv, Follows(el, el'), At(el, op') PROVE Inv'
BY HeldFollows, AtFollows DEF Inv

LEMMA StartedInv == ASSUME Inv, Started PROVE Inv'
<1>1. \/ Finish(el, FALSE) \/ BeginRetirement(el, "finish", FALSE)
      \/ BeginRetirement(el, "start", FALSE)
  BY DEF Started
<1> QED BY <1>1, FinishInv, BeginRetirementInv DEF Started, Inv, At

LEMMA RetirementProceedsInv == ASSUME Inv, RetirementProceeds PROVE Inv'
<1>1. Follows(el, el') BY DisposePlayerFollows DEF RetirementProceeds, Inv, Held
<1>2. At(el, op') BY DEF RetirementProceeds, Inv, At, OperationFields, Candidacy
<1> QED BY <1>1, <1>2, FollowsInv

LEMMA RetiredInv == ASSUME Inv, Retired PROVE Inv'
<1>1. ConcludeFailure(el, op.playback) \/ Finish(el, op.after = "finish") BY DEF Retired
<1>2. Held(el) /\ el.ops # <<>> BY DEF Retired, Inv, At
<1> QED BY <1>1, <1>2, ConcludeInv, FinishInv

LEMMA GenerationStartsInv == ASSUME Inv, GenerationStarts PROVE Inv'
<1> DEFINE w == [el EXCEPT !.restart = NoRestart, !.controller = "live", !.terminal = FALSE]
<1>1. \/ Finish(el, FALSE) \/ Finish(PublishTerminal(w), FALSE)
      \/ el' = w /\ op' = [Idle EXCEPT !.step = "loading"]
  BY DEF GenerationStarts
<1>2. Held(el) /\ el.ops # <<>> /\ el.retiring = 0 /\ Only(el, {})
  BY DEF GenerationStarts, Inv, At
<1>3. Follows(el, w) BY <1>2 DEF Held, Follows, Good, Shape, ElementFields
<1> HIDE DEF w
<1>4. Follows(w, PublishTerminal(w)) BY <1>3, PublishTerminalFollows DEF Follows
<1>5. CASE Finish(el, FALSE) BY <1>2, <1>5, FinishInv
<1>6. CASE Finish(PublishTerminal(w), FALSE)
  <2>1. Held(PublishTerminal(w)) BY <1>2, <1>3, <1>4, HeldFollows
  <2>2. PublishTerminal(w).ops # <<>> BY <1>2, <1>3, <1>4 DEF Follows
  <2> QED BY <1>6, <2>1, <2>2, FinishInv
<1>7. CASE el' = w /\ op' = [Idle EXCEPT !.step = "loading"]
  <2>1. At(el, op') BY <1>2, <1>7 DEF At, Idle, OperationFields, Candidacy
  <2> QED BY <1>3, <1>7, <2>1, FollowsInv
<1> QED BY <1>1, <1>5, <1>6, <1>7

LEMMA CandidateFailsInv ==
  ASSUME Inv, op.step \in Candidacy, CandidateFails(el, op.player) PROVE Inv'
<1>1. Follows(el, el') BY DisposePlayerFollows DEF CandidateFails, Inv, Held
<1>2. At(el, op') BY DEF CandidateFails, Inv, At, OperationFields, Candidacy
<1> QED BY <1>1, <1>2, FollowsInv

(* A candidate that the session has accepted, on its way to be installed.  *)
LEMMA CompleteInstallationInv ==
  ASSUME NEW w, Held(w), w.ops # <<>>, DOMAIN op = OperationFields, NEW i,
         CompleteInstallation(w, i), w.player = i, i # 0
  PROVE  Inv'
<1>1. Follows(w, el')
  BY DEF CompleteInstallation, Held, Follows, Good, Shape, ElementFields, PlayerFields
<1>2. At(w, op') BY DEF CompleteInstallation, At, OperationFields, Candidacy
<1> QED BY <1>1, <1>2, HeldFollows, AtFollows DEF Inv

LEMMA InstallCandidateInv ==
  ASSUME NEW w, Held(w), w.ops # <<>>, DOMAIN op = OperationFields, NEW i,
         InstallCandidate(w, i), w.player = i, i # 0
  PROVE  Inv'
<1> DEFINE shown == IF w.known THEN VisibilityChanged(w, w.visible) ELSE w
           seen == UpdatePlayback(shown)
<1>1. \/ el' = seen /\ op' = [op EXCEPT !.step = "installing", !.player = i]
      \/ CompleteInstallation(seen, i)
  BY DEF InstallCandidate
<1>2. Follows(w, shown) BY VisibilityChangedFollows, FollowsSelf DEF Held
<1> HIDE DEF shown
<1>3. Follows(w, seen) BY <1>2, UpdatePlaybackFollows, FollowsOn DEF Follows
<1>4. Held(seen) /\ seen.ops # <<>> /\ seen.player = i BY <1>3, HeldFollows DEF Follows
<1> HIDE DEF seen
<1>5. CASE el' = seen /\ op' = [op EXCEPT !.step = "installing", !.player = i]
  <2>1. At(seen, op') BY <1>4, <1>5 DEF At, OperationFields, Candidacy
  <2> QED BY <1>4, <1>5, <2>1 DEF Inv
<1> QED BY <1>1, <1>4, <1>5, CompleteInstallationInv

LEMMA ReconcileMotionInv ==
  ASSUME NEW w, Held(w), w.ops # <<>>, DOMAIN op = OperationFields, NEW i, NEW applied,
         ReconcileMotion(w, i, applied), w.player = i, i # 0
  PROVE  Inv'
<1>1. CASE InstallCandidate(w, i) BY <1>1, InstallCandidateInv
<1>2. CASE /\ el' = SetMotion(w, i)
           /\ op' = [op EXCEPT !.step = "reconciling", !.applied = w.reduced, !.player = i]
  <2>1. Follows(w, el') BY <1>2, SetMotionFollows DEF Held
  <2>2. At(w, op') BY <1>2 DEF At, OperationFields, Candidacy
  <2> QED BY <2>1, <2>2, HeldFollows, AtFollows DEF Inv
<1> QED BY <1>1, <1>2 DEF ReconcileMotion

LEMMA CandidateProbedInv == ASSUME Inv, NEW queued, CandidateProbed(queued) PROVE Inv'
<1> DEFINE i == el.made + 1
           w == AcceptCandidate(el, i, Made(op.hidden, op.reduced, queued))
<1>1. ReconcileMotion(w, i, op.reduced) BY DEF CandidateProbed
<1>2. /\ Held(el) /\ el.ops # <<>> /\ el.retiring = 0 /\ Only(el, {}) /\ el.made < MaxPlayers
      /\ ~el.finalDisposed /\ DOMAIN op = OperationFields
  BY DEF CandidateProbed, Inv, At, Current
<1>3. Good(w) /\ w.player = i /\ w.made = i /\ w.retiring = 0 /\ w.ops # <<>> /\ ~w.finalDisposed
  BY <1>2, RuntimeAssumption
     DEF AcceptCandidate, Made, Held, Good, Shape, ElementFields, PlayerFields, Players
<1>4. \A j \in 1 .. el.made : w.p[j] = el.p[j]
  BY <1>2, RuntimeAssumption DEF AcceptCandidate, Held, Good, Shape, ElementFields, Players
<1>5. w.disposal = el.disposal /\ i \in Nat \ {0}
  BY <1>2 DEF AcceptCandidate, Held, Good, Shape, ElementFields
<1> HIDE DEF w
<1>6. Only(w, {i, 0}) BY <1>2, <1>3, <1>4 DEF Only, Held, Good, Shape
<1>7. Held(w) BY <1>2, <1>3, <1>5, <1>6 DEF Held
<1> HIDE DEF i
<1> QED BY <1>1, <1>2, <1>3, <1>5, <1>7, ReconcileMotionInv

LEMMA MotionReconciledInv == ASSUME Inv, MotionReconciled PROVE Inv'
<1>1. CandidateFails(el, op.player) \/ ReconcileMotion(el, op.player, op.applied)
  BY DEF MotionReconciled
<1>2. /\ op.step \in Candidacy /\ Held(el) /\ el.ops # <<>> /\ DOMAIN op = OperationFields
      /\ el.player = op.player /\ op.player # 0
  BY DEF MotionReconciled, Inv, At, Candidacy
<1> QED BY <1>1, <1>2, CandidateFailsInv, ReconcileMotionInv

LEMMA CandidateSuspendedInv == ASSUME Inv, CandidateSuspended PROVE Inv'
<1>1. CompleteInstallation(el, op.player) \/ CandidateFails(el, op.player)
  BY DEF CandidateSuspended
<1>2. /\ op.step \in Candidacy /\ Held(el) /\ el.ops # <<>> /\ DOMAIN op = OperationFields
      /\ el.player = op.player /\ op.player # 0
  BY DEF CandidateSuspended, Inv, At, Candidacy
<1> QED BY <1>1, <1>2, CandidateFailsInv, CompleteInstallationInv

LEMMA CandidateQualifiedInv == ASSUME Inv, CandidateQualified PROVE Inv'
<1>1. op.step \in Candidacy BY DEF CandidateQualified, Candidacy
<1>2. CASE CandidateFails(el, op.player) BY <1>1, <1>2, CandidateFailsInv
<1>3. CASE UNCHANGED el /\ op' = [op EXCEPT !.step = "created"]
  <2>1. Follows(el, el') BY <1>3, FollowsSelf DEF Inv, Held
  <2>2. At(el, op') BY <1>1, <1>3 DEF Inv, At, OperationFields, Candidacy
  <2> QED BY <2>1, <2>2, FollowsInv
<1> QED BY <1>2, <1>3 DEF CandidateQualified

LEMMA CandidateTimesOutInv == ASSUME Inv, CandidateTimesOut PROVE Inv'
BY CandidateFailsInv DEF CandidateTimesOut, Candidacy

LEMMA CandidateRejectedInv ==
  ASSUME Inv, NEW ok, NEW retry, CandidateRejected(ok, retry) PROVE Inv'
<1> DEFINE i == op.player
           w == IF ok THEN [el EXCEPT !.p[i] = Gone] ELSE el
<1>1. \/ StartupFailed(w)
      \/ ok /\ el' = w /\ op' = [op EXCEPT !.step = "probing"]
  BY DEF CandidateRejected
<1>2. /\ Held(el) /\ el.ops # <<>> /\ DOMAIN op = OperationFields
      /\ el.player = i /\ i # 0 /\ el.retiring = 0
  BY DEF CandidateRejected, Inv, At, Candidacy, Held
<1>3. Follows(el, w)
  BY <1>2 DEF Follows, Held, Good, Shape, ElementFields, PlayerFields, Gone, Made
<1>4. ok => Only(w, {})
  BY <1>2, RuntimeAssumption
     DEF Only, Held, Good, Shape, ElementFields, PlayerFields, Gone, Made, Players
<1> HIDE DEF w, i
<1>5. Held(w) /\ w.ops # <<>> /\ w.retiring = 0 BY <1>2, <1>3, HeldFollows DEF Follows
<1>6. CASE StartupFailed(w) BY <1>2, <1>5, <1>6, StartupFailedInv
<1>7. CASE ok /\ el' = w /\ op' = [op EXCEPT !.step = "probing"]
  <2>1. At(w, op') BY <1>2, <1>4, <1>5, <1>7 DEF At, OperationFields, Candidacy
  <2> QED BY <1>5, <1>7, <2>1 DEF Inv
<1> QED BY <1>1, <1>6, <1>7

LEMMA PlayerRetiredInv == ASSUME Inv, PlayerRetired PROVE Inv'
<1> DEFINE i == op.player
           w == ClearPlayerReferences(el, i)
<1>1. /\ Held(el) /\ el.ops # <<>> /\ DOMAIN op = OperationFields
      /\ el.player = 0 /\ el.retiring = i /\ i # 0
  BY DEF PlayerRetired, Inv, At
<1>2. Follows(el, w) BY <1>1, ClearFollows DEF Held
<1>3. Held(w) BY <1>1, <1>2, HeldFollows
<1>4. w.player = 0 /\ w.retiring = i /\ w.ops # <<>> BY <1>1, <1>2 DEF Follows
<1>5. el' = [w EXCEPT !.retiring = 0, !.p[i] = Gone] /\ op' = [op EXCEPT !.step = "retired"]
  BY DEF PlayerRetired
<1> HIDE DEF w, i
<1>6. Good(el') /\ el'.player = 0 /\ el'.retiring = 0 /\ el'.ops # <<>> /\ el'.disposal = w.disposal
      /\ el'.finalDisposed = w.finalDisposed
  BY <1>3, <1>4, <1>5 DEF Held, Good, Shape, ElementFields, PlayerFields, Gone, Made
<1>7. Only(el', {})
  BY <1>3, <1>4, <1>5, RuntimeAssumption
     DEF Only, Held, Good, Shape, ElementFields, PlayerFields, Gone, Made, Players
<1>8. Held(el') BY <1>3, <1>6, <1>7 DEF Held, Only
<1>9. At(el', op') BY <1>1, <1>5, <1>6, <1>7 DEF At, OperationFields, Candidacy
<1> QED BY <1>8, <1>9 DEF Inv

LEMMA RetirementFailsInv == ASSUME Inv, RetirementFails PROVE Inv'
<1> DEFINE w == ClearPlayerReferences(el, op.player)
<1>1. ConcludeFailure(w, op.playback) \/ Finish(w, FALSE) BY DEF RetirementFails
<1>2. Held(el) /\ el.ops # <<>> BY DEF RetirementFails, Inv, At
<1>3. Follows(el, w) BY <1>2, ClearFollows DEF Held
<1>4. Held(w) /\ w.ops # <<>> BY <1>2, <1>3, HeldFollows DEF Follows
<1> QED BY <1>1, <1>4, ConcludeInv, FinishInv

LEMMA RuntimeLoadedInv == ASSUME Inv, RuntimeLoaded PROVE Inv'
<1>1. Follows(el, el') BY FollowsSelf DEF RuntimeLoaded, Inv, Held
<1>2. At(el, op') BY DEF RuntimeLoaded, Inv, At, OperationFields, Candidacy
<1> QED BY <1>1, <1>2, FollowsInv

LEMMA StartFailsInv == ASSUME Inv, RuntimeFails \/ ProbeFails PROVE Inv'
<1>1. GenerationFailed(el, FALSE) \/ StartupFailed(el) BY DEF RuntimeFails, ProbeFails
<1>2. Held(el) /\ el.ops # <<>> /\ DOMAIN op = OperationFields
  BY DEF RuntimeFails, ProbeFails, Inv, At
<1> QED BY <1>1, <1>2, GenerationFailedInv, StartupFailedInv

LEMMA PlayerCreatedInv == ASSUME Inv, PlayerCreated PROVE Inv'
<1>1. CASE BeginRetirement(el, "abort", FALSE)
  BY <1>1, BeginRetirementInv DEF PlayerCreated, Inv, At
<1>2. CASE /\ op' = [op EXCEPT !.step = IF el.suspending = op.player
                                        THEN "awaiting" ELSE "preparing"]
           /\ UNCHANGED el
  <2>1. Follows(el, el') BY <1>2, FollowsSelf DEF Inv, Held
  <2>2. At(el, op') BY <1>2 DEF PlayerCreated, Inv, At, OperationFields, Candidacy
  <2> QED BY <2>1, <2>2, FollowsInv
<1> QED BY <1>1, <1>2 DEF PlayerCreated

LEMMA PlayerPreparedInv == ASSUME Inv, PlayerPrepared PROVE Inv'
<1> DEFINE i == op.player
           w == [el EXCEPT !.preparing = IF @ = i THEN 0 ELSE @]
<1>1. \/ Finish(w, FALSE) \/ GenerationFailed(w, FALSE)
      \/ GenerationFailed(PublishTerminal(w), TRUE)
      \/ Publish(w, i) \/ Publish(CompleteVisibilitySuspension(w, i), i)
      \/ el' = SuspendForVisibility(w, i) /\ op' = [op EXCEPT !.step = "hiding"]
  BY DEF PlayerPrepared
<1>2. Held(el) /\ el.ops # <<>> /\ DOMAIN op = OperationFields BY DEF PlayerPrepared, Inv, At
<1>3. Follows(el, w) BY <1>2 DEF Held, Follows, Good, Shape, ElementFields
<1> HIDE DEF w
<1>4. /\ Follows(el, PublishTerminal(w)) /\ Follows(el, CompleteVisibilitySuspension(w, i))
      /\ Follows(el, SuspendForVisibility(w, i))
  BY <1>3, PublishTerminalFollows, CompleteFollows, SuspendFollows, FollowsOn DEF Follows
<1>5. \A v : Follows(el, v) => Held(v) /\ v.ops # <<>> BY <1>2, HeldFollows DEF Follows
<1>6. CASE el' = SuspendForVisibility(w, i) /\ op' = [op EXCEPT !.step = "hiding"]
  <2>1. At(el, op') BY <1>2, <1>6 DEF At, OperationFields, Candidacy
  <2> QED BY <1>4, <1>6, <2>1, FollowsInv
<1> QED BY <1>1, <1>2, <1>3, <1>4, <1>5, <1>6, FinishInv, GenerationFailedInv, PublishInv

LEMMA PlayerHiddenInv == ASSUME Inv, PlayerHidden PROVE Inv'
<1>1. Publish(el, op.player) \/ GenerationFailed(el, FALSE) BY DEF PlayerHidden
<1>2. Held(el) /\ el.ops # <<>> /\ DOMAIN op = OperationFields BY DEF PlayerHidden, Inv, At
<1> QED BY <1>1, <1>2, PublishInv, GenerationFailedInv

----------------------------------------------------------------------------
(* Everything else leaves the lane alone.                                  *)
LEMMA PlayerFollows ==
  ASSUME Good(el), NEW i \in 1 .. el.made,
         \/ PlayerResumes(i) \/ MotionSettles(i) \/ RecoveryEnds(i) \/ RecoveryFails(i)
         \/ PlaybackFails(i)
         \/ \E ready \in {"animated", "static", "failed"} : PreparationEnds(i, ready)
  PROVE  Follows(el, el')
<1>1. CASE PlayerResumes(i)
  BY <1>1 DEF PlayerResumes, Follows, Good, Shape, ElementFields, PlayerFields
<1>2. CASE \E ready \in {"animated", "static", "failed"} : PreparationEnds(i, ready)
  <2>1. PICK ready \in {"animated", "static", "failed"} : PreparationEnds(i, ready) BY <1>2
  <2>2. \E gone : /\ el.p[i].retired => gone
                  /\ el' = [el EXCEPT !.p[i].ready = ready, !.p[i].retired = gone]
    BY <2>1, Zenon DEF PreparationEnds
  <2> QED BY <2>2 DEF Follows, Good, Shape, ElementFields, PlayerFields
<1>3. CASE MotionSettles(i)
  <2> DEFINE w == [el EXCEPT !.p[i].moving = FALSE]
  <2>1. el' = w \/ el' = UpdatePlayback(w) BY <1>3 DEF MotionSettles
  <2>2. Follows(el, w) BY DEF Follows, Good, Shape, ElementFields, PlayerFields
  <2> HIDE DEF w
  <2>3. Follows(w, UpdatePlayback(w)) BY <2>2, UpdatePlaybackFollows DEF Follows
  <2> QED BY <2>1, <2>2, <2>3, FollowsOn
<1>4. CASE RecoveryEnds(i)
  <2> DEFINE w == [el EXCEPT !.p[i].recovering = FALSE, !.p[i].ready = "static",
                             !.p[i].retired = TRUE,
                             !.p[i].suspend = IF @ # "pending" THEN @
                                              ELSE IF el.p[i].reason = "visibility-suspended"
                                                   THEN "kept" ELSE "broken"]
             answered == Answer(w, Suspension(i), Ready)
             broken == Answer(w, Suspension(i), Broken)
  <2>1. el' = w \/ el' = CompleteVisibilitySuspension(answered, i) \/ el' = broken
    BY <1>4 DEF RecoveryEnds
  <2>2. Follows(el, w) BY DEF Follows, Good, Shape, ElementFields, PlayerFields
  <2> HIDE DEF w
  <2>3. Follows(w, answered) /\ Follows(w, broken) BY <2>2, AnswerFollows DEF Follows
  <2> HIDE DEF answered, broken
  <2>4. Follows(answered, CompleteVisibilitySuspension(answered, i))
    BY <2>3, CompleteFollows DEF Follows
  <2> QED BY <2>1, <2>2, <2>3, <2>4, FollowsOn
<1>5. CASE RecoveryFails(i)
  <2> DEFINE w == [el EXCEPT !.p[i].recovering = FALSE,
                             !.p[i].ready = IF @ = "pending" THEN "failed" ELSE @,
                             !.p[i].suspend = IF @ = "pending" THEN "broken" ELSE @]
             s == [w EXCEPT !.suspending = IF @ = i THEN 0 ELSE @]
  <2>1. el' = w \/ el' = Answer(s, Suspension(i), Broken) BY <1>5 DEF RecoveryFails
  <2>2. Follows(el, w) BY DEF Follows, Good, Shape, ElementFields, PlayerFields
  <2> HIDE DEF w
  <2>3. Follows(w, s) BY <2>2 DEF Follows, Good, Shape, ElementFields
  <2> HIDE DEF s
  <2>4. Follows(s, Answer(s, Suspension(i), Broken)) BY <2>3, AnswerFollows DEF Follows
  <2> QED BY <2>1, <2>2, <2>3, <2>4, FollowsOn
<1>6. CASE PlaybackFails(i)
  <2> DEFINE w == [el EXCEPT !.p[i].ready = "failed"]
             t == PublishTerminal(w)
             f == [t EXCEPT !.failing = IF el.preparing = i THEN @ ELSE i]
  <2>1. el' = w \/ el' = f BY <1>6 DEF PlaybackFails
  <2>2. Follows(el, w) BY DEF Follows, Good, Shape, ElementFields, PlayerFields
  <2> HIDE DEF w
  <2>3. Follows(w, t) BY <2>2, PublishTerminalFollows DEF Follows
  <2> HIDE DEF t
  <2>4. Follows(t, f) BY <2>3 DEF Follows, Good, Shape, ElementFields
  <2> HIDE DEF f
  <2> QED BY <2>1, <2>2, <2>3, <2>4, FollowsOn
<1> QED BY <1>1, <1>2, <1>3, <1>4, <1>5, <1>6

LEMMA MicrotaskFollows ==
  ASSUME Good(el), ReloadTask \/ FailureTask \/ ResumeEnsured \/ ResumeAnswered
  PROVE  Follows(el, el')
<1>1. CASE ReloadTask
  <2> DEFINE w == [el EXCEPT !.reloadTasks = @ - 1, !.reloadQueued = FALSE,
                             !.reloadReplace = FALSE]
             unasked == [w EXCEPT !.restart = NoRestart]
  <2>1. el' = w \/ el' = unasked \/ el' = Load(w) BY <1>1 DEF ReloadTask
  <2>2. Follows(el, w) BY DEF Follows, Good, Shape, ElementFields
  <2> HIDE DEF w
  <2>3. Follows(w, unasked) BY <2>2 DEF Follows, Good, Shape, ElementFields
  <2>4. Follows(w, Load(w)) BY <2>2, LoadFollows DEF Follows
  <2> HIDE DEF unasked
  <2> QED BY <2>1, <2>2, <2>3, <2>4, FollowsOn
<1>2. CASE FailureTask
  <2> DEFINE w == [el EXCEPT !.failing = 0]
  <2>1. el' = w \/ el' = Enqueue(w, "retirement") BY <1>2 DEF FailureTask
  <2>2. Follows(el, w) BY DEF Follows, Good, Shape, ElementFields
  <2> HIDE DEF w
  <2>3. Follows(w, Enqueue(w, "retirement")) BY <2>2, EnqueueFollows DEF Follows
  <2> QED BY <2>1, <2>2, <2>3, FollowsOn
<1>3. CASE ResumeEnsured
  <2> DEFINE w == [el EXCEPT !.call.step = "resuming", !.call.player = el.player]
             done == [el EXCEPT !.call = NoCall]
  <2>1. el' = Abandon(el) \/ el' = ResumePlayer(w, el.player) \/ el' = done
    BY <1>3 DEF ResumeEnsured
  <2>2. Follows(el, w) /\ Follows(el, done) BY DEF Follows, Good, Shape, ElementFields
  <2> HIDE DEF w, done
  <2>3. Follows(w, ResumePlayer(w, el.player)) BY <2>2, ResumePlayerFollows DEF Follows
  <2> QED BY <2>1, <2>2, <2>3, FollowsOn, AbandonFollows
<1>4. CASE ResumeAnswered
  <2>1. el' = Abandon(el) \/ el' = [el EXCEPT !.call = NoCall] BY <1>4 DEF ResumeAnswered
  <2>2. Follows(el, [el EXCEPT !.call = NoCall]) BY DEF Follows, Good, Shape, ElementFields
  <2> QED BY <2>1, <2>2, AbandonFollows
<1> QED BY <1>1, <1>2, <1>3, <1>4

LEMMA CallFollows ==
  ASSUME Good(el), NEW changed, NEW playing,
         \/ Prepare(changed) \/ Pause(changed) \/ Resume(changed) \/ AutoplayChange(playing)
         \/ MotionChange
  PROVE  Follows(el, el')
<1> DEFINE flushed == FlushSourceMutations(el, changed)
<1>1. Follows(el, flushed) BY FlushFollows
<1>2. CASE Prepare(changed)
  <2>1. el' = Ensure(flushed) BY <1>2 DEF Prepare
  <2> HIDE DEF flushed
  <2>2. Follows(flushed, Ensure(flushed)) BY <1>1, EnsureFollows DEF Follows
  <2> QED BY <1>1, <2>1, <2>2, FollowsOn
<1>3. CASE Pause(changed)
  <2> DEFINE w == [flushed EXCEPT !.playing = FALSE, !.call.latest = FALSE]
  <2>1. el' = w \/ el' = PausePlayer(w, w.player) BY <1>3 DEF Pause
  <2> HIDE DEF flushed
  <2>2. Follows(flushed, w) BY <1>1 DEF Follows, Good, Shape, ElementFields
  <2> HIDE DEF w
  <2>3. Follows(w, PausePlayer(w, w.player)) BY <2>2, PausePlayerFollows DEF Follows
  <2> QED BY <1>1, <2>1, <2>2, <2>3, FollowsOn
<1>4. CASE Resume(changed)
  <2> DEFINE asked == [flushed EXCEPT !.playing = TRUE]
             w == Ensure(asked)
             called(c) == [w EXCEPT !.call = c]
  <2>1. \E c : el' = called(c) BY <1>4 DEF Resume
  <2> HIDE DEF flushed
  <2>2. Follows(flushed, asked) BY <1>1 DEF Follows, Good, Shape, ElementFields
  <2> HIDE DEF asked
  <2>3. Follows(asked, w) BY <2>2, EnsureFollows DEF Follows
  <2> HIDE DEF w
  <2>4. \A c : Follows(w, called(c)) BY <2>3 DEF Follows, Good, Shape, ElementFields
  <2> HIDE DEF called
  <2> QED BY <1>1, <2>1, <2>2, <2>3, <2>4, FollowsOn
<1>5. CASE AutoplayChange(playing)
  <2> DEFINE w == [el EXCEPT !.playing = playing, !.call.latest = FALSE]
  <2>1. el' = UpdatePlayback(w) BY <1>5 DEF AutoplayChange
  <2>2. Follows(el, w) BY DEF Follows, Good, Shape, ElementFields
  <2> HIDE DEF w
  <2>3. Follows(w, UpdatePlayback(w)) BY <2>2, UpdatePlaybackFollows DEF Follows
  <2> QED BY <2>1, <2>2, <2>3, FollowsOn
<1>6. CASE MotionChange
  <2> DEFINE w == [el EXCEPT !.reduced = ~@]
             s == SetMotion(w, w.player)
             moved == [s EXCEPT !.p[w.player].moving = TRUE]
  <2>1. el' = w \/ el' = moved BY <1>6 DEF MotionChange
  <2>2. Follows(el, w) BY DEF Follows, Good, Shape, ElementFields
  <2> HIDE DEF w
  <2>3. Follows(w, s) BY <2>2, SetMotionFollows DEF Follows
  <2> HIDE DEF s
  <2>4. Follows(s, moved) BY <2>3 DEF Follows, Good, Shape, ElementFields, PlayerFields
  <2> HIDE DEF moved
  <2> QED BY <2>1, <2>2, <2>3, <2>4, FollowsOn
<1> QED BY <1>2, <1>3, <1>4, <1>5, <1>6

LEMMA EventFollows ==
  ASSUME Good(el), NEW visible,
         \/ Connect \/ Disconnect \/ Adopt \/ SourceChange \/ FirstSample(visible)
         \/ VisibilityChange \/ PageHide \/ DecoderGranted
  PROVE  Follows(el, el')
<1>1. CASE Connect
  <2> DEFINE w == [el EXCEPT !.connected = TRUE, !.observed = TRUE]
  <2>1. el' = ScheduleReload(w, FALSE, TRUE) BY <1>1 DEF Connect
  <2>2. Follows(el, w) BY DEF Follows, Good, Shape, ElementFields
  <2> HIDE DEF w
  <2>3. Good(w) BY <2>2 DEF Follows
  <2>4. Follows(w, el') BY <2>1, <2>3, ScheduleReloadFollows, Zenon
  <2> QED BY <2>2, <2>4, FollowsOn
<1>2. Follows(el, Unobserved) BY DEF Unobserved, Follows, Good, Shape, ElementFields
<1>3. \A kind \in {"generation", "retirement", "adoption"} : Follows(el, Enqueue(Unobserved, kind))
  BY <1>2, EnqueueFollows, FollowsOn DEF Follows
<1>4. CASE Disconnect
  <2> DEFINE w == Enqueue(Unobserved, "retirement")
  <2>1. el' = [w EXCEPT !.connected = FALSE] BY <1>4 DEF Disconnect
  <2>2. Follows(el, w) BY <1>3
  <2> HIDE DEF w
  <2>3. Follows(w, [w EXCEPT !.connected = FALSE])
    BY <2>2 DEF Follows, Good, Shape, ElementFields
  <2> QED BY <2>1, <2>2, <2>3, FollowsOn
<1>5. CASE Adopt BY <1>3, <1>5 DEF Adopt
<1>6. CASE SourceChange BY <1>6, ScheduleReloadFollows DEF SourceChange
<1>7. CASE FirstSample(visible)
  <2> DEFINE w == [el EXCEPT !.known = TRUE]
  <2>1. el' = VisibilityChanged(w, visible) BY <1>7 DEF FirstSample
  <2>2. Follows(el, w) BY DEF Follows, Good, Shape, ElementFields
  <2> HIDE DEF w
  <2>3. Follows(w, el') BY <2>1, <2>2, VisibilityChangedFollows DEF Follows
  <2> QED BY <2>2, <2>3, FollowsOn
<1>8. CASE VisibilityChange BY <1>8, VisibilityChangedFollows DEF VisibilityChange
<1>9. CASE PageHide
  <2> DEFINE w == VisibilityChanged(el, FALSE)
  <2>1. el' = [w EXCEPT !.frozen = TRUE] BY <1>9 DEF PageHide
  <2>2. Follows(el, w) BY VisibilityChangedFollows
  <2> HIDE DEF w
  <2>3. Follows(w, [w EXCEPT !.frozen = TRUE]) BY <2>2 DEF Follows, Good, Shape, ElementFields
  <2> QED BY <2>1, <2>2, <2>3, FollowsOn
<1>10. CASE DecoderGranted BY <1>10, ScheduleRestartFollows DEF DecoderGranted
<1> QED BY <1>1, <1>4, <1>5, <1>6, <1>7, <1>8, <1>9, <1>10

LEMMA RestoreFollows ==
  ASSUME Good(el), NEW known, RestoreFromPageCache(known) PROVE Follows(el, el')
<1> DEFINE w == [el EXCEPT !.frozen = FALSE, !.visible = el.known,
                           !.restart = IF known THEN Restart(el.player, FALSE) ELSE @]
<1>1. el' = ScheduleReload(w, TRUE, FALSE) BY DEF RestoreFromPageCache
<1>2. Follows(el, w) BY DEF Follows, Good, Shape, ElementFields
<1> HIDE DEF w
<1>3. Good(w) BY <1>2 DEF Follows
<1>4. Follows(w, el') BY <1>1, <1>3, ScheduleReloadFollows, Zenon
<1> QED BY <1>2, <1>4, FollowsOn

(* A disposal is asked for: from now on, the element makes no player.      *)
LEMMA DisposeInv == ASSUME Inv, Dispose, UNCHANGED op PROVE Inv'
<1> DEFINE w == [Unobserved EXCEPT !.connected = FALSE, !.finalDisposed = TRUE,
                                   !.disposal = "pending"]
           o == [kind |-> "disposal", token |-> w.sequence + 1]
<1>1. el' = Enqueue(w, "disposal") BY DEF Dispose
<1>2. Held(w) /\ w.finalDisposed /\ w.disposal = "pending"
  BY DEF Inv, Held, Good, Shape, Unobserved, ElementFields, Only
<1>3. /\ w.made = el.made /\ w.p = el.p /\ w.player = el.player /\ w.retiring = el.retiring
      /\ w.ops = el.ops
  BY DEF Inv, Held, Good, Shape, Unobserved, ElementFields
<1> HIDE DEF w
<1>4. o \in Operations /\ w.ops \in Seq(Operations) BY <1>2 DEF Operations, Held, Good, Shape
<1>5. Append(w.ops, o) \in Seq(Operations) /\ Append(w.ops, o) # <<>> BY <1>4
<1> HIDE DEF o
<1>6. el'.ops = Append(w.ops, o)
  BY <1>1, <1>2 DEF Enqueue, Held, Good, Shape, ElementFields, o
<1>7. /\ Good(el') /\ el'.made = w.made /\ el'.p = w.p /\ el'.player = w.player
      /\ el'.retiring = w.retiring /\ el'.disposal = "pending"
  BY <1>1, <1>2, <1>5, <1>6 DEF Enqueue, Held, Good, Shape, ElementFields
<1>8. Held(el') BY <1>2, <1>7 DEF Held, Only
<1>9. At(el', op') BY <1>3, <1>5, <1>6, <1>7 DEF Inv, At, Only, Candidacy
<1> QED BY <1>8, <1>9 DEF Inv

----------------------------------------------------------------------------
LEMMA NextInv == ASSUME Inv, [Next]_vars PROVE Inv'
<1>0. Good(el) BY DEF Inv, Held
<1>1. ASSUME Follows(el, el'), UNCHANGED op PROVE Inv'
  BY <1>1, FollowsInv DEF Inv
<1>2. CASE Microtask
  BY <1>0, <1>1, <1>2, StartedInv, RetirementProceedsInv, RetiredInv, GenerationStartsInv,
     MotionReconciledInv, CandidateSuspendedInv, CandidateQualifiedInv, PlayerCreatedInv,
     PlayerPreparedInv, PlayerHiddenInv, MicrotaskFollows, PlayerFollows DEF Microtask
<1>3. CASE Completion
  BY <1>0, <1>1, <1>3, PlayerRetiredInv, RetirementFailsInv, RuntimeLoadedInv, StartFailsInv,
     CandidateProbedInv, CandidateTimesOutInv, CandidateRejectedInv, PlayerFollows
     DEF Completion
<1>4. CASE Call /\ UNCHANGED op
  BY <1>0, <1>1, <1>4, CallFollows, DisposeInv DEF Call
<1>5. CASE Event /\ UNCHANGED op
  BY <1>0, <1>1, <1>5, EventFollows DEF Event
<1>6. CASE Appearance /\ UNCHANGED op
  BY <1>0, <1>1, <1>6, EventFollows DEF Appearance
<1>7. CASE \E known \in BOOLEAN : RestoreFromPageCache(known)
  BY <1>0, <1>1, <1>7, RestoreFollows DEF RestoreFromPageCache
<1>8. CASE UNCHANGED vars
  BY <1>0, <1>1, <1>8, FollowsSelf DEF vars
<1>9. CASE Next
  <2>1. \/ Microtask \/ Completion
        \/ (Call \/ Event \/ Appearance) /\ UNCHANGED op
        \/ \E known \in BOOLEAN : RestoreFromPageCache(known)
    <3>1. Advance => Microtask \/ Completion BY DEF Advance
    <3>2. Occur => (Call \/ Event \/ Appearance) /\ UNCHANGED op BY DEF Occur
    <3> QED BY <1>9, <3>1, <3>2 DEF Next
  <2> QED BY <1>2, <1>3, <1>4, <1>5, <1>6, <1>7, <2>1
<1> QED BY <1>8, <1>9

(* A player or the one that is being retired, and never both.              *)
LEMMA InvOnePlayer == Inv => OnePlayer
<1> SUFFICES ASSUME Inv PROVE OnePlayer OBVIOUS
<1>1. \E i : Unproven \subseteq {i}
  BY DEF Inv, Held, Only, Unproven
<1>2. PICK i : Unproven \subseteq {i} BY <1>1
<1>3. Unproven = {} \/ Unproven = {i} BY <1>2
<1>4. Cardinality(Unproven) <= 1
  <2>1. Cardinality({i}) = 1 BY FS_Singleton
  <2>2. Cardinality({}) = 0 BY FS_EmptySet
  <2> QED BY <1>3, <2>1, <2>2
<1>5. el.disposal = "done" => Unproven = {} BY DEF Inv, Held, Only, Unproven
<1> QED BY <1>4, <1>5 DEF OnePlayer

(* However often sources are replaced, elements moved and pages hidden     *)
(* while players are made and retired, at most one has resources, and when *)
(* a disposal is reported nobody has: #startGeneration, retireGeneration   *)
(* and dispose() of element-runtime-session.ts.                            *)
THEOREM OnePlayerHolds == Spec => []OnePlayer
<1>1. Inv /\ [Next]_vars => Inv' BY NextInv
<1> QED BY InitInv, <1>1, InvOnePlayer, PTL DEF Spec


----------------------------------------------------------------------------
(* Of a player whatever it is.                                             *)

Reasons == {"none", "visibility-suspended", "reduced-motion", "decoder-queued"}

IsPlayer(q) ==
  /\ q.reason \in Reasons /\ q.ready \in {"pending", "animated", "static", "failed"}
  /\ q.suspend \in {"no", "pending", "kept", "broken"}
  /\ q.recovering => q.reason # "none"
  /\ q.suspend = "pending" => q.recovering
  /\ q.suspend = "kept" => q.ready = "static"

(* Nobody but the player of the element, and the one that is being         *)
(* retired, has anything to do.                                            *)
Roll(w) ==
  \A i \in Players :
    /\ IsPlayer(w.p[i])
    /\ i \notin {w.player, w.retiring} => ~w.p[i].recovering
    /\ i \notin {w.player, w.retiring} /\ i <= w.made
         => w.p[i].disposed /\ w.p[i].ready = "failed"

CallFields == {"step", "on", "latest", "previous", "player"}

Live(w) == w.controller = "live"

(* Of the element whatever its player is.                                  *)
Basis(w) ==
  /\ w.player \in 0 .. w.made /\ w.retiring \in 0 .. w.made
  /\ w.player # 0 => w.retiring = 0
  /\ w.restart.player \in 0 .. w.made
  /\ w.reloadTasks \in Nat /\ (w.reloadQueued => w.reloadTasks > 0)
  /\ w.reduced \in BOOLEAN /\ (~w.known => ~w.visible)
  /\ DOMAIN w.call = CallFields /\ w.call.player \in 0 .. w.made
  /\ w.call.latest => w.playing
  /\ w.call.step = "ensuring" => w.call.player = 0
  /\ w.call.step = "resuming" => w.call.player # 0
  /\ w.controller \in {"none", "live", "aborted"}
  /\ Live(w) => w.connected /\ ~w.finalDisposed
  /\ w.controller = "none" => w.player = 0

(* Of the player of a generation that is current, until it fails.          *)
Standing(w) ==
  Live(w) /\ w.player # 0 /\ ~w.p[w.player].disposed /\ w.p[w.player].ready # "failed"

(* It is to be replaced, and, after the page was kept in the cache, even   *)
(* if it is not visible.                                                   *)
AskedFor(w) == w.restart.asked /\ w.restart.player = w.player
Restored(w) == AskedFor(w) /\ ~w.restart.visibleOnly

(* resume() has not reached the player yet, and is to be taken back.       *)
Uncertain(w) == w.call.step = "ensuring" /\ w.call.latest /\ ~w.call.previous
Withdrawn(w) == Uncertain(w) /\ w.call.on \in {NoLoad, Broken, Terminal}

Plays(w, q) ==
  /\ q.shown <=> w.visible
  /\ w.visible /\ w.playing /\ ~Uncertain(w) => ~q.paused \/ q.resuming
  /\ w.visible /\ (~w.playing \/ Withdrawn(w)) => q.paused /\ ~q.resuming

Moves(w, q) ==
  /\ q.reason = "none" => ~w.reduced /\ ~q.moving
  /\ q.reason = "reduced-motion" /\ ~w.reduced => q.restartRequested

Hides(w, q) ==
  /\ w.player \in {w.suspended, w.suspending} => q.reason # "none"
  /\ w.suspending = w.player => q.suspend \in {"pending", "broken"}

Waits(q) == q.restartRequested /\ ~q.published => q.restartHeld

(* One that was to be restarted is, and one that was hidden is parked.     *)
Turns(w, q) ==
  q.restartRequested /\ q.published =>
    \/ q.suspend \in {"pending", "broken"} \/ AskedFor(w)
    \/ ~w.visible /\ w.suspended = w.player

Parks(w, q) ==
  /\ q.suspend = "kept" => w.suspended = w.player
  /\ q.published /\ ~w.visible /\ ~Restored(w) =>
       w.suspended = w.player \/ q.suspend \in {"pending", "broken"}

Suits(w, q) ==
  Moves(w, q) /\ Hides(w, q) /\ Waits(q) /\ (q.reason = "none" /\ ~Restored(w) => Plays(w, q))

Fits(w, q) == Suits(w, q) /\ Turns(w, q) /\ Parks(w, q)

Serves(w) ==
  /\ AskedFor(w) => w.reloadQueued /\ w.reloadReplace
  /\ ~w.terminal
  /\ w.call.step = "resuming" => w.call.player = w.player

Fit(w) == Standing(w) => Fits(w, w.p[w.player]) /\ Serves(w)

(* A part of it holds within a step: what was to be is not yet asked for.  *)
Loose(w) == Standing(w) => Suits(w, w.p[w.player]) /\ Serves(w)
Firm(w) == Good(w) /\ Roll(w) /\ Basis(w) /\ Loose(w)

Sound(w) == Good(w) /\ Roll(w) /\ Basis(w) /\ Fit(w)

(* The last operation of the lane is the only one of the latest token.     *)
Dated(w) ==
  \A k \in DOMAIN w.ops :
    w.ops[k].token <= w.sequence /\ (k = Len(w.ops) <=> w.ops[k].token = w.sequence)

(* What is on the lane: n operations have been begun, and a generation     *)
(* that is live is among them, or none is.                                 *)
Lane(w, n) ==
  /\ Live(w) => Len(w.ops) = n /\ (n = 1 => w.ops[1].kind = "generation")
  /\ w.controller = "aborted" => Len(w.ops) > n
  /\ Dated(w)

Stays(w, v) ==
  /\ v.player = w.player /\ v.made = w.made
  /\ \A n \in {0, 1} : Lane(w, n) => Lane(v, n)
  /\ w.ops # <<>> => v.ops # <<>> /\ v.ops[1] = w.ops[1]
  /\ Live(v) => /\ Live(w) /\ v.terminal = w.terminal /\ v.failing = w.failing
                /\ v.preparing = w.preparing /\ (w.known => v.known)
  /\ \A i \in Players :
       /\ v.p[i].disposed = w.p[i].disposed /\ v.p[i].ready = w.p[i].ready
       /\ w.p[i].published => v.p[i].published
       /\ w.p[i].reason # "none" => v.p[i].reason # "none"
       /\ w.p[i].ready = "failed" /\ v.p[i].recovering => w.p[i].recovering

----------------------------------------------------------------------------
(* What is left alone.                                                     *)

SameHost(w, v) ==
  /\ v.connected = w.connected /\ v.visible = w.visible /\ v.playing = w.playing
  /\ v.reduced = w.reduced /\ v.known = w.known /\ v.finalDisposed = w.finalDisposed
  /\ v.preparing = w.preparing /\ v.failing = w.failing /\ v.terminal = w.terminal
SameWho(w, v) == v.player = w.player /\ v.retiring = w.retiring /\ v.made = w.made
SameLane(w, v) == v.controller = w.controller /\ v.sequence = w.sequence /\ v.ops = w.ops
SameSuspension(w, v) == v.suspending = w.suspending /\ v.suspended = w.suspended
SameReload(w, v) ==
  /\ v.restart = w.restart /\ v.reloadQueued = w.reloadQueued
  /\ v.reloadReplace = w.reloadReplace /\ v.reloadTasks = w.reloadTasks

SameStanding(q, r) ==
  /\ r.reason = q.reason /\ r.ready = q.ready /\ r.recovering = q.recovering
  /\ r.suspend = q.suspend /\ r.disposed = q.disposed
SamePlay(q, r) == r.paused = q.paused /\ r.shown = q.shown /\ r.resuming = q.resuming
SameMotion(q, r) ==
  /\ r.moving = q.moving /\ r.published = q.published
  /\ r.restartHeld = q.restartHeld /\ r.restartRequested = q.restartRequested

(* Only the player i is altered.                                           *)
Only1(w, v, i) ==
  /\ Good(v) /\ SameHost(w, v) /\ SameWho(w, v) /\ SameLane(w, v) /\ SameSuspension(w, v)
  /\ SameReload(w, v) /\ v.call = w.call
  /\ \A j \in Players : j # i => v.p[j] = w.p[j]

(* No player is altered, nor where the element is.                         *)
None1(w, v) ==
  /\ Good(v) /\ SameHost(w, v) /\ SameWho(w, v) /\ SameSuspension(w, v) /\ v.p = w.p

LEMMA StaysOn ==
  ASSUME NEW w, NEW v, NEW u, Stays(w, v), Stays(v, u) PROVE Stays(w, u)
BY DEF Stays

LEMMA StaysSelf == ASSUME NEW w PROVE Stays(w, w)
BY DEF Stays

LEMMA StaysStanding ==
  ASSUME NEW w, NEW v, Good(w), Basis(w), Stays(w, v), Standing(v) PROVE Standing(w)
<1>1. w.player # 0 => w.player \in Players
  BY RuntimeAssumption DEF Basis, Good, Shape, Players
<1> QED BY <1>1 DEF Stays, Standing

LEMMA Only1Basis ==
  ASSUME NEW w, NEW v, NEW i, Basis(w), Only1(w, v, i) PROVE Basis(v)
BY DEF Basis, Only1, SameHost, SameWho, SameLane, SameReload, Live

LEMMA Only1Roll ==
  ASSUME NEW w, NEW v, NEW i \in Players, Roll(w), Only1(w, v, i), IsPlayer(v.p[i]),
         i \notin {w.player, w.retiring} =>
           /\ ~v.p[i].recovering
           /\ i <= w.made => v.p[i].disposed /\ v.p[i].ready = "failed"
  PROVE  Roll(v)
BY DEF Roll, Only1, SameWho

LEMMA Only1Stays ==
  ASSUME NEW w, NEW v, NEW i \in Players, Only1(w, v, i),
         v.p[i].disposed = w.p[i].disposed, v.p[i].ready = w.p[i].ready,
         w.p[i].published => v.p[i].published,
         w.p[i].reason # "none" => v.p[i].reason # "none",
         w.p[i].ready = "failed" /\ v.p[i].recovering => w.p[i].recovering
  PROVE  Stays(w, v)
BY DEF Stays, Only1, SameHost, SameWho, SameLane, Lane, Dated, Live

LEMMA Numbers ==
  ASSUME NEW w, Good(w) PROVE \A i \in 1 .. w.made : i \in Players
BY RuntimeAssumption DEF Good, Shape, Players

LEMMA AppendDated ==
  ASSUME NEW w, Good(w), Dated(w), NEW v, NEW o, v.ops = Append(w.ops, o),
         o.token = w.sequence + 1, v.sequence = o.token
  PROVE  Dated(v)
<1>1. w.sequence \in Nat /\ w.ops \in Seq(Operations) BY DEF Good, Shape
<1>2. \A k \in DOMAIN w.ops : w.ops[k].token \in Nat
  <2>1. \A k \in DOMAIN w.ops : w.ops[k] \in Operations BY <1>1
  <2> QED BY <2>1 DEF Operations
<1>3. \A k \in DOMAIN v.ops : \/ k = Len(v.ops) /\ v.ops[k] = o
                              \/ k # Len(v.ops) /\ k \in DOMAIN w.ops /\ v.ops[k] = w.ops[k]
  BY <1>1
<1> QED BY <1>1, <1>2, <1>3 DEF Dated

(* A player that is altered still suits the element.                       *)
LEMMA Only1Sound ==
  ASSUME NEW w, Sound(w), NEW i \in Players, NEW v, Only1(w, v, i), IsPlayer(v.p[i]),
         i \notin {w.player, w.retiring} =>
           /\ ~v.p[i].recovering
           /\ i <= w.made => v.p[i].disposed /\ v.p[i].ready = "failed",
         i = w.player /\ Standing(w) => Fits(w, v.p[i]) \/ ~Standing(v),
         w.p[i].disposed => v.p[i].disposed,
         w.p[i].ready = "failed" => v.p[i].ready = "failed"
  PROVE  Sound(v)
<1>1. Good(v) /\ Basis(v) BY Only1Basis DEF Sound, Only1
<1>2. Roll(v) BY Only1Roll DEF Sound
<1>3. i = w.player /\ Standing(v) => Standing(w) /\ Fits(w, v.p[i])
  BY DEF Standing, Only1, SameWho, SameLane, Live
<1>4. i # w.player /\ Standing(v) => Standing(w) /\ Fits(w, v.p[w.player])
  <2>1. w.player # 0 => w.player \in Players BY Numbers DEF Sound, Basis, Good, Shape
  <2> QED BY <2>1 DEF Sound, Fit, Standing, Only1, SameWho, SameLane, Live
<1>5. \A q : Fits(w, q) => Fits(v, q)
  BY DEF Only1, SameHost, SameWho, SameLane, SameSuspension, SameReload, Serves, Fits, Suits, Turns, Parks,
         Moves, Hides, Plays, AskedFor, Restored, Uncertain, Withdrawn
<1>6. Fit(v)
  BY <1>3, <1>4, <1>5 DEF Sound, Fit, Standing, Only1, SameHost, SameWho, SameReload, AskedFor, Serves
<1> QED BY <1>1, <1>2, <1>6 DEF Sound

----------------------------------------------------------------------------
(* The player is told to pause and to resume.                              *)
LEMMA PauseOnly ==
  ASSUME NEW w, Good(w), NEW i \in Players
  PROVE  LET v == PausePlayer(w, i)
         IN  /\ Only1(w, v, i) /\ SameStanding(w.p[i], v.p[i]) /\ SameMotion(w.p[i], v.p[i])
             /\ v.p[i].paused /\ ~v.p[i].resuming /\ v.p[i].shown = w.p[i].shown
BY DEF PausePlayer, Good, Shape, ElementFields, PlayerFields, Only1, SameHost, SameWho,
       SameLane, SameSuspension, SameReload, SameStanding, SameMotion

LEMMA ResumeOnly ==
  ASSUME NEW w, Good(w), NEW i \in Players
  PROVE  LET v == ResumePlayer(w, i)
         IN  /\ Only1(w, v, i) /\ SameStanding(w.p[i], v.p[i]) /\ SameMotion(w.p[i], v.p[i])
             /\ ~v.p[i].paused \/ v.p[i].resuming
             /\ v.p[i].shown = w.p[i].shown
BY DEF ResumePlayer, Good, Shape, ElementFields, PlayerFields, Only1, SameHost, SameWho,
       SameLane, SameSuspension, SameReload, SameStanding, SameMotion

LEMMA PauseSound ==
  ASSUME NEW w, Sound(w), NEW i \in 1 .. w.made,
         i = w.player /\ Standing(w) /\ w.p[i].reason = "none" => ~w.playing \/ ~w.visible
  PROVE  Sound(PausePlayer(w, i)) /\ Stays(w, PausePlayer(w, i))
<1> DEFINE v == PausePlayer(w, i)
<1>1. i \in Players /\ Good(w) /\ Roll(w) /\ Fit(w)
  BY Numbers DEF Sound
<1>2. Only1(w, v, i) BY <1>1, PauseOnly
<1>3. /\ SameStanding(w.p[i], v.p[i]) /\ SameMotion(w.p[i], v.p[i])
      /\ v.p[i].paused /\ ~v.p[i].resuming /\ v.p[i].shown = w.p[i].shown
  BY <1>1, PauseOnly
<1> HIDE DEF v
<1>4. i = w.player /\ Standing(w) => Fits(w, v.p[i])
  BY <1>1, <1>3 DEF Fit, Serves, Fits, Suits, Turns, Parks, Moves, Hides, Waits, Plays, SameStanding, SameMotion
<1>5. Sound(v) BY <1>1, <1>2, <1>3, <1>4, Only1Sound DEF Roll, IsPlayer, SameStanding
<1>6. Stays(w, v) BY <1>1, <1>2, <1>3, Only1Stays DEF SameStanding, SameMotion
<1> QED BY <1>5, <1>6 DEF v

----------------------------------------------------------------------------
(* What leaves the players alone.                                          *)

(* What is not looked at here: the load, what is seen and observed.        *)
Aside(w, v) == None1(w, v) /\ SameLane(w, v) /\ SameReload(w, v) /\ v.call = w.call

LEMMA AsideSound ==
  ASSUME NEW w, NEW v, Sound(w), Aside(w, v) PROVE Sound(v) /\ Stays(w, v)
<1>1. Roll(v) BY DEF Sound, Roll, Aside, None1, SameWho
<1>2. Basis(v)
  BY DEF Sound, Basis, Aside, None1, SameHost, SameWho, SameLane, SameReload, Live
<1>3. Fit(v)
  BY DEF Sound, Aside, None1, SameHost, SameWho, SameLane, SameSuspension, SameReload, Fit,
         Standing, Live, Serves, Fits, Suits, Turns, Parks, Moves, Hides, Waits, Plays, AskedFor, Restored, Uncertain, Withdrawn
<1>4. Stays(w, v) BY DEF Stays, Aside, None1, SameHost, SameWho, SameLane, Lane, Dated, Live
<1> QED BY <1>1, <1>2, <1>3, <1>4 DEF Sound, Aside, None1

LEMMA EnqueueSound ==
  ASSUME NEW w, Good(w), Roll(w), Basis(w), NEW kind, Good(Enqueue(w, kind))
  PROVE  /\ Sound(Enqueue(w, kind)) /\ Stays(w, Enqueue(w, kind)) /\ ~Live(Enqueue(w, kind))
         /\ None1(w, Enqueue(w, kind)) /\ SameReload(w, Enqueue(w, kind))
<1> DEFINE v == Enqueue(w, kind)
           o == [kind |-> kind, token |-> w.sequence + 1]
<1>2. Good(v) OBVIOUS
<1>3. /\ None1(w, v) /\ SameReload(w, v) /\ v.call = w.call /\ v.ops = Append(w.ops, o)
      /\ v.sequence = o.token
      /\ v.controller = IF w.controller = "live" THEN "aborted" ELSE w.controller
  BY <1>2
     DEF Enqueue, Good, Shape, ElementFields, None1, SameHost, SameWho, SameSuspension, SameReload
<1>4. /\ Len(v.ops) = Len(w.ops) + 1 /\ Len(w.ops) \in Nat /\ v.ops[Len(v.ops)] = o
      /\ w.ops # <<>> => v.ops # <<>> /\ v.ops[1] = w.ops[1]
  <2>1. w.ops \in Seq(Operations) BY DEF Good, Shape
  <2> HIDE DEF v, o
  <2> QED BY <1>3, <2>1, AppendProperties
<1> HIDE DEF v, o
<1>5. ~Live(v) BY <1>3 DEF Live
<1>6. Roll(v) BY <1>3 DEF Roll, None1, SameWho
<1>7. Basis(v)
  BY <1>3 DEF Basis, None1, SameHost, SameWho, SameReload, Live
<1>8. Fit(v) BY <1>5 DEF Fit, Standing
<1>9. Stays(w, v)
  <2>1. \A n \in {0, 1} : Lane(w, n) => Lane(v, n)
    <3>1. o.token = w.sequence + 1 BY DEF o
    <3>2. \A n : Lane(w, n) => Dated(v) BY <1>3, <3>1, AppendDated DEF Lane
    <3> QED BY <1>3, <1>4, <1>5, <3>2 DEF Basis, Lane, Dated, Live
  <2> QED BY <1>3, <1>4, <1>5, <2>1 DEF Stays, None1, SameWho
<1> QED BY <1>2, <1>3, <1>5, <1>6, <1>7, <1>8, <1>9 DEF Sound, v

LEMMA LoadSound ==
  ASSUME NEW w, Good(w), Roll(w), Basis(w)
  PROVE  Sound(Load(w)) /\ Stays(w, Load(w)) /\ ~Live(Load(w)) /\ None1(w, Load(w))
<1> DEFINE u == Enqueue(w, "generation")
<1>1. Sound(u) /\ Stays(w, u) /\ ~Live(u) /\ None1(w, u)
  BY EnqueueSound, EnqueueFollows DEF Follows
<1>2. Good(Load(w)) BY LoadFollows DEF Follows
<1>3. Load(w) = [u EXCEPT !.load = Generation(w.sequence + 1)] BY DEF Load
<1> HIDE DEF u, Load
<1>4. Aside(u, Load(w))
  BY <1>1, <1>2, <1>3 DEF Sound, Good, Shape, ElementFields, Aside, None1, SameHost, SameWho,
                          SameSuspension, SameLane, SameReload
<1>5. Sound(Load(w)) /\ Stays(u, Load(w)) BY <1>1, <1>4, AsideSound
<1> QED BY <1>1, <1>4, <1>5, StaysOn
      DEF Aside, None1, SameHost, SameWho, SameSuspension, SameLane, Live

(* A load is answered: whoever waits for one that fails takes the wish to  *)
(* play back.                                                              *)
LEMMA AnswerSound ==
  ASSUME NEW w, Firm(w), NEW load, NEW outcome \in {Ready, Broken},
         Standing(w) /\ w.p[w.player].reason = "none" => outcome = Ready
  PROVE  /\ Firm(Answer(w, load, outcome)) /\ Stays(w, Answer(w, load, outcome))
         /\ SameWho(w, Answer(w, load, outcome)) /\ Answer(w, load, outcome).p = w.p
         /\ Answer(w, load, outcome).visible = w.visible
         /\ Sound(w) => Sound(Answer(w, load, outcome))
<1> DEFINE v == Answer(w, load, outcome)
<1>1. Good(w) BY DEF Firm
<1>2. Good(v) BY <1>1, AnswerFollows DEF Follows
<1>3. /\ None1(w, v) /\ SameLane(w, v) /\ SameReload(w, v)
      /\ v.call = [w.call EXCEPT !.on = IF @ = load THEN outcome ELSE @]
  BY <1>1, <1>2
     DEF Answer, Good, Shape, ElementFields, None1, SameHost, SameWho, SameSuspension,
         SameLane, SameReload
<1> HIDE DEF v
<1>4. /\ DOMAIN v.call = CallFields
      /\ v.call.step = w.call.step /\ v.call.latest = w.call.latest
      /\ v.call.previous = w.call.previous /\ v.call.player = w.call.player
      /\ v.call.on = IF w.call.on = load THEN outcome ELSE w.call.on
  BY <1>3 DEF Firm, Basis, CallFields
<1>5. Roll(v) BY <1>3 DEF Firm, Roll, None1, SameWho
<1>6. Basis(v)
  BY <1>3, <1>4 DEF Firm, Basis, None1, SameHost, SameWho, SameLane, SameReload, Live
<1>7. Ready \notin {NoLoad, Broken, Terminal} BY DEF Ready, NoLoad, Broken, Terminal
<1>8. Loose(v) /\ (Fit(w) => Fit(v))
  BY <1>3, <1>4, <1>7
     DEF Firm, None1, SameHost, SameWho, SameLane, SameSuspension, SameReload, Fit, Loose,
         Standing, Live, Serves, Fits, Suits, Turns, Parks, Moves, Hides, Waits, Plays,
         AskedFor, Restored, Uncertain, Withdrawn
<1>9. Stays(w, v) BY <1>3 DEF Stays, None1, SameHost, SameWho, SameLane, Lane, Dated, Live
<1> QED BY <1>2, <1>3, <1>5, <1>6, <1>8, <1>9 DEF Sound, Firm, None1, SameHost, v

(* The failure of an element whose player no longer stands.                *)
LEMMA PublishTerminalSound ==
  ASSUME NEW w, Sound(w), ~Standing(w)
  PROVE  /\ Sound(PublishTerminal(w)) /\ SameWho(w, PublishTerminal(w))
         /\ SameLane(w, PublishTerminal(w)) /\ PublishTerminal(w).p = w.p
<1> DEFINE v == PublishTerminal(w)
<1>1. Good(w) BY DEF Sound
<1>2. Good(v) BY <1>1, PublishTerminalFollows DEF Follows
<1>3. /\ SameWho(w, v) /\ SameLane(w, v) /\ SameReload(w, v) /\ v.call = w.call /\ v.p = w.p
      /\ v.connected = w.connected /\ v.finalDisposed = w.finalDisposed
      /\ v.known = w.known /\ v.visible = w.visible /\ v.playing = w.playing
      /\ v.reduced = w.reduced
  BY <1>1 DEF PublishTerminal, Good, Shape, ElementFields, SameWho, SameLane, SameReload
<1> HIDE DEF v
<1>4. Roll(v) BY <1>3 DEF Sound, Roll, SameWho
<1>5. Basis(v) BY <1>3 DEF Sound, Basis, SameWho, SameLane, SameReload, Live
<1>6. Fit(v) BY <1>3 DEF Fit, Standing, SameWho, SameLane, Live
<1> QED BY <1>2, <1>3, <1>4, <1>5, <1>6 DEF Sound, v

LEMMA ReloadSuits ==
  ASSUME NEW w, NEW v, None1(w, v), SameLane(w, v), v.call = w.call
  PROVE  /\ Standing(v) <=> Standing(w)
         /\ \A q : /\ Suits(w, q) /\ (Restored(w) => Restored(v)) => Suits(v, q)
                   /\ Parks(w, q) /\ (Restored(w) => Restored(v)) => Parks(v, q)
                   /\ Turns(w, q) /\ (AskedFor(w) => AskedFor(v)) => Turns(v, q)
<1>1. Standing(v) <=> Standing(w) BY DEF Standing, None1, SameWho, SameLane, Live
<1>2. Withdrawn(v) = Withdrawn(w) /\ Uncertain(v) = Uncertain(w)
  BY DEF Withdrawn, Uncertain
<1>3. \A q : Plays(w, q) => Plays(v, q)
  BY <1>2 DEF Plays, None1, SameHost
<1> QED
  BY <1>1, <1>3 DEF Suits, Parks, Turns, Moves, Hides, None1, SameHost, SameWho, SameSuspension

LEMMA ReloadFit ==
  ASSUME NEW w, NEW v, Fit(w), None1(w, v), SameLane(w, v), v.call = w.call,
         Standing(w) => /\ AskedFor(w) => AskedFor(v)
                        /\ Restored(w) => Restored(v)
                        /\ AskedFor(v) => v.reloadQueued /\ v.reloadReplace
  PROVE  Fit(v)
BY ReloadSuits DEF Fit, Fits, Serves, None1, SameHost, SameWho

(* A reload is asked for, which forgets a restart or not.                  *)
LEMMA ScheduleReloadSound ==
  ASSUME NEW w, Sound(w), NEW replace \in BOOLEAN, NEW reset \in BOOLEAN,
         reset /\ Standing(w) => ~AskedFor(w)
  PROVE  /\ Sound(ScheduleReload(w, replace, reset)) /\ Stays(w, ScheduleReload(w, replace, reset))
         /\ None1(w, ScheduleReload(w, replace, reset))
<1> DEFINE v == ScheduleReload(w, replace, reset)
<1>1. Good(w) /\ w.reloadTasks \in Nat BY DEF Sound, Basis
<1>2. Good(v) BY <1>1, ScheduleReloadFollows DEF Follows
<1>3. /\ None1(w, v) /\ SameLane(w, v) /\ v.call = w.call
      /\ \/ SameReload(w, v)
         \/ /\ v.restart = IF reset THEN NoRestart ELSE w.restart
            /\ v.reloadQueued /\ (w.reloadReplace \/ replace => v.reloadReplace)
            /\ v.reloadTasks = IF w.reloadQueued THEN w.reloadTasks ELSE w.reloadTasks + 1
  BY <1>1, <1>2
     DEF ScheduleReload, Good, Shape, ElementFields, None1, SameHost, SameWho, SameSuspension,
         SameLane, SameReload
<1> HIDE DEF v
<1>4. CASE SameReload(w, v)
  BY <1>3, <1>4, AsideSound DEF Aside, v
<1>5. CASE /\ v.restart = IF reset THEN NoRestart ELSE w.restart
           /\ v.reloadQueued /\ (w.reloadReplace \/ replace => v.reloadReplace)
           /\ v.reloadTasks = IF w.reloadQueued THEN w.reloadTasks ELSE w.reloadTasks + 1
  <2>1. Roll(v) BY <1>3 DEF Sound, Roll, None1, SameWho
  <2>2. v.restart.player \in 0 .. v.made /\ v.reloadTasks \in Nat /\ v.reloadTasks > 0
    BY <1>1, <1>3, <1>5 DEF Sound, Basis, Good, Shape, None1, SameWho, NoRestart
  <2>3. Basis(v)
    BY <1>3, <1>5, <2>2 DEF Sound, Basis, None1, SameHost, SameWho, SameLane, Live
  <2>4. Fit(v)
    <3>1. reset => ~AskedFor(v) BY <1>5 DEF AskedFor, NoRestart
    <3>2. ~reset => (AskedFor(v) <=> AskedFor(w)) /\ (Restored(v) <=> Restored(w))
      BY <1>3, <1>5 DEF AskedFor, Restored, None1, SameWho
    <3>3. Standing(w) => (AskedFor(w) => w.reloadReplace) BY DEF Sound, Fit, Serves
    <3>4. Restored(w) => AskedFor(w) BY DEF Restored
    <3> QED BY <1>3, <1>5, <3>1, <3>2, <3>3, <3>4, ReloadFit DEF Sound
  <2>5. Stays(w, v) BY <1>3 DEF Stays, None1, SameHost, SameWho, SameLane, Lane, Dated, Live
  <2> QED BY <1>2, <1>3, <2>1, <2>3, <2>4, <2>5 DEF Sound, v
<1> QED BY <1>3, <1>4, <1>5

(* The player of a current generation is to be replaced.                   *)
LEMMA ScheduleRestartSound ==
  ASSUME NEW w, Firm(w), NEW i,
         Standing(w) => Parks(w, w.p[w.player]) /\ (i = w.player \/ Turns(w, w.p[w.player]))
  PROVE  /\ Sound(ScheduleRestart(w, i)) /\ Stays(w, ScheduleRestart(w, i))
         /\ None1(w, ScheduleRestart(w, i))
         /\ Live(w) /\ i = w.player /\ i # 0 => AskedFor(ScheduleRestart(w, i))
<1> DEFINE v == ScheduleRestart(w, i)
<1>1. Good(w) /\ w.reloadTasks \in Nat BY DEF Firm, Basis
<1>2. Good(v) BY <1>1, ScheduleRestartFollows DEF Follows
<1>3. CASE v = w
  <2>1. Live(w) /\ i = w.player /\ i # 0 => AskedFor(w)
    <3> SUFFICES ASSUME Live(w), i = w.player, i # 0, ~AskedFor(w) PROVE FALSE OBVIOUS
    <3>1. w.connected /\ ~w.finalDisposed BY DEF Firm, Basis, Live
    <3>2. v.restart = Restart(i, TRUE)
      BY <1>1, <3>1 DEF ScheduleRestart, ScheduleReload, AskedFor, Good, Shape, ElementFields
    <3> QED BY <1>3, <3>2 DEF AskedFor, Restart
  <2>2. None1(w, w) BY <1>1 DEF None1, SameHost, SameWho, SameSuspension
  <2>3. Fit(w) BY <2>1 DEF Fit, Fits, Firm, Loose, Turns, Standing
  <2> QED BY <1>3, <2>1, <2>2, <2>3, StaysSelf DEF Firm, Sound
<1>4. CASE v # w
  <2>1. /\ None1(w, v) /\ SameLane(w, v) /\ v.call = w.call /\ i = w.player /\ ~AskedFor(w)
        /\ v.restart = Restart(i, TRUE) /\ v.reloadQueued /\ v.reloadReplace
        /\ v.reloadTasks = IF w.reloadQueued THEN w.reloadTasks ELSE w.reloadTasks + 1
    BY <1>1, <1>2, <1>4
       DEF ScheduleRestart, ScheduleReload, AskedFor, Good, Shape, ElementFields, None1,
           SameHost, SameWho, SameSuspension, SameLane
  <2> HIDE DEF v
  <2>2. v.restart.asked /\ v.restart.player = i /\ v.restart.visibleOnly
    BY <2>1 DEF Restart
  <2>3. Roll(v) BY <2>1 DEF Firm, Roll, None1, SameWho
  <2>4. v.reloadTasks \in Nat /\ v.reloadTasks > 0 /\ v.restart.player \in 0 .. v.made
    <3>1. /\ w.reloadTasks \in Nat /\ (w.reloadQueued => w.reloadTasks > 0)
          /\ w.player \in 0 .. w.made
      BY DEF Firm, Basis
    <3>2. v.restart.player = w.player /\ v.made = w.made BY <2>1, <2>2 DEF None1, SameWho
    <3>3. v.reloadTasks = IF w.reloadQueued THEN w.reloadTasks ELSE w.reloadTasks + 1 BY <2>1
    <3> QED BY <3>1, <3>2, <3>3
  <2>5. Basis(v)
    <3>1. SameHost(w, v) /\ SameWho(w, v) /\ SameLane(w, v) /\ v.call = w.call
      BY <2>1 DEF None1
    <3> QED BY <2>4, <3>1 DEF Firm, Basis, SameHost, SameWho, SameLane, Live
  <2>6. AskedFor(v) BY <2>1, <2>2 DEF AskedFor, None1, SameWho
  <2>7. Fit(v)
    <3>1. ~Restored(w) BY <2>1 DEF Restored
    <3>2. Standing(v) => Fits(v, w.p[w.player])
      BY <2>1, <2>6, <3>1, ReloadSuits DEF Firm, Loose, Fits, Turns
    <3> QED BY <2>1, <2>6, <3>2, ReloadSuits DEF Firm, Loose, Serves, Fit, None1, SameHost, SameWho
  <2>8. Stays(w, v) BY <2>1 DEF Stays, None1, SameHost, SameWho, SameLane, Lane, Dated, Live
  <2> QED BY <1>2, <2>1, <2>3, <2>5, <2>6, <2>7, <2>8 DEF Sound, v
<1> QED BY <1>3, <1>4

LEMMA FlushSound ==
  ASSUME NEW w, Sound(w), NEW changed \in BOOLEAN
  PROVE  /\ Sound(FlushSourceMutations(w, changed)) /\ Stays(w, FlushSourceMutations(w, changed))
         /\ None1(w, FlushSourceMutations(w, changed))
<1> DEFINE v == [w EXCEPT !.restart = IF changed THEN NoRestart ELSE @,
                          !.reloadQueued = FALSE, !.reloadReplace = FALSE]
<1>1. Good(w) BY DEF Sound
<1>2. /\ None1(w, v) /\ SameLane(w, v) /\ v.call = w.call
      /\ v.restart = IF changed THEN NoRestart ELSE w.restart
      /\ ~v.reloadQueued /\ v.reloadTasks = w.reloadTasks
  BY <1>1 DEF Good, Shape, ElementFields, None1, SameHost, SameWho, SameSuspension, SameLane
<1>3. \/ FlushSourceMutations(w, changed) = w
      \/ FlushSourceMutations(w, changed) = Load(v)
      \/ /\ FlushSourceMutations(w, changed) = v
         /\ ~(changed \/ w.reloadReplace) \/ ~w.connected \/ w.finalDisposed
  BY DEF FlushSourceMutations
<1> HIDE DEF v
<1>4. None1(w, w) BY <1>1 DEF None1, SameHost, SameWho, SameSuspension
<1>5. Roll(v) BY <1>2 DEF Sound, Roll, None1, SameWho
<1>6. Basis(v)
  <2>1. v.restart.player \in 0 .. v.made
    BY <1>1, <1>2 DEF Sound, Basis, Good, Shape, None1, SameWho, NoRestart
  <2> QED BY <1>2, <2>1 DEF Sound, Basis, None1, SameHost, SameWho, SameLane, Live
<1>7. Stays(w, v) BY <1>2 DEF Stays, None1, SameHost, SameWho, SameLane, Lane, Dated, Live
<1>8. CASE /\ FlushSourceMutations(w, changed) = v
           /\ ~(changed \/ w.reloadReplace) \/ ~w.connected \/ w.finalDisposed
  <2>1. Standing(w) => ~changed /\ ~AskedFor(w)
    BY <1>8 DEF Sound, Basis, Fit, Serves, Standing, Live
  <2>2. Standing(w) => ~AskedFor(v) BY <1>2, <2>1 DEF AskedFor, None1, SameWho
  <2>3. Restored(w) => AskedFor(w) BY DEF Restored
  <2>4. Fit(v) BY <1>2, <2>1, <2>2, <2>3, ReloadFit DEF Sound
  <2> QED BY <1>2, <1>5, <1>6, <1>7, <1>8, <2>4 DEF Sound, None1
<1>9. CASE FlushSourceMutations(w, changed) = Load(v)
  <2>1. Good(v) BY <1>2 DEF None1
  <2>2. Sound(Load(v)) /\ Stays(v, Load(v)) /\ None1(v, Load(v)) BY <1>5, <1>6, <2>1, LoadSound
  <2>3. None1(w, Load(v))
    BY <1>2, <2>2 DEF None1, SameHost, SameWho, SameSuspension
  <2> QED BY <1>7, <1>9, <2>2, <2>3, StaysOn
<1> QED BY <1>2, <1>3, <1>4, <1>7, <1>8, <1>9, StaysSelf

LEMMA EnsureSound ==
  ASSUME NEW w, Sound(w) PROVE Sound(Ensure(w)) /\ Stays(w, Ensure(w)) /\ None1(w, Ensure(w))
<1>1. None1(w, w) BY DEF Sound, None1, SameHost, SameWho, SameSuspension
<1> QED BY <1>1, LoadSound, StaysSelf DEF Sound, Ensure

----------------------------------------------------------------------------
(* The player is suspended because the element is hidden.                  *)
LEMMA SuspendSound ==
  ASSUME NEW w, Firm(w), w.player # 0
  PROVE  /\ Sound(SuspendForVisibility(w, w.player)) /\ Stays(w, SuspendForVisibility(w, w.player))
         /\ SameHost(w, SuspendForVisibility(w, w.player))
         /\ SameLane(w, SuspendForVisibility(w, w.player))
         /\ Standing(w) => SuspendForVisibility(w, w.player).p[w.player].reason # "none"
<1> DEFINE i == w.player
           v == SuspendForVisibility(w, i)
<1>1. i \in Players /\ i \in 1 .. w.made /\ Good(w) BY Numbers DEF Firm, Basis, Good, Shape
<1>2. CASE w.suspending = i
  <2>1. v = w BY <1>2 DEF SuspendForVisibility
  <2>2. Standing(w) => w.p[i].suspend \in {"pending", "broken"} /\ w.p[i].reason # "none"
    BY <1>2 DEF Firm, Loose, Suits, Hides
  <2>3. Fit(w) BY <2>2 DEF Firm, Loose, Fit, Fits, Turns, Parks
  <2> QED BY <1>1, <2>1, <2>2, <2>3, StaysSelf DEF Firm, Sound, SameHost, SameLane
<1>3. CASE w.suspending # i /\ (w.p[i].disposed \/ w.p[i].ready = "failed")
  <2>1. /\ Only1(w, v, i) /\ v.p[i].suspend = "broken"
        /\ v.p[i].reason = w.p[i].reason /\ v.p[i].ready = w.p[i].ready
        /\ v.p[i].recovering = w.p[i].recovering /\ v.p[i].disposed = w.p[i].disposed
        /\ v.p[i].published = w.p[i].published
    BY <1>1, <1>3
       DEF SuspendForVisibility, Good, Shape, ElementFields, PlayerFields, Only1, SameHost,
           SameWho, SameLane, SameSuspension, SameReload
  <2>2. ~Standing(w) BY <1>3 DEF Standing
  <2> HIDE DEF v
  <2>3. Stays(w, v) BY <1>1, <2>1, Only1Stays
  <2>4. Roll(v) BY <1>1, <2>1, Only1Roll DEF Firm, Roll, IsPlayer
  <2>5. Basis(v) BY <2>1, Only1Basis DEF Firm
  <2>6. Fit(v) BY <2>1, <2>2 DEF Fit, Standing, Live, Only1, SameWho, SameLane
  <2> QED BY <1>1, <2>1, <2>2, <2>3, <2>4, <2>5, <2>6 DEF Sound, Only1, v
<1>4. CASE w.suspending # i /\ ~(w.p[i].disposed \/ w.p[i].ready = "failed")
  <2>1. /\ Good(v) /\ SameHost(w, v) /\ SameWho(w, v) /\ SameLane(w, v) /\ SameReload(w, v)
        /\ v.call = w.call /\ v.suspending = i /\ v.suspended = w.suspended
        /\ v.p[i].suspend = "pending" /\ v.p[i].recovering
        /\ v.p[i].reason = "visibility-suspended" /\ v.p[i].ready = w.p[i].ready
        /\ v.p[i].disposed = w.p[i].disposed /\ SameMotion(w.p[i], v.p[i])
        /\ \A j \in Players : j # i => v.p[j] = w.p[j]
    BY <1>1, <1>4
       DEF SuspendForVisibility, Recover, Good, Shape, ElementFields, PlayerFields, SameHost,
           SameWho, SameLane, SameReload, SameMotion
  <2> HIDE DEF v
  <2>2. Roll(v) BY <1>1, <2>1 DEF Firm, Roll, IsPlayer, SameWho, Reasons
  <2>3. Basis(v)
    BY <2>1 DEF Firm, Basis, SameHost, SameWho, SameLane, SameReload, Live
  <2>4. Standing(v) => Standing(w) /\ v.player = i
    BY <2>1 DEF Standing, SameWho, SameLane, Live
  <2>5. Fit(v)
    BY <2>1, <2>4 DEF Firm, Loose, Suits, Waits, Fit, Fits, Serves, Moves, Hides, Turns, Parks,
                      AskedFor, SameHost, SameReload, SameMotion
  <2>6. Stays(w, v)
    BY <1>1, <1>4, <2>1 DEF Stays, SameHost, SameWho, SameLane, SameMotion, Lane, Dated, Live
  <2> QED BY <1>1, <2>1, <2>2, <2>3, <2>5, <2>6 DEF Sound, v
<1> QED BY <1>2, <1>3, <1>4

(* Its suspension is complete: it is parked, or to be restarted.           *)
LEMMA CompleteSound ==
  ASSUME NEW w, Good(w), Roll(w), Basis(w), NEW i \in 1 .. w.made,
         i = w.player /\ Standing(w) =>
           w.p[i].reason # "none" /\ Moves(w, w.p[i]) /\ Waits(w.p[i]) /\ Serves(w),
         i # w.player => Fit(w)
  PROVE  /\ Sound(CompleteVisibilitySuspension(w, i))
         /\ Stays(w, CompleteVisibilitySuspension(w, i))
         /\ CompleteVisibilitySuspension(w, i).p = w.p
<1> DEFINE v == [w EXCEPT !.suspending = IF @ = i THEN 0 ELSE @,
                          !.suspended = IF i = w.player THEN i ELSE @]
           u == CompleteVisibilitySuspension(w, i)
<1>1. Good(w) OBVIOUS
<1>2. /\ Good(v) /\ SameHost(w, v) /\ SameWho(w, v) /\ SameLane(w, v) /\ SameReload(w, v)
      /\ v.call = w.call /\ v.p = w.p
      /\ v.suspending = IF w.suspending = i THEN 0 ELSE w.suspending
      /\ v.suspended = IF i = w.player THEN i ELSE w.suspended
  BY <1>1 DEF Good, Shape, ElementFields, SameHost, SameWho, SameLane, SameReload
<1>3. u = IF i = w.player /\ w.visible THEN ScheduleRestart(v, i) ELSE v
  BY DEF CompleteVisibilitySuspension
<1> HIDE DEF v, u
<1>4. i # 0 BY <1>1 DEF Good, Shape
<1>5. Roll(v) BY <1>2 DEF Roll, SameWho
<1>6. Basis(v)
  BY <1>2 DEF Basis, SameHost, SameWho, SameLane, SameReload, Live
<1>7. Standing(v) <=> Standing(w) BY <1>2 DEF Standing, SameWho, SameLane, Live
<1>8. Stays(w, v) BY <1>2 DEF Stays, SameHost, SameWho, SameLane, Lane, Dated, Live
<1>9. AskedFor(v) = AskedFor(w) /\ Restored(v) = Restored(w) /\ Withdrawn(v) = Withdrawn(w)
      /\ Uncertain(v) = Uncertain(w)
  BY <1>2 DEF AskedFor, Restored, Withdrawn, Uncertain, SameReload, SameWho
<1>10. Loose(v)
  <2> SUFFICES ASSUME Standing(v) PROVE Suits(v, w.p[w.player]) /\ Serves(v)
    BY <1>2 DEF Loose, SameWho
  <2>1. /\ w.player # 0 /\ Moves(w, w.p[w.player]) /\ Waits(w.p[w.player]) /\ Serves(w)
        /\ i # w.player => Suits(w, w.p[w.player])
    BY <1>7 DEF Fit, Fits, Suits, Standing
  <2>2. Moves(v, w.p[w.player]) BY <1>2, <2>1 DEF Moves, SameHost
  <2>3. Hides(v, w.p[w.player]) BY <1>2, <1>7, <2>1 DEF Suits, Hides, SameWho
  <2>4. Plays(w, w.p[w.player]) => Plays(v, w.p[w.player])
    BY <1>2, <1>9 DEF Plays, SameHost
  <2>5. Serves(v) BY <1>2, <1>9, <2>1 DEF Serves, SameHost, SameWho, SameReload
  <2>6. v.p[w.player].reason = "none" /\ ~Restored(v) => Plays(v, w.p[w.player])
    BY <1>2, <1>7, <1>9, <2>1, <2>4 DEF Suits
  <2> QED BY <1>2, <2>1, <2>2, <2>3, <2>5, <2>6 DEF Suits
<1>11. i = w.player => (Standing(w) => Parks(v, w.p[i]))
  BY <1>2 DEF Parks, SameWho
<1>12. CASE i = w.player /\ w.visible
  <2>1. Firm(v) BY <1>2, <1>5, <1>6, <1>10 DEF Firm
  <2>2. Sound(u) /\ Stays(v, u) /\ None1(v, u)
    BY <1>2, <1>3, <1>7, <1>11, <1>12, <2>1, ScheduleRestartSound DEF SameWho
  <2> QED BY <1>2, <1>8, <2>2, StaysOn DEF None1, u
<1>13. CASE i = w.player /\ ~w.visible
  <2>1. Fit(v)
    BY <1>2, <1>7, <1>10, <1>11, <1>13 DEF Loose, Fit, Fits, Turns, SameHost, SameWho
  <2> QED BY <1>2, <1>3, <1>5, <1>6, <1>8, <1>13, <2>1 DEF Sound, u
<1>14. CASE i # w.player
  <2>1. Fit(v)
    BY <1>2, <1>7, <1>9, <1>10, <1>14
       DEF Loose, Fit, Fits, Turns, Parks, SameHost, SameWho
  <2> QED BY <1>2, <1>3, <1>5, <1>6, <1>8, <1>14, <2>1 DEF Sound, u
<1> QED BY <1>12, <1>13, <1>14

----------------------------------------------------------------------------
(* Motion and visibility change.                                           *)
LEMMA Only1Player ==
  ASSUME NEW w, Roll(w), Basis(w), w.player \in Players, NEW v, Only1(w, v, w.player),
         IsPlayer(v.p[w.player]),
         Standing(v) => Fits(w, v.p[w.player]) /\ Serves(w)
  PROVE  Sound(v)
<1>1. Basis(v) BY Only1Basis
<1>2. Roll(v) BY Only1Roll
<1>3. AskedFor(v) = AskedFor(w) /\ Restored(v) = Restored(w) /\ Withdrawn(v) = Withdrawn(w)
      /\ Uncertain(v) = Uncertain(w)
  BY DEF AskedFor, Restored, Withdrawn, Uncertain, Only1, SameReload, SameWho
<1>4. \A q : Fits(w, q) => Fits(v, q)
  BY <1>3 DEF Only1, Fits, Suits, Turns, Parks, Moves, Hides, Plays, SameHost, SameWho,
              SameSuspension
<1>5. Serves(w) => Serves(v) BY <1>3 DEF Serves, Only1, SameHost, SameWho, SameReload
<1> QED BY <1>1, <1>2, <1>4, <1>5 DEF Sound, Fit, Only1, SameWho

(* It asks for what motion is to be, and does not wait for an animation.   *)
LEMMA SetMotionSound ==
  ASSUME NEW w, Good(w), Roll(w), Basis(w), w.player # 0,
         Standing(w) =>
           /\ Hides(w, w.p[w.player]) /\ Waits(w.p[w.player]) /\ Turns(w, w.p[w.player])
           /\ Parks(w, w.p[w.player]) /\ Serves(w)
           /\ w.p[w.player].reason # "none" \/ w.reduced
  PROVE  /\ Sound(SetMotion(w, w.player)) /\ Stays(w, SetMotion(w, w.player))
         /\ Standing(w) => SetMotion(w, w.player).p[w.player].reason # "none"
<1> DEFINE i == w.player
           q == w.p[i]
           v == SetMotion(w, i)
           asked == [w EXCEPT !.p[i].restartRequested = TRUE]
           held == [asked EXCEPT !.p[i].restartHeld = TRUE]
<1>1. i \in Players /\ i \in 1 .. w.made BY Numbers DEF Basis, Good, Shape
<1>2. IsPlayer(q) BY <1>1 DEF Roll
<1>3. ASSUME v = w, Standing(w) => Moves(w, q) /\ q.reason # "none" PROVE Sound(w)
  BY <1>3 DEF Sound, Fit, Fits, Suits
<1>4. CASE q.ready = "failed" \/ q.disposed
  <2>1. v = w BY <1>4 DEF SetMotion
  <2>2. ~Standing(w) BY <1>4 DEF Standing
  <2> QED BY <1>3, <2>1, <2>2, StaysSelf
<1>5. CASE ~(q.ready = "failed" \/ q.disposed) /\ w.reduced
  <2>1. CASE q.reason = "reduced-motion" /\ q.retired
    <3>1. v = w BY <1>5, <2>1 DEF SetMotion
    <3> QED BY <1>3, <1>5, <2>1, <3>1, StaysSelf DEF Moves
  <2>2. CASE ~(q.reason = "reduced-motion" /\ q.retired)
    <3>1. v = Recover(w, i, "reduced-motion") BY <1>5, <2>2 DEF SetMotion
    <3>2. /\ Only1(w, v, i) /\ SameMotion(w.p[i], v.p[i])
          /\ v.p[i].ready = w.p[i].ready /\ v.p[i].suspend = w.p[i].suspend
          /\ v.p[i].disposed = w.p[i].disposed /\ v.p[i].reason = "reduced-motion"
          /\ v.p[i].recovering
      BY <1>1, <3>1 DEF Recover, Good, Shape, ElementFields, PlayerFields, Only1, SameHost,
              SameWho, SameLane, SameSuspension, SameReload, SameMotion
    <3> HIDE DEF v
    <3>3. Standing(v) => Standing(w)
      BY <3>2 DEF Standing, Only1, SameWho, SameLane, Live
    <3>4. Standing(v) => Fits(w, v.p[i])
      BY <1>5, <3>2, <3>3 DEF Fits, Suits, Moves, Hides, Waits, Turns, Parks, SameMotion
    <3>5. Sound(v) BY <1>1, <1>2, <3>2, <3>3, <3>4, Only1Player DEF IsPlayer, Reasons
    <3>6. Stays(w, v) BY <1>1, <1>5, <3>2, Only1Stays DEF SameMotion
    <3> QED BY <3>2, <3>5, <3>6 DEF v
  <2> QED BY <2>1, <2>2
<1>6. CASE ~(q.ready = "failed" \/ q.disposed) /\ ~w.reduced /\ q.reason = "reduced-motion"
  <2>1. CASE q.restartRequested
    <3>1. v = w BY <1>6, <2>1 DEF SetMotion
    <3> QED BY <1>3, <1>6, <2>1, <3>1, StaysSelf DEF Moves
  <2>2. /\ Only1(w, asked, i) /\ SameStanding(q, asked.p[i]) /\ SamePlay(q, asked.p[i])
        /\ asked.p[i].restartRequested /\ asked.p[i].published = q.published
        /\ asked.p[i].restartHeld = q.restartHeld /\ asked.p[i].moving = q.moving
    BY <1>1 DEF Good, Shape, ElementFields, PlayerFields, Only1, SameHost,
              SameWho, SameLane, SameSuspension, SameReload, SameStanding, SamePlay
  <2>3. CASE ~q.restartRequested /\ ~q.published
    <3>1. v = held BY <1>6, <2>3 DEF SetMotion
    <3>2. /\ Only1(w, held, i) /\ SameStanding(q, held.p[i])
          /\ held.p[i].restartRequested /\ held.p[i].published = q.published
          /\ held.p[i].restartHeld
      BY <1>1 DEF Good, Shape, ElementFields, PlayerFields, Only1, SameHost,
              SameWho, SameLane, SameSuspension, SameReload, SameStanding
    <3> HIDE DEF held, v, asked
    <3>3. Standing(held) => Standing(w)
      BY <3>2 DEF Standing, Only1, SameWho, SameLane, SameStanding, Live
    <3>4. Standing(held) => Fits(w, held.p[i])
      BY <1>6, <2>3, <3>2, <3>3
         DEF Fits, Suits, Moves, Hides, Waits, Turns, Parks, SameStanding
    <3>5. Sound(held)
      BY <1>1, <1>2, <3>2, <3>3, <3>4, Only1Player DEF IsPlayer, Reasons, SameStanding
    <3>6. Stays(w, held) BY <1>1, <3>2, Only1Stays DEF SameStanding
    <3> QED BY <1>6, <3>1, <3>2, <3>5, <3>6 DEF v, SameStanding
  <2>4. CASE ~q.restartRequested /\ q.published
    <3>1. v = IF Current(w) THEN ScheduleRestart(asked, i) ELSE asked
      BY <1>6, <2>4 DEF SetMotion
    <3> HIDE DEF asked, v
    <3>2. Good(asked) /\ SameWho(w, asked) /\ asked.player = i BY <2>2 DEF Only1, SameWho
    <3>3. Standing(asked) => Standing(w)
      BY <2>2 DEF Standing, Only1, SameWho, SameLane, SameStanding, Live
    <3>4. AskedFor(asked) = AskedFor(w) /\ Restored(asked) = Restored(w)
      BY <2>2 DEF AskedFor, Restored, Only1, SameReload, SameWho
    <3>5. Standing(asked) => Suits(asked, asked.p[i]) /\ Parks(asked, asked.p[i]) /\ Serves(asked)
      <4>1. Standing(w) => Hides(asked, asked.p[i]) /\ Parks(asked, asked.p[i]) /\ Serves(asked)
        BY <2>2, <3>4
           DEF Only1, Hides, Parks, Serves, SameHost, SameWho, SameSuspension, SameReload, SameStanding
      <4>2. Moves(asked, asked.p[i]) /\ Waits(asked.p[i]) /\ asked.p[i].reason # "none"
        BY <1>6, <2>2, <2>4 DEF Moves, Waits, SameStanding
      <4> QED BY <3>3, <4>1, <4>2 DEF Suits
    <3>6. Basis(asked) BY <2>2, Only1Basis
    <3>7. Roll(asked) BY <1>1, <1>2, <2>2, Only1Roll DEF IsPlayer, SameStanding
    <3>8. Firm(asked) BY <3>2, <3>5, <3>6, <3>7 DEF Firm, Loose
    <3>9. Stays(w, asked) BY <1>1, <2>2, Only1Stays DEF SameStanding
    <3>10. CASE Current(w)
      <4>1. Sound(ScheduleRestart(asked, i)) /\ Stays(asked, ScheduleRestart(asked, i))
            /\ None1(asked, ScheduleRestart(asked, i))
        BY <3>2, <3>5, <3>8, ScheduleRestartSound
      <4> QED BY <1>6, <2>2, <3>1, <3>9, <3>10, <4>1, StaysOn DEF v, None1, SameStanding
    <3>11. CASE ~Current(w)
      <4>1. ~Live(asked) BY <2>2, <3>11 DEF Basis, Current, Live, Only1, SameLane
      <4>2. Fit(asked) BY <4>1 DEF Fit, Standing
      <4> QED BY <1>6, <2>2, <3>1, <3>2, <3>6, <3>7, <3>9, <3>11, <4>2 DEF v, Sound, SameStanding
    <3> QED BY <3>10, <3>11
  <2> QED BY <2>1, <2>3, <2>4
<1>7. CASE ~(q.ready = "failed" \/ q.disposed) /\ ~w.reduced /\ q.reason = "none"
  <2>1. v = ResumePlayer(w, i) BY <1>7 DEF SetMotion
  <2>2. Only1(w, v, i) /\ SameStanding(q, v.p[i]) /\ SameMotion(q, v.p[i])
    BY <1>1, <2>1, ResumeOnly
  <2> HIDE DEF v
  <2>3. ~Standing(w) BY <1>7
  <2>4. ~Standing(v)
    BY <2>2, <2>3 DEF Standing, Only1, SameWho, SameLane, SameStanding, Live
  <2>5. Sound(v) BY <1>1, <1>2, <2>2, <2>4, Only1Player DEF IsPlayer, SameStanding
  <2>6. Stays(w, v) BY <1>1, <2>2, Only1Stays DEF SameStanding, SameMotion
  <2> QED BY <2>3, <2>5, <2>6 DEF v
<1>8. CASE ~w.reduced /\ q.reason \notin {"none", "reduced-motion"}
  <2>1. v = w BY <1>8 DEF SetMotion
  <2> QED BY <1>3, <1>8, <2>1, StaysSelf DEF Moves
<1> QED BY <1>4, <1>5, <1>6, <1>7, <1>8

(* What is left of the host while it is shown or hidden.                   *)
SameBut(w, v) ==
  /\ v.connected = w.connected /\ v.playing = w.playing
  /\ v.reduced = w.reduced /\ v.known = w.known /\ v.finalDisposed = w.finalDisposed
  /\ v.preparing = w.preparing /\ v.failing = w.failing /\ v.terminal = w.terminal

(* The element is shown or hidden: its player is told, and suspended or    *)
(* restarted.                                                              *)
LEMMA VisibilityChangedSound ==
  ASSUME NEW w, Good(w), Roll(w), Basis(w), NEW visible, visible => w.known,
         visible = w.visible /\ w.player = w.seen => Fit(w),
         Standing(w) =>
           /\ Moves(w, w.p[w.player]) /\ Hides(w, w.p[w.player]) /\ Waits(w.p[w.player])
           /\ Turns(w, w.p[w.player]) /\ Parks(w, w.p[w.player]) /\ Serves(w)
           /\ visible => w.p[w.player].reason # "none" \/ ~Withdrawn(w)
  PROVE  Sound(VisibilityChanged(w, visible)) /\ Stays(w, VisibilityChanged(w, visible))
<1> DEFINE i == w.player
           v == VisibilityChanged(w, visible)
           seen == [w EXCEPT !.visible = visible, !.seen = i]
           showing == [seen EXCEPT !.p[i].shown = visible]
           told == UpdatePlayback(showing)
           s == SuspendForVisibility(told, i)
           load == IF s.p[i].suspend = "broken" THEN Broken ELSE Suspension(i)
<1>1. CASE visible = w.visible /\ i = w.seen
  <2>1. v = w BY <1>1 DEF VisibilityChanged
  <2> QED BY <1>1, <2>1, StaysSelf DEF Sound
<1>2. CASE ~(visible = w.visible /\ i = w.seen) /\ i = 0
  <2>1. v = seen BY <1>2 DEF VisibilityChanged
  <2>2. /\ Good(seen) /\ SameBut(w, seen) /\ SameWho(w, seen) /\ SameLane(w, seen)
        /\ SameReload(w, seen) /\ seen.visible = visible /\ seen.p = w.p /\ seen.call = w.call
    BY DEF Good, Shape, ElementFields, SameBut, SameWho, SameLane, SameReload
  <2> HIDE DEF seen, v
  <2>3. Roll(seen) BY <2>2 DEF Roll, SameWho
  <2>4. Basis(seen)
    BY <2>2 DEF Basis, SameBut, SameWho, SameLane, SameReload, Live
  <2>5. Fit(seen) BY <1>2, <2>2 DEF Fit, Standing, SameWho
  <2>6. Stays(w, seen) BY <2>2 DEF Stays, SameBut, SameWho, SameLane, Lane, Dated, Live
  <2> QED BY <2>1, <2>2, <2>3, <2>4, <2>5, <2>6 DEF Sound, v
<1>3. CASE ~(visible = w.visible /\ i = w.seen) /\ i # 0
  <2>1. i \in Players /\ i \in 1 .. w.made BY <1>3, Numbers DEF Basis, Good, Shape
  <2>2. /\ Good(told) /\ SameBut(w, told) /\ SameWho(w, told) /\ SameLane(w, told)
        /\ SameReload(w, told) /\ SameSuspension(w, told) /\ told.call = w.call
        /\ told.visible = visible
        /\ \A j \in Players : j # i => told.p[j] = w.p[j]
        /\ SameStanding(w.p[i], told.p[i]) /\ SameMotion(w.p[i], told.p[i])
        /\ told.p[i].shown = visible
        /\ ~w.playing \/ ~visible => told.p[i].paused /\ ~told.p[i].resuming
        /\ w.playing /\ visible /\ i \notin {w.suspended, w.suspending} =>
             ~told.p[i].paused \/ told.p[i].resuming
    <3>1. /\ Good(showing) /\ SameBut(w, showing) /\ SameWho(w, showing) /\ SameLane(w, showing)
          /\ SameReload(w, showing) /\ SameSuspension(w, showing) /\ showing.call = w.call
          /\ showing.visible = visible
          /\ \A j \in Players : j # i => showing.p[j] = w.p[j]
          /\ SameStanding(w.p[i], showing.p[i]) /\ SameMotion(w.p[i], showing.p[i])
          /\ showing.p[i].shown = visible
      BY <2>1 DEF Good, Shape, ElementFields, PlayerFields, SameBut, SameWho, SameLane,
                  SameReload, SameSuspension, SameStanding, SameMotion
    <3> HIDE DEF showing
    <3>2. showing.player = i BY <3>1 DEF SameWho
    <3>3. \/ told = PausePlayer(showing, i) /\ (~w.playing \/ ~visible)
          \/ told = ResumePlayer(showing, i) /\ w.playing /\ visible
          \/ told = showing /\ w.playing /\ visible /\ i \in {w.suspended, w.suspending}
      BY <1>3, <3>1, <3>2 DEF UpdatePlayback, SameBut, SameSuspension
    <3>4. CASE told = showing /\ w.playing /\ visible /\ i \in {w.suspended, w.suspending}
      BY <3>1, <3>4
    <3>5. CASE told = PausePlayer(showing, i) /\ (~w.playing \/ ~visible)
      <4> DEFINE r == PausePlayer(showing, i)
      <4> HIDE DEF told
      <4>0. Only1(showing, r, i) /\ SameStanding(showing.p[i], r.p[i])
            /\ SameMotion(showing.p[i], r.p[i])
            /\ r.p[i].paused /\ ~r.p[i].resuming /\ r.p[i].shown = showing.p[i].shown
        BY <2>1, <3>1, PauseOnly
      <4> HIDE DEF r
      <4>1. told = r BY <3>5 DEF r
      <4>2. /\ Good(told) /\ SameBut(w, told) /\ SameWho(w, told) /\ SameLane(w, told)
            /\ SameReload(w, told) /\ SameSuspension(w, told) /\ told.call = w.call
            /\ told.visible = visible
        BY <3>1, <4>0, <4>1
           DEF Only1, SameHost, SameBut, SameWho, SameLane, SameSuspension, SameReload
      <4>3. \A j \in Players : j # i => told.p[j] = w.p[j] BY <3>1, <4>0, <4>1 DEF Only1
      <4>4. SameStanding(w.p[i], told.p[i]) /\ SameMotion(w.p[i], told.p[i])
        BY <3>1, <4>0, <4>1 DEF SameStanding, SameMotion
      <4> QED BY <3>1, <3>5, <4>0, <4>1, <4>2, <4>3, <4>4
    <3>6. CASE told = ResumePlayer(showing, i) /\ w.playing /\ visible
      <4> DEFINE r == ResumePlayer(showing, i)
      <4> HIDE DEF told
      <4>0. Only1(showing, r, i) /\ SameStanding(showing.p[i], r.p[i])
            /\ SameMotion(showing.p[i], r.p[i])
            /\ (~r.p[i].paused \/ r.p[i].resuming) /\ r.p[i].shown = showing.p[i].shown
        BY <2>1, <3>1, ResumeOnly
      <4> HIDE DEF r
      <4>1. told = r BY <3>6 DEF r
      <4>2. /\ Good(told) /\ SameBut(w, told) /\ SameWho(w, told) /\ SameLane(w, told)
            /\ SameReload(w, told) /\ SameSuspension(w, told) /\ told.call = w.call
            /\ told.visible = visible
        BY <3>1, <4>0, <4>1
           DEF Only1, SameHost, SameBut, SameWho, SameLane, SameSuspension, SameReload
      <4>3. \A j \in Players : j # i => told.p[j] = w.p[j] BY <3>1, <4>0, <4>1 DEF Only1
      <4>4. SameStanding(w.p[i], told.p[i]) /\ SameMotion(w.p[i], told.p[i])
        BY <3>1, <4>0, <4>1 DEF SameStanding, SameMotion
      <4> QED BY <3>1, <3>6, <4>0, <4>1, <4>2, <4>3, <4>4
    <3> QED BY <3>3, <3>4, <3>5, <3>6
  <2>3. /\ v = IF ~visible /\ i \notin {w.suspended, w.suspending} THEN [s EXCEPT !.load = load]
               ELSE IF visible /\ i = w.suspended THEN ScheduleRestart(told, i)
               ELSE told
    BY <1>3 DEF VisibilityChanged
  <2> HIDE DEF told, v
  <2>4. Roll(told)
    BY <2>1, <2>2 DEF Roll, IsPlayer, SameWho, SameStanding
  <2>5. Basis(told)
    BY <2>2 DEF Basis, SameBut, SameWho, SameLane, SameReload, Live
  <2>6. Stays(w, told)
    BY <2>1, <2>2 DEF Stays, SameBut, SameWho, SameLane, Lane, Dated, Live, SameStanding, SameMotion
  <2>7. /\ AskedFor(told) = AskedFor(w) /\ Restored(told) = Restored(w)
        /\ Withdrawn(told) = Withdrawn(w) /\ Uncertain(told) = Uncertain(w)
        /\ told.player = i
    BY <2>2 DEF AskedFor, Restored, Withdrawn, Uncertain, SameReload, SameWho
  <2>8. Standing(told) => Standing(w)
    BY <2>1, <2>2 DEF Standing, SameWho, SameLane, SameStanding, Live
  <2>9. Loose(told)
    <3> SUFFICES ASSUME Standing(told) PROVE Suits(told, told.p[i]) /\ Serves(told)
      BY <2>7 DEF Loose
    <3>1. Moves(told, told.p[i]) /\ Hides(told, told.p[i]) /\ Waits(told.p[i])
      BY <2>2, <2>8
         DEF Moves, Hides, Waits, SameBut, SameWho, SameSuspension, SameStanding, SameMotion
    <3>2. Serves(told) BY <2>2, <2>7, <2>8 DEF Serves, SameBut, SameReload
    <3>3. told.p[i].reason = "none" => /\ i \notin {w.suspended, w.suspending}
                                       /\ visible => ~Withdrawn(w)
      BY <2>2, <2>8 DEF Hides, SameStanding
    <3>4. told.p[i].reason = "none" => Plays(told, told.p[i])
      BY <2>2, <2>7, <3>3 DEF Plays, SameBut
    <3> QED BY <3>1, <3>2, <3>4 DEF Suits
  <2>10. Firm(told) BY <2>2, <2>4, <2>5, <2>9 DEF Firm
  <2>11. CASE ~visible /\ i \notin {w.suspended, w.suspending}
    <3>1. Sound(s) /\ Stays(told, s) BY <1>3, <2>7, <2>10, SuspendSound
    <3>2. v = [s EXCEPT !.load = load] BY <2>3, <2>11
    <3> HIDE DEF s
    <3>3. Good(s) BY <3>1 DEF Sound
    <3>4. Aside(s, v)
      BY <3>2, <3>3 DEF Good, Shape, ElementFields, Aside, None1, SameHost, SameWho,
                        SameSuspension, SameLane, SameReload
    <3>5. Sound(v) /\ Stays(s, v) BY <3>1, <3>4, AsideSound
    <3> QED BY <2>6, <3>1, <3>5, StaysOn DEF v
  <2>12. CASE visible /\ i = w.suspended
    <3>1. v = ScheduleRestart(told, i) BY <2>3, <2>12
    <3>2. Parks(told, told.p[i])
      BY <2>2, <2>7, <2>12 DEF Parks, SameSuspension
    <3>3. Sound(v) /\ Stays(told, v)
      BY <2>7, <2>10, <3>1, <3>2, ScheduleRestartSound
    <3> QED BY <2>6, <3>3, StaysOn DEF v
  <2>13. CASE visible /\ i # w.suspended
    <3>1. v = told BY <2>3, <2>13
    <3>2. Standing(told) => Turns(told, told.p[i]) /\ Parks(told, told.p[i])
      BY <2>2, <2>7, <2>8, <2>13
         DEF Turns, Parks, SameBut, SameSuspension, SameStanding, SameMotion
    <3>3. Fit(told) BY <2>7, <2>9, <3>2 DEF Loose, Fit, Fits
    <3> QED BY <2>2, <2>4, <2>5, <2>6, <3>1, <3>3 DEF Sound, v
  <2>14. CASE ~visible /\ i \in {w.suspended, w.suspending}
    <3>1. v = told BY <2>3, <2>14
    <3>2. Standing(told) => Turns(told, told.p[i]) /\ Parks(told, told.p[i])
      BY <2>2, <2>7, <2>8, <2>14
         DEF Turns, Parks, Hides, SameBut, SameSuspension, SameStanding, SameMotion
    <3>3. Fit(told) BY <2>7, <2>9, <3>2 DEF Loose, Fit, Fits
    <3> QED BY <2>2, <2>4, <2>5, <2>6, <3>1, <3>3 DEF Sound, v
  <2> QED BY <2>11, <2>12, <2>13, <2>14
<1> QED BY <1>1, <1>2, <1>3

----------------------------------------------------------------------------
(* Playing is asked for and taken back.                                    *)
Waived(w, v) ==
  /\ Good(v) /\ SameWho(w, v) /\ SameLane(w, v) /\ SameSuspension(w, v) /\ SameReload(w, v)
  /\ v.connected = w.connected /\ v.visible = w.visible
  /\ v.reduced = w.reduced /\ v.finalDisposed = w.finalDisposed
  /\ v.preparing = w.preparing /\ v.failing = w.failing /\ v.terminal = w.terminal
  /\ v.p = w.p /\ (w.known => v.known)

(* Whose call it is.                                                       *)
Called(w, c) ==
  /\ DOMAIN c = CallFields /\ c.player \in 0 .. w.made
  /\ c.latest => w.playing
  /\ c.step = "ensuring" => c.player = 0
  /\ c.step = "resuming" => c.player # 0 /\ (Standing(w) => c.player = w.player)

(* All but how it plays.                                                   *)
Stilled(w) ==
  LET q == w.p[w.player]
  IN  Standing(w) =>
        /\ Moves(w, q) /\ Hides(w, q) /\ Waits(q) /\ Turns(w, q) /\ Parks(w, q) /\ Serves(w)

LEMMA WaivedStilled ==
  ASSUME NEW w, Sound(w), NEW v, Waived(w, v), Called(v, v.call)
  PROVE  /\ Roll(v) /\ Basis(v) /\ Stays(w, v) /\ Stilled(v)
         /\ Standing(v) <=> Standing(w)
         /\ Restored(v) <=> Restored(w)
<1>1. Standing(v) <=> Standing(w) BY DEF Standing, Waived, SameWho, SameLane, Live
<1>2. AskedFor(v) = AskedFor(w) /\ Restored(v) = Restored(w)
  BY DEF AskedFor, Restored, Waived, SameReload, SameWho
<1>3. Roll(v) BY DEF Sound, Roll, Waived, SameWho
<1>4. Basis(v)
  BY DEF Sound, Basis, Called, Waived, SameWho, SameLane, SameReload, Live
<1>5. Stays(w, v) BY DEF Stays, Waived, SameWho, SameLane, Lane, Dated, Live
<1>6. Standing(w) => Moves(v, w.p[w.player]) /\ Hides(v, w.p[w.player])
  BY DEF Sound, Fit, Fits, Suits, Moves, Hides, Waived, SameWho, SameSuspension
<1>7. Standing(w) => /\ Waits(w.p[w.player]) /\ Turns(v, w.p[w.player])
                     /\ Parks(v, w.p[w.player])
  BY <1>2 DEF Sound, Fit, Fits, Suits, Turns, Parks, Waived, SameWho, SameSuspension
<1>8. Standing(w) => Serves(v)
  BY <1>1, <1>2 DEF Sound, Fit, Serves, Called, Waived, SameWho, SameReload
<1>9. Stilled(v) BY <1>1, <1>6, <1>7, <1>8 DEF Stilled, Waived, SameWho
<1> QED BY <1>1, <1>2, <1>3, <1>4, <1>5, <1>9

(* Nobody is told, and it plays as is asked for.                           *)
LEMMA WaivedSound ==
  ASSUME NEW w, Sound(w), NEW v, Waived(w, v), Called(v, v.call),
         Standing(w) /\ w.p[w.player].reason = "none" /\ ~Restored(w) => Plays(v, w.p[w.player])
  PROVE  Sound(v) /\ Stays(w, v)
<1>1. /\ Roll(v) /\ Basis(v) /\ Stays(w, v) /\ Stilled(v)
      /\ Standing(v) <=> Standing(w)
      /\ Restored(v) <=> Restored(w)
  BY WaivedStilled
<1>2. Fit(v) BY <1>1 DEF Stilled, Fit, Fits, Suits, Waived, SameWho
<1> QED BY <1>1, <1>2 DEF Sound, Waived

(* The player is told to play as is asked for.                             *)
LEMMA UpdatePlaybackSound ==
  ASSUME NEW w, Good(w), Roll(w), Basis(w), Stilled(w),
         Standing(w) /\ w.p[w.player].reason = "none" =>
           ~Withdrawn(w) /\ (~Restored(w) => (w.p[w.player].shown <=> w.visible))
  PROVE  Sound(UpdatePlayback(w)) /\ Stays(w, UpdatePlayback(w))
<1> DEFINE i == w.player
           q == w.p[i]
           v == UpdatePlayback(w)
<1>1. CASE i = 0
  <2>1. v = w BY <1>1 DEF UpdatePlayback
  <2> QED BY <1>1, <2>1, StaysSelf DEF Sound, Fit, Standing
<1>2. CASE i # 0 /\ w.playing /\ w.visible /\ i \in {w.suspended, w.suspending}
  <2>1. v = w BY <1>2 DEF UpdatePlayback
  <2>2. Fit(w) BY <1>2 DEF Stilled, Fit, Fits, Suits, Hides
  <2> QED BY <2>1, <2>2, StaysSelf DEF Sound
<1>3. CASE i # 0 /\ (~w.playing \/ ~w.visible)
  <2>1. v = PausePlayer(w, i) BY <1>3 DEF UpdatePlayback
  <2>2. i \in Players BY <1>3, Numbers DEF Basis, Good, Shape
  <2> HIDE DEF v
  <2>3. /\ Only1(w, v, i) /\ SameStanding(q, v.p[i]) /\ SameMotion(q, v.p[i])
        /\ v.p[i].paused /\ ~v.p[i].resuming /\ v.p[i].shown = q.shown
    BY <2>1, <2>2, PauseOnly
  <2>4. Standing(v) => Standing(w)
    BY <2>3 DEF Standing, Only1, SameWho, SameLane, SameStanding, Live
  <2>5. Standing(v) /\ v.p[i].reason = "none" /\ ~Restored(w) => Plays(w, v.p[i])
    BY <1>3, <2>3, <2>4 DEF Plays, SameStanding
  <2>6. Standing(v) => /\ Moves(w, v.p[i]) /\ Hides(w, v.p[i]) /\ Waits(v.p[i])
                       /\ Turns(w, v.p[i]) /\ Parks(w, v.p[i]) /\ Serves(w)
    BY <2>3, <2>4 DEF Stilled, Moves, Hides, Waits, Turns, Parks, SameStanding, SameMotion
  <2>7. IsPlayer(v.p[i]) BY <2>2, <2>3 DEF Roll, IsPlayer, SameStanding
  <2>8. Sound(v) BY <2>2, <2>3, <2>5, <2>6, <2>7, Only1Player DEF Fits, Suits
  <2>9. Stays(w, v) BY <2>2, <2>3, Only1Stays DEF SameStanding, SameMotion
  <2> QED BY <2>8, <2>9 DEF v
<1>4. CASE i # 0 /\ w.playing /\ w.visible /\ i \notin {w.suspended, w.suspending}
  <2>1. v = ResumePlayer(w, i) BY <1>4 DEF UpdatePlayback
  <2>2. i \in Players BY <1>4, Numbers DEF Basis, Good, Shape
  <2> HIDE DEF v
  <2>3. /\ Only1(w, v, i) /\ SameStanding(q, v.p[i]) /\ SameMotion(q, v.p[i])
        /\ (~v.p[i].paused \/ v.p[i].resuming) /\ v.p[i].shown = q.shown
    BY <2>1, <2>2, ResumeOnly
  <2>4. Standing(v) => Standing(w)
    BY <2>3 DEF Standing, Only1, SameWho, SameLane, SameStanding, Live
  <2>5. Standing(v) /\ v.p[i].reason = "none" /\ ~Restored(w) => Plays(w, v.p[i])
    BY <1>4, <2>3, <2>4 DEF Plays, SameStanding
  <2>6. Standing(v) => /\ Moves(w, v.p[i]) /\ Hides(w, v.p[i]) /\ Waits(v.p[i])
                       /\ Turns(w, v.p[i]) /\ Parks(w, v.p[i]) /\ Serves(w)
    BY <2>3, <2>4 DEF Stilled, Moves, Hides, Waits, Turns, Parks, SameStanding, SameMotion
  <2>7. IsPlayer(v.p[i]) BY <2>2, <2>3 DEF Roll, IsPlayer, SameStanding
  <2>8. Sound(v) BY <2>2, <2>3, <2>5, <2>6, <2>7, Only1Player DEF Fits, Suits
  <2>9. Stays(w, v) BY <2>2, <2>3, Only1Stays DEF SameStanding, SameMotion
  <2> QED BY <2>8, <2>9 DEF v
<1> QED BY <1>1, <1>2, <1>3, <1>4

----------------------------------------------------------------------------
(* The microtasks of the session.                                          *)
LEMMA ReloadTaskSound ==
  ASSUME Sound(el), ReloadTask PROVE Sound(el') /\ Stays(el, el')
<1> DEFINE w == [el EXCEPT !.reloadTasks = @ - 1, !.reloadQueued = FALSE, !.reloadReplace = FALSE]
           u == [w EXCEPT !.restart = NoRestart]
<1>1. /\ el.reloadTasks > 0
      /\ el' = IF ~el.connected \/ el.finalDisposed THEN w
               ELSE IF el.restart.asked /\ el.restart.visibleOnly /\ ~el.visible THEN u
               ELSE IF ~el.reloadReplace /\ el.load # NoLoad THEN w
               ELSE Load(w)
  BY DEF ReloadTask
<1>2. Good(el) /\ Roll(el) /\ Basis(el) /\ Fit(el) BY DEF Sound
<1>3. /\ None1(el, w) /\ SameLane(el, w) /\ w.call = el.call /\ w.restart = el.restart
      /\ ~w.reloadQueued /\ w.reloadTasks = el.reloadTasks - 1
      /\ None1(el, u) /\ SameLane(el, u) /\ u.call = el.call /\ u.restart = NoRestart
      /\ ~u.reloadQueued /\ u.reloadTasks = el.reloadTasks - 1
  BY <1>2 DEF Good, Shape, ElementFields, None1, SameHost, SameWho, SameSuspension, SameLane
<1> HIDE DEF w, u
<1>4. el.reloadTasks - 1 \in Nat BY <1>1, <1>2 DEF Basis
<1>5. Roll(w) /\ Roll(u) BY <1>2, <1>3 DEF Roll, None1, SameWho
<1>6. Basis(w)
  BY <1>2, <1>3, <1>4 DEF Basis, None1, SameHost, SameWho, SameLane, Live
<1>7. Basis(u)
  <2>1. u.restart.player \in 0 .. u.made
    BY <1>2, <1>3 DEF Good, Shape, None1, SameWho, NoRestart
  <2> QED BY <1>2, <1>3, <1>4, <2>1 DEF Basis, None1, SameHost, SameWho, SameLane, Live
<1>8. Stays(el, w) /\ Stays(el, u)
  BY <1>3 DEF Stays, None1, SameHost, SameWho, SameLane, Lane, Dated, Live
<1>9. CASE el' = Load(w)
  <2>1. Good(w) BY <1>3 DEF None1
  <2>2. Sound(Load(w)) /\ Stays(w, Load(w)) BY <1>5, <1>6, <2>1, LoadSound
  <2> QED BY <1>8, <1>9, <2>2, StaysOn
<1>10. CASE el' = w /\ (~el.connected \/ el.finalDisposed \/ ~el.reloadReplace)
  <2>1. Standing(el) => ~AskedFor(el)
    BY <1>2, <1>10 DEF Basis, Fit, Serves, Standing, Live
  <2>2. AskedFor(w) => AskedFor(el) BY <1>3 DEF AskedFor, None1, SameWho
  <2>3. Restored(el) => AskedFor(el) BY DEF Restored
  <2>4. Fit(w) BY <1>2, <1>3, <2>1, <2>2, <2>3, ReloadFit
  <2> QED BY <1>3, <1>5, <1>6, <1>8, <1>10, <2>4 DEF Sound, None1
<1>11. CASE el' = u /\ el.restart.visibleOnly /\ ~el.visible
  <2>1. ~AskedFor(u) /\ ~Restored(u) /\ ~Restored(el)
    BY <1>3, <1>11 DEF AskedFor, Restored, NoRestart
  <2>2. Standing(u) => Standing(el) BY <1>3, ReloadSuits
  <2>3. Standing(u) => Suits(u, el.p[el.player]) /\ Parks(u, el.p[el.player])
    BY <1>2, <1>3, <2>1, <2>2, ReloadSuits DEF Fit, Fits
  <2>4. Standing(u) => Turns(u, el.p[el.player])
    BY <1>2, <1>3, <1>11, <2>1, <2>2 DEF Fit, Fits, Parks, Turns, None1, SameHost, SameWho, SameSuspension
  <2>5. Fit(u)
    BY <1>2, <1>3, <2>1, <2>2, <2>3, <2>4 DEF Fit, Fits, Serves, None1, SameHost, SameWho
  <2> QED BY <1>3, <1>5, <1>7, <1>8, <1>11, <2>5 DEF Sound, None1
<1> QED BY <1>1, <1>9, <1>10, <1>11

(* What resume() does once the load that it waited for is answered.        *)
LEMMA ResumeEnsuredSound ==
  ASSUME Sound(el), ResumeEnsured PROVE Sound(el') /\ Stays(el, el')
<1> DEFINE c == el.call
           i == el.player
           done == [el EXCEPT !.call = NoCall]
           w == [el EXCEPT !.call.step = "resuming", !.call.player = i]
<1>1. Good(el) /\ Roll(el) /\ Basis(el) /\ Fit(el) BY DEF Sound
<1>2. c.step = "ensuring" /\ c.player = 0 /\ c.on \in Settled
  BY <1>1 DEF ResumeEnsured, Basis
<1>3. Called(el, NoCall) /\ ~NoCall.latest /\ NoCall.step = "none"
  BY <1>1 DEF Called, NoCall, CallFields, Good, Shape
<1>4. CASE c.on # Ready \/ el.terminal \/ ~c.latest \/ ~el.playing \/ i = 0
  <2> DEFINE v == [el EXCEPT !.call = NoCall, !.playing = IF c.latest THEN c.previous ELSE @]
  <2>1. el' = v BY <1>2, <1>4 DEF ResumeEnsured, Abandon
  <2>2. Waived(el, v) /\ v.call = NoCall /\ v.playing = IF c.latest THEN c.previous ELSE el.playing
    BY <1>1 DEF Good, Shape, ElementFields, Waived, SameWho, SameLane, SameSuspension, SameReload
  <2> HIDE DEF v
  <2>3. Called(v, v.call) BY <1>1, <2>2 DEF Called, NoCall, CallFields, Good, Shape, Waived
  <2>4. ASSUME Standing(el), el.p[i].reason = "none", ~Restored(el) PROVE Plays(v, el.p[i])
    <3>1. Plays(el, el.p[i]) /\ ~el.terminal /\ i # 0
      BY <1>1, <2>4 DEF Fit, Fits, Suits, Serves, Standing
    <3>2. ~Uncertain(v) /\ ~Withdrawn(v) BY <1>3, <2>2 DEF Uncertain, Withdrawn
    <3>3. v.visible = el.visible BY <2>2 DEF Waived
    <3>4. CASE c.latest
      <4>1. el.playing /\ c.on \in {NoLoad, Broken, Terminal}
        BY <1>1, <1>2, <1>4, <3>1, <3>4 DEF Basis, Settled
      <4>2. ~c.previous => Withdrawn(el)
        BY <1>2, <3>4, <4>1 DEF Withdrawn, Uncertain
      <4>3. c.previous => ~Uncertain(el) BY DEF Uncertain
      <4> QED BY <2>2, <3>1, <3>2, <3>3, <3>4, <4>1, <4>2, <4>3 DEF Plays
    <3>5. CASE ~c.latest
      <4>1. ~Uncertain(el) BY <3>5 DEF Uncertain
      <4> QED BY <2>2, <3>1, <3>2, <3>3, <3>5, <4>1 DEF Plays
    <3> QED BY <3>4, <3>5
  <2> QED BY <2>1, <2>2, <2>3, <2>4, WaivedSound
<1>5. CASE /\ ~(c.on # Ready \/ el.terminal \/ ~c.latest \/ ~el.playing \/ i = 0)
           /\ ~(el.visible /\ i \notin {el.suspended, el.suspending})
  <2>1. el' = done BY <1>5 DEF ResumeEnsured
  <2>2. Waived(el, done) /\ done.call = NoCall /\ done.playing = el.playing
    BY <1>1 DEF Good, Shape, ElementFields, Waived, SameWho, SameLane, SameSuspension, SameReload
  <2> HIDE DEF done
  <2>3. Called(done, done.call) BY <1>1, <2>2 DEF Called, NoCall, CallFields, Good, Shape, Waived
  <2>4. ASSUME Standing(el), el.p[i].reason = "none", ~Restored(el) PROVE Plays(done, el.p[i])
    <3>1. Plays(el, el.p[i]) /\ Hides(el, el.p[i]) BY <1>1, <2>4 DEF Fit, Fits, Suits
    <3>2. ~el.visible BY <1>5, <2>4, <3>1 DEF Hides
    <3> QED BY <2>2, <3>1, <3>2 DEF Plays, Waived
  <2> QED BY <2>1, <2>2, <2>3, <2>4, WaivedSound
<1>6. CASE /\ ~(c.on # Ready \/ el.terminal \/ ~c.latest \/ ~el.playing \/ i = 0)
           /\ el.visible /\ i \notin {el.suspended, el.suspending}
  <2>1. el' = ResumePlayer(w, i) BY <1>6 DEF ResumeEnsured
  <2>2. Waived(el, w) /\ w.playing = el.playing /\ w.call = [c EXCEPT !.step = "resuming", !.player = i]
    BY <1>1 DEF Good, Shape, ElementFields, Waived, SameWho, SameLane, SameSuspension, SameReload
  <2> HIDE DEF w
  <2>3. DOMAIN w.call = CallFields /\ w.call.step = "resuming" /\ w.call.player = i
        /\ w.call.latest = c.latest
    BY <1>1, <2>2 DEF Basis, CallFields
  <2>4. Called(w, w.call)
    BY <1>1, <1>6, <2>2, <2>3 DEF Called, Basis, Waived, SameWho
  <2>5. Roll(w) /\ Basis(w) /\ Stays(el, w) /\ Stilled(w)
    BY <2>2, <2>4, WaivedStilled
  <2>6. ~Withdrawn(w) BY <2>3 DEF Withdrawn, Uncertain
  <2>7. Standing(w) /\ w.p[w.player].reason = "none" =>
          (~Restored(w) => (w.p[w.player].shown <=> w.visible))
    <3>1. (Standing(w) <=> Standing(el)) /\ (Restored(w) <=> Restored(el))
      BY <2>2, <2>4, WaivedStilled
    <3> QED BY <1>1, <2>2, <3>1 DEF Fit, Fits, Suits, Plays, Waived, SameWho
  <2>8. el' = UpdatePlayback(w)
    BY <1>6, <2>1, <2>2 DEF UpdatePlayback, Waived, SameWho, SameSuspension
  <2>9. Sound(el') /\ Stays(w, el')
    BY <2>2, <2>5, <2>6, <2>7, <2>8, UpdatePlaybackSound DEF Waived
  <2> QED BY <2>5, <2>9, StaysOn
<1> QED BY <1>4, <1>5, <1>6

(* What resume() does once the player has answered.                        *)
LEMMA ResumeAnsweredSound ==
  ASSUME Sound(el), ResumeAnswered PROVE Sound(el') /\ Stays(el, el')
<1> DEFINE c == el.call
           i == c.player
           q == el.p[i]
           done == [el EXCEPT !.call = NoCall]
<1>1. Good(el) /\ Roll(el) /\ Basis(el) /\ Fit(el) BY DEF Sound
<1>2. /\ c.step = "resuming" /\ ResumeSettled(q)
      /\ i \in Players /\ i \in 1 .. el.made
      /\ ~Uncertain(el) /\ ~Withdrawn(el)
  BY <1>1, Numbers DEF ResumeAnswered, Basis, Good, Shape, Uncertain, Withdrawn
<1>3. Standing(el) => i = el.player BY <1>1, <1>2 DEF Fit, Serves
<1>4. CASE el' = done
  <2>1. Waived(el, done) /\ done.call = NoCall /\ done.playing = el.playing
    BY <1>1 DEF Good, Shape, ElementFields, Waived, SameWho, SameLane, SameSuspension, SameReload
  <2> HIDE DEF done
  <2>2. Called(done, done.call) BY <1>1, <2>1 DEF Called, NoCall, CallFields, Good, Shape, Waived
  <2>3. ~Uncertain(done) /\ ~Withdrawn(done) BY <2>1 DEF Uncertain, Withdrawn, NoCall
  <2>4. Plays(el, el.p[el.player]) => Plays(done, el.p[el.player])
    BY <1>2, <2>1, <2>3 DEF Plays, Waived
  <2> QED BY <1>1, <1>4, <2>1, <2>2, <2>4, WaivedSound DEF Fit, Fits, Suits
<1>5. CASE /\ el' = Abandon(el)
           /\ \/ q.ready \in {"failed", "pending"} /\ q.installed
              \/ el.terminal \/ ~c.latest \/ ~el.playing \/ ~el.visible
              \/ i # el.player \/ i \in {el.suspended, el.suspending}
  <2> DEFINE undone == \/ c.latest \/ i # el.player \/ ~el.playing
                       \/ ~el.visible \/ i \in {el.suspended, el.suspending}
             w == IF undone THEN PausePlayer(el, i) ELSE el
             v == [w EXCEPT !.call = NoCall, !.playing = IF c.latest THEN c.previous ELSE @]
  <2>1. el' = v
    <3>1. i # 0 BY <1>1, <1>2 DEF Good, Shape
    <3> QED BY <1>5, <3>1 DEF Abandon
  <2>2. ASSUME Standing(el), q.reason = "none" PROVE ~el.visible \/ ~c.latest
    <3>1. i = el.player /\ ~el.terminal /\ Hides(el, q) /\ q.ready # "failed" /\ ~q.disposed
      BY <1>1, <1>3, <2>2 DEF Fit, Fits, Suits, Serves, Standing
    <3>2. i \notin {el.suspended, el.suspending} BY <2>2, <3>1 DEF Hides
    <3>3. ~(q.ready = "pending" /\ q.installed) BY <1>2, <3>1 DEF ResumeSettled
    <3>4. c.latest => el.playing BY <1>1 DEF Basis
    <3> QED BY <1>5, <3>1, <3>2, <3>3, <3>4
  <2>3. /\ Sound(w) /\ Stays(el, w) /\ w.call = el.call /\ w.playing = el.playing
        /\ w.visible = el.visible /\ w.player = el.player
        /\ Standing(w) => Standing(el) /\ w.p[w.player].reason = q.reason
    <3>1. CASE ~undone
      <4>1. w = el BY <3>1
      <4> QED BY <1>3, <4>1, StaysSelf
    <3>2. CASE undone
      <4>1. w = PausePlayer(el, i) BY <3>2
      <4>2. i = el.player /\ Standing(el) /\ q.reason = "none" => ~el.playing \/ ~el.visible
        <5>1. i = el.player /\ Standing(el) => Hides(el, q) BY <1>1 DEF Fit, Fits, Suits
        <5> QED BY <2>2, <3>2, <5>1 DEF Hides
      <4>3. Sound(PausePlayer(el, i)) /\ Stays(el, PausePlayer(el, i))
        BY <1>2, <4>2, PauseSound
      <4>4. Only1(el, PausePlayer(el, i), i) /\ SameStanding(q, PausePlayer(el, i).p[i])
        BY <1>1, <1>2, PauseOnly
      <4> HIDE DEF w
      <4>5. Only1(el, w, i) /\ SameStanding(q, w.p[i]) BY <4>1, <4>4
      <4>6. w.call = el.call /\ SameHost(el, w) /\ SameWho(el, w) /\ SameLane(el, w)
        BY <4>5 DEF Only1
      <4>7. \A j \in Players : w.p[j].disposed = el.p[j].disposed /\ w.p[j].ready = el.p[j].ready
        BY <4>5 DEF Only1, SameStanding
      <4>8. el.player # 0 => el.player \in Players BY <1>1, Numbers DEF Basis, Good, Shape
      <4>9. Standing(w) => Standing(el)
        BY <4>6, <4>7, <4>8 DEF Standing, SameWho, SameLane, Live
      <4> QED BY <1>3, <4>1, <4>3, <4>5, <4>6, <4>9 DEF SameHost, SameWho, SameStanding
    <3> QED BY <3>1, <3>2
  <2> HIDE DEF w
  <2>4. /\ Waived(w, v) /\ v.call = NoCall
        /\ v.playing = IF c.latest THEN c.previous ELSE w.playing
    BY <2>3 DEF Sound, Good, Shape, ElementFields, Waived, SameWho, SameLane, SameSuspension, SameReload
  <2> HIDE DEF v
  <2>5. Called(v, v.call)
    BY <2>3, <2>4 DEF Sound, Called, NoCall, CallFields, Good, Shape, Waived
  <2>6. ASSUME Standing(w), w.p[w.player].reason = "none", ~Restored(w)
        PROVE  Plays(v, w.p[w.player])
    <3>1. Plays(w, w.p[w.player]) BY <2>3, <2>6 DEF Sound, Fit, Fits, Suits
    <3>2. ~w.visible \/ ~c.latest BY <2>2, <2>3, <2>6
    <3>3. /\ ~Uncertain(v) /\ ~Withdrawn(v) /\ ~Uncertain(w)
      BY <1>2, <2>3, <2>4 DEF Uncertain, Withdrawn, NoCall
    <3>4. v.visible = w.visible BY <2>4 DEF Waived
    <3> QED BY <2>4, <3>1, <3>2, <3>3, <3>4 DEF Plays
  <2>7. Sound(v) /\ Stays(w, v) BY <2>3, <2>4, <2>5, <2>6, WaivedSound
  <2> QED BY <2>1, <2>3, <2>7, StaysOn
<1> QED BY <1>4, <1>5 DEF ResumeAnswered

(* A resume() or a setMotion() that the player was told ends.              *)
LEMMA PlayerResumesSound ==
  ASSUME Sound(el), NEW i \in 1 .. el.made, PlayerResumes(i) PROVE Sound(el') /\ Stays(el, el')
<1> DEFINE q == el.p[i]
           still == q.paused /\ q.ready = "failed"
<1>1. /\ Good(el) /\ Roll(el) /\ Basis(el) /\ Fit(el) /\ i \in Players
      /\ q.resuming
      /\ el' = [el EXCEPT !.p[i].resuming = FALSE, !.p[i].paused = still]
      /\ q.ready # "failed" => ~still
  BY Numbers DEF Sound, PlayerResumes
<1> HIDE DEF still
<1>2. /\ Only1(el, el', i) /\ SameStanding(q, el'.p[i]) /\ SameMotion(q, el'.p[i])
      /\ q.ready # "failed" => ~el'.p[i].paused
      /\ el'.p[i].shown = q.shown
  BY <1>1 DEF Good, Shape, ElementFields, PlayerFields, Only1, SameHost, SameWho,
              SameLane, SameSuspension, SameReload, SameStanding, SameMotion
<1>3. i = el.player /\ Standing(el) => Fits(el, el'.p[i])
  <2> SUFFICES ASSUME i = el.player, Standing(el) PROVE Fits(el, el'.p[i]) OBVIOUS
  <2>1. Fits(el, q) /\ q.ready # "failed" BY <1>1 DEF Fit, Standing
  <2>2. Plays(el, q) => Plays(el, el'.p[i]) BY <1>1, <1>2, <2>1 DEF Plays
  <2> QED BY <1>2, <2>1, <2>2 DEF Fits, Suits, Moves, Hides, Waits, Turns, Parks, SameStanding, SameMotion
<1>4. IsPlayer(el'.p[i]) BY <1>1, <1>2 DEF Roll, IsPlayer, SameStanding
<1>5. Sound(el') BY <1>1, <1>2, <1>3, <1>4, Only1Sound DEF Roll, SameStanding
<1>6. Stays(el, el') BY <1>1, <1>2, Only1Stays DEF SameStanding, SameMotion
<1> QED BY <1>5, <1>6

LEMMA MotionSettlesSound ==
  ASSUME Sound(el), NEW i \in 1 .. el.made, MotionSettles(i) PROVE Sound(el') /\ Stays(el, el')
<1> DEFINE q == el.p[i]
           w == [el EXCEPT !.p[i].moving = FALSE]
<1>1. /\ Good(el) /\ Roll(el) /\ Basis(el) /\ Fit(el) /\ i \in Players /\ q.moving
      /\ el' = IF i = el.player /\ q.ready # "failed" THEN UpdatePlayback(w) ELSE w
  BY Numbers DEF Sound, MotionSettles
<1>2. /\ Only1(el, w, i) /\ SameStanding(q, w.p[i]) /\ SamePlay(q, w.p[i])
      /\ ~w.p[i].moving /\ w.p[i].published = q.published
      /\ w.p[i].restartHeld = q.restartHeld /\ w.p[i].restartRequested = q.restartRequested
  BY <1>1 DEF Good, Shape, ElementFields, PlayerFields, Only1, SameHost, SameWho,
              SameLane, SameSuspension, SameReload, SameStanding, SamePlay
<1> HIDE DEF w
<1>3. i = el.player /\ Standing(el) => Fits(el, w.p[i]) /\ q.reason # "none"
  <2> SUFFICES ASSUME i = el.player, Standing(el)
               PROVE  Fits(el, w.p[i]) /\ q.reason # "none"
    OBVIOUS
  <2>1. Fits(el, q) BY <1>1 DEF Fit
  <2>2. q.reason # "none" BY <1>1, <2>1 DEF Fits, Suits, Moves
  <2> QED BY <1>2, <2>1, <2>2 DEF Fits, Suits, Moves, Hides, Waits, Turns, Parks, SameStanding
<1>4. IsPlayer(w.p[i]) BY <1>1, <1>2 DEF Roll, IsPlayer, SameStanding
<1>5. Sound(w) BY <1>1, <1>2, <1>3, <1>4, Only1Sound DEF Roll, SameStanding
<1>6. Stays(el, w) BY <1>1, <1>2, Only1Stays DEF SameStanding
<1>7. i = el.player => Sound(UpdatePlayback(w)) /\ Stays(w, UpdatePlayback(w))
  <2> SUFFICES ASSUME i = el.player PROVE Sound(UpdatePlayback(w)) /\ Stays(w, UpdatePlayback(w))
    OBVIOUS
  <2>1. w.player = i BY <1>2 DEF Only1, SameWho
  <2>2. Standing(w) => Standing(el) BY <1>2, <2>1 DEF Standing, Only1, SameLane, SameStanding, Live
  <2>3. Standing(w) => w.p[w.player].reason # "none" BY <1>2, <1>3, <2>1, <2>2 DEF SameStanding
  <2>4. Stilled(w) BY <1>5 DEF Stilled, Sound, Fit, Fits, Suits
  <2> QED BY <1>5, <2>3, <2>4, UpdatePlaybackSound DEF Sound
<1> QED BY <1>1, <1>5, <1>6, <1>7, StaysOn

----------------------------------------------------------------------------
(* Calls of the application.                                               *)
LEMMA PrepareSound ==
  ASSUME Sound(el), NEW changed \in BOOLEAN, Prepare(changed)
  PROVE  Sound(el') /\ Stays(el, el')
<1> DEFINE f == FlushSourceMutations(el, changed)
<1>1. Sound(f) /\ Stays(el, f) BY FlushSound
<1>2. el' = Ensure(f) BY DEF Prepare
<1> HIDE DEF f
<1>3. Sound(el') /\ Stays(f, el') BY <1>1, <1>2, EnsureSound
<1> QED BY <1>1, <1>3, StaysOn

LEMMA PauseCallSound ==
  ASSUME Sound(el), NEW changed \in BOOLEAN, Pause(changed)
  PROVE  Sound(el') /\ Stays(el, el')
<1> DEFINE f == FlushSourceMutations(el, changed)
           w == [f EXCEPT !.playing = FALSE, !.call.latest = FALSE]
<1>1. Sound(f) /\ Stays(el, f) BY FlushSound
<1>2. el' = IF w.player = 0 THEN w ELSE PausePlayer(w, w.player) BY DEF Pause
<1> HIDE DEF f
<1>3. Waived(f, w) /\ ~w.playing /\ w.call = [f.call EXCEPT !.latest = FALSE]
  BY <1>1 DEF Sound, Good, Shape, ElementFields, Waived, SameWho, SameLane, SameSuspension, SameReload
<1> HIDE DEF w
<1>4. /\ DOMAIN w.call = CallFields /\ ~w.call.latest /\ w.call.step = f.call.step
      /\ w.call.player = f.call.player
  BY <1>1, <1>3 DEF Sound, Basis, CallFields
<1>5. Standing(w) => Standing(f) /\ Serves(f)
  BY <1>1, <1>3 DEF Sound, Fit, Standing, Waived, SameWho, SameLane, Live
<1>6. Called(w, w.call)
  BY <1>1, <1>3, <1>4, <1>5 DEF Sound, Basis, Serves, Called, Waived, SameWho
<1>7. /\ Good(w) /\ Roll(w) /\ Basis(w) /\ Stays(f, w) /\ Stilled(w)
      /\ Standing(w) <=> Standing(f)
      /\ Restored(w) <=> Restored(f)
  BY <1>1, <1>3, <1>6, WaivedStilled DEF Waived
<1>8. ~Withdrawn(w) BY <1>4 DEF Withdrawn, Uncertain
<1>9. Standing(w) /\ w.p[w.player].reason = "none" /\ ~Restored(w) =>
        (w.p[w.player].shown <=> w.visible)
  BY <1>1, <1>3, <1>7 DEF Sound, Fit, Fits, Suits, Plays, Waived, SameWho
<1>10. el' = UpdatePlayback(w) BY <1>2, <1>3 DEF UpdatePlayback
<1>11. Sound(el') /\ Stays(w, el') BY <1>7, <1>8, <1>9, <1>10, UpdatePlaybackSound
<1> QED BY <1>1, <1>7, <1>11, StaysOn

LEMMA AutoplaySound ==
  ASSUME Sound(el), NEW playing \in BOOLEAN, AutoplayChange(playing)
  PROVE  Sound(el') /\ Stays(el, el')
<1> DEFINE w == [el EXCEPT !.playing = playing, !.call.latest = FALSE]
<1>1. el' = UpdatePlayback(w) BY DEF AutoplayChange
<1>3. Waived(el, w) /\ w.call = [el.call EXCEPT !.latest = FALSE]
  BY DEF Sound, Good, Shape, ElementFields, Waived, SameWho, SameLane, SameSuspension, SameReload
<1> HIDE DEF w
<1>4. /\ DOMAIN w.call = CallFields /\ ~w.call.latest /\ w.call.step = el.call.step
      /\ w.call.player = el.call.player
  BY <1>3 DEF Sound, Basis, CallFields
<1>5. Standing(w) => Standing(el) /\ Serves(el)
  BY <1>3 DEF Sound, Fit, Standing, Waived, SameWho, SameLane, Live
<1>6. Called(w, w.call)
  BY <1>3, <1>4, <1>5 DEF Sound, Basis, Serves, Called, Waived, SameWho
<1>7. /\ Good(w) /\ Roll(w) /\ Basis(w) /\ Stays(el, w) /\ Stilled(w)
      /\ Standing(w) <=> Standing(el)
      /\ Restored(w) <=> Restored(el)
  BY <1>3, <1>6, WaivedStilled DEF Waived
<1>8. ~Withdrawn(w) BY <1>4 DEF Withdrawn, Uncertain
<1>9. Standing(w) /\ w.p[w.player].reason = "none" /\ ~Restored(w) =>
        (w.p[w.player].shown <=> w.visible)
  BY <1>3, <1>7 DEF Sound, Fit, Fits, Suits, Plays, Waived, SameWho
<1>10. Sound(el') /\ Stays(w, el') BY <1>1, <1>7, <1>8, <1>9, UpdatePlaybackSound
<1> QED BY <1>7, <1>10, StaysOn

LEMMA ResumeCallSound ==
  ASSUME Sound(el), NEW changed \in BOOLEAN, Resume(changed)
  PROVE  Sound(el') /\ Stays(el, el')
<1> DEFINE f == FlushSourceMutations(el, changed)
           u == [f EXCEPT !.playing = TRUE]
           w == Ensure(u)
           c == [step |-> "ensuring", on |-> w.load, latest |-> TRUE,
                 previous |-> el.playing, player |-> 0]
<1>1. Sound(f) /\ Stays(el, f) /\ None1(el, f) BY FlushSound
<1>2. el' = [w EXCEPT !.call = c] /\ el.call.step = "none" BY DEF Resume
<1>3. f.call = el.call
  BY DEF FlushSourceMutations, Load, Enqueue, Sound, Good, Shape, ElementFields
<1> HIDE DEF f
<1>4. Waived(f, u) /\ u.playing /\ u.call = f.call /\ u.load = f.load
  BY <1>1 DEF Sound, Good, Shape, ElementFields, Waived, SameWho, SameLane, SameSuspension, SameReload
<1> HIDE DEF u
<1>5. Called(u, u.call)
  BY <1>1, <1>2, <1>3, <1>4 DEF Sound, Basis, Called, Waived, SameWho
<1>6. Good(u) /\ Roll(u) /\ Basis(u) /\ Stays(f, u) BY <1>1, <1>4, <1>5, WaivedStilled DEF Waived
<1>7. DOMAIN c = CallFields /\ c.step = "ensuring" /\ c.latest /\ c.player = 0
      /\ c.previous = el.playing /\ c.on = w.load
  BY DEF CallFields
<1> HIDE DEF c
<1>8. CASE w = Load(u)
  <2>1. Sound(w) /\ Stays(u, w) /\ ~Live(w) /\ w.playing
    BY <1>4, <1>6, <1>8, LoadSound DEF None1, SameHost
  <2> HIDE DEF w
  <2>2. Waived(w, el') /\ el'.call = c /\ el'.playing = w.playing
    BY <1>2, <2>1
       DEF Sound, Good, Shape, ElementFields, Waived, SameWho, SameLane, SameSuspension, SameReload
  <2>3. Called(el', el'.call) BY <1>7, <2>1, <2>2 DEF Called, Sound, Good, Shape, Waived
  <2>4. ~Standing(w) BY <2>1 DEF Standing
  <2>5. Sound(el') /\ Stays(w, el') BY <2>1, <2>2, <2>3, <2>4, WaivedSound
  <2> QED BY <1>1, <1>6, <2>1, <2>5, StaysOn
<1>9. CASE w = u /\ (u.load # NoLoad \/ ~u.connected \/ u.finalDisposed)
  <2>1. el' = [u EXCEPT !.call = c] /\ c.on = u.load BY <1>2, <1>7, <1>9
  <2>2. Waived(u, el') /\ el'.call = c /\ el'.playing = u.playing
    BY <1>6, <2>1
       DEF Good, Shape, ElementFields, Waived, SameWho, SameLane, SameSuspension, SameReload
  <2>3. Waived(f, el')
    BY <1>4, <2>2 DEF Waived, SameWho, SameLane, SameSuspension, SameReload
  <2>4. Called(el', el'.call) BY <1>4, <1>7, <2>2, <2>3 DEF Called, Good, Shape, Waived
  <2>5. ASSUME Standing(f), f.p[f.player].reason = "none", ~Restored(f)
        PROVE  Plays(el', f.p[f.player])
    <3>1. Plays(f, f.p[f.player]) BY <1>1, <2>5 DEF Sound, Fit, Fits, Suits
    <3>2. c.on # NoLoad \/ ~Live(f) BY <1>1, <1>4, <1>9, <2>1 DEF Sound, Basis, Waived
    <3>3. ~Uncertain(f) /\ f.playing = el.playing /\ el'.visible = f.visible
      BY <1>1, <1>2, <1>3, <2>3 DEF Uncertain, None1, SameHost, Waived
    <3>4. el.playing => ~Uncertain(el') /\ ~Withdrawn(el')
      BY <1>7, <2>2 DEF Uncertain, Withdrawn
    <3>5. ~el.playing => Uncertain(el') BY <1>7, <2>2 DEF Uncertain
    <3> QED BY <1>4, <2>2, <3>1, <3>3, <3>4, <3>5 DEF Plays
  <2>6. Sound(el') /\ Stays(f, el') BY <1>1, <2>3, <2>4, <2>5, WaivedSound
  <2> QED BY <1>1, <2>6, StaysOn
<1> QED BY <1>8, <1>9 DEF Ensure

LEMMA MotionChangeSound ==
  ASSUME Sound(el), MotionChange PROVE Sound(el') /\ Stays(el, el')
<1> DEFINE i == el.player
           w == [el EXCEPT !.reduced = ~@]
           s == SetMotion(w, i)
           moved == [s EXCEPT !.p[i].moving = TRUE]
<1>1. Good(el) /\ Roll(el) /\ Basis(el) /\ Fit(el) BY DEF Sound
<1>2. /\ Good(w) /\ SameWho(el, w) /\ SameLane(el, w) /\ SameSuspension(el, w)
      /\ SameReload(el, w) /\ w.call = el.call /\ w.p = el.p
      /\ w.connected = el.connected /\ w.visible = el.visible /\ w.playing = el.playing
      /\ w.reduced = ~el.reduced /\ w.known = el.known
      /\ w.finalDisposed = el.finalDisposed /\ w.preparing = el.preparing
      /\ w.failing = el.failing /\ w.terminal = el.terminal
  BY <1>1 DEF Good, Shape, ElementFields, SameWho, SameLane, SameSuspension, SameReload
<1>3. el' = IF w.player = 0 THEN w ELSE moved BY <1>2 DEF MotionChange, SameWho
<1> HIDE DEF w
<1>4. w.player = i BY <1>2 DEF SameWho
<1>5. Roll(w) BY <1>1, <1>2 DEF Roll, SameWho
<1>6. Basis(w) BY <1>1, <1>2 DEF Basis, SameWho, SameLane, SameReload, Live
<1>7. Stays(el, w) BY <1>2 DEF Stays, SameWho, SameLane, Lane, Dated, Live
<1>8. CASE i = 0
  <2>1. Fit(w) BY <1>4, <1>8 DEF Fit, Standing
  <2> QED BY <1>2, <1>3, <1>4, <1>5, <1>6, <1>7, <1>8, <2>1 DEF Sound
<1>9. CASE i # 0
  <2>1. Standing(w) => Standing(el) BY <1>2 DEF Standing, SameWho, SameLane, Live
  <2>2. AskedFor(w) = AskedFor(el) /\ Restored(w) = Restored(el)
    BY <1>2 DEF AskedFor, Restored, SameReload, SameWho
  <2>3. Standing(w) =>
          /\ Hides(w, w.p[i]) /\ Waits(w.p[i]) /\ Turns(w, w.p[i])
          /\ Parks(w, w.p[i]) /\ Serves(w)
          /\ w.p[i].reason # "none" \/ w.reduced
    <3>1. Standing(w) => Fits(el, el.p[i]) /\ Serves(el) BY <1>1, <2>1 DEF Fit
    <3>2. Standing(w) => Serves(w) BY <1>2, <2>2, <3>1 DEF Serves, SameWho, SameReload
    <3> QED
      BY <1>2, <2>2, <3>1, <3>2 DEF Fits, Suits, Moves, Hides, Turns, Parks, SameWho, SameSuspension
  <2>4. Sound(s) /\ Stays(w, s) /\ (Standing(w) => s.p[i].reason # "none")
    BY <1>2, <1>4, <1>5, <1>6, <1>9, <2>3, SetMotionSound
  <2> HIDE DEF s
  <2>5. s.player = i /\ i \in Players /\ Good(s)
    BY <1>1, <1>4, <1>9, <2>4, Numbers DEF Stays, Basis, Good, Shape, Sound
  <2>6. /\ Only1(s, moved, i) /\ SameStanding(s.p[i], moved.p[i])
        /\ moved.p[i].published = s.p[i].published
        /\ moved.p[i].restartHeld = s.p[i].restartHeld
        /\ moved.p[i].restartRequested = s.p[i].restartRequested
    BY <2>5 DEF Good, Shape, ElementFields, PlayerFields, Only1, SameHost, SameWho,
                SameLane, SameSuspension, SameReload, SameStanding
  <2> HIDE DEF moved
  <2>7. Standing(s) => s.p[i].reason # "none"
    BY <1>2, <1>6, <2>4, StaysStanding
  <2>8. Standing(s) => Fits(s, moved.p[i])
    BY <2>4, <2>5, <2>6, <2>7
       DEF Sound, Fit, Fits, Suits, Moves, Hides, Waits, Turns, Parks, SameStanding
  <2>9. IsPlayer(moved.p[i]) BY <2>4, <2>5, <2>6 DEF Sound, Roll, IsPlayer, SameStanding
  <2>10. Sound(moved)
    BY <2>4, <2>5, <2>6, <2>8, <2>9, Only1Sound DEF SameStanding
  <2>11. Stays(s, moved) BY <2>5, <2>6, Only1Stays DEF SameStanding
  <2> QED BY <1>3, <1>4, <1>7, <1>9, <2>4, <2>10, <2>11, StaysOn
<1> QED BY <1>8, <1>9

----------------------------------------------------------------------------
(* Events of the page.                                                     *)

(* An operation is added to the lane: no generation is live.               *)
LEMMA EnqueuedSound ==
  ASSUME NEW w, Good(w), Roll(w), Basis(w), NEW o, NEW v, Good(v), SameWho(w, v),
         SameReload(w, v), v.call = w.call, v.p = w.p, v.playing = w.playing,
         v.reduced = w.reduced, ~v.known => ~v.visible,
         v.ops = Append(w.ops, o), o.token = w.sequence + 1, v.sequence = o.token,
         v.controller = IF w.controller = "live" THEN "aborted" ELSE w.controller
  PROVE  Sound(v) /\ Stays(w, v)
<1>1. /\ Len(v.ops) = Len(w.ops) + 1 /\ Len(w.ops) \in Nat /\ v.ops[Len(v.ops)] = o
      /\ w.ops # <<>> => v.ops # <<>> /\ v.ops[1] = w.ops[1]
  <2>1. w.ops \in Seq(Operations) BY DEF Good, Shape
  <2> QED BY <2>1, AppendProperties
<1>2. ~Live(v) BY DEF Live
<1>3. Roll(v) BY DEF Roll, SameWho
<1>4. Basis(v) BY DEF Basis, SameWho, SameReload, Live
<1>5. Fit(v) BY <1>2 DEF Fit, Standing
<1>6. \A n \in {0, 1} : Lane(w, n) => Lane(v, n)
  <2>1. \A n : Lane(w, n) => Dated(v) BY AppendDated DEF Lane
  <2> QED BY <1>1, <1>2, <2>1 DEF Basis, Lane, Dated, Live
<1> QED BY <1>1, <1>2, <1>3, <1>4, <1>5, <1>6 DEF Stays, SameWho, Sound

LEMMA ConnectSound == ASSUME Sound(el), Connect PROVE Sound(el') /\ Stays(el, el')
<1> DEFINE w == [el EXCEPT !.connected = TRUE, !.observed = TRUE]
<1>1. Good(el) /\ Roll(el) /\ Basis(el) /\ ~el.connected BY DEF Sound, Connect
<1>2. el' = ScheduleReload(w, FALSE, TRUE) BY DEF Connect
<1>3. /\ Good(w) /\ SameWho(el, w) /\ SameLane(el, w) /\ SameReload(el, w)
      /\ w.call = el.call /\ w.p = el.p /\ w.playing = el.playing
      /\ w.known = el.known /\ w.visible = el.visible /\ w.reduced = el.reduced
  BY <1>1 DEF Good, Shape, ElementFields, SameWho, SameLane, SameReload
<1> HIDE DEF w
<1>4. ~Live(w) BY <1>1, <1>3 DEF Basis, Live, SameLane
<1>5. Roll(w) /\ Fit(w) BY <1>1, <1>3, <1>4 DEF Roll, SameWho, Fit, Standing
<1>6. Basis(w) BY <1>1, <1>3, <1>4 DEF Basis, SameWho, SameLane, SameReload
<1>7. Stays(el, w) BY <1>3, <1>4 DEF Stays, SameWho, SameLane, Lane, Dated, Live
<1>8. ~Standing(w) BY <1>4 DEF Standing
<1>9. Sound(w) BY <1>3, <1>5, <1>6 DEF Sound
<1>10. Sound(el') /\ Stays(w, el') BY <1>2, <1>8, <1>9, ScheduleReloadSound
<1> QED BY <1>7, <1>10, StaysOn

LEMMA LeavesSound ==
  ASSUME Sound(el), Good(el'), Disconnect \/ Adopt \/ Dispose PROVE Sound(el') /\ Stays(el, el')
<1>1. Good(el) /\ Roll(el) /\ Basis(el) BY DEF Sound
<1>2. /\ SameWho(el, el') /\ SameReload(el, el') /\ el'.call = el.call /\ el'.p = el.p
      /\ el'.playing = el.playing /\ el'.reduced = el.reduced /\ ~el'.visible /\ el'.sequence = el.sequence + 1
      /\ el'.controller = IF el.controller = "live" THEN "aborted" ELSE el.controller
      /\ \E kind : el'.ops = Append(el.ops, [kind |-> kind, token |-> el.sequence + 1])
  <2> DEFINE u == Unobserved
             off == [u EXCEPT !.connected = FALSE, !.finalDisposed = TRUE, !.disposal = "pending"]
             Departed(w, kind) ==
               /\ DOMAIN w = ElementFields
               /\ SameWho(el, w) /\ SameReload(el, w) /\ w.call = el.call /\ w.p = el.p
               /\ w.playing = el.playing /\ w.reduced = el.reduced /\ ~w.visible /\ w.sequence = el.sequence + 1
               /\ w.controller = IF el.controller = "live" THEN "aborted" ELSE el.controller
               /\ w.ops = Append(el.ops, [kind |-> kind, token |-> el.sequence + 1])
             Out(w) ==
               /\ DOMAIN w = ElementFields
               /\ SameWho(el, w) /\ SameReload(el, w) /\ w.call = el.call /\ w.p = el.p
               /\ w.playing = el.playing /\ w.reduced = el.reduced /\ ~w.visible /\ SameLane(el, w)
  <2>1. Out(u)
    BY <1>1 DEF Unobserved, Good, Shape, ElementFields, SameWho, SameReload, SameLane
  <2> HIDE DEF u
  <2>2. Out(off) BY <2>1 DEF ElementFields, SameWho, SameReload, SameLane
  <2> HIDE DEF off
  <2>3. \A w, kind : Out(w) => Departed(Enqueue(w, kind), kind)
    BY DEF Enqueue, ElementFields, SameWho, SameReload, SameLane
  <2>4. \A w, kind : Departed(w, kind) => Departed([w EXCEPT !.connected = FALSE], kind)
    BY DEF ElementFields, SameWho, SameReload
  <2>5. \/ el' = [Enqueue(u, "retirement") EXCEPT !.connected = FALSE]
        \/ el' = Enqueue(u, "adoption")
        \/ el' = Enqueue(off, "disposal")
    BY DEF Disconnect, Adopt, Dispose, u, off
  <2> HIDE DEF Out, Departed
  <2>6. \E kind : Departed(el', kind) BY <2>1, <2>2, <2>3, <2>4, <2>5
  <2> QED BY <2>6 DEF Departed
<1>3. PICK kind : el'.ops = Append(el.ops, [kind |-> kind, token |-> el.sequence + 1]) BY <1>2
<1> DEFINE o == [kind |-> kind, token |-> el.sequence + 1]
<1>4. el'.sequence = o.token /\ o.token = el.sequence + 1 /\ el'.ops = Append(el.ops, o)
  BY <1>2, <1>3
<1> HIDE DEF o
<1> QED BY <1>1, <1>2, <1>4, EnqueuedSound

(* Nobody waits for a load that is answered, and no reload is queued.      *)
LEMMA Undue ==
  ASSUME Basis(el), ~MicrotaskDue
  PROVE  ~Withdrawn(el) /\ el.reloadTasks = 0 /\ ~el.reloadQueued
BY DEF MicrotaskDue, Withdrawn, Uncertain, Settled, Basis

LEMMA SourceChangeSound ==
  ASSUME Sound(el), ~MicrotaskDue, SourceChange PROVE Sound(el') /\ Stays(el, el')
<1>1. Standing(el) => ~AskedFor(el) BY Undue DEF Sound, Fit, Serves
<1> QED BY <1>1, ScheduleReloadSound DEF SourceChange

LEMMA FirstSampleSound ==
  ASSUME Sound(el), ~MicrotaskDue, NEW visible \in BOOLEAN, FirstSample(visible)
  PROVE  Sound(el') /\ Stays(el, el')
<1> DEFINE w == [el EXCEPT !.known = TRUE]
<1>1. el' = VisibilityChanged(w, visible) BY DEF FirstSample
<1>2. Waived(el, w) /\ w.known /\ w.call = el.call /\ w.playing = el.playing
  BY DEF Sound, Good, Shape, ElementFields, Waived, SameWho, SameLane, SameSuspension, SameReload
<1> HIDE DEF w
<1>3. Standing(w) => Standing(el) /\ Serves(el)
  BY <1>2 DEF Sound, Fit, Standing, Waived, SameWho, SameLane, Live
<1>4. Called(w, w.call) BY <1>2, <1>3 DEF Sound, Basis, Serves, Called, Waived, SameWho
<1>5. Roll(w) /\ Basis(w) /\ Stays(el, w) /\ Stilled(w) /\ Good(w)
  BY <1>2, <1>4, WaivedStilled DEF Waived
<1>6. ~Withdrawn(w) BY <1>2, Undue DEF Sound, Withdrawn, Uncertain
<1>7. \A q : Plays(el, q) => Plays(w, q)
  BY <1>2 DEF Plays, Uncertain, Withdrawn, Waived
<1>8. Sound(w) BY <1>2, <1>4, <1>7, WaivedSound DEF Sound, Fit, Fits, Suits
<1>9. Sound(el') /\ Stays(w, el')
  BY <1>1, <1>2, <1>5, <1>6, <1>8, VisibilityChangedSound DEF Stilled, Sound
<1> QED BY <1>5, <1>9, StaysOn

LEMMA ShownOrHiddenSound ==
  ASSUME Sound(el), ~MicrotaskDue, NEW visible \in BOOLEAN, visible => el.known
  PROVE  Sound(VisibilityChanged(el, visible)) /\ Stays(el, VisibilityChanged(el, visible))
<1>1. ~Withdrawn(el) BY Undue DEF Sound
<1> QED BY <1>1, VisibilityChangedSound DEF Sound, Fit, Fits, Suits

LEMMA PageHideSound ==
  ASSUME Sound(el), ~MicrotaskDue, PageHide PROVE Sound(el') /\ Stays(el, el')
<1> DEFINE w == VisibilityChanged(el, FALSE)
<1>1. Sound(w) /\ Stays(el, w) BY ShownOrHiddenSound
<1>2. el' = [w EXCEPT !.frozen = TRUE] BY DEF PageHide
<1> HIDE DEF w
<1>3. Aside(w, el')
  BY <1>1, <1>2 DEF Sound, Good, Shape, ElementFields, Aside, None1, SameHost, SameWho,
                    SameSuspension, SameLane, SameReload
<1> QED BY <1>1, <1>3, AsideSound, StaysOn

LEMMA DecoderGrantedSound ==
  ASSUME Sound(el), DecoderGranted PROVE Sound(el') /\ Stays(el, el')
<1>1. Firm(el) /\ (Standing(el) => Parks(el, el.p[el.player]))
  BY DEF Sound, Firm, Loose, Fit, Fits
<1> QED BY <1>1, ScheduleRestartSound DEF DecoderGranted

(* The page is shown again: whatever its player is, it is replaced.        *)
LEMMA RestoreSound ==
  ASSUME Sound(el), NEW known, RestoreFromPageCache(known) PROVE Sound(el') /\ Stays(el, el')
<1> DEFINE w == [el EXCEPT !.frozen = FALSE, !.visible = el.known,
                           !.restart = IF known THEN Restart(el.player, FALSE) ELSE @]
<1>1. Good(el) /\ Roll(el) /\ Basis(el) /\ Fit(el) BY DEF Sound
<1>2. Good(el') BY <1>1, RestoreFollows DEF Follows
<1>3. el' = ScheduleReload(w, TRUE, FALSE) /\ (el.player # 0 => known)
  BY DEF RestoreFromPageCache
<1>4. /\ SameWho(el, w) /\ SameLane(el, w) /\ SameSuspension(el, w) /\ w.call = el.call
      /\ w.p = el.p /\ w.connected = el.connected /\ w.playing = el.playing
      /\ w.reduced = el.reduced /\ w.known = el.known /\ w.visible = el.known
      /\ w.finalDisposed = el.finalDisposed /\ w.terminal = el.terminal
      /\ w.failing = el.failing /\ w.preparing = el.preparing
      /\ w.restart = IF known THEN Restart(el.player, FALSE) ELSE el.restart
      /\ w.reloadQueued = el.reloadQueued /\ w.reloadTasks = el.reloadTasks
      /\ DOMAIN w = ElementFields
  BY <1>1 DEF Good, Shape, ElementFields, SameWho, SameLane, SameSuspension
<1> HIDE DEF w
<1>5. /\ SameWho(el, el') /\ SameLane(el, el') /\ SameSuspension(el, el') /\ el'.call = el.call
      /\ el'.p = el.p /\ el'.connected = el.connected /\ el'.playing = el.playing
      /\ el'.reduced = el.reduced /\ el'.known = el.known /\ el'.visible = el.known
      /\ el'.finalDisposed = el.finalDisposed /\ el'.terminal = el.terminal
      /\ el'.failing = el.failing /\ el'.preparing = el.preparing
      /\ el'.restart = IF known THEN Restart(el.player, FALSE) ELSE el.restart
      /\ el'.reloadTasks \in {el.reloadTasks, el.reloadTasks + 1}
      /\ el'.reloadQueued => el.reloadQueued \/ el'.reloadTasks = el.reloadTasks + 1
      /\ el.connected /\ ~el.finalDisposed => el'.reloadQueued /\ el'.reloadReplace
  BY <1>3, <1>4 DEF ScheduleReload, ElementFields, SameWho, SameLane, SameSuspension
<1>6. Roll(el') BY <1>1, <1>5 DEF Roll, SameWho
<1>7. el'.restart.player \in 0 .. el'.made
  BY <1>1, <1>5 DEF Basis, SameWho, Restart
<1>8. el'.reloadTasks \in Nat /\ (el'.reloadQueued => el'.reloadTasks > 0)
  BY <1>1, <1>5 DEF Basis
<1>9. Basis(el')
  <2>1. /\ SameWho(el, el') /\ SameLane(el, el') /\ el'.call = el.call
        /\ el'.connected = el.connected /\ el'.playing = el.playing
        /\ el'.finalDisposed = el.finalDisposed /\ el'.reduced = el.reduced
        /\ ~el'.known => ~el'.visible
    BY <1>5
  <2> QED BY <1>1, <1>7, <1>8, <2>1 DEF Basis, SameWho, SameLane, Live
<1>10. Standing(el') => Standing(el) BY <1>5 DEF Standing, SameWho, SameLane, Live
<1>11. Standing(el') => Restored(el') /\ AskedFor(el')
  <2>1. SameWho(el, el') BY <1>5
  <2>2. el.player # 0 => el'.restart = Restart(el.player, FALSE) BY <1>3, <1>5
  <2> QED BY <2>1, <2>2 DEF Standing, Restored, AskedFor, Restart, SameWho
<1>12. Standing(el') => el'.reloadQueued /\ el'.reloadReplace
  BY <1>1, <1>5, <1>10 DEF Standing, Basis
<1>13. Fit(el')
  BY <1>1, <1>5, <1>10, <1>11, <1>12
     DEF Fit, Fits, Suits, Serves, Moves, Hides, Turns, Parks, SameWho, SameSuspension
<1>14. Stays(el, el') BY <1>5 DEF Stays, SameWho, SameLane, Lane, Dated, Live
<1> QED BY <1>2, <1>6, <1>9, <1>13, <1>14 DEF Sound

(* Whatever is called and happens leaves a sound element sound.            *)
LEMMA OccurSound ==
  ASSUME Sound(el), Good(el'),
         \/ Call \/ (Appearance /\ ~MicrotaskDue) \/ (Event /\ ~MicrotaskDue)
         \/ \E known \in BOOLEAN : RestoreFromPageCache(known)
  PROVE  Sound(el') /\ Stays(el, el')
<1>1. CASE Call
  BY <1>1, PrepareSound, PauseCallSound, ResumeCallSound, AutoplaySound, MotionChangeSound,
     LeavesSound DEF Call
<1>2. CASE Appearance /\ ~MicrotaskDue BY <1>2, ConnectSound, FirstSampleSound DEF Appearance
<1>3. CASE Event /\ ~MicrotaskDue
  <2>1. CASE VisibilityChange
    <3>1. (~el.visible) \in BOOLEAN /\ (~el.visible => el.known) BY <2>1 DEF VisibilityChange
    <3> QED BY <1>3, <2>1, <3>1, ShownOrHiddenSound DEF VisibilityChange
  <2> QED BY <1>3, <2>1, LeavesSound, SourceChangeSound, PageHideSound, DecoderGrantedSound DEF Event
<1>4. CASE \E known \in BOOLEAN : RestoreFromPageCache(known) BY <1>4, RestoreSound
<1> QED BY <1>1, <1>2, <1>3, <1>4

----------------------------------------------------------------------------
(* What the operation at the head of the lane relies on.                   *)
OnLane(o) == IF o.step = "idle" THEN 0 ELSE 1

Retiring == {"suspended", "disposing", "retired"}
Trying == {"probing", "reconciling", "installing", "qualifying", "rejecting"}
Startup == {"reconciling", "installing", "qualifying", "created", "awaiting", "preparing", "hiding"}

(* Whose player it is, and what has come of it.                            *)
Place(w, o) ==
  LET q == w.p[w.player]
  IN  /\ o.step \in Retiring \cup {"loading"} => w.player = 0
      /\ o.step \in Retiring /\ o.after = "start" =>
           w.ops # <<>> /\ w.ops[1].kind = "generation"
      /\ o.step \in Startup => o.player = w.player /\ w.player # 0 /\ ~q.disposed
      /\ o.step = "rejecting" => o.player = w.player /\ w.player # 0 /\ q.disposed
      /\ o.step = "probing" /\ w.player # 0 =>
           q.disposed /\ q.ready = "failed" /\ ~q.recovering
      /\ o.step = "reconciling" => q.ready = "failed" \/ q.reason # "none"

(* What is known of the element while a player is sought.                  *)
Seeks(w, o) ==
  Live(w) =>
    /\ o.step \in Trying \cup {"loading"} => ~w.terminal
    /\ o.step \in Trying => o.reduced \in BOOLEAN /\ (~o.hidden => w.known)
    /\ o.step = "hiding" => w.preparing # w.player

(* A player that nobody prepares is published, or its failure is.          *)
Left(w) ==
  LET q == w.p[w.player]
  IN  Live(w) /\ w.player # 0 =>
        /\ w.preparing # w.player /\ ~q.disposed /\ q.ready # "pending"
        /\ IF q.ready = "failed" THEN w.terminal /\ w.failing = w.player ELSE q.published

Where(w, o) ==
  Lane(w, OnLane(o)) /\ Place(w, o) /\ Seeks(w, o) /\ (o.step = "idle" => Left(w))

LEMMA WhereStays ==
  ASSUME NEW w, NEW v, NEW o, Good(w), Basis(w), Where(w, o), Stays(w, v) PROVE Where(v, o)
<1>1. w.player # 0 => w.player \in Players BY Numbers DEF Basis, Good, Shape
<1>2. Lane(v, OnLane(o)) BY DEF Where, OnLane, Stays
<1>3. Place(v, o)
  BY <1>1 DEF Where, Place, Stays, Startup
<1>4. Seeks(v, o) BY DEF Where, Seeks, Stays
<1>5. o.step = "idle" => Left(v) BY <1>1 DEF Where, Left, Stays
<1> QED BY <1>2, <1>3, <1>4, <1>5 DEF Where

----------------------------------------------------------------------------
(* What the player does by itself.                                         *)

(* Nobody else has anything left to do.                                    *)
LEMMA Whose ==
  ASSUME NEW w, Sound(w), NEW i \in 1 .. w.made,
         w.p[i].recovering \/ w.p[i].ready # "failed" \/ ~w.p[i].disposed
  PROVE  /\ i \in Players /\ i \in {w.player, w.retiring} /\ IsPlayer(w.p[i])
         /\ w.player # 0 => i = w.player
<1>1. i \in Players BY Numbers DEF Sound
<1>2. i \in {w.player, w.retiring} /\ IsPlayer(w.p[i]) BY <1>1 DEF Sound, Roll
<1>3. i # 0 BY DEF Sound, Good, Shape
<1> QED BY <1>1, <1>2, <1>3 DEF Sound, Basis

(* A player is ready, or fails; what it stands for is not altered.         *)
LEMMA ReadySound ==
  ASSUME NEW w, Sound(w), NEW i \in 1 .. w.made, NEW v, Only1(w, v, i), IsPlayer(v.p[i]),
         w.p[i].recovering \/ w.p[i].ready # "failed",
         SameMotion(w.p[i], v.p[i]), v.p[i].disposed = w.p[i].disposed,
         w.p[i].ready = "failed" => v.p[i].ready = "failed",
         i = w.player /\ Standing(w) => Fits(w, v.p[i]) \/ ~Standing(v)
  PROVE  Sound(v)
BY Whose, Only1Sound

LEMMA ReadyWhere ==
  ASSUME NEW w, Sound(w), NEW i \in 1 .. w.made, NEW v, Only1(w, v, i), NEW o, Where(w, o),
         SameMotion(w.p[i], v.p[i]), v.p[i].disposed = w.p[i].disposed,
         v.p[i].reason = w.p[i].reason, v.p[i].recovering => w.p[i].recovering,
         w.p[i].ready = "failed" => v.p[i].ready = "failed",
         w.p[i].ready # "pending" =>
           v.p[i].ready # "pending" /\ (v.p[i].ready = "failed" => w.p[i].ready = "failed")
  PROVE  Where(v, o)
<1>1. w.player # 0 => w.player \in Players BY Numbers DEF Sound, Basis, Good, Shape
<1>2. i \in Players BY Numbers DEF Sound
<1>3. /\ v.player = w.player /\ v.ops = w.ops /\ v.controller = w.controller
      /\ v.sequence = w.sequence /\ v.terminal = w.terminal /\ v.known = w.known
      /\ v.preparing = w.preparing /\ v.failing = w.failing
      /\ \A j \in Players : j # i => v.p[j] = w.p[j]
  BY DEF Only1, SameHost, SameWho, SameLane
<1>4. Lane(v, OnLane(o)) BY <1>3 DEF Where, Lane, Dated, Live
<1>5. Place(v, o)
  <2>1. CASE i = w.player BY <1>3, <2>1 DEF Where, Place, Startup
  <2>2. CASE i # w.player BY <1>1, <1>3, <2>2 DEF Where, Place, Startup
  <2> QED BY <2>1, <2>2
<1>6. Seeks(v, o) BY <1>3 DEF Where, Seeks, Live
<1>7. o.step = "idle" => Left(v)
  <2> SUFFICES ASSUME o.step = "idle", Live(w), w.player # 0 PROVE Left(v)
    BY <1>3 DEF Left, Live
  <2>1. Left(w) BY DEF Where
  <2>2. CASE i # w.player BY <1>1, <1>3, <2>1, <2>2 DEF Left, Live
  <2>3. CASE i = w.player
    <3>1. w.p[i].ready # "pending" BY <2>1, <2>3 DEF Left
    <3> QED BY <1>3, <2>1, <2>3, <3>1 DEF Left, Live, SameMotion
  <2> QED BY <2>2, <2>3
<1> QED BY <1>4, <1>5, <1>6, <1>7 DEF Where

LEMMA PreparationEndsSound ==
  ASSUME Sound(el), Where(el, op), NEW i \in 1 .. el.made,
         NEW ready \in {"animated", "static", "failed"}, PreparationEnds(i, ready)
  PROVE  Sound(el') /\ Where(el', op)
<1> DEFINE q == el.p[i]
           gone == q.retired \/ ready = "static"
<1>1. /\ Good(el) /\ Fit(el) /\ q.ready = "pending" /\ i \in Players /\ IsPlayer(q)
      /\ el' = [el EXCEPT !.p[i].ready = ready, !.p[i].retired = gone]
  BY Numbers DEF Sound, Roll, PreparationEnds
<1> HIDE DEF gone
<1>2. /\ Only1(el, el', i) /\ SameMotion(q, el'.p[i]) /\ SamePlay(q, el'.p[i])
      /\ el'.p[i].ready = ready /\ el'.p[i].reason = q.reason
      /\ el'.p[i].recovering = q.recovering
      /\ el'.p[i].suspend = q.suspend /\ el'.p[i].disposed = q.disposed
  BY <1>1 DEF Good, Shape, ElementFields, PlayerFields, Only1, SameHost, SameWho,
              SameLane, SameSuspension, SameReload, SameMotion, SamePlay
<1>3. IsPlayer(el'.p[i]) BY <1>1, <1>2 DEF IsPlayer
<1>4. i = el.player /\ Standing(el) => Fits(el, el'.p[i])
  BY <1>1, <1>2
     DEF Fit, Fits, Suits, Moves, Hides, Waits, Plays, Turns, Parks, SameMotion, SamePlay
<1>5. Sound(el') BY <1>1, <1>2, <1>3, <1>4, ReadySound
<1>6. Where(el', op) BY <1>1, <1>2, ReadyWhere
<1> QED BY <1>5, <1>6

(* What answers a load leaves alone.                                       *)
LEMMA AnswerAlone ==
  ASSUME NEW w, Good(w), Roll(w), Basis(w), NEW load, NEW outcome
  PROVE  LET v == Answer(w, load, outcome)
         IN  /\ Good(v) /\ Roll(v) /\ Basis(v) /\ Stays(w, v) /\ None1(w, v) /\ SameLane(w, v)
             /\ SameReload(w, v)
             /\ v.call.step = w.call.step /\ v.call.player = w.call.player
<1> DEFINE v == Answer(w, load, outcome)
<1>2. Good(v) BY AnswerFollows DEF Follows
<1>3. /\ None1(w, v) /\ SameLane(w, v) /\ SameReload(w, v)
      /\ v.call = [w.call EXCEPT !.on = IF @ = load THEN outcome ELSE @]
  BY <1>2
     DEF Answer, Good, Shape, ElementFields, None1, SameHost, SameWho, SameSuspension,
         SameLane, SameReload
<1> HIDE DEF v
<1>4. /\ DOMAIN v.call = CallFields
      /\ v.call.step = w.call.step /\ v.call.latest = w.call.latest
      /\ v.call.previous = w.call.previous /\ v.call.player = w.call.player
  BY <1>3 DEF Basis, CallFields
<1>5. Roll(v) BY <1>3 DEF Roll, None1, SameWho
<1>6. Basis(v) BY <1>3, <1>4 DEF Basis, None1, SameHost, SameWho, SameLane, SameReload, Live
<1>7. Stays(w, v) BY <1>3 DEF Stays, None1, SameHost, SameWho, SameLane, Lane, Dated, Live
<1> QED BY <1>2, <1>3, <1>4, <1>5, <1>6, <1>7 DEF v

(* A recovery ends, which completes a suspension that nothing overtook.    *)
LEMMA RecoveryEndsSound ==
  ASSUME Sound(el), Where(el, op), NEW i \in 1 .. el.made, RecoveryEnds(i)
  PROVE  Sound(el') /\ Where(el', op)
<1> DEFINE q == el.p[i]
           kept == q.reason = "visibility-suspended"
           end == IF q.suspend # "pending" THEN q.suspend ELSE IF kept THEN "kept" ELSE "broken"
           w == [el EXCEPT !.p[i].recovering = FALSE, !.p[i].ready = "static",
                           !.p[i].retired = TRUE, !.p[i].suspend = end]
           good == Answer(w, Suspension(i), Ready)
           bad == Answer(w, Suspension(i), Broken)
<1>1. /\ Good(el) /\ Roll(el) /\ Basis(el) /\ Fit(el) /\ q.recovering /\ q.ready # "failed"
      /\ el' = IF q.suspend # "pending" THEN w
               ELSE IF kept THEN CompleteVisibilitySuspension(good, i) ELSE bad
  BY DEF Sound, RecoveryEnds
<1>2. /\ i \in Players /\ i \in {el.player, el.retiring} /\ IsPlayer(q)
      /\ el.player # 0 => i = el.player
      /\ q.reason # "none"
  BY <1>1, Whose DEF IsPlayer
<1>3. q.suspend # "pending" \/ ~kept => end \in {q.suspend, "broken"} \ {"pending"}
  OBVIOUS
<1>4. q.suspend = "pending" /\ kept => end = "kept" OBVIOUS
<1>5. end \in {"no", "kept", "broken"} BY <1>2 DEF IsPlayer
<1> HIDE DEF end
<1>6. /\ Only1(el, w, i) /\ SameMotion(q, w.p[i]) /\ SamePlay(q, w.p[i])
      /\ w.p[i].ready = "static" /\ w.p[i].reason = q.reason /\ ~w.p[i].recovering
      /\ w.p[i].suspend = end /\ w.p[i].disposed = q.disposed
  BY <1>1, <1>2
     DEF Good, Shape, ElementFields, PlayerFields, Only1, SameHost, SameWho,
         SameLane, SameSuspension, SameReload, SameMotion, SamePlay
<1> HIDE DEF w, good, bad
<1>7. IsPlayer(w.p[i]) BY <1>2, <1>5, <1>6 DEF IsPlayer
<1>8. Where(w, op) BY <1>1, <1>6, ReadyWhere
<1>9. Basis(w) /\ Good(w) BY <1>1, <1>6, Only1Basis DEF Only1
<1>10. Roll(w) BY <1>1, <1>2, <1>6, <1>7, Only1Roll
<1>11. CASE q.suspend # "pending" \/ ~kept
  <2>1. ASSUME i = el.player, Standing(el) PROVE Fits(el, w.p[i])
    <3>1. Fits(el, q) BY <1>1, <2>1 DEF Fit
    <3>2. q.suspend \in {"pending", "broken"} => w.p[i].suspend = "broken"
      BY <1>3, <1>6, <1>11
    <3>3. w.p[i].suspend = "kept" => q.suspend = "kept" BY <1>3, <1>6, <1>11
    <3> QED BY <1>2, <1>6, <3>1, <3>2, <3>3 DEF Fits, Suits, Moves, Hides, Waits, Turns, Parks, SameMotion
  <2>2. Sound(w) BY <1>1, <1>6, <1>7, <2>1, ReadySound
  <2>3. Firm(w) /\ (Standing(w) => w.p[w.player].reason # "none")
    <3>2. Firm(w) BY <2>2 DEF Sound, Firm, Loose, Fit, Fits
    <3>3. Standing(w) => w.player = i BY <1>2, <1>6 DEF Standing, Only1, SameWho
    <3> QED BY <1>2, <1>6, <3>2, <3>3
  <2>4. Sound(bad) /\ Stays(w, bad) BY <2>2, <2>3, AnswerSound DEF bad
  <2>5. el' \in {w, bad} BY <1>1, <1>11
  <2>6. Where(bad, op) BY <1>8, <1>9, <2>4, WhereStays
  <2> QED BY <1>8, <2>2, <2>4, <2>5, <2>6
<1>12. CASE q.suspend = "pending" /\ kept
  <2>1. /\ Good(good) /\ Roll(good) /\ Basis(good) /\ Stays(w, good) /\ None1(w, good)
        /\ SameLane(w, good) /\ SameReload(w, good)
        /\ good.call.step = w.call.step /\ good.call.player = w.call.player
    BY <1>9, <1>10, AnswerAlone DEF good
  <2>2. good.player = el.player /\ good.made = el.made /\ good.p = w.p
    BY <1>6, <2>1 DEF Only1, None1, SameWho
  <2>3. Standing(good) => i = el.player
    BY <1>2, <2>2 DEF Standing
  <2>4. ASSUME i = good.player, Standing(good)
        PROVE  /\ good.p[i].reason # "none" /\ Moves(good, good.p[i]) /\ Waits(good.p[i])
               /\ Serves(good)
    <3>1. Standing(el)
      BY <1>1, <1>6, <2>1, <2>2, <2>4 DEF Standing, Only1, None1, SameWho, SameLane, Live
    <3>2. Fits(el, q) /\ Serves(el) BY <1>1, <2>2, <2>4, <3>1 DEF Fit
    <3>3. Moves(good, good.p[i]) /\ Waits(good.p[i])
      BY <1>6, <2>1, <2>2, <3>2
         DEF Fits, Suits, Moves, Waits, Only1, None1, SameHost, SameMotion
    <3>4. Serves(good)
      BY <1>6, <2>1, <3>2 DEF Serves, AskedFor, Only1, None1, SameHost, SameWho, SameReload
    <3> QED BY <1>2, <1>6, <2>2, <3>3, <3>4
  <2>5. i # good.player => Fit(good) BY <2>2, <2>3 DEF Fit
  <2>6. Sound(el') /\ Stays(good, el')
    BY <1>1, <1>12, <2>1, <2>2, <2>4, <2>5, CompleteSound
  <2>7. Where(good, op) BY <1>8, <1>9, <2>1, WhereStays
  <2> QED BY <2>1, <2>6, <2>7, WhereStays
<1> QED BY <1>11, <1>12

(* Nobody is being suspended any more.                                     *)
LEMMA UnsuspendSound ==
  ASSUME NEW w, Sound(w), NEW i, NEW v, v = [w EXCEPT !.suspending = IF @ = i THEN 0 ELSE @]
  PROVE  Sound(v) /\ Stays(w, v) /\ v.p = w.p /\ SameWho(w, v) /\ SameLane(w, v)
<1>1. /\ Good(v) /\ SameHost(w, v) /\ SameWho(w, v) /\ SameLane(w, v) /\ SameReload(w, v)
      /\ v.p = w.p /\ v.call = w.call /\ v.suspended = w.suspended
      /\ v.suspending \in {0, w.suspending}
  BY DEF Sound, Good, Shape, ElementFields, SameHost, SameWho, SameLane, SameReload
<1>2. Roll(v) BY <1>1 DEF Sound, Roll, SameWho
<1>3. Basis(v) BY <1>1 DEF Sound, Basis, SameHost, SameWho, SameLane, SameReload, Live
<1>4. Standing(v) => Standing(w) /\ w.player # 0 BY <1>1 DEF Standing, SameWho, SameLane, Live
<1>5. /\ AskedFor(v) = AskedFor(w) /\ Restored(v) = Restored(w)
      /\ Uncertain(v) = Uncertain(w) /\ Withdrawn(v) = Withdrawn(w)
  BY <1>1 DEF AskedFor, Restored, Uncertain, Withdrawn, SameReload, SameWho
<1>6. \A q : Plays(w, q) => Plays(v, q) BY <1>1, <1>5 DEF Plays, SameHost
<1>7. w.player # 0 => \A q : Fits(w, q) => Fits(v, q)
  BY <1>1, <1>5, <1>6 DEF Fits, Suits, Moves, Hides, Turns, Parks, SameHost, SameWho
<1>8. Serves(w) => Serves(v) BY <1>1, <1>5 DEF Serves, SameHost, SameWho, SameReload
<1>9. Fit(v) BY <1>1, <1>4, <1>7, <1>8 DEF Sound, Fit, SameWho
<1>10. Stays(w, v) BY <1>1 DEF Stays, SameHost, SameWho, SameLane, Lane, Dated, Live
<1> QED BY <1>1, <1>2, <1>3, <1>9, <1>10 DEF Sound

LEMMA RecoveryFailsSound ==
  ASSUME Sound(el), Where(el, op), NEW i \in 1 .. el.made, RecoveryFails(i)
  PROVE  Sound(el') /\ Where(el', op)
<1> DEFINE q == el.p[i]
           ready == IF q.ready = "pending" THEN "failed" ELSE q.ready
           suspend == IF q.suspend = "pending" THEN "broken" ELSE q.suspend
           w == [el EXCEPT !.p[i].recovering = FALSE, !.p[i].ready = ready,
                           !.p[i].suspend = suspend]
           s == [w EXCEPT !.suspending = IF @ = i THEN 0 ELSE @]
           bad == Answer(s, Suspension(i), Broken)
<1>1. /\ Good(el) /\ Basis(el) /\ Fit(el) /\ q.recovering
      /\ el' = w \/ el' = bad
  BY DEF Sound, RecoveryFails
<1>2. /\ i \in Players /\ i \in {el.player, el.retiring} /\ IsPlayer(q)
      /\ el.player # 0 => i = el.player
      /\ q.reason # "none"
  BY <1>1, Whose DEF IsPlayer
<1>3. /\ ready \in {q.ready, "failed"} /\ (q.ready # "pending" => ready = q.ready)
      /\ suspend \in {q.suspend, "broken"} /\ suspend # "pending"
      /\ q.suspend # "pending" => suspend = q.suspend
  OBVIOUS
<1> HIDE DEF ready, suspend
<1>4. /\ Only1(el, w, i) /\ SameMotion(q, w.p[i]) /\ SamePlay(q, w.p[i])
      /\ w.p[i].ready = ready /\ w.p[i].reason = q.reason /\ ~w.p[i].recovering
      /\ w.p[i].suspend = suspend /\ w.p[i].disposed = q.disposed
  BY <1>1, <1>2
     DEF Good, Shape, ElementFields, PlayerFields, Only1, SameHost, SameWho,
         SameLane, SameSuspension, SameReload, SameMotion, SamePlay
<1> HIDE DEF w
<1>5. IsPlayer(w.p[i]) BY <1>2, <1>3, <1>4 DEF IsPlayer
<1>6. Where(w, op) BY <1>3, <1>4, ReadyWhere
<1>7. ASSUME i = el.player, Standing(el) PROVE Fits(el, w.p[i])
  <2>1. Fits(el, q) BY <1>1, <1>7 DEF Fit
  <2>2. q.suspend \in {"pending", "broken"} => w.p[i].suspend = "broken"
    BY <1>3, <1>4
  <2>3. w.p[i].suspend = "kept" => q.suspend = "kept" BY <1>3, <1>4
  <2> QED BY <1>2, <1>4, <2>1, <2>2, <2>3 DEF Fits, Suits, Moves, Hides, Waits, Turns, Parks, SameMotion
<1>8. Sound(w) BY <1>1, <1>3, <1>4, <1>5, <1>7, ReadySound
<1>9. Sound(s) /\ Stays(w, s) /\ s.p = w.p /\ SameWho(w, s) BY <1>8, UnsuspendSound
<1> HIDE DEF s
<1>10. Firm(s) BY <1>9 DEF Sound, Firm, Loose, Fit, Fits
<1>11. Standing(s) => s.p[s.player].reason # "none"
  BY <1>2, <1>4, <1>9 DEF Standing, Only1, SameWho
<1>12. Sound(bad) /\ Stays(s, bad) BY <1>9, <1>10, <1>11, AnswerSound
<1>13. Where(bad, op) BY <1>6, <1>8, <1>9, <1>12, StaysOn, WhereStays DEF Sound
<1> QED BY <1>1, <1>6, <1>8, <1>12, <1>13

(* The playback fails: the element does, unless its generation was         *)
(* aborted.                                                                *)
LEMMA PlaybackFailsSound ==
  ASSUME Inv, Sound(el), Where(el, op), NEW i \in 1 .. el.made, PlaybackFails(i)
  PROVE  Sound(el') /\ Where(el', op)
<1> DEFINE q == el.p[i]
           w == [el EXCEPT !.p[i].ready = "failed"]
           t == PublishTerminal(w)
           f == [t EXCEPT !.failing = IF el.preparing = i THEN @ ELSE i]
<1>1. /\ Good(el) /\ Roll(el) /\ Basis(el) /\ q.ready = "animated" /\ ~q.disposed
      /\ op.player = i => op.step \notin {"reconciling", "installing", "qualifying"}
      /\ el' = IF ~Current(el) THEN w ELSE f
  BY DEF Sound, PlaybackFails
<1>2. /\ i \in Players /\ i \in {el.player, el.retiring} /\ IsPlayer(q)
      /\ el.player # 0 => i = el.player
  BY <1>1, Whose
<1>3. /\ Only1(el, w, i) /\ SameMotion(q, w.p[i])
      /\ w.p[i].ready = "failed" /\ w.p[i].reason = q.reason
      /\ w.p[i].recovering = q.recovering
      /\ w.p[i].suspend = q.suspend /\ w.p[i].disposed = q.disposed
  BY <1>1, <1>2
     DEF Good, Shape, ElementFields, PlayerFields, Only1, SameHost, SameWho,
         SameLane, SameSuspension, SameReload, SameMotion
<1> HIDE DEF w
<1>4. /\ Good(w) /\ SameWho(el, w) /\ SameLane(el, w) /\ SameReload(el, w)
      /\ w.known = el.known /\ w.preparing = el.preparing /\ w.failing = el.failing
      /\ w.terminal = el.terminal
      /\ \A j \in Players : j # i => w.p[j] = el.p[j]
  BY <1>3 DEF Only1, SameHost
<1>5. IsPlayer(w.p[i]) BY <1>1, <1>2, <1>3 DEF IsPlayer
<1>6. Roll(w) /\ Basis(w) BY <1>1, <1>2, <1>3, <1>5, Only1Roll, Only1Basis
<1>7. ~Standing(w) BY <1>2, <1>3, <1>4 DEF Standing, SameWho
<1>8. Sound(w) BY <1>4, <1>6, <1>7 DEF Sound, Fit
<1>9. /\ Sound(t) /\ SameWho(w, t) /\ SameLane(w, t) /\ t.p = w.p /\ t.terminal
      /\ t.known = w.known /\ t.preparing = w.preparing
  BY <1>4, <1>7, <1>8, PublishTerminalSound DEF PublishTerminal, Good, Shape, ElementFields
<1> HIDE DEF t
<1>10. /\ Good(f) /\ SameWho(t, f) /\ SameLane(t, f) /\ SameReload(t, f) /\ f.p = t.p
       /\ f.call = t.call /\ f.terminal = t.terminal /\ f.known = t.known
       /\ f.preparing = t.preparing /\ f.connected = t.connected /\ f.visible = t.visible
       /\ f.finalDisposed = t.finalDisposed /\ f.playing = t.playing /\ f.reduced = t.reduced
       /\ el.preparing # i => f.failing = i
  BY <1>9 DEF Sound, Good, Shape, ElementFields, SameWho, SameLane, SameReload
<1> HIDE DEF f
<1>11. Roll(f) BY <1>9, <1>10 DEF Sound, Roll, SameWho
<1>12. Basis(f) BY <1>9, <1>10 DEF Sound, Basis, SameWho, SameLane, SameReload, Live
<1>13. ~Standing(f) BY <1>7, <1>9, <1>10 DEF Standing, SameWho, SameLane, Live
<1>14. Sound(f) BY <1>10, <1>11, <1>12, <1>13 DEF Sound, Fit
<1>15. el.player # 0 => el.player \in Players BY <1>1, Numbers DEF Basis, Good, Shape
<1>16. \A v : SameWho(w, v) /\ SameLane(w, v) /\ v.p = w.p => Lane(v, OnLane(op)) /\ Place(v, op)
  <2>1. Lane(el, OnLane(op)) /\ Place(el, op) BY DEF Where
  <2> TAKE v
  <2> HAVE SameWho(w, v) /\ SameLane(w, v) /\ v.p = w.p
  <2>2. Lane(v, OnLane(op)) BY <1>4, <2>1 DEF SameLane, Lane, Dated, Live
  <2>3. Place(v, op)
    BY <1>2, <1>3, <1>4, <1>15, <2>1 DEF Place, Startup, SameWho, SameLane, SameMotion
  <2> QED BY <2>2, <2>3
<1>17. CASE el' = w /\ ~Current(el)
  <2>1. ~Live(w) BY <1>1, <1>4, <1>17 DEF Current, Basis, Live, SameLane
  <2>2. Lane(w, OnLane(op)) /\ Place(w, op) BY <1>16 DEF SameWho, SameLane
  <2> QED BY <1>8, <1>17, <2>1, <2>2 DEF Where, Seeks, Left
<1>18. CASE el' = f
  <2>1. Lane(f, OnLane(op)) /\ Place(f, op)
    BY <1>9, <1>10, <1>16 DEF SameWho, SameLane
  <2>2. op.step \notin Trying \cup {"loading"}
    BY <1>1, <1>2 DEF Inv, At, Candidacy, Where, Place, Startup, Trying
  <2>3. Seeks(f, op)
    BY <1>4, <1>9, <1>10, <2>2 DEF Where, Seeks, Trying, Live, SameWho, SameLane
  <2>4. op.step = "idle" => Left(f)
    BY <1>2, <1>3, <1>4, <1>9, <1>10 DEF Where, Left, Live, SameWho, SameLane
  <2> QED BY <1>14, <1>18, <2>1, <2>3, <2>4 DEF Where
<1> QED BY <1>1, <1>17, <1>18

(* The generation of a player that failed is retired.                      *)
LEMMA FailureTaskSound ==
  ASSUME Sound(el), Where(el, op), FailureTask PROVE Sound(el') /\ Where(el', op)
<1> DEFINE w == [el EXCEPT !.failing = 0]
<1>1. /\ Good(el) /\ Roll(el) /\ Basis(el) /\ Fit(el)
      /\ el' = IF el.terminal /\ el.player = el.failing /\ Current(el)
               THEN Enqueue(w, "retirement") ELSE w
  BY DEF Sound, FailureTask
<1>2. /\ Good(w) /\ SameWho(el, w) /\ SameLane(el, w) /\ SameSuspension(el, w)
      /\ SameReload(el, w) /\ w.call = el.call /\ w.p = el.p
      /\ w.connected = el.connected /\ w.visible = el.visible /\ w.playing = el.playing
      /\ w.reduced = el.reduced /\ w.known = el.known
      /\ w.finalDisposed = el.finalDisposed /\ w.preparing = el.preparing
      /\ w.terminal = el.terminal
  BY <1>1 DEF Good, Shape, ElementFields, SameWho, SameLane, SameSuspension, SameReload
<1> HIDE DEF w
<1>3. Roll(w) BY <1>1, <1>2 DEF Roll, SameWho
<1>4. Basis(w) BY <1>1, <1>2 DEF Basis, SameWho, SameLane, SameReload, Live
<1>5. Lane(w, OnLane(op)) BY <1>2 DEF Where, SameLane, Lane, Dated, Live
<1>6. Place(w, op) BY <1>2 DEF Where, Place, SameWho, SameLane
<1>7. Seeks(w, op) BY <1>2 DEF Where, Seeks, Live, SameWho, SameLane
<1>8. CASE el' = Enqueue(w, "retirement")
  <2>1. Good(el') BY <1>2, <1>8, EnqueueFollows DEF Follows
  <2>2. Sound(el') /\ Stays(w, el') /\ ~Live(el') BY <1>2, <1>3, <1>4, <1>8, <2>1, EnqueueSound
  <2>3. Lane(el', OnLane(op)) BY <1>5, <2>2 DEF Stays, OnLane
  <2>4. w.player # 0 => w.player \in Players BY <1>2, <1>4, Numbers DEF Basis, Good, Shape
  <2>5. Place(el', op) BY <1>6, <2>2, <2>4 DEF Stays, Place, Startup
  <2> QED BY <2>2, <2>3, <2>5 DEF Where, Seeks, Left
<1>9. CASE el' = w /\ ~(el.terminal /\ el.player = el.failing /\ Current(el))
  <2>1. Fit(w)
    <3>1. Standing(w) => Standing(el) BY <1>2 DEF Standing, SameWho, SameLane, Live
    <3>2. /\ AskedFor(w) = AskedFor(el) /\ Restored(w) = Restored(el)
          /\ Uncertain(w) = Uncertain(el) /\ Withdrawn(w) = Withdrawn(el)
      BY <1>2 DEF AskedFor, Restored, Uncertain, Withdrawn, SameReload, SameWho
    <3>3. \A q : Plays(el, q) => Plays(w, q) BY <1>2, <3>2 DEF Plays
    <3>4. \A q : Fits(el, q) => Fits(w, q)
      BY <1>2, <3>2, <3>3 DEF Fits, Suits, Moves, Hides, Turns, Parks, SameWho, SameSuspension
    <3>5. Serves(el) => Serves(w) BY <1>2, <3>2 DEF Serves, SameWho, SameReload
    <3> QED BY <1>1, <1>2, <3>1, <3>4, <3>5 DEF Fit, SameWho
  <2>2. op.step = "idle" => Left(w)
    <3>1. Live(el) => Current(el) BY <1>1 DEF Basis, Live, Current
    <3> QED BY <1>2, <1>9, <3>1 DEF Where, Left, Live, SameWho, SameLane
  <2> QED BY <1>2, <1>3, <1>4, <1>5, <1>6, <1>7, <1>9, <2>1, <2>2 DEF Where, Sound
<1> QED BY <1>1, <1>8, <1>9

----------------------------------------------------------------------------
(* An operation ends.                                                      *)

LEMMA AdoptionSound ==
  ASSUME NEW w, Sound(w), ~Live(w)
  PROVE  Sound(FinishAdoption(w)) /\ Stays(w, FinishAdoption(w))
<1> DEFINE v == [w EXCEPT !.observed = TRUE]
<1>1. FinishAdoption(w) \in {w, ScheduleReload(v, FALSE, TRUE)} BY DEF FinishAdoption
<1>2. Aside(w, v)
  BY DEF Sound, Good, Shape, ElementFields, Aside, None1, SameHost, SameWho,
         SameSuspension, SameLane, SameReload
<1> HIDE DEF v
<1>3. Sound(v) /\ Stays(w, v) BY <1>2, AsideSound
<1>4. ~Standing(v) BY <1>2 DEF Aside, SameLane, Standing, Live
<1>5. Sound(ScheduleReload(v, FALSE, TRUE)) /\ Stays(w, ScheduleReload(v, FALSE, TRUE))
  BY <1>3, <1>4, ScheduleReloadSound, StaysOn
<1>6. Stays(w, w) BY StaysSelf
<1> QED BY <1>1, <1>5, <1>6

LEMMA DisposalSound ==
  ASSUME NEW w, Sound(w), NEW ok
  PROVE  Sound(CompleteDisposal(w, ok)) /\ Stays(w, CompleteDisposal(w, ok))
<1> DEFINE v(x) == [w EXCEPT !.disposal = x]
<1>1. CompleteDisposal(w, ok) \in {v("done"), v("none")} BY DEF CompleteDisposal
<1>2. \A x : Aside(w, v(x))
  BY DEF Sound, Good, Shape, ElementFields, Aside, None1, SameHost, SameWho,
         SameSuspension, SameLane, SameReload
<1> HIDE DEF v
<1> QED BY <1>1, <1>2, AsideSound

LEMMA TailLane ==
  ASSUME NEW w, Good(w), w.ops # <<>>, Lane(w, 1), NEW v, v.ops = Tail(w.ops),
         v.sequence = w.sequence, v.controller = w.controller
  PROVE  Lane(v, 0)
<1>1. w.ops \in Seq(Operations) BY DEF Good, Shape
<1>2. Len(v.ops) = Len(w.ops) - 1 /\ Len(w.ops) \in Nat /\ Len(w.ops) > 0 BY <1>1
<1>3. \A k \in DOMAIN v.ops : k + 1 \in DOMAIN w.ops /\ v.ops[k] = w.ops[k + 1] /\ k \in Nat
  BY <1>1
<1>4. Dated(v) BY <1>2, <1>3 DEF Lane, Dated
<1> QED BY <1>2, <1>4 DEF Lane, Live

(* It leaves the lane with a player that it has published, or without.     *)
LEMMA FinishSound ==
  ASSUME NEW w, Sound(w), w.ops # <<>>, Lane(w, 1), Left(w),
         NEW ok \in BOOLEAN, Standing(w) => ok, Finish(w, ok)
  PROVE  Sound(el') /\ Where(el', op')
<1> DEFINE head == Head(w.ops)
           rest == [w EXCEPT !.ops = Tail(@)]
           answer == IF ok THEN Ready ELSE Broken
<1>1. /\ Tail(w.ops) \in Seq(Operations) /\ head \in Operations /\ 1 \in DOMAIN w.ops
      /\ head = w.ops[1]
      /\ \A k \in DOMAIN Tail(w.ops) : k + 1 \in DOMAIN w.ops /\ Tail(w.ops)[k] = w.ops[k + 1]
  BY DEF Sound, Good, Shape
<1>2. Good(rest) BY <1>1 DEF Sound, Good, Shape, ElementFields
<1>3. /\ op' = Idle
      /\ \/ el' = Answer(rest, Generation(head.token), answer)
         \/ el' = FinishAdoption(rest) /\ head.kind = "adoption"
         \/ el' = CompleteDisposal(rest, ok)
         \/ el' = rest
  <2>1. head.kind \in {"generation", "retirement", "adoption", "disposal"}
    BY <1>1 DEF Operations
  <2> QED BY <2>1 DEF Finish
<1>4. /\ None1(w, rest) /\ SameReload(w, rest) /\ rest.call = w.call /\ rest.ops = Tail(w.ops)
      /\ rest.sequence = w.sequence /\ rest.controller = w.controller
  BY <1>2 DEF Sound, Good, Shape, ElementFields, None1, SameHost, SameWho, SameSuspension, SameReload
<1> HIDE DEF rest
<1>5. Roll(rest) BY <1>4 DEF Sound, Roll, None1, SameWho
<1>6. Basis(rest)
  BY <1>4 DEF Sound, Basis, None1, SameHost, SameWho, SameReload, Live
<1>7. Standing(rest) <=> Standing(w) BY <1>4 DEF Standing, None1, SameWho, Live
<1>8. Fit(rest)
  <2>1. /\ AskedFor(rest) = AskedFor(w) /\ Restored(rest) = Restored(w)
        /\ Uncertain(rest) = Uncertain(w) /\ Withdrawn(rest) = Withdrawn(w)
    BY <1>4 DEF AskedFor, Restored, Uncertain, Withdrawn, SameReload, None1, SameWho
  <2>2. \A q : Plays(w, q) => Plays(rest, q) BY <1>4, <2>1 DEF Plays, None1, SameHost
  <2>3. \A q : Fits(w, q) => Fits(rest, q)
    BY <1>4, <2>1, <2>2
       DEF Fits, Suits, Moves, Hides, Turns, Parks, None1, SameHost, SameWho, SameSuspension
  <2>4. Serves(w) => Serves(rest)
    BY <1>4, <2>1 DEF Serves, None1, SameHost, SameWho, SameReload
  <2> QED BY <1>4, <1>7, <2>3, <2>4 DEF Sound, Fit, None1, SameWho
<1>9. Sound(rest) BY <1>2, <1>5, <1>6, <1>8 DEF Sound
<1>10. Lane(rest, 0) BY <1>4, TailLane DEF Sound
<1>11. Left(rest) BY <1>4 DEF Left, None1, SameHost, SameWho, Live
<1>12. Where(rest, op')
  BY <1>3, <1>10, <1>11 DEF Where, OnLane, Place, Seeks, Idle, Retiring, Trying, Startup
<1>13. Live(rest) => head.kind = "generation" BY <1>1, <1>4 DEF Lane, Live
<1>14. Standing(rest) => answer = Ready BY <1>7
<1> HIDE DEF head
<1>15. Sound(el') /\ Stays(rest, el')
  <2>1. CASE el' = Answer(rest, Generation(head.token), answer)
    <3>1. Firm(rest) BY <1>9 DEF Sound, Firm, Loose, Fit, Fits
    <3>2. answer \in {Ready, Broken} OBVIOUS
    <3> HIDE DEF answer
    <3> QED BY <1>9, <1>14, <2>1, <3>1, <3>2, AnswerSound
  <2>2. CASE el' = FinishAdoption(rest) /\ head.kind = "adoption"
    BY <1>9, <1>13, <2>2, AdoptionSound
  <2>3. CASE el' = CompleteDisposal(rest, ok) BY <1>9, <2>3, DisposalSound
  <2>4. CASE el' = rest BY <1>9, <2>4, StaysSelf
  <2> QED BY <1>3, <2>1, <2>2, <2>3, <2>4
<1> QED BY <1>9, <1>12, <1>15, WhereStays DEF Sound

----------------------------------------------------------------------------
(* A generation is retired, or fails.                                      *)
LEMMA LaneSame ==
  ASSUME NEW w, NEW v, NEW n, SameLane(w, v), Lane(w, n) PROVE Lane(v, n)
BY DEF SameLane, Lane, Dated, Live

LEMMA DisposeOnly ==
  ASSUME NEW w, Good(w), NEW i \in Players
  PROVE  LET v == DisposePlayer(w, i)
         IN  /\ Only1(w, v, i) /\ SameMotion(w.p[i], v.p[i])
             /\ v.p[i].reason = w.p[i].reason /\ v.p[i].ready = w.p[i].ready
             /\ v.p[i].suspend = w.p[i].suspend /\ v.p[i].recovering = w.p[i].recovering
             /\ v.p[i].disposed /\ v.p[i].retired = w.p[i].retired
BY DEF DisposePlayer, Good, Shape, ElementFields, PlayerFields, Only1, SameHost, SameWho,
       SameLane, SameSuspension, SameReload, SameMotion

LEMMA BeginRetirementSound ==
  ASSUME NEW w, Good(w), Roll(w), Basis(w), NEW n, Lane(w, n), w.ops # <<>>,
         DOMAIN op = OperationFields, NEW after, NEW playback,
         after = "start" => w.ops[1].kind = "generation",
         BeginRetirement(w, after, playback)
  PROVE  Sound(el') /\ Where(el', op')
<1> DEFINE i == IF w.player # 0 THEN w.player ELSE w.retiring
           begun == [w EXCEPT !.controller = "none", !.player = 0, !.retiring = i,
                              !.seen = IF @ = i THEN 0 ELSE @]
<1>1. /\ el' = begun \/ (i # 0 /\ el' = DisposePlayer(begun, i))
      /\ op'.step \in Retiring /\ op'.after = after
  BY DEF BeginRetirement, OperationFields, Retiring
<1>2. /\ i \in 0 .. w.made /\ i \in Nat
      /\ \A j \in Players : j # i => j \notin {w.player, w.retiring}
  BY RuntimeAssumption DEF Basis, Good, Shape, Players
<1> HIDE DEF i
<1>3. /\ Good(begun) /\ begun.controller = "none" /\ begun.player = 0 /\ begun.retiring = i
      /\ begun.p = w.p /\ begun.made = w.made /\ begun.ops = w.ops
      /\ begun.sequence = w.sequence /\ begun.call = w.call /\ SameReload(w, begun)
      /\ begun.known = w.known /\ begun.visible = w.visible /\ begun.playing = w.playing
      /\ begun.reduced = w.reduced
  BY DEF Good, Shape, ElementFields, SameReload
<1> HIDE DEF begun
<1>4. /\ Good(el') /\ el'.controller = "none" /\ el'.player = 0 /\ el'.retiring = i
      /\ el'.made = w.made /\ el'.ops = w.ops /\ DOMAIN el'.p = Players
      /\ el'.sequence = w.sequence /\ el'.call = w.call /\ SameReload(w, el')
      /\ el'.known = w.known /\ el'.visible = w.visible /\ el'.playing = w.playing
      /\ el'.reduced = w.reduced
      /\ \A j \in Players :
           /\ el'.p[j].reason = w.p[j].reason /\ el'.p[j].ready = w.p[j].ready
           /\ el'.p[j].suspend = w.p[j].suspend /\ el'.p[j].recovering = w.p[j].recovering
           /\ w.p[j].disposed => el'.p[j].disposed
  <2>1. CASE el' = begun BY <1>3, <2>1 DEF Good, Shape
  <2>2. CASE i # 0 /\ el' = DisposePlayer(begun, i)
    <3>1. i \in Players BY <1>2, <2>2, Numbers
    <3>2. /\ Only1(begun, el', i)
          /\ el'.p[i].reason = w.p[i].reason /\ el'.p[i].ready = w.p[i].ready
          /\ el'.p[i].suspend = w.p[i].suspend /\ el'.p[i].recovering = w.p[i].recovering
          /\ el'.p[i].disposed
      BY <1>3, <2>2, <3>1, DisposeOnly
    <3> QED BY <1>3, <3>2
            DEF Only1, SameHost, SameWho, SameLane, SameReload, Good, Shape
  <2> QED BY <1>1, <2>1, <2>2
<1>5. Roll(el') BY <1>2, <1>4 DEF Roll, IsPlayer
<1>6. Basis(el')
  BY <1>2, <1>4 DEF Basis, SameReload, Live
<1>7. Fit(el') BY <1>4 DEF Fit, Standing
<1>8. Where(el', op')
  BY <1>1, <1>4
     DEF Where, Lane, Dated, Live, OnLane, Place, Seeks, Retiring, Trying, Startup
<1> QED BY <1>4, <1>5, <1>6, <1>7, <1>8 DEF Sound

LEMMA ConcludeSound ==
  ASSUME NEW w, Sound(w), w.player = 0, w.ops # <<>>, Lane(w, 1), NEW playback,
         ConcludeFailure(w, playback)
  PROVE  Sound(el') /\ Where(el', op')
<1> DEFINE v == PublishTerminal(w)
<1>1. ~Standing(w) BY DEF Standing
<1>2. Sound(v) /\ SameWho(w, v) /\ SameLane(w, v) BY <1>1, PublishTerminalSound
<1>3. Finish(w, FALSE) \/ Finish(v, FALSE) BY DEF ConcludeFailure
<1> HIDE DEF v
<1>4. v.player = 0 /\ v.ops # <<>> /\ Lane(v, 1) BY <1>2, LaneSame DEF SameWho, SameLane
<1>5. ~Standing(v) /\ Left(v) /\ Left(w) BY <1>4 DEF Standing, Left
<1> QED BY <1>1, <1>2, <1>3, <1>4, <1>5, FinishSound

LEMMA GenerationFailedSound ==
  ASSUME NEW w, Sound(w), w.ops # <<>>, Lane(w, 1), DOMAIN op = OperationFields,
         NEW playback, GenerationFailed(w, playback)
  PROVE  Sound(el') /\ Where(el', op')
<1>1. CASE ~Current(w)
  <2>1. ~Live(w) BY <1>1 DEF Sound, Basis, Live, Current
  <2>2. ~Standing(w) /\ Left(w) BY <2>1 DEF Standing, Left
  <2> QED BY <1>1, <2>2, FinishSound DEF GenerationFailed
<1>2. CASE Current(w) /\ w.player # 0
  <2>1. BeginRetirement(w, "conclude", playback) BY <1>2 DEF GenerationFailed
  <2> QED BY <2>1, BeginRetirementSound DEF Sound
<1>3. CASE Current(w) /\ w.player = 0
  BY <1>3, ConcludeSound DEF GenerationFailed
<1> QED BY <1>1, <1>2, <1>3

LEMMA StartupFailedSound ==
  ASSUME NEW w, Sound(w), ~Standing(w), w.ops # <<>>, Lane(w, 1),
         DOMAIN op = OperationFields, StartupFailed(w)
  PROVE  Sound(el') /\ Where(el', op')
<1> DEFINE v == PublishTerminal(w)
<1>1. CASE ~Current(w)
  <2>1. ~Live(w) BY <1>1 DEF Sound, Basis, Live, Current
  <2>2. Left(w) BY <2>1 DEF Left
  <2> QED BY <1>1, <2>2, FinishSound DEF StartupFailed
<1>2. CASE GenerationFailed(v, TRUE)
  <2>1. Sound(v) /\ SameLane(w, v) BY PublishTerminalSound
  <2>2. v.ops # <<>> /\ Lane(v, 1) BY <2>1, LaneSame DEF SameLane
  <2> HIDE DEF v
  <2> QED BY <1>2, <2>1, <2>2, GenerationFailedSound
<1> QED BY <1>1, <1>2 DEF StartupFailed

(* The first operation of the lane begins.                                 *)
LEMMA StartedSound ==
  ASSUME Inv, Sound(el), Where(el, op), Started PROVE Sound(el') /\ Where(el', op')
<1> DEFINE head == Head(el.ops)
<1>1. /\ el.ops # <<>> /\ DOMAIN op = OperationFields /\ Lane(el, 0)
      /\ Good(el) /\ Roll(el) /\ Basis(el)
  BY DEF Started, Inv, At, Sound, Where, OnLane
<1>2. /\ el.ops \in Seq(Operations) /\ head = el.ops[1] /\ Len(el.ops) \in Nat
      /\ Len(el.ops) # 0 /\ 1 \in DOMAIN el.ops
  BY <1>1 DEF Good, Shape
<1> HIDE DEF head
<1>3. \/ BeginRetirement(el, "finish", FALSE)
      \/ BeginRetirement(el, "start", FALSE) /\ head.kind = "generation"
      \/ Finish(el, FALSE) /\ head.token # el.sequence
  BY DEF Started, head
<1>4. CASE Finish(el, FALSE) /\ head.token # el.sequence
  <2>1. ~Live(el) BY <1>1, <1>2 DEF Lane
  <2>2. Len(el.ops) > 1 BY <1>1, <1>2, <1>4 DEF Lane, Dated
  <2>3. Lane(el, 1) BY <1>1, <2>1, <2>2 DEF Lane
  <2>4. ~Standing(el) /\ Left(el) BY <2>1 DEF Standing, Left
  <2> QED BY <1>1, <1>4, <2>3, <2>4, FinishSound
<1> QED BY <1>1, <1>2, <1>3, <1>4, BeginRetirementSound

(* The player of the generation before is retired.                         *)
LEMMA RetirementProceedsSound ==
  ASSUME Inv, Sound(el), Where(el, op), RetirementProceeds PROVE Sound(el') /\ Where(el', op')
<1> DEFINE i == op.player
<1>1. /\ op.step = "suspended" /\ i # 0 /\ el.player = 0 /\ el.retiring = i
      /\ DOMAIN op = OperationFields /\ Good(el) /\ Roll(el)
      /\ el' = DisposePlayer(el, i) /\ op' = [op EXCEPT !.step = "disposing"]
  BY DEF RetirementProceeds, Inv, At, Sound
<1>2. i \in Players BY <1>1, Numbers DEF Sound, Basis, Good, Shape
<1>3. /\ Only1(el, el', i)
      /\ el'.p[i].reason = el.p[i].reason /\ el'.p[i].ready = el.p[i].ready
      /\ el'.p[i].suspend = el.p[i].suspend /\ el'.p[i].recovering = el.p[i].recovering
      /\ el'.p[i].disposed
  BY <1>1, <1>2, DisposeOnly
<1>4. IsPlayer(el'.p[i]) BY <1>1, <1>2, <1>3 DEF Roll, IsPlayer
<1>5. Sound(el') BY <1>1, <1>2, <1>3, <1>4, Only1Sound
<1>6. Lane(el', 1) BY <1>1, <1>3, LaneSame DEF Where, OnLane, Only1
<1>7. Place(el', op')
  BY <1>1, <1>3
     DEF Where, Place, Only1, SameWho, SameLane, OperationFields, Retiring, Startup
<1>8. op'.step = "disposing" BY <1>1 DEF OperationFields
<1> QED BY <1>5, <1>6, <1>7, <1>8 DEF Where, OnLane, Seeks, Trying

LEMMA ClearSound ==
  ASSUME NEW w, Sound(w), w.player = 0, NEW i
  PROVE  LET v == ClearPlayerReferences(w, i)
         IN  Sound(v) /\ v.p = w.p /\ SameWho(w, v) /\ SameLane(w, v)
<1> DEFINE v == ClearPlayerReferences(w, i)
<1>1. Good(w) /\ Roll(w) /\ Basis(w) BY DEF Sound
<1>2. Good(v) BY <1>1, ClearFollows DEF Follows
<1>3. /\ v.p = w.p /\ SameWho(w, v) /\ SameLane(w, v) /\ v.call = w.call
      /\ v.connected = w.connected /\ v.visible = w.visible /\ v.playing = w.playing
      /\ v.known = w.known /\ v.finalDisposed = w.finalDisposed
      /\ v.reloadQueued = w.reloadQueued /\ v.reloadTasks = w.reloadTasks
      /\ v.restart \in {w.restart, NoRestart} /\ v.reduced = w.reduced
  BY <1>1 DEF ClearPlayerReferences, Good, Shape, ElementFields, SameWho, SameLane
<1> HIDE DEF v
<1>4. Roll(v) BY <1>1, <1>3 DEF Roll, SameWho
<1>5. v.restart.player \in 0 .. v.made BY <1>1, <1>3 DEF Basis, NoRestart, SameWho, Good, Shape
<1>6. Basis(v) BY <1>1, <1>3, <1>5 DEF Basis, SameWho, SameLane, Live
<1>7. Fit(v) BY <1>3 DEF Fit, Standing, SameWho
<1> QED BY <1>2, <1>3, <1>4, <1>6, <1>7 DEF Sound, v

LEMMA PlayerRetiredSound ==
  ASSUME Inv, Sound(el), Where(el, op), PlayerRetired PROVE Sound(el') /\ Where(el', op')
<1> DEFINE i == op.player
           w == ClearPlayerReferences(el, i)
<1>1. /\ op.step = "disposing" /\ el.player = 0 /\ el.retiring = i
      /\ DOMAIN op = OperationFields
      /\ el' = [w EXCEPT !.retiring = 0, !.p[i] = Gone] /\ op' = [op EXCEPT !.step = "retired"]
  BY DEF PlayerRetired, Inv, At
<1>2. Sound(w) /\ w.p = el.p /\ SameWho(el, w) /\ SameLane(el, w) BY <1>1, ClearSound
<1> HIDE DEF w
<1>3. Good(el') BY PlayerRetiredInv DEF Inv, Held
<1>4. /\ SameLane(w, el') /\ SameReload(w, el') /\ el'.call = w.call /\ el'.made = w.made
      /\ el'.player = 0 /\ el'.retiring = 0
      /\ el'.connected = w.connected /\ el'.visible = w.visible /\ el'.playing = w.playing
      /\ el'.known = w.known /\ el'.finalDisposed = w.finalDisposed
      /\ el'.reduced = w.reduced
      /\ \A j \in Players : j # i => el'.p[j] = w.p[j]
      /\ i \in Players => el'.p[i] = Gone
  BY <1>1, <1>2 DEF Sound, Good, Shape, ElementFields, SameWho, SameLane, SameReload
<1>5. IsPlayer(Gone) /\ ~Gone.recovering /\ Gone.disposed /\ Gone.ready = "failed"
  BY DEF Gone, Made, IsPlayer, Reasons
<1>6. Roll(el') BY <1>1, <1>2, <1>4, <1>5 DEF Sound, Roll, SameWho
<1>7. Basis(el')
  <2>1. Basis(w) /\ w.made \in Nat BY <1>2 DEF Sound, Good, Shape
  <2> QED BY <1>4, <2>1 DEF Basis, SameLane, SameReload, Live
<1>8. Fit(el') BY <1>4 DEF Fit, Standing
<1>9. SameLane(el, el') BY <1>2, <1>4 DEF SameLane
<1>10. Lane(el', 1) BY <1>1, <1>9, LaneSame DEF Where, OnLane
<1>11. Place(el', op')
  BY <1>1, <1>4, <1>9 DEF Where, Place, SameLane, OperationFields, Retiring, Startup
<1>12. op'.step = "retired" BY <1>1 DEF OperationFields
<1> QED BY <1>3, <1>6, <1>7, <1>8, <1>10, <1>11, <1>12 DEF Sound, Where, OnLane, Seeks, Trying

LEMMA RetirementFailsSound ==
  ASSUME Inv, Sound(el), Where(el, op), RetirementFails PROVE Sound(el') /\ Where(el', op')
<1> DEFINE w == ClearPlayerReferences(el, op.player)
<1>1. /\ op.step = "disposing" /\ el.player = 0 /\ el.ops # <<>> /\ Lane(el, 1)
      /\ ConcludeFailure(w, op.playback) \/ Finish(w, FALSE)
  BY DEF RetirementFails, Inv, At, Where, OnLane
<1>2. Sound(w) /\ SameWho(el, w) /\ SameLane(el, w) BY <1>1, ClearSound
<1> HIDE DEF w
<1>3. w.player = 0 /\ w.ops # <<>> /\ Lane(w, 1) /\ ~Standing(w) /\ Left(w)
  BY <1>1, <1>2, LaneSame DEF SameWho, SameLane, Standing, Left
<1> QED BY <1>1, <1>2, <1>3, ConcludeSound, FinishSound

LEMMA RetiredSound ==
  ASSUME Inv, Sound(el), Where(el, op), Retired PROVE Sound(el') /\ Where(el', op')
<1>1. /\ el.ops # <<>> /\ Lane(el, 1) /\ el.player = 0
      /\ ConcludeFailure(el, op.playback) \/ Finish(el, op.after = "finish")
  BY DEF Retired, Inv, At, Where, OnLane, Place, Retiring
<1>2. ~Standing(el) /\ Left(el) /\ (op.after = "finish") \in BOOLEAN
  BY <1>1 DEF Standing, Left
<1> QED BY <1>1, <1>2, ConcludeSound, FinishSound

(* The next generation begins, of the latest token.                        *)
LEMMA GenerationStartsSound ==
  ASSUME Inv, Sound(el), Where(el, op), GenerationStarts PROVE Sound(el') /\ Where(el', op')
<1> DEFINE w == [el EXCEPT !.restart = NoRestart, !.controller = "live", !.terminal = FALSE]
           t == PublishTerminal(w)
<1>1. /\ op.step = "retired" /\ op.after = "start" /\ el.ops # <<>> /\ Lane(el, 1)
      /\ el.player = 0 /\ el.retiring = 0 /\ el.ops[1].kind = "generation"
      /\ Good(el) /\ Roll(el) /\ Basis(el)
  BY DEF GenerationStarts, Inv, At, Where, OnLane, Place, Retiring, Sound
<1>2. \/ Finish(el, FALSE)
      \/ /\ GenerationCurrent(el) /\ el.connected
         /\ \/ Finish(t, FALSE)
            \/ el' = w /\ op' = [Idle EXCEPT !.step = "loading"]
  BY DEF GenerationStarts
<1>3. CASE Finish(el, FALSE)
  <2>1. ~Standing(el) /\ Left(el) BY <1>1 DEF Standing, Left
  <2> QED BY <1>1, <1>3, <2>1, FinishSound
<1>4. CASE /\ GenerationCurrent(el) /\ el.connected
           /\ \/ Finish(t, FALSE)
              \/ el' = w /\ op' = [Idle EXCEPT !.step = "loading"]
  <2>1. /\ Good(w) /\ SameWho(el, w) /\ w.p = el.p /\ w.call = el.call
        /\ w.controller = "live" /\ w.ops = el.ops /\ w.sequence = el.sequence
        /\ w.restart = NoRestart /\ ~w.terminal
        /\ w.connected = el.connected /\ w.visible = el.visible /\ w.playing = el.playing
        /\ w.known = el.known /\ w.finalDisposed = el.finalDisposed
        /\ w.reloadQueued = el.reloadQueued /\ w.reloadTasks = el.reloadTasks
        /\ w.reduced = el.reduced
    BY <1>1 DEF Good, Shape, ElementFields, SameWho
  <2> HIDE DEF w
  <2>2. Roll(w) BY <1>1, <2>1 DEF Roll, SameWho
  <2>3. w.restart.player \in 0 .. w.made BY <1>1, <2>1 DEF NoRestart, SameWho, Good, Shape
  <2>4. Basis(w) BY <1>1, <1>4, <2>1, <2>3 DEF Basis, SameWho, Live, GenerationCurrent
  <2>5. w.player = 0 /\ ~Standing(w) /\ Sound(w) /\ w.ops # <<>> /\ Left(w)
    BY <1>1, <2>1, <2>2, <2>4 DEF Sound, Fit, Standing, SameWho, Left
  <2>6. Lane(w, 1)
    <3>1. 1 \in DOMAIN el.ops /\ Head(el.ops) = el.ops[1] BY <1>1 DEF Good, Shape
    <3>2. Len(el.ops) = 1 BY <1>1, <1>4, <3>1 DEF Lane, Dated, GenerationCurrent
    <3> QED BY <1>1, <2>1, <3>2 DEF Lane, Dated
  <2>7. CASE Finish(t, FALSE)
    <3>1. Sound(t) /\ SameWho(w, t) /\ SameLane(w, t) BY <2>5, PublishTerminalSound
    <3> HIDE DEF t
    <3>2. ~Standing(t) /\ Left(t) /\ t.ops # <<>> /\ Lane(t, 1)
      BY <2>5, <2>6, <3>1, LaneSame DEF SameWho, SameLane, Standing, Left
    <3> QED BY <2>7, <3>1, <3>2, FinishSound
  <2>8. CASE el' = w /\ op' = [Idle EXCEPT !.step = "loading"]
    BY <2>1, <2>5, <2>6, <2>8
       DEF Where, OnLane, Place, Seeks, Idle, Retiring, Trying, Startup
  <2> QED BY <1>4, <2>7, <2>8
<1> QED BY <1>2, <1>3, <1>4

LEMMA RuntimeLoadedSound ==
  ASSUME Inv, Sound(el), Where(el, op), RuntimeLoaded PROVE Sound(el') /\ Where(el', op')
<1>1. /\ op.step = "loading" /\ el' = el /\ DOMAIN op = OperationFields
      /\ op' = [op EXCEPT !.step = "probing", !.hidden = ~el.visible, !.reduced = el.reduced]
  BY DEF RuntimeLoaded, Inv, At
<1>2. op'.step = "probing" /\ op'.hidden = ~el.visible /\ op'.reduced = el.reduced
  BY <1>1 DEF OperationFields
<1>3. op'.reduced \in BOOLEAN /\ (~op'.hidden => el.known) BY <1>2 DEF Sound, Basis
<1>4. el.player = 0 /\ Lane(el, 1) /\ (Live(el) => ~el.terminal)
  BY <1>1 DEF Where, Place, OnLane, Seeks
<1> QED BY <1>1, <1>2, <1>3, <1>4
        DEF Where, OnLane, Place, Seeks, Retiring, Trying, Startup

LEMMA StartFailsSound ==
  ASSUME Inv, Sound(el), Where(el, op), RuntimeFails \/ ProbeFails
  PROVE  Sound(el') /\ Where(el', op')
<1>1. /\ el.ops # <<>> /\ Lane(el, 1) /\ DOMAIN op = OperationFields
      /\ \/ op.step = "loading" /\ GenerationFailed(el, FALSE)
         \/ op.step = "probing" /\ StartupFailed(el)
  BY DEF RuntimeFails, ProbeFails, Inv, At, Where, OnLane
<1>2. op.step = "probing" => ~Standing(el) BY DEF Where, Place, Standing
<1> QED BY <1>1, <1>2, GenerationFailedSound, StartupFailedSound

----------------------------------------------------------------------------
(* A candidate: made, offered to the session, and rejected or kept.        *)
LEMMA CandidateFailsSound ==
  ASSUME Inv, Sound(el), Where(el, op), op.step \in {"reconciling", "installing", "qualifying"},
         CandidateFails(el, op.player)
  PROVE  Sound(el') /\ Where(el', op')
<1> DEFINE i == op.player
<1>1. /\ i = el.player /\ el.player # 0 /\ DOMAIN op = OperationFields
      /\ Good(el) /\ Roll(el)
      /\ el' = DisposePlayer(el, i) /\ op' = [op EXCEPT !.step = "rejecting", !.player = i]
  BY DEF CandidateFails, Inv, At, Sound, Where, Place, Startup
<1>2. i \in Players BY <1>1, Numbers DEF Sound, Basis, Good, Shape
<1>3. /\ Only1(el, el', i)
      /\ el'.p[i].reason = el.p[i].reason /\ el'.p[i].ready = el.p[i].ready
      /\ el'.p[i].suspend = el.p[i].suspend /\ el'.p[i].recovering = el.p[i].recovering
      /\ el'.p[i].disposed
  BY <1>1, <1>2, DisposeOnly
<1>4. IsPlayer(el'.p[i]) BY <1>1, <1>2, <1>3 DEF Roll, IsPlayer
<1>5. ~Standing(el') BY <1>1, <1>3 DEF Standing, Only1, SameWho
<1>6. Sound(el') BY <1>1, <1>2, <1>3, <1>4, <1>5, Only1Sound
<1>7. Lane(el', 1) BY <1>3, LaneSame DEF Where, OnLane, Only1
<1>8. /\ op'.step = "rejecting" /\ op'.player = i
      /\ op'.hidden = op.hidden /\ op'.reduced = op.reduced
  BY <1>1 DEF OperationFields
<1>9. Place(el', op')
  BY <1>1, <1>3, <1>8 DEF Place, Only1, SameWho, Retiring, Startup
<1>10. Seeks(el', op')
  BY <1>3, <1>8 DEF Where, Seeks, Trying, Live, Only1, SameHost, SameLane
<1> QED BY <1>6, <1>7, <1>8, <1>9, <1>10 DEF Where, OnLane

LEMMA CandidateRejectedSound ==
  ASSUME Inv, Sound(el), Where(el, op), NEW ok \in BOOLEAN, NEW retry \in BOOLEAN,
         CandidateRejected(ok, retry)
  PROVE  Sound(el') /\ Where(el', op')
<1> DEFINE i == op.player
           gone == [el EXCEPT !.p[i] = Gone]
           w == IF ok THEN gone ELSE el
<1>1. /\ op.step = "rejecting" /\ i = el.player /\ el.player # 0 /\ el.p[i].disposed
      /\ DOMAIN op = OperationFields /\ el.ops # <<>> /\ Good(el) /\ Roll(el) /\ Lane(el, 1)
      /\ \/ StartupFailed(w)
         \/ ok /\ el' = gone /\ op' = [op EXCEPT !.step = "probing"]
  BY DEF CandidateRejected, Inv, At, Sound, Where, Place, OnLane
<1>2. i \in Players BY <1>1, Numbers DEF Sound, Basis, Good, Shape
<1>3. Only1(el, gone, i) /\ gone.p[i] = Gone
  BY <1>1, <1>2
     DEF Good, Shape, ElementFields, PlayerFields, Only1, SameHost, SameWho, SameLane,
         SameSuspension, SameReload, Gone, Made
<1> HIDE DEF gone
<1>4. IsPlayer(Gone) /\ Gone.disposed /\ Gone.ready = "failed" /\ ~Gone.recovering
  BY DEF Gone, Made, IsPlayer, Reasons
<1>5. ~Standing(gone) /\ ~Standing(el) BY <1>1, <1>3, <1>4 DEF Standing, Only1, SameWho
<1>6. Sound(gone) BY <1>1, <1>2, <1>3, <1>4, <1>5, Only1Sound
<1>7. gone.ops # <<>> /\ Lane(gone, 1) BY <1>1, <1>3, LaneSame DEF Only1, SameLane
<1>8. Sound(w) /\ ~Standing(w) /\ w.ops # <<>> /\ Lane(w, 1) BY <1>1, <1>5, <1>6, <1>7
<1> HIDE DEF w
<1>9. CASE StartupFailed(w) BY <1>1, <1>8, <1>9, StartupFailedSound
<1>10. CASE ok /\ el' = gone /\ op' = [op EXCEPT !.step = "probing"]
  <2>1. op'.step = "probing" /\ op'.hidden = op.hidden /\ op'.reduced = op.reduced
    BY <1>1, <1>10 DEF OperationFields
  <2>2. Place(gone, op')
    BY <1>1, <1>3, <1>4, <2>1 DEF Place, Only1, SameWho, Retiring, Startup
  <2>3. Seeks(gone, op')
    BY <1>1, <1>3, <2>1 DEF Where, Seeks, Trying, Live, Only1, SameHost, SameLane
  <2> QED BY <1>6, <1>7, <1>10, <2>1, <2>2, <2>3 DEF Where, OnLane
<1> QED BY <1>1, <1>9, <1>10

(* What a candidate relies on that is about to be installed.               *)
Offered(w, i) ==
  /\ w.player = i /\ i # 0 /\ w.ops # <<>> /\ Lane(w, 1) /\ ~w.p[i].disposed
  /\ Live(w) => /\ ~w.terminal
                /\ op.reduced \in BOOLEAN /\ (~op.hidden => w.known)

LEMMA CompleteInstallationSound ==
  ASSUME NEW w, Sound(w), NEW i, Offered(w, i), DOMAIN op = OperationFields,
         CompleteInstallation(w, i)
  PROVE  Sound(el') /\ Where(el', op')
<1>1. /\ i = w.player /\ w.player # 0 /\ Good(w) /\ Roll(w) /\ Fit(w) /\ ~w.p[i].disposed
      /\ el' = [w EXCEPT !.p[i].installed = TRUE]
  BY DEF CompleteInstallation, Offered, Sound
<1>2. i \in Players BY <1>1, Numbers DEF Sound, Basis, Good, Shape
<1>3. /\ Only1(w, el', i) /\ SameStanding(w.p[i], el'.p[i]) /\ SamePlay(w.p[i], el'.p[i])
      /\ SameMotion(w.p[i], el'.p[i])
  BY <1>1, <1>2
     DEF Good, Shape, ElementFields, PlayerFields, Only1, SameHost, SameWho, SameLane,
         SameSuspension, SameReload, SameStanding, SamePlay, SameMotion
<1>4. IsPlayer(el'.p[i]) BY <1>1, <1>2, <1>3 DEF Roll, IsPlayer, SameStanding
<1>5. Standing(w) => Fits(w, el'.p[i])
  BY <1>1, <1>3
     DEF Fit, Fits, Suits, Moves, Hides, Waits, Plays, Turns, Parks, SameStanding, SamePlay, SameMotion
<1>6. Sound(el') BY <1>1, <1>2, <1>3, <1>4, <1>5, Only1Sound DEF SameStanding
<1>7. Lane(el', 1) BY <1>3, LaneSame DEF Offered, Only1
<1>8. /\ op'.step \in {"qualifying", "created"} /\ op'.player = i
      /\ op'.hidden = op.hidden /\ op'.reduced = op.reduced
  BY DEF CompleteInstallation, OperationFields
<1>9. Place(el', op')
  BY <1>1, <1>3, <1>8 DEF Place, Only1, SameWho, SameStanding, Retiring, Startup
<1>10. Seeks(el', op')
  BY <1>3, <1>8 DEF Offered, Seeks, Trying, Live, Only1, SameHost, SameLane
<1> QED BY <1>6, <1>7, <1>8, <1>9, <1>10 DEF Where, OnLane

(* What is seen concerns no resume().                                      *)
LEMMA VisibilityChangedCall ==
  ASSUME NEW w, Good(w), NEW visible PROVE VisibilityChanged(w, visible).call = w.call
<1> DEFINE i == w.player
           seen == [w EXCEPT !.visible = visible, !.seen = i]
           showing == [seen EXCEPT !.p[i].shown = visible]
           told == UpdatePlayback(showing)
           s == SuspendForVisibility(told, i)
           r == ScheduleRestart(told, i)
           load == IF s.p[i].suspend = "broken" THEN Broken ELSE Suspension(i)
<1>1. VisibilityChanged(w, visible) \in {w, seen, told, r, [s EXCEPT !.load = load]}
  BY DEF VisibilityChanged
<1>2. DOMAIN seen = ElementFields /\ seen.call = w.call BY DEF Good, Shape, ElementFields
<1> HIDE DEF seen
<1>3. DOMAIN showing = ElementFields /\ showing.call = w.call BY <1>2 DEF ElementFields
<1> HIDE DEF showing
<1>4. DOMAIN told = ElementFields /\ told.call = w.call
  BY <1>3 DEF UpdatePlayback, PausePlayer, ResumePlayer, ElementFields
<1> HIDE DEF told
<1>5. DOMAIN s = ElementFields /\ s.call = w.call
  BY <1>4 DEF SuspendForVisibility, Recover, ElementFields
<1> HIDE DEF s
<1>6. r.call = w.call BY <1>4 DEF ScheduleRestart, ScheduleReload, ElementFields
<1> HIDE DEF r
<1> QED BY <1>1, <1>2, <1>4, <1>5, <1>6 DEF ElementFields

LEMMA InstallSound ==
  ASSUME NEW w, Good(w), Roll(w), Basis(w), Stilled(w), NEW i, Offered(w, i),
         Standing(w) => \/ w.p[i].reason # "none"
                        \/ w.known /\ w.seen # i /\ ~Withdrawn(w),
         DOMAIN op = OperationFields, InstallCandidate(w, i)
  PROVE  Sound(el') /\ Where(el', op')
<1> DEFINE shown == IF w.known THEN VisibilityChanged(w, w.visible) ELSE w
           seen == UpdatePlayback(shown)
<1>1. \/ el' = seen /\ op' = [op EXCEPT !.step = "installing", !.player = i]
      \/ CompleteInstallation(seen, i)
  BY DEF InstallCandidate
<1>2. Standing(w) /\ w.p[i].reason # "none" => Fit(w)
  BY DEF Stilled, Offered, Fit, Fits, Suits
<1>3. i = w.player /\ i \in Players BY Numbers DEF Offered, Basis, Good, Shape
<1>4. Sound(seen) /\ Stays(w, seen)
  <2>1. CASE w.known
    <3>1. shown = VisibilityChanged(w, w.visible) BY <2>1
    <3>2. w.visible = w.visible /\ w.player = w.seen => Fit(w)
      BY <1>2, <1>3 DEF Fit
    <3>3. Sound(shown) /\ Stays(w, shown)
      BY <1>3, <2>1, <3>1, <3>2, VisibilityChangedSound DEF Stilled
    <3>4. shown.call = w.call BY <3>1, VisibilityChangedCall
    <3> HIDE DEF shown
    <3>5. Standing(shown) /\ shown.p[i].reason = "none" => ~Withdrawn(w)
      <4>1. Standing(shown) => Standing(w) BY <3>3, StaysStanding
      <4> QED BY <1>3, <3>3, <4>1 DEF Stays
    <3>6. Stilled(shown) BY <3>3 DEF Sound, Fit, Fits, Suits, Stilled
    <3>7. shown.player = i BY <1>3, <3>3 DEF Stays
    <3>8. Standing(shown) /\ shown.p[i].reason = "none" =>
            ~Withdrawn(shown) /\ (~Restored(shown) => (shown.p[i].shown <=> shown.visible))
      BY <3>3, <3>4, <3>5, <3>7 DEF Sound, Fit, Fits, Suits, Plays, Withdrawn, Uncertain
    <3>9. Sound(seen) /\ Stays(shown, seen)
      BY <3>3, <3>6, <3>7, <3>8, UpdatePlaybackSound DEF Sound
    <3> QED BY <3>3, <3>9, StaysOn
  <2>2. CASE ~w.known
    <3>1. shown = w BY <2>2
    <3>2. Standing(w) => w.p[i].reason # "none" BY <2>2
    <3> QED BY <1>3, <3>1, <3>2, UpdatePlaybackSound
  <2> QED BY <2>1, <2>2
<1> HIDE DEF seen
<1>5. Offered(seen, i) BY <1>3, <1>4 DEF Offered, Stays
<1>6. CASE el' = seen /\ op' = [op EXCEPT !.step = "installing", !.player = i]
  <2>1. /\ op'.step = "installing" /\ op'.player = i
        /\ op'.hidden = op.hidden /\ op'.reduced = op.reduced
    BY <1>6 DEF OperationFields
  <2> QED BY <1>4, <1>5, <1>6, <2>1
          DEF Offered, Where, OnLane, Place, Seeks, Retiring, Trying, Startup
<1> QED BY <1>1, <1>4, <1>5, <1>6, CompleteInstallationSound

(* The motion is reconciled with the one the player was made for, until it *)
(* is the same.                                                            *)
LEMMA ReconcileSound ==
  ASSUME NEW w, Good(w), Roll(w), Basis(w), Live(w), NEW i, Offered(w, i), NEW applied,
         Standing(w) =>
           /\ Hides(w, w.p[i]) /\ Waits(w.p[i]) /\ Turns(w, w.p[i]) /\ Parks(w, w.p[i])
           /\ Serves(w) /\ (w.reduced = applied => Moves(w, w.p[i]))
           /\ \/ w.p[i].reason # "none"
              \/ w.known /\ w.seen # i /\ ~Withdrawn(w) /\ (w.reduced = applied \/ w.reduced),
         DOMAIN op = OperationFields, ReconcileMotion(w, i, applied)
  PROVE  Sound(el') /\ Where(el', op')
<1>1. i = w.player /\ i # 0 /\ i \in Players BY Numbers DEF Offered, Basis, Good, Shape
<1>2. CASE w.reduced = applied
  <2>1. Stilled(w) BY <1>1, <1>2 DEF Stilled
  <2>2. InstallCandidate(w, i) BY <1>2 DEF ReconcileMotion
  <2> QED BY <2>1, <2>2, InstallSound
<1>3. CASE w.reduced # applied
  <2>1. /\ el' = SetMotion(w, i)
        /\ op' = [op EXCEPT !.step = "reconciling", !.applied = w.reduced, !.player = i]
    BY <1>3 DEF ReconcileMotion
  <2>2. /\ Sound(el') /\ Stays(w, el')
        /\ Standing(w) => el'.p[i].reason # "none"
    BY <1>1, <1>3, <2>1, SetMotionSound
  <2>3. /\ op'.step = "reconciling" /\ op'.player = i
        /\ op'.hidden = op.hidden /\ op'.reduced = op.reduced
    BY <2>1 DEF OperationFields
  <2>4. Offered(el', i) BY <1>1, <2>2 DEF Offered, Stays
  <2>5. el'.p[i].ready = "failed" \/ el'.p[i].reason # "none"
    BY <1>1, <2>2 DEF Offered, Standing, Stays
  <2> QED BY <1>1, <2>2, <2>3, <2>4, <2>5
          DEF Offered, Where, OnLane, Place, Seeks, Retiring, Trying, Startup
<1> QED BY <1>2, <1>3

(* A player is made when the ones before it have nothing left to do.       *)
LEMMA CandidateProbedSound ==
  ASSUME Inv, Sound(el), Where(el, op), ~MicrotaskDue, NEW queued, CandidateProbed(queued)
  PROVE  Sound(el') /\ Where(el', op')
<1> DEFINE i == el.made + 1
           m == Made(op.hidden, op.reduced, queued)
           w == AcceptCandidate(el, i, m)
<1>1. /\ op.step = "probing" /\ DOMAIN op = OperationFields /\ el.ops # <<>>
      /\ el.retiring = 0 /\ Good(el) /\ Roll(el) /\ Basis(el) /\ Lane(el, 1)
      /\ Live(el) /\ el.made < MaxPlayers /\ el.made \in Nat
      /\ i \in Players /\ i # 0 /\ i \in Nat
      /\ ReconcileMotion(w, i, op.reduced)
  BY RuntimeAssumption
     DEF CandidateProbed, Current, Live, Inv, At, Sound, Where, OnLane, Good, Shape, Players
<1>2. /\ ~el.terminal /\ op.reduced \in BOOLEAN /\ (~op.hidden => el.known)
      /\ el.player # 0 => /\ el.p[el.player].disposed /\ el.p[el.player].ready = "failed"
                          /\ ~el.p[el.player].recovering
  BY <1>1 DEF Where, Seeks, Place, Trying
<1>3. /\ DOMAIN m = PlayerFields /\ IsPlayer(m) /\ m.ready = "pending" /\ ~m.disposed
      /\ ~m.moving /\ ~m.published /\ ~m.restartRequested /\ m.suspend = "no"
      /\ m.reason = "none" => ~op.hidden /\ ~op.reduced
      /\ m.reason = "reduced-motion" => op.reduced
  BY DEF Made, PlayerFields, IsPlayer, Reasons
<1> HIDE DEF m
<1>4. /\ Good(w) /\ w.player = i /\ w.made = i /\ w.retiring = 0 /\ w.p[i] = m
      /\ w.suspended = 0 /\ w.suspending = 0 /\ w.seen = 0
      /\ SameLane(el, w) /\ SameReload(el, w) /\ w.call = el.call
      /\ w.connected = el.connected /\ w.visible = el.visible /\ w.playing = el.playing
      /\ w.reduced = el.reduced /\ w.known = el.known /\ w.terminal = el.terminal
      /\ w.finalDisposed = el.finalDisposed
      /\ \A j \in Players : j # i => w.p[j] = el.p[j]
  BY <1>1, <1>3, RuntimeAssumption
     DEF AcceptCandidate, Good, Shape, ElementFields, Players, SameLane, SameReload
<1> HIDE DEF w
<1>5. \A j \in 1 .. el.made : el.p[j].disposed /\ el.p[j].ready = "failed"
  <2> TAKE j \in 1 .. el.made
  <2>1. j \in Players /\ j # 0 /\ j <= el.made BY <1>1, Numbers
  <2>2. CASE j = el.player BY <1>2, <2>1, <2>2
  <2>3. CASE j # el.player BY <1>1, <2>1, <2>3 DEF Roll
  <2> QED BY <2>2, <2>3
<1>6. Roll(w)
  <2> SUFFICES ASSUME NEW j \in Players
               PROVE  /\ IsPlayer(w.p[j])
                      /\ j \notin {i, 0} => ~w.p[j].recovering
                      /\ j \notin {i, 0} /\ j <= i => w.p[j].disposed /\ w.p[j].ready = "failed"
    BY <1>4 DEF Roll
  <2>1. CASE j = i BY <1>3, <1>4, <2>1
  <2>2. CASE j # i
    <3>1. w.p[j] = el.p[j] /\ IsPlayer(el.p[j]) BY <1>1, <1>4, <2>2 DEF Roll
    <3>2. j # 0 /\ j \in Nat BY RuntimeAssumption DEF Players
    <3>3. ~el.p[j].recovering
      <4>1. CASE j = el.player BY <1>2, <3>2, <4>1
      <4>2. CASE j # el.player BY <1>1, <3>2, <4>2 DEF Roll
      <4> QED BY <4>1, <4>2
    <3>4. j <= i => j \in 1 .. el.made BY <1>1, <2>2, <3>2
    <3> QED BY <1>5, <3>1, <3>3, <3>4
  <2> QED BY <2>1, <2>2
<1>7. w.restart.player \in 0 .. el.made /\ w.restart.player # i
  BY <1>1, <1>4 DEF Basis, SameReload
<1>8. el.call.player \in 0 .. el.made BY <1>1 DEF Basis
<1>9. Basis(w)
  <2>1. /\ w.player \in 0 .. w.made /\ w.retiring \in 0 .. w.made
        /\ w.restart.player \in 0 .. w.made /\ w.call.player \in 0 .. w.made
    BY <1>1, <1>4, <1>7, <1>8
  <2> QED BY <1>1, <1>4, <2>1 DEF Basis, SameLane, SameReload, Live
<1>10. el.call.step # "resuming"
  <2> SUFFICES ASSUME el.call.step = "resuming" PROVE FALSE OBVIOUS
  <2>1. el.call.player \in 1 .. el.made BY <1>1, <1>8 DEF Basis
  <2>2. el.p[el.call.player].ready = "failed" BY <1>5, <2>1
  <2>3. ~el.p[el.call.player].resuming BY <2>1, <2>2 DEF MicrotaskDue
  <2>4. ResumeSettled(el.p[el.call.player]) BY <2>2, <2>3 DEF ResumeSettled
  <2> QED BY <2>4 DEF MicrotaskDue
<1>11. ~Withdrawn(w) BY <1>1, <1>4, Undue DEF Withdrawn, Uncertain
<1>12. Live(w) /\ Offered(w, i)
  <2>1. Lane(w, 1) BY <1>1, <1>4, LaneSame
  <2> QED BY <1>1, <1>2, <1>3, <1>4, <2>1 DEF Offered, Live, SameLane
<1>13. Hides(w, m) /\ Waits(m) /\ Turns(w, m) /\ Parks(w, m)
  BY <1>1, <1>3, <1>4 DEF Hides, Waits, Turns, Parks
<1>14. Serves(w) BY <1>2, <1>4, <1>7, <1>10 DEF Serves, AskedFor
<1>15. w.reduced = op.reduced => Moves(w, m) BY <1>3 DEF Moves
<1>16. m.reason = "none" => w.known /\ (w.reduced = op.reduced \/ w.reduced)
  BY <1>1, <1>2, <1>3, <1>4 DEF Basis
<1> HIDE DEF i
<1> QED BY <1>1, <1>4, <1>6, <1>9, <1>11, <1>12, <1>13, <1>14, <1>15, <1>16, ReconcileSound

LEMMA AtCandidate ==
  ASSUME Inv, Where(el, op), op.step \in {"reconciling", "installing", "qualifying"}
  PROVE  /\ DOMAIN op = OperationFields /\ Offered(el, op.player)
         /\ op.step = "reconciling" =>
              el.p[op.player].ready = "failed" \/ el.p[op.player].reason # "none"
BY DEF Inv, At, Where, OnLane, Place, Seeks, Startup, Trying, Offered

LEMMA MotionReconciledSound ==
  ASSUME Inv, Sound(el), Where(el, op), MotionReconciled PROVE Sound(el') /\ Where(el', op')
<1> DEFINE i == op.player
<1>1. /\ op.step = "reconciling"
      /\ \/ CandidateFails(el, i)
         \/ /\ Live(el) /\ el.p[i].ready # "failed"
            /\ ReconcileMotion(el, i, op.applied)
  BY DEF MotionReconciled, Current, Live
<1>2. /\ DOMAIN op = OperationFields /\ Offered(el, i)
      /\ el.p[i].ready = "failed" \/ el.p[i].reason # "none"
  BY <1>1, AtCandidate
<1>3. CASE CandidateFails(el, i) BY <1>1, <1>3, CandidateFailsSound
<1>4. CASE Live(el) /\ el.p[i].ready # "failed" /\ ReconcileMotion(el, i, op.applied)
  <2>1. i = el.player BY <1>2 DEF Offered
  <2>2. Standing(el) =>
          /\ Hides(el, el.p[i]) /\ Waits(el.p[i]) /\ Turns(el, el.p[i]) /\ Parks(el, el.p[i])
          /\ Serves(el) /\ Moves(el, el.p[i])
    BY <2>1 DEF Sound, Fit, Fits, Suits
  <2> QED BY <1>2, <1>4, <2>2, ReconcileSound DEF Sound
<1> QED BY <1>1, <1>3, <1>4

LEMMA CandidateSettlesSound ==
  ASSUME Inv, Sound(el), Where(el, op),
         CandidateSuspended \/ CandidateQualified \/ CandidateTimesOut
  PROVE  Sound(el') /\ Where(el', op')
<1>1. /\ op.step \in {"reconciling", "installing", "qualifying"}
      /\ \/ CandidateFails(el, op.player)
         \/ CompleteInstallation(el, op.player)
         \/ el' = el /\ op' = [op EXCEPT !.step = "created"] /\ op.step = "qualifying"
  BY DEF CandidateSuspended, CandidateQualified, CandidateTimesOut
<1>2. DOMAIN op = OperationFields /\ Offered(el, op.player) BY <1>1, AtCandidate
<1>3. CASE CandidateFails(el, op.player) BY <1>1, <1>3, CandidateFailsSound
<1>4. CASE CompleteInstallation(el, op.player) BY <1>2, <1>4, CompleteInstallationSound
<1>5. CASE el' = el /\ op' = [op EXCEPT !.step = "created"] /\ op.step = "qualifying"
  <2>1. op'.step = "created" /\ op'.player = op.player BY <1>2, <1>5 DEF OperationFields
  <2> QED BY <1>2, <1>5, <2>1
          DEF Offered, Where, OnLane, Place, Seeks, Retiring, Trying, Startup
<1> QED BY <1>1, <1>3, <1>4, <1>5

LEMMA PlayerCreatedSound ==
  ASSUME Inv, Sound(el), Where(el, op), PlayerCreated PROVE Sound(el') /\ Where(el', op')
<1>1. /\ op.step = "created" /\ DOMAIN op = OperationFields /\ el.ops # <<>> /\ Lane(el, 1)
      /\ op.player = el.player /\ el.player # 0 /\ ~el.p[el.player].disposed
  BY DEF PlayerCreated, Inv, At, Where, OnLane, Place, Startup
<1>2. CASE BeginRetirement(el, "abort", FALSE) BY <1>1, <1>2, BeginRetirementSound DEF Sound
<1>3. CASE /\ op' = [op EXCEPT !.step = IF el.suspending = op.player
                                        THEN "awaiting" ELSE "preparing"]
           /\ UNCHANGED el
  <2>1. op'.step \in {"awaiting", "preparing"} /\ op'.player = op.player
    BY <1>1, <1>3 DEF OperationFields
  <2> QED BY <1>1, <1>3, <2>1 DEF Where, OnLane, Place, Seeks, Retiring, Trying, Startup
<1> QED BY <1>2, <1>3 DEF PlayerCreated

(* A player is published: a restart that was held back is asked for.       *)
LEMMA PublishSound ==
  ASSUME NEW w, Sound(w), Lane(w, 1), w.ops # <<>>, NEW i, i = w.player, i # 0,
         Live(w) => /\ w.preparing # i /\ ~w.p[i].disposed
                    /\ w.p[i].ready \in {"animated", "static"}
                    /\ w.visible \/ w.suspended = i \/ w.p[i].suspend \in {"pending", "broken"},
         Publish(w, i)
  PROVE  Sound(el') /\ Where(el', op')
<1> DEFINE v == [w EXCEPT !.p[i].published = TRUE, !.p[i].restartHeld = FALSE]
           u == ScheduleRestart(v, i)
<1>1. CASE ~Live(w)
  <2>1. ~Current(w) /\ ~Standing(w) /\ Left(w) BY <1>1 DEF Current, Live, Standing, Left
  <2> QED BY <2>1, FinishSound DEF Publish
<1>2. CASE Live(w)
  <2>1. /\ Current(w) /\ Good(w) /\ Roll(w) /\ Basis(w) /\ Standing(w)
        /\ Fits(w, w.p[i]) /\ Serves(w)
    BY <1>2 DEF Current, Live, Sound, Basis, Standing, Fit
  <2>2. i \in Players BY <2>1, Numbers DEF Basis, Good, Shape
  <2>3. /\ Only1(w, v, i) /\ SameStanding(w.p[i], v.p[i]) /\ SamePlay(w.p[i], v.p[i])
        /\ v.p[i].moving = w.p[i].moving /\ v.p[i].published
        /\ v.p[i].restartRequested = w.p[i].restartRequested
    BY <2>1, <2>2 DEF Good, Shape, ElementFields, PlayerFields, Only1, SameHost, SameWho,
                      SameLane, SameSuspension, SameReload, SameStanding, SamePlay
  <2>4. Finish(IF w.p[i].restartHeld THEN u ELSE v, TRUE)
    <3>1. (~w.p[i].disposed /\ w.p[i].ready # "failed") = TRUE BY <1>2
    <3> QED BY <2>1, <3>1 DEF Publish
  <2> HIDE DEF v
  <2>5. Suits(w, v.p[i]) /\ Parks(w, v.p[i])
    BY <1>2, <2>1, <2>3
       DEF Fits, Suits, Moves, Hides, Waits, Plays, Parks, SameStanding, SamePlay
  <2>6. ~w.p[i].restartHeld => Turns(w, v.p[i])
    BY <2>1, <2>3 DEF Fits, Suits, Waits, Turns, SameStanding
  <2>7. IsPlayer(v.p[i]) BY <2>1, <2>2, <2>3 DEF Roll, IsPlayer, SameStanding
  <2>8. Good(v) /\ Roll(v) /\ Basis(v)
    <3>1. Roll(v) BY <2>1, <2>2, <2>3, <2>7, Only1Roll
    <3>2. Basis(v) BY <2>1, <2>3, Only1Basis
    <3> QED BY <2>3, <3>1, <3>2 DEF Only1
  <2>9. /\ v.player = i /\ v.controller = w.controller /\ v.ops = w.ops
        /\ v.preparing = w.preparing /\ ~v.p[i].disposed
        /\ v.p[i].ready \in {"animated", "static"}
    BY <1>2, <2>3 DEF Only1, SameHost, SameWho, SameLane, SameStanding
  <2>10. Lane(v, 1) BY <2>3, LaneSame DEF Only1
  <2>11. /\ Suits(v, v.p[i]) /\ Parks(v, v.p[i]) /\ Serves(v)
         /\ ~w.p[i].restartHeld => Turns(v, v.p[i])
    <3>1. /\ AskedFor(v) = AskedFor(w) /\ Restored(v) = Restored(w)
          /\ Withdrawn(v) = Withdrawn(w) /\ Uncertain(v) = Uncertain(w)
      BY <2>3 DEF AskedFor, Restored, Withdrawn, Uncertain, Only1, SameReload, SameWho
    <3>2. /\ Moves(w, v.p[i]) => Moves(v, v.p[i])
          /\ Hides(w, v.p[i]) => Hides(v, v.p[i])
          /\ Plays(w, v.p[i]) => Plays(v, v.p[i])
          /\ Parks(w, v.p[i]) => Parks(v, v.p[i])
          /\ Turns(w, v.p[i]) => Turns(v, v.p[i])
          /\ Serves(w) => Serves(v)
      BY <2>3, <3>1 DEF Moves, Hides, Plays, Parks, Turns, Serves, Only1, SameHost, SameWho,
                        SameSuspension, SameReload
    <3> QED BY <2>1, <2>5, <2>6, <3>1, <3>2 DEF Suits
  <2>12. Standing(v) BY <1>2, <2>9 DEF Standing, Live
  <2>13. CASE w.p[i].restartHeld
    <3>1. Firm(v) BY <2>8, <2>9, <2>11 DEF Firm, Loose
    <3>2. Sound(u) /\ Stays(v, u) BY <2>9, <2>11, <3>1, ScheduleRestartSound
    <3>3. Left(u) /\ Lane(u, 1) /\ u.ops # <<>>
      BY <1>2, <2>2, <2>3, <2>9, <2>10, <3>2 DEF Stays, Left
    <3>4. Finish(u, TRUE) BY <2>4, <2>13
    <3> HIDE DEF u
    <3> QED BY <3>2, <3>3, <3>4, FinishSound
  <2>14. CASE ~w.p[i].restartHeld
    <3>1. Sound(v) BY <2>8, <2>9, <2>11, <2>14 DEF Sound, Fit, Fits
    <3>2. Left(v) BY <1>2, <2>3, <2>9 DEF Left
    <3> QED BY <2>4, <2>9, <2>10, <2>14, <3>1, <3>2, FinishSound
  <2> QED BY <2>13, <2>14
<1> QED BY <1>1, <1>2

(* The player is prepared, or hidden, and published.                       *)
LEMMA AtPlayer ==
  ASSUME Inv, Where(el, op), op.step \in {"awaiting", "preparing", "hiding"}
  PROVE  /\ DOMAIN op = OperationFields /\ el.ops # <<>> /\ Lane(el, 1)
         /\ op.player = el.player /\ el.player # 0 /\ ~el.p[el.player].disposed
BY DEF Inv, At, Where, OnLane, Place, Startup

LEMMA PlayerHiddenSound ==
  ASSUME Inv, Sound(el), Where(el, op), PlayerHidden PROVE Sound(el') /\ Where(el', op')
<1>1. /\ op.step = "hiding" /\ DOMAIN op = OperationFields /\ el.ops # <<>> /\ Lane(el, 1)
      /\ op.player = el.player /\ el.player # 0 /\ ~el.p[el.player].disposed
  BY AtPlayer DEF PlayerHidden
<1>2. CASE Publish(el, op.player) /\ el.p[op.player].suspend = "kept"
  <2>1. el.player \in Players BY <1>1, Numbers DEF Sound, Basis, Good, Shape
  <2>2. el.p[el.player].ready = "static"
    BY <1>1, <1>2, <2>1 DEF Sound, Roll, IsPlayer
  <2>3. Live(el) => el.suspended = el.player /\ el.preparing # el.player
    BY <1>1, <1>2, <2>2 DEF Sound, Fit, Fits, Parks, Standing, Where, Seeks
  <2> QED BY <1>1, <1>2, <2>2, <2>3, PublishSound
<1>3. CASE GenerationFailed(el, FALSE) BY <1>1, <1>3, GenerationFailedSound
<1> QED BY <1>2, <1>3 DEF PlayerHidden

LEMMA PlayerPreparedSound ==
  ASSUME Inv, Sound(el), Where(el, op), PlayerPrepared PROVE Sound(el') /\ Where(el', op')
<1> DEFINE i == op.player
           w == [el EXCEPT !.preparing = IF @ = i THEN 0 ELSE @]
           kept == IF op.step = "awaiting" THEN el.p[i].suspend = "kept"
                   ELSE el.p[i].ready # "failed"
           u == CompleteVisibilitySuspension(w, i)
<1>1. /\ op.step \in {"awaiting", "preparing"} /\ DOMAIN op = OperationFields
      /\ el.ops # <<>> /\ Lane(el, 1) /\ i = el.player /\ el.player # 0
      /\ ~el.p[el.player].disposed
      /\ op.step = "preparing" => el.p[i].ready # "pending"
  BY AtPlayer DEF PlayerPrepared
<1>2. /\ i \in Players /\ i \in 1 .. el.made /\ IsPlayer(el.p[i])
  BY <1>1, Numbers DEF Sound, Roll, Basis, Good, Shape
<1>3. /\ Good(w) /\ w.p = el.p /\ SameWho(el, w) /\ SameLane(el, w)
      /\ SameSuspension(el, w) /\ SameReload(el, w) /\ w.call = el.call
      /\ w.connected = el.connected /\ w.visible = el.visible /\ w.playing = el.playing
      /\ w.reduced = el.reduced /\ w.known = el.known /\ w.finalDisposed = el.finalDisposed
      /\ w.terminal = el.terminal
      /\ w.preparing # i
  BY <1>1 DEF Sound, Good, Shape, ElementFields, SameWho, SameLane, SameSuspension, SameReload
<1>4. /\ \/ ~Current(w) /\ Finish(w, FALSE)
         \/ ~kept /\ op.step = "awaiting" /\ GenerationFailed(w, FALSE)
         \/ ~kept /\ op.step = "preparing" /\ GenerationFailed(PublishTerminal(w), TRUE)
         \/ kept /\ w.visible /\ Publish(w, i)
         \/ /\ kept /\ ~w.visible /\ w.p[i].ready = "static"
            /\ w.p[i].reason = "visibility-suspended" /\ Publish(u, i)
         \/ /\ kept /\ el' = SuspendForVisibility(w, i)
            /\ op' = [op EXCEPT !.step = "hiding"]
  BY <1>1 DEF PlayerPrepared
<1> HIDE DEF w
<1>5. Sound(w)
  <2>1. Roll(w) BY <1>3 DEF Sound, Roll, SameWho
  <2>2. Basis(w) BY <1>3 DEF Sound, Basis, SameWho, SameLane, SameReload, Live
  <2>3. /\ AskedFor(w) = AskedFor(el) /\ Restored(w) = Restored(el)
        /\ Uncertain(w) = Uncertain(el) /\ Withdrawn(w) = Withdrawn(el)
    BY <1>3 DEF AskedFor, Restored, Uncertain, Withdrawn, SameReload, SameWho
  <2>4. \A q : Plays(el, q) => Plays(w, q) BY <1>3, <2>3 DEF Plays
  <2>5. \A q : Fits(el, q) => Fits(w, q)
    BY <1>3, <2>3, <2>4 DEF Fits, Suits, Moves, Hides, Turns, Parks, SameWho, SameSuspension
  <2>6. Serves(el) => Serves(w) BY <1>3, <2>3 DEF Serves, SameWho, SameReload
  <2>7. Standing(w) => Standing(el) BY <1>3 DEF Standing, SameWho, SameLane, Live
  <2>8. Fit(w) BY <1>3, <2>5, <2>6, <2>7 DEF Sound, Fit, SameWho
  <2> QED BY <1>3, <2>1, <2>2, <2>8 DEF Sound
<1>6. Lane(w, 1) /\ w.ops # <<>> /\ w.player = i
  BY <1>1, <1>3, LaneSame DEF SameLane, SameWho
<1>7. CASE ~Current(w) /\ Finish(w, FALSE)
  <2>1. ~Live(w) BY <1>5, <1>7 DEF Sound, Basis, Live, Current
  <2>2. ~Standing(w) /\ Left(w) BY <2>1 DEF Standing, Left
  <2> QED BY <1>5, <1>6, <1>7, <2>2, FinishSound
<1>8. CASE GenerationFailed(w, FALSE) BY <1>1, <1>5, <1>6, <1>8, GenerationFailedSound
<1>9. CASE ~kept /\ op.step = "preparing" /\ GenerationFailed(PublishTerminal(w), TRUE)
  <2>1. ~Standing(w) BY <1>3, <1>6, <1>9 DEF Standing
  <2> DEFINE t == PublishTerminal(w)
  <2>2. Sound(t) /\ SameLane(w, t) BY <1>5, <2>1, PublishTerminalSound
  <2>3. t.ops # <<>> /\ Lane(t, 1) BY <1>6, <2>2, LaneSame DEF SameLane
  <2>4. GenerationFailed(t, TRUE) BY <1>9
  <2> HIDE DEF t
  <2> QED BY <1>1, <2>2, <2>3, <2>4, GenerationFailedSound
<1>10. ASSUME kept
       PROVE  /\ ~w.p[i].disposed /\ w.p[i].ready \in {"animated", "static"}
              /\ Standing(w) <=> Live(w)
  <2>1. w.p[i].ready \in {"animated", "static"}
    <3>1. CASE op.step = "awaiting" BY <1>2, <1>3, <1>10, <3>1 DEF IsPlayer
    <3>2. CASE op.step = "preparing" BY <1>1, <1>2, <1>3, <1>10, <3>2 DEF IsPlayer
    <3> QED BY <1>1, <3>1, <3>2
  <2> QED BY <1>1, <1>3, <1>6, <2>1 DEF Standing
<1>11. CASE kept /\ w.visible /\ Publish(w, i)
  <2>1. ~w.p[i].disposed /\ w.p[i].ready \in {"animated", "static"} BY <1>10, <1>11
  <2> QED BY <1>1, <1>3, <1>5, <1>6, <1>11, <2>1, PublishSound
<1>12. CASE /\ kept /\ ~w.visible /\ w.p[i].ready = "static"
            /\ w.p[i].reason = "visibility-suspended" /\ Publish(u, i)
  <2>1. /\ ~w.p[i].disposed /\ w.p[i].ready \in {"animated", "static"}
        /\ Standing(w) <=> Live(w)
    BY <1>10, <1>12
  <2>2. Standing(w) => Moves(w, w.p[i]) /\ Waits(w.p[i]) /\ Serves(w)
    BY <1>5, <1>6 DEF Sound, Fit, Fits, Suits
  <2>3. i \in 1 .. w.made BY <1>2, <1>3 DEF SameWho
  <2>4. Sound(u) /\ Stays(w, u) /\ u.p = w.p
    BY <1>5, <1>6, <1>12, <2>2, <2>3, CompleteSound DEF Sound
  <2>5. u.suspended = i
    BY <1>3, <1>6, <1>12 DEF CompleteVisibilitySuspension, Good, Shape, ElementFields
  <2> HIDE DEF u
  <2>6. Lane(u, 1) /\ u.ops # <<>> /\ u.player = i /\ (Live(u) => u.preparing # i)
    BY <1>3, <1>6, <2>4 DEF Stays
  <2> QED BY <1>1, <1>12, <2>1, <2>4, <2>5, <2>6, PublishSound
<1>13. CASE /\ kept /\ el' = SuspendForVisibility(w, i)
            /\ op' = [op EXCEPT !.step = "hiding"]
  <2>1. Firm(w) BY <1>5 DEF Sound, Firm, Fit, Fits, Loose
  <2>2. Sound(el') /\ Stays(w, el') BY <1>1, <1>6, <1>13, <2>1, SuspendSound
  <2>3. op'.step = "hiding" /\ op'.player = i BY <1>1, <1>13 DEF OperationFields
  <2>4. /\ el'.player = i /\ el'.p[i].disposed = w.p[i].disposed /\ Lane(el', 1)
        /\ Live(el') => el'.preparing = w.preparing
    BY <1>2, <1>6, <2>2 DEF Stays
  <2>5. ~w.p[i].disposed BY <1>1, <1>3
  <2> QED BY <1>1, <1>3, <2>2, <2>3, <2>4, <2>5
          DEF Where, OnLane, Place, Seeks, Retiring, Trying, Startup
<1> QED BY <1>4, <1>7, <1>8, <1>9, <1>11, <1>12, <1>13

----------------------------------------------------------------------------
(* At first there is nobody, and every step keeps what is known.           *)
LEMMA InitSound == Init => Sound(el) /\ Where(el, op)
<1> SUFFICES ASSUME Init PROVE Sound(el) /\ Where(el, op) OBVIOUS
<1>1. PICK playing \in BOOLEAN :
        el = [connected |-> FALSE, visible |-> FALSE, playing |-> playing, reduced |-> FALSE,
              observed |-> FALSE, known |-> FALSE, frozen |-> FALSE,
              player |-> 0, retiring |-> 0, seen |-> 0, preparing |-> 0, suspending |-> 0,
              suspended |-> 0, restart |-> NoRestart, load |-> NoLoad, controller |-> "none",
              finalDisposed |-> FALSE, disposal |-> "none",
              reloadQueued |-> FALSE, reloadReplace |-> FALSE, reloadTasks |-> 0,
              terminal |-> FALSE, failing |-> 0, call |-> NoCall,
              sequence |-> 0, ops |-> <<>>, made |-> 0,
              p |-> [i \in Players |-> Made(FALSE, FALSE, FALSE)]]
  BY DEF Init
<1>2. Good(el) BY InitInv DEF Inv, Held
<1>3. Roll(el)
  <2>1. \A i \in Players : el.p[i] = Made(FALSE, FALSE, FALSE) BY <1>1
  <2>2. IsPlayer(Made(FALSE, FALSE, FALSE)) /\ ~Made(FALSE, FALSE, FALSE).recovering
    BY DEF IsPlayer, Made, Reasons
  <2>3. \A i \in Players : ~(i <= el.made) BY <1>1, RuntimeAssumption DEF Players
  <2> QED BY <2>1, <2>2, <2>3 DEF Roll
<1>4. Basis(el) BY <1>1 DEF Basis, NoRestart, NoCall, CallFields, Live
<1>5. Fit(el) BY <1>1 DEF Fit, Standing
<1>6. Where(el, op)
  <2>1. op.step = "idle" /\ el.controller = "none" /\ el.ops = <<>> BY <1>1 DEF Init, Idle
  <2>2. Lane(el, 0) BY <2>1 DEF Lane, Dated, Live
  <2> QED BY <2>1, <2>2
          DEF Where, OnLane, Place, Seeks, Left, Live, Retiring, Trying, Startup
<1> QED BY <1>2, <1>3, <1>4, <1>5, <1>6 DEF Sound

LEMMA AdvanceSound ==
  ASSUME Inv, Sound(el), Where(el, op), Advance PROVE Sound(el') /\ Where(el', op')
<1>1. ASSUME Sound(el'), Stays(el, el'), UNCHANGED op PROVE Sound(el') /\ Where(el', op')
  BY <1>1, WhereStays DEF Sound
<1>2. CASE \/ Started \/ RetirementProceeds \/ Retired \/ GenerationStarts
           \/ MotionReconciled \/ CandidateSuspended \/ CandidateQualified
           \/ PlayerCreated \/ PlayerPrepared \/ PlayerHidden
  BY <1>2, StartedSound, RetirementProceedsSound, RetiredSound, GenerationStartsSound,
     MotionReconciledSound, CandidateSettlesSound, PlayerCreatedSound, PlayerPreparedSound,
     PlayerHiddenSound
<1>3. CASE ReloadTask /\ UNCHANGED op BY <1>1, <1>3, ReloadTaskSound
<1>4. CASE FailureTask /\ UNCHANGED op BY <1>4, FailureTaskSound
<1>5. CASE (ResumeEnsured \/ ResumeAnswered) /\ UNCHANGED op
  BY <1>1, <1>5, ResumeEnsuredSound, ResumeAnsweredSound
<1>6. CASE (\E i \in 1 .. el.made : PlayerResumes(i) \/ MotionSettles(i)) /\ UNCHANGED op
  BY <1>1, <1>6, PlayerResumesSound, MotionSettlesSound
<1>7. CASE Microtask BY <1>2, <1>3, <1>4, <1>5, <1>6, <1>7 DEF Microtask
<1>8. CASE ~MicrotaskDue /\ Completion
  <2>1. CASE PlayerRetired \/ RetirementFails \/ RuntimeLoaded \/ RuntimeFails \/ ProbeFails
    BY <2>1, PlayerRetiredSound, RetirementFailsSound, RuntimeLoadedSound, StartFailsSound
  <2>2. CASE \E queued \in BOOLEAN : CandidateProbed(queued)
    BY <1>8, <2>2, CandidateProbedSound
  <2>3. CASE CandidateTimesOut BY <2>3, CandidateSettlesSound
  <2>4. CASE \E ok, retry \in BOOLEAN : CandidateRejected(ok, retry)
    BY <2>4, CandidateRejectedSound
  <2>5. CASE /\ \E i \in 1 .. el.made :
                  \/ \E ready \in {"animated", "static", "failed"} : PreparationEnds(i, ready)
                  \/ RecoveryEnds(i) \/ RecoveryFails(i) \/ PlaybackFails(i)
             /\ UNCHANGED op
    BY <2>5, PreparationEndsSound, RecoveryEndsSound, RecoveryFailsSound, PlaybackFailsSound
  <2> QED BY <1>8, <2>1, <2>2, <2>3, <2>4, <2>5 DEF Completion
<1> QED BY <1>7, <1>8 DEF Advance

LEMMA NextSound ==
  ASSUME Inv, Inv', Sound(el), Where(el, op), [Next]_vars PROVE Sound(el') /\ Where(el', op')
<1>1. CASE Advance BY <1>1, AdvanceSound
<1>2. CASE Occur \/ \E known \in BOOLEAN : RestoreFromPageCache(known)
  <2>1. /\ UNCHANGED op
        /\ \/ Call \/ (Appearance /\ ~MicrotaskDue) \/ (Event /\ ~MicrotaskDue)
           \/ \E known \in BOOLEAN : RestoreFromPageCache(known)
    BY <1>2 DEF Occur, RestoreFromPageCache
  <2>2. Good(el') BY DEF Inv, Held
  <2>3. Sound(el') /\ Stays(el, el') BY <2>1, <2>2, OccurSound
  <2> QED BY <2>1, <2>3, WhereStays DEF Sound
<1>3. CASE UNCHANGED vars BY <1>3 DEF vars
<1> QED BY <1>1, <1>2, <1>3 DEF Next

(* At rest the lane is empty, so that a player there is is the one of a    *)
(* live generation, which it has published, and nothing is asked for.      *)
LEMMA SoundStands == Inv /\ Sound(el) /\ Where(el, op) => StandsAsAsked
<1> SUFFICES ASSUME Inv, Sound(el), Where(el, op), AtRest, el.player # 0
             PROVE  StandsAsAsked
  BY DEF StandsAsAsked
<1> DEFINE q == el.p[el.player]
<1>1. /\ op.step = "idle" /\ el.ops = <<>> /\ el.reloadTasks = 0 /\ el.failing = 0
      /\ el.call.step = "none"
      /\ \A i \in Players : ~el.p[i].recovering /\ ~el.p[i].resuming
  BY DEF AtRest
<1>2. Live(el)
  <2>1. el.controller # "aborted" BY <1>1 DEF Where, Lane, OnLane
  <2> QED BY <2>1 DEF Sound, Basis, Live
<1>3. el.player \in Players BY Numbers DEF Sound, Basis, Good, Shape
<1>4. q.ready # "failed" /\ ~q.disposed /\ q.published BY <1>1, <1>2 DEF Where, Left
<1>5. Fits(el, q) BY <1>2, <1>4 DEF Sound, Fit, Standing
<1>6. IsPlayer(q) /\ ~q.recovering /\ ~q.resuming /\ q.suspend # "pending"
  BY <1>1, <1>3 DEF Sound, Roll, IsPlayer
<1>7. ~AskedFor(el) /\ ~Restored(el)
  BY <1>1, <1>2, <1>4 DEF Sound, Basis, Fit, Standing, Serves, Restored
<1>8. ~Uncertain(el) /\ ~Withdrawn(el) BY <1>1 DEF Uncertain, Withdrawn
<1>9. q.reason = "none" => (~q.paused /\ q.shown <=> el.playing /\ el.visible)
  BY <1>5, <1>6, <1>7, <1>8 DEF Fits, Suits, Plays
<1>10. el.visible /\ el.reduced => q.reason # "none" BY <1>5 DEF Fits, Suits, Moves
<1>11. el.visible /\ ~el.reduced /\ q.suspend # "broken" => q.reason # "reduced-motion"
  BY <1>4, <1>5, <1>6, <1>7 DEF Fits, Suits, Moves, Turns
<1> QED BY <1>4, <1>9, <1>10, <1>11 DEF StandsAsAsked, Shown

(* Whatever sources, motion and visibility an element was given meanwhile, *)
(* and however its generations superseded each other, a player that is     *)
(* left when everything has come to rest is the one that was asked for     *)
(* last: #updatePlayback, #applyMotion, #scheduleRestart and               *)
(* #startGeneration of element-runtime-session.ts.                         *)
THEOREM StandsHolds == Spec => []StandsAsAsked
<1> DEFINE IInv == Inv /\ Sound(el) /\ Where(el, op)
<1>1. Init => IInv BY InitInv, InitSound
<1>2. IInv /\ [Next]_vars => IInv'
  <2> SUFFICES ASSUME IInv, [Next]_vars PROVE IInv' OBVIOUS
  <2>1. Inv' BY NextInv
  <2> QED BY <2>1, NextSound
<1>3. IInv => StandsAsAsked BY SoundStands
<1> HIDE DEF IInv
<1> QED BY <1>1, <1>2, <1>3, PTL DEF Spec
=============================================================================
