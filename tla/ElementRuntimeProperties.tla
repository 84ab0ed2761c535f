---------------------- MODULE ElementRuntimeProperties ----------------------
(***************************************************************************)
(* What the runtime session of an element promises while generations       *)
(* supersede each other: one player at a time, the player that is wanted   *)
(* once everything has come to rest, and an answer to whoever waits.       *)
(***************************************************************************)
EXTENDS ElementRuntime

(* The players whose resources are not proven to be given back.            *)
Unproven == {i \in 1 .. el.made : ~(el.p[i].disposed /\ el.p[i].retired)}

(* At most one player has resources, however many generations were         *)
(* superseded while theirs was made, and a disposal that resolved left     *)
(* none: #startGeneration and dispose() of element-runtime-session.ts.     *)
OnePlayer ==
  /\ Cardinality(Unproven) <= 1
  /\ el.disposal = "done" => Unproven = {}

(* Nothing is under way: no operation, no microtask, no await.             *)
AtRest ==
  /\ op.step = "idle" /\ el.ops = <<>> /\ el.reloadTasks = 0 /\ el.failing = 0
  /\ el.call.step = "none" /\ ~el.frozen
  /\ \A i \in Players : ~el.p[i].recovering /\ ~el.p[i].resuming /\ ~el.p[i].moving

Shown == el.p[el.player]

(* A player at rest is the one that was asked for last: one that animates  *)
(* runs exactly when the element is to play and is visible - no outdated   *)
(* resume() or setMotion() has started or stopped it - and a visible one   *)
(* is reduced exactly when motion is to be.  The last does not hold of a   *)
(* player whose suspension was rejected: completing it throws when motion  *)
(* was reduced meanwhile (#completeVisibilitySuspension), the session      *)
(* takes the player to be suspending from then on, and a player that was   *)
(* reduced is not restarted when motion is restored while it is hidden.    *)
StandsAsAsked ==
  AtRest /\ el.player # 0 =>
    /\ Shown.ready = "animated" /\ Shown.reason = "none" =>
         /\ ~Shown.paused /\ Shown.shown <=> el.playing /\ el.visible
         /\ Shown.published
    /\ el.visible /\ el.reduced => Shown.reason # "none"
    /\ el.visible /\ ~el.reduced /\ Shown.suspend # "broken"
         => Shown.reason # "reduced-motion"

(* What a visible element shows is not suspended for being hidden:         *)
(* docs/element/fallback-and-reduced-motion.md has re-entry rebuild it.    *)
ShownResumes ==
  AtRest /\ el.player # 0 /\ el.visible => Shown.reason # "visibility-suspended"

----------------------------------------------------------------------------
(* Liveness, under fair microtasks and completions.                        *)

(* An element that stays connected gets a player that is published, or the *)
(* application is told why not: by a terminal failure, or by the cleanup   *)
(* of a player that stays behind (#generationFailed, #ensure).             *)
Served ==
  el.connected /\ ~el.finalDisposed ~>
    \/ ~el.connected \/ el.frozen \/ el.finalDisposed
    \/ el.terminal \/ el.retiring # 0
    \/ el.player # 0 /\ Shown.published

(* resume() and dispose() settle, whatever replaces or retires the player  *)
(* they wait for, unless the page is kept in the cache meanwhile.          *)
CallsSettle ==
  /\ el.call.step # "none" ~> el.call.step = "none" \/ el.frozen
  /\ el.disposal = "pending" ~> el.disposal # "pending" \/ el.frozen
=============================================================================
