---------------------- MODULE PlayerSessionProperties ----------------------
(***************************************************************************)
(* What a PlayerSession promises the element: no promise is lost, no frame *)
(* is drawn for an animation that ended, and the events tell what happened.*)
(***************************************************************************)
EXTENDS PlayerSession

----------------------------------------------------------------------------
(* Every promise of setState is held, resolved or rejected, and only one   *)
(* of these; those that the engine still means to settle are held, so that *)
(* "Invalid AVAL request settlement" is never thrown.                      *)
PromisesKept ==
  /\ registered \cup resolved \cup refused = 1..(nextId - 1)
  /\ registered \cap (resolved \cup refused) = {} /\ resolved \cap refused = {}
  /\ group # None => group.ids \subseteq registered

(* The scheduler never falls asleep while the graph has frames to play: a  *)
(* frame is requested or being drawn whenever the session may run.         *)
NoLostWakeup == prep = "done" /\ MayRun => raf

(* No frame is requested of a session that is hidden, paused, waits for    *)
(* its context, has stopped, or rests in a static frame.                   *)
NoStrayFrame ==
  raf => /\ visible /\ ~paused /\ ~awaiting /\ ~Stopped /\ published
         /\ staticReason # None => recovery # None /\ recovery.stage = "queued"

(* A frame is requested when it is wanted, and only then.                  *)
FramesFit == NoLostWakeup /\ NoStrayFrame

(* requestedstatechange is published at once: the host always knows where  *)
(* the routes lead, whatever is being drawn.                               *)
AskedIsRequested == graph # None /\ ~Stopped => asked = requested

(* While the session animates, the host knows the state that is displayed, *)
(* and the edge that is on the way, as soon as the draw is over.           *)
Animating == /\ graph # None /\ ~Stopped /\ staticReason = None
             /\ ~awaiting /\ ~restarting

ShownIsVisual ==
  Animating /\ tickDraw = "none" =>
    /\ shown = visual
    /\ open = IF active = None THEN None ELSE active.edge

(* The host is told the truth: at once what was asked for, and with each   *)
(* draw what is displayed and which edge is on the way.                    *)
HostKnows == AskedIsRequested /\ ShownIsVisual

(* A session that rests in a static frame, its resources retired, rests in *)
(* the state that was asked for, with no route and nobody waiting in the   *)
(* engine.                                                                 *)
StaticAtRest ==
  retirement = "done" /\ ~Stopped /\ recovery = None =>
    readiness = "static" /\ visual = requested /\ ~HasRoute /\ group = None

----------------------------------------------------------------------------
(* A session that was disposed of or has failed publishes no event: only   *)
(* promises are still rejected.  And once a session has asked to be started *)
(* anew, no draw of its animation publishes anything: the next session     *)
(* begins with a clean account.                                            *)
NothingStale ==
  [][/\ Stopped => \A i \in DOMAIN told' : told'[i].type \in {"settle", "readiness"}
     /\ restarting /\ tickDraw # "none" /\ tickDraw' = "none" => told' = <<>>]_sessionVars

(* A failure is not silent: every promise is rejected in the end.          *)
FailureTold == Failed ~> registered = {}

(* A request of a session that goes on animating is answered.              *)
Interrupted == ~(Animating /\ published /\ visible /\ ~paused)

HeardOf(id) == id \in registered ~> id \notin registered \/ Interrupted

----------------------------------------------------------------------------
(* What the documents say and the code does not do.                        *)

(* "Each graph settle effect resolves or rejects exactly the named request *)
(* IDs in the following microtask": when no draw and no recovery is under  *)
(* way, the only promises held are those that the engine has yet to settle.*)
SettlementsDelivered ==
  ~Stopped /\ tickDraw = "none" /\ recovery = None =>
    registered \subseteq (IF group = None THEN {} ELSE group.ids)
============================================================================
