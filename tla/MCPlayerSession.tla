-------------------------- MODULE MCPlayerSession --------------------------
(* Small graphs, and the instances of the session TLC explores.            *)
EXTENDS PlayerSessionProperties

Still(kind) == [kind |-> kind, frames |-> 1, ports |-> [home |-> {0}]]

Turn(from, to, event, direction, reverseOf) ==
  [from |-> from, to |-> to, trigger |-> OnEvent(event), start |-> "portal",
   sourcePort |-> "home", targetPort |-> "home", maxWait |-> 0,
   kind |-> "reversible", unit |-> "u", frames |-> 1, direction |-> direction,
   reverseOf |-> reverseOf,
   continuity |-> IF reverseOf = NoReverseOf THEN "exact-authored" ELSE "exact-reverse"]

(* Two states joined by a reversible pair: one is entered by an event and  *)
(* left by an event or a request.                                          *)
Toggle ==
  [initial |-> "a", introFrames |-> 0,
   states |-> [a |-> Still("held"), b |-> Still("loop")],
   edges |-> [in |-> Turn("a", "b", "enter", "forward", NoReverseOf),
              out |-> Turn("b", "a", "leave", "reverse", ReverseOf("in"))]]

(* Two states joined by cuts: one is left again by itself.                 *)
Cut(from, to, trigger) ==
  [Turn(from, to, "enter", "", NoReverseOf) EXCEPT
     !.trigger = trigger, !.start = "cut", !.maxWait = 1, !.kind = "none", !.unit = "",
     !.frames = 0, !.continuity = "cut"]

Spring ==
  [initial |-> "a", introFrames |-> 0,
   states |-> [a |-> Still("held"), b |-> [Still("finite") EXCEPT !.frames = 2]],
   edges |-> [in |-> Cut("a", "b", OnEvent("enter")), out |-> Cut("b", "a", Completion)]]

JustToggle == {Toggle}
ToggleAndSpring == {Toggle, Spring}

----------------------------------------------------------------------------
(* Two scenes: every order of two inputs on both graphs, and one request   *)
(* on the first of them under fairness.                                    *)
VARIABLE scene

SceneInit == SessionInit /\ scene \in {"orders", "fair"}

SceneNext ==
  /\ SessionNext /\ UNCHANGED scene
  /\ scene = "fair" => graph' \in {None, Toggle} /\ sequence' = nextId' - 1 /\ nextId' <= 2
  /\ graph' = Spring => sequence' <= 1

sceneVars == <<sessionVars, scene>>
Fair == scene = "fair"

(* Frames come while they are wanted, draws and retirements end, queued    *)
(* microtasks run, and media that are not ready become so.                 *)
SceneSpec ==
  /\ SceneInit /\ [][SceneNext]_sceneVars
  /\ WF_sessionVars(Fair /\ \E routeReady \in BOOLEAN : Frame(routeReady))
  /\ SF_sessionVars(Fair /\ Frame(TRUE))
  /\ WF_sessionVars(Fair /\ Drawn) /\ WF_sessionVars(Fair /\ FirstDrawn)
  /\ WF_sessionVars(Fair /\ PerformRecovery) /\ WF_sessionVars(Fair /\ FinishRecovery)
  /\ WF_sessionVars(Fair /\ (Retired \/ RetirementFails))
  /\ WF_sessionVars(Fair /\ FinishTerminal)

(* A failure is not silent: every promise is rejected in the end           *)
(* (#finishTerminal).                                                      *)
FailureToldFairly == Fair => FailureTold

(* The request of a session that goes on animating is answered, whatever   *)
(* draws, pauses and recoveries come in between.                           *)
HeardFairly == Fair => HeardOf(1)
============================================================================
