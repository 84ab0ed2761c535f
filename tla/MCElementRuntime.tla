-------------------------- MODULE MCElementRuntime --------------------------
(* Two scenes: an element to which anything may happen, and one that stays *)
(* on its page and is played with for longer.                              *)
EXTENDS ElementRuntimeProperties

VARIABLE scene

SceneInit == Init /\ scene \in {"any", "played"}

(* Calls and events that only matter to playing.                           *)
Playful ==
  /\ el'.playing # el.playing \/ el'.visible # el.visible \/ el'.call.step # el.call.step
  /\ el'.connected /\ el'.observed /\ ~el'.frozen

SceneNext ==
  /\ Next /\ UNCHANGED scene
  /\ calls' # calls => IF scene = "any" THEN calls' < MaxCalls ELSE Playful

SceneSpec == SceneInit /\ [][SceneNext]_<<vars, scene>> /\ WF_vars(Advance)
=============================================================================
