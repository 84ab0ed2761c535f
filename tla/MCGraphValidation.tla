-------------------------- MODULE MCGraphValidation --------------------------
(* What validation accepts and works out before anything plays: every valid *)
(* pair of bodies is played by the engine, the waits in a body are compared *)
(* with its playback (BodyCursor), and completions that would never show a  *)
(* frame are looked for in graphs that are authored one edge at a time      *)
(* (CompletionGraph).  A behaviour is one of the three.                     *)
EXTENDS MCMotionGraph, BodyCursor, CompletionGraph

VARIABLE scene

Blank == CHOOSE blank \in Graphs : TRUE

ValidationInit ==
  /\ scene \in {"engine", "body", "author"}
  /\ HInit
  /\ BodyInit /\ (scene # "body" => body = Still("finite", 1))
  /\ authored \in Graphs /\ (scene # "author" => authored = Blank)

ValidationNext ==
  /\ \/ scene = "engine" /\ HNext /\ UNCHANGED <<bodyVars, authored>>
     \/ scene = "body" /\ PlayBody /\ UNCHANGED <<allVars, authored>>
     \/ scene = "author" /\ Author /\ UNCHANGED <<allVars, bodyVars>>
  /\ UNCHANGED scene

ValidationSpec == ValidationInit /\ [][ValidationNext]_<<allVars, bodyVars, scene, authored>>
=============================================================================
