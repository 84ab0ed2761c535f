-------------------------- MODULE MCPageResources --------------------------
(***************************************************************************)
(* Three scenes of one page or two realms: a crowd of three elements with  *)
(* motion, that stay on a page for a generation each; two elements that    *)
(* restart on one page; two that report bytes, one of which moves to       *)
(* another realm.                                                          *)
(***************************************************************************)
EXTENDS PageResourcesProperties, TLC

CONSTANT top      \* the realm of those that do not move

VARIABLE scene

Untouched(e) == generation[e] = 0 /\ ~connected[e] /\ ~visible[e] /\ realm[e] = top

Pair  == Cardinality({e \in Elements : ~Untouched(e)}) <= 2
Still == \A e \in Elements : realm[e] = top /\ res.seat[e].bytes = 0
Once  == \A e \in Elements : generation[e] <= 1
Lone  == Cardinality({e \in Elements : \/ realm[e] # top
                                     \/ res.seat[e].realm \notin {top, "none"}}) <= 1

Full  == \A e \in Elements : phase[e] \notin {"reducing", "reduced"}

InScene ==
  CASE scene = "crowd"    -> Still /\ Once /\ Full
    [] scene = "restarts" -> Still /\ Pair
    [] scene = "moves"    -> Once /\ Pair /\ Lone

MCInit == Init /\ scene \in {"crowd", "restarts", "moves"}
MCNext == Next /\ UNCHANGED scene

MCSpec == MCInit /\ [][MCNext]_<<vars, scene>>

Sharing == Permutations(Elements)
=============================================================================
