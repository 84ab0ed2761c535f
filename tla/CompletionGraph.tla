-------------------------- MODULE CompletionGraph --------------------------
(***************************************************************************)
(* A graph that is authored one completion at a time, against the walk of  *)
(* packages/graph/src/validate.ts that looks for completions which would   *)
(* never show a frame (validateImmediateCompletionCycles).                 *)
(***************************************************************************)
EXTENDS GraphValidation

CONSTANT Names

ASSUME NamesAssumption == IsFiniteSet(Names)

VARIABLE authored

Lasting(frames, kind) == [kind |-> kind, frames |-> frames, ports |-> <<>>]

Graphs ==
  [initial : Names, introFrames : {0}, edges : {[e \in {} |-> <<>>]},
   states : [Names -> {Lasting(1, "held"), Lasting(2, "finite")}]]

(* The author lets a state complete into another; it has one completion at *)
(* most (validateEdgeReferencesAndGeometry).                               *)
AddCompletion(from, to, kind) ==
  LET edges == authored.edges
      added == [from |-> from, to |-> to, trigger |-> Completion, kind |-> kind]
  IN  /\ from # to
      /\ \A e \in EdgesOf(authored) : edges[e].from # from
      /\ authored' = [authored EXCEPT !.edges =
           [e \in EdgesOf(authored) \cup {from} |-> IF e = from THEN added ELSE edges[e]]]

(* The author shortens the body of a state to one frame.                   *)
Shorten(s) ==
  /\ authored.states[s].frames > 1
  /\ authored' = [authored EXCEPT !.states[s] = Lasting(1, "held")]

Author ==
  \/ \E from, to \in Names, kind \in {"none", "locked"} : AddCompletion(from, to, kind)
  \/ \E s \in Names : Shorten(s)

AuthorSpec == authored \in Graphs /\ [][Author]_authored

----------------------------------------------------------------------------
(* States that complete among themselves, each on its only frame.          *)
Endless(C) ==
  \A s \in C : \E e \in ImmediateEdges(authored) :
    authored.edges[e].from = s /\ authored.edges[e].to \in C

(* The validator rejects exactly the graphs in which some states complete  *)
(* into one another for ever, without a frame of a transition or of a      *)
(* longer body: a walk as long as there are states is long enough.         *)
CyclesFound ==
  NoImmediateCompletionCycle(authored) <=> \A C \in SUBSET Names : Endless(C) => C = {}
============================================================================
