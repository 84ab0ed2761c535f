-------------------------- MODULE GraphValidation --------------------------
(***************************************************************************)
(* validateMotionGraphDefinition: which definitions install() accepts.     *)
(* The code throws at the first violated rule; here a rule is a predicate  *)
(* and a definition is accepted when all of them hold.  The shapes of the  *)
(* fields (an identifier's pattern, integers being safe) are the type of a *)
(* definition and not rules of their own.                                  *)
(***************************************************************************)
EXTENDS GraphDefinition

MaxStates        == 32   \* GRAPH_LIMITS.maxStates
MaxEdges         == 64   \* GRAPH_LIMITS.maxEdges
MaxPortsPerBody  == 16   \* GRAPH_LIMITS.maxPortsPerBody

WithinLimits(d) ==
  /\ Cardinality(StatesOf(d)) \in 1..MaxStates
  /\ Cardinality(EdgesOf(d)) <= MaxEdges
  /\ \A s \in StatesOf(d) : Cardinality(DOMAIN d.states[s].ports) <= MaxPortsPerBody

(* cloneState, cloneBody and clonePort.                                    *)
ValidPorts(body) ==
  \A p \in DOMAIN body.ports : /\ body.ports[p] # {}
                               /\ body.ports[p] \subseteq 0..(body.frames - 1)

ValidBody(body) ==
  /\ body.kind \in {"loop", "finite", "held"}
  /\ body.frames >= 1
  /\ body.kind = "held" => body.frames = 1
  /\ ValidPorts(body)

ValidStates(d) ==
  /\ d.initial \in StatesOf(d)
  /\ d.introFrames >= 0
  /\ \A s \in StatesOf(d) : ValidBody(d.states[s])

----------------------------------------------------------------------------
(* cloneEdge, cloneStart and cloneTransition.                              *)
ValidShape(d, e) ==
  LET edge == d.edges[e]
  IN  /\ edge.from # edge.to
      /\ edge.start \in {"portal", "finish", "cut"}
      /\ edge.start = "cut" => edge.maxWait = 1
      /\ edge.kind \in {"none", "locked", "reversible"}
      /\ edge.kind # "none" => edge.frames >= 1
      /\ edge.kind = "reversible" => edge.direction \in {"forward", "reverse"}

(* A locked unit belongs to one edge.                                      *)
ValidUnits(d) ==
  \A e, f \in EdgesOf(d) :
    /\ e # f
    /\ d.edges[e].kind = "locked"
    /\ d.edges[f].kind # "none"
    => d.edges[e].unit # d.edges[f].unit

(* validateEdgeReferencesAndGeometry, the part that indexes the edges.     *)
ValidReferences(d, e) ==
  LET edge == d.edges[e]
  IN  /\ edge.from \in StatesOf(d)
      /\ edge.to \in StatesOf(d)
      /\ \A f \in DirectEdges(d, edge.from, edge.to) : f = e
      /\ \A f \in EdgesOf(d) :
           /\ d.edges[f].from = edge.from
           /\ d.edges[f].trigger = edge.trigger
           /\ edge.trigger # NoTrigger
           => f = e
      /\ edge.trigger = Completion => d.states[edge.from].kind # "loop"
      /\ edge.targetPort \in DOMAIN d.states[edge.to].ports

(* The part that bounds the wait of each start policy.                     *)
ValidPortalStart(edge, source) ==
  /\ edge.sourcePort \in DOMAIN source.ports
  /\ source.kind # "loop" => source.frames - 1 \in source.ports[edge.sourcePort]
  /\ edge.maxWait >= GreatestPortalWait(source, source.ports[edge.sourcePort])

ValidFinishStart(edge, source) ==
  /\ source.kind # "loop"
  /\ edge.maxWait >= GreatestFinishWait(source)

ValidStart(d, e) ==
  LET edge   == d.edges[e]
      source == d.states[edge.from]
  IN  /\ edge.start = "portal" => ValidPortalStart(edge, source)
      /\ edge.start = "finish" => ValidFinishStart(edge, source)
      /\ edge.start = "cut" => edge.kind = "none"
      /\ edge.start = "cut" <=> edge.continuity = "cut"
      /\ edge.continuity = "exact-reverse" =>
           edge.kind = "reversible" /\ edge.reverseOf # NoReverseOf

----------------------------------------------------------------------------
(* validateReversiblePairs: a reversible unit is played by exactly two     *)
(* edges, which exchange endpoints and directions; exactly one of them     *)
(* declares the other.                                                     *)
Reverses(d, inverse, base) ==
  /\ d.edges[inverse].reverseOf = ReverseOf(base)
  /\ d.edges[base].reverseOf = NoReverseOf
  /\ d.edges[inverse].continuity = "exact-reverse"
  /\ d.edges[base].continuity # "exact-reverse"

ValidPair(d, e, f) ==
  /\ d.edges[e].from = d.edges[f].to
  /\ d.edges[e].to = d.edges[f].from
  /\ d.edges[e].frames = d.edges[f].frames
  /\ d.edges[e].direction # d.edges[f].direction
  /\ Reverses(d, e, f) \/ Reverses(d, f, e)

ValidReversiblePairs(d) ==
  \A e \in EdgesOf(d) : d.edges[e].kind = "reversible" =>
    /\ InverseEdges(d, e) # {}
    /\ \A f, g \in InverseEdges(d, e) : f = g
    /\ \A f \in InverseEdges(d, e) : ValidPair(d, e, f)

(* validateImmediateCompletionCycles: from every state that completes on   *)
(* its only frame without a transition, the code follows completions and   *)
(* rejects the graph when it meets a state again.                          *)
ImmediateEdges(d) ==
  {e \in EdgesOf(d) : /\ d.edges[e].trigger = Completion
                      /\ d.edges[e].kind = "none"
                      /\ d.states[d.edges[e].from].kind # "loop"
                      /\ d.states[d.edges[e].from].frames = 1}

(* The state the cursor stands on after n completions; {} once it is on a  *)
(* state without an immediate completion.                                  *)
Cursor(d, start, steps) ==
  LET follow(at) == {d.edges[e].to : e \in {i \in ImmediateEdges(d) : d.edges[i].from \in at}}
      at[n \in 0..steps] == IF n = 0 THEN {start} ELSE follow(at[n - 1])
  IN  at

(* Mutant: the cursor stops one state too early.                           *)
NoImmediateCompletionCycle_Short(d) ==
  \A start \in StatesOf(d) :
    LET steps == Cardinality(StatesOf(d)) - 1
        at    == Cursor(d, start, steps)
    IN  at[steps] = {}

NoImmediateCompletionCycle(d) ==
  \A start \in StatesOf(d) :
    LET steps == Cardinality(StatesOf(d))
        at    == Cursor(d, start, steps)
    IN  at[steps] = {}

Valid(d) ==
  /\ WithinLimits(d)
  /\ ValidStates(d)
  /\ \A e \in EdgesOf(d) : ValidShape(d, e)
  /\ ValidUnits(d)
  /\ \A e \in EdgesOf(d) : ValidReferences(d, e) /\ ValidStart(d, e)
  /\ ValidReversiblePairs(d)
  /\ NoImmediateCompletionCycle(d)
============================================================================
