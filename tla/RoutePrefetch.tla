--------------------------- MODULE RoutePrefetch ---------------------------
(***************************************************************************)
(* Which decoder runs a player wants next and how it gets them             *)
(* (packages/element/src/route-prefetch.ts): the plan for a snapshot of    *)
(* the engine, and RoutePrefetchQueue, the entries of which load at the    *)
(* same time while the head alone owns a run.  The pool                    *)
(* (packages/element/src/decoder-pool.ts) has two lanes, one of which is   *)
(* the foreground's; a run is named by the lane it occupies.               *)
(*                                                                         *)
(* The operators work on m = [queue, lanes, foreground], so that a step of *)
(* the player may apply several of them.                                   *)
(***************************************************************************)
EXTENDS MotionGraph, SequencesExt

CONSTANTS
  Lookahead,       \* ELEMENT_DECODER_CAPACITY.ringSize
  CandidateReady,  \* ELEMENT_DECODER_CAPACITY.candidateReadyFrames
  MaxIntents       \* MAX_ROUTE_PREFETCH_INTENTS

(* Four intents are what the code allows for, and no plan has more.        *)
ASSUME CapacityAssumption ==
  /\ Lookahead \in Nat \ {0} /\ CandidateReady \in 1..Lookahead
  /\ MaxIntents \in Nat /\ MaxIntents >= 4

VARIABLES
  queue,       \* the entries, in order: [unit, state, run]
  lanes,       \* the state of each lane's decoder
  foreground   \* the lane that plays

Lanes == {1, 2}
CandidateLane(m) == 3 - m.foreground

media == [queue |-> queue, lanes |-> lanes, foreground |-> foreground]

----------------------------------------------------------------------------
(* The units of the manifest that a graph speaks of.                       *)

BodyUnit(s)       == <<"body", s>>
TransitionUnit(e) == <<"transition", Edge(e).unit>>
IntroUnit(s)      == <<"intro", s>>

UnitsOf(d) ==
  {<<"body", s>> : s \in StatesOf(d)} \cup {<<"intro", s>> : s \in StatesOf(d)}
    \cup {<<"transition", d.edges[e].unit>> : e \in EdgesOf(d)}

Units == UNION {UnitsOf(d) : d \in Definitions}

UnitOf(p) ==
  CASE p.kind = "intro" -> IntroUnit(p.at)
    [] p.kind = "body"  -> BodyUnit(p.at)
    [] OTHER            -> TransitionUnit(p.at)

(* The unit that an edge plays first, when it is decoded and not resident. *)
Departing(e) ==
  CASE Edge(e).kind = "reversible" -> <<>>
    [] Edge(e).kind = "none"       -> <<BodyUnit(Edge(e).to)>>
    [] OTHER                       -> <<TransitionUnit(e)>>

----------------------------------------------------------------------------
(* planRoutePrefetch, for a snapshot s of the engine.                      *)

Snapshot ==
  [phase |-> phase, requested |-> requested, presentation |-> presentation,
   pending |-> pending, active |-> active, followOn |-> followOn]

(* Mutant: an edge that was turned leads where it did.                     *)
ActiveTarget_Ahead(s) == IF s.phase = "reversible" /\ s.followOn # None THEN From(s.followOn)
                         ELSE To(s.active)

(* Where the active edge leads: a reversible one may turn.                 *)
ActiveTarget(s) ==
  IF s.phase = "reversible" /\ s.followOn # None THEN From(s.followOn)
  ELSE IF s.phase = "reversible" /\ s.requested = From(s.active) THEN From(s.active)
  ELSE To(s.active)

TargetIntent(s, streamed) ==
  IF s.active = None \/ streamed = BodyUnit(ActiveTarget(s)) THEN <<>>
  ELSE <<BodyUnit(ActiveTarget(s))>>

PlayedBody(s) == graph.states[s.presentation.at]

NearEnd(s) == PlayedBody(s).frames - s.presentation.frame <= Lookahead

(* A loop that waits at a portal may have to wrap before it leaves.        *)
Continues(s) ==
  /\ s.pending # None /\ s.presentation.kind = "body"
  /\ Edge(s.pending.edge).start = "portal"
  /\ From(s.pending) = s.presentation.at
  /\ PlayedBody(s).kind = "loop"
  /\ NearEnd(s)

WrapIsUrgent(s, ready) ==
  LET ahead == {p \in PlayedBody(s).ports[Edge(s.pending.edge).sourcePort] :
                  p >= s.presentation.frame}
  IN  IF ahead = {} THEN TRUE
      ELSE /\ ~(ready /\ Min(ahead) = s.presentation.frame)
           /\ ~ready
           /\ Max(ahead) - s.presentation.frame <= CandidateReady

(* Without a route the body completes or goes round again.                 *)
Speculative(s) ==
  IF s.presentation.kind = "body" /\ s.pending = None /\ s.followOn = None /\ NearEnd(s)
  THEN IF CompletionEdges(graph, s.presentation.at) # {}
       THEN Departing(CHOOSE e \in CompletionEdges(graph, s.presentation.at) : TRUE)
       ELSE IF PlayedBody(s).kind = "loop" THEN <<UnitOf(s.presentation)>> ELSE <<>>
  ELSE <<>>

(* The intents of a plan, of which only the first of each unit counts.     *)
Plan(s, streamed, ready) ==
  LET on(condition, intents) == IF condition THEN intents ELSE <<>>
      leave == on(s.pending # None, Departing(s.pending.edge))
      wrap  == on(Continues(s), <<UnitOf(s.presentation)>>)
      intro == s.presentation.kind = "intro"
  IN  TargetIntent(s, streamed)
        \o on(Continues(s) /\ WrapIsUrgent(s, ready), wrap)
        \o on(~intro, leave)
        \o on(s.followOn # None, Departing(s.followOn.edge))
        \o on(intro, <<BodyUnit(s.presentation.at)>>)
        \o on(intro, leave)
        \o wrap
        \o Speculative(s)

(* uniqueIntents: the first intent of each unit stays, in order.           *)
Unique(intents) ==
  LET firsts == {i \in DOMAIN intents : \A j \in 1..(i - 1) : intents[j] # intents[i]}
  IN  [k \in 1..Cardinality(firsts) |->
         intents[CHOOSE i \in firsts : Cardinality({j \in firsts : j <= i}) = k]]

(* A unit that a frame waits for goes first.                               *)
Prioritized(required, intents) == <<required>> \o intents

----------------------------------------------------------------------------
(* A lane's decoder, as DecoderLane has it: a run that is closed after its *)
(* flush leaves the lane at once, any other leaves when the worker is done *)
(* with it.  Closing twice is closing once.                                *)
ClosedRun(ls, lane) ==
  [ls EXCEPT ![lane] = CASE @ = "open" -> "closing" [] @ = "flushed" -> "idle" [] OTHER -> @]

ClosedRuns(ls, which) ==
  [lane \in Lanes |-> IF lane \in which THEN ClosedRun(ls, lane)[lane] ELSE ls[lane]]

HasRun(entry) == entry.run # None

(* The lanes of the runs that some of the entries own.                     *)
RunsOf(entries) == {entries[i].run : i \in {i \in DOMAIN entries : HasRun(entries[i])}}

New(u) == [unit |-> u, state |-> "loading", run |-> None]

(* admitHead: the head gets the candidate lane when it is free.            *)
AdmitHead(m) ==
  IF /\ m.queue # <<>> /\ Head(m.queue).state = "loaded"
     /\ m.lanes[CandidateLane(m)] = "idle"
  THEN [m EXCEPT !.queue[1] = [unit |-> @.unit, state |-> "preparing", run |-> CandidateLane(m)],
                 !.lanes[CandidateLane(m)] = "open"]
  ELSE m

(* Mutant: a head that is still wanted keeps its run when it is overtaken. *)
Dropped_KeepsOvertaken(m, desired) ==
  {i \in DOMAIN m.queue : m.queue[i].unit \notin ToSet(desired)}

(* The entries that a new plan drops: those it does not want, and a head   *)
(* that owns a run and is a head no longer.                                *)
Dropped(m, desired) ==
  {i \in DOMAIN m.queue :
     \/ m.queue[i].unit \notin ToSet(desired)
     \/ i = 1 /\ HasRun(m.queue[1]) /\ m.queue[1].unit # desired[1]}

Reconciled(m, desired) ==
  LET dropped == Dropped(m, desired)
      kept(u) == {i \in DOMAIN m.queue \ dropped : m.queue[i].unit = u}
  IN  AdmitHead(
        [m EXCEPT
           !.queue = [k \in DOMAIN desired |->
                        IF kept(desired[k]) = {} THEN New(desired[k])
                        ELSE m.queue[CHOOSE i \in kept(desired[k]) : TRUE]],
           !.lanes = ClosedRuns(@, RunsOf([i \in dropped |-> m.queue[i]]))])

Ready(q, u) == q # <<>> /\ Head(q).unit = u /\ Head(q).state = "ready"

(* departureReady: reversible units, and the first frames of the target of *)
(* a cut, are resident from the start.                                     *)
EdgeReady(q, e) == \A i \in DOMAIN Departing(e) : Ready(q, Departing(e)[i])
============================================================================
