--------------------------- MODULE BoundaryProofs ---------------------------
(***************************************************************************)
(* What validation is worth.  The boundary searches of portal-search.ts,   *)
(* for a body of any length and any portals: where the next portal is      *)
(* found, that a frame brings it one frame closer, and that the greatest   *)
(* wait which validation computes is one; from them, what the searches     *)
(* foretell of a body that plays, and how long a request waits in an       *)
(* engine.  The walk over completions of validate.ts, in a graph of any    *)
(* size: it finds every cycle.  And that an engine with a valid definition *)
(* handles every call.                                                     *)
(***************************************************************************)
EXTENDS MotionGraphProofs, BodyCursor, CompletionGraph, FiniteSetTheorems

----------------------------------------------------------------------------
(* The searches.                                                           *)

(* The portals of a body that a search may be about: validation rejects an *)
(* edge that leaves through any others.                                    *)
Searchable(b, portals) ==
  /\ b.frames \in Nat \ {0}
  /\ portals # {} /\ portals \subseteq 0..(b.frames - 1)
  /\ b.kind # "loop" => b.frames - 1 \in portals

(* The next portal is the first one from the displayed frame on, or the    *)
(* first one of all after the wrap.                                        *)
LEMMA NextPortalFound ==
  ASSUME NEW b, NEW portals, Searchable(b, portals), NEW at \in 0..(b.frames - 1)
  PROVE  LET next == NextPortal(portals, at)
         IN  /\ next \in portals
             /\ next >= at => \A p \in portals : p >= at => p >= next
             /\ next < at => /\ \A p \in portals : p < at /\ p >= next
                             /\ b.kind = "loop"
<1> DEFINE ahead == {p \in portals : p >= at}
<1>1. portals \in SUBSET Nat /\ ahead \in SUBSET Nat /\ b.frames \in Nat
  <2>1. \A p \in portals : p \in Nat
    BY DEF Searchable
  <2> QED BY <2>1 DEF Searchable
<1>2. CASE ahead # {}
  <2>1. Min(ahead) \in ahead /\ \A n \in ahead : Min(ahead) <= n
    <3> HIDE DEF ahead
    <3> QED BY <1>1, <1>2, MinIsLeast
  <2>2. NextPortal(portals, at) = Min(ahead)
    BY <1>2 DEF NextPortal
  <2> QED BY <1>1, <2>1, <2>2
<1>3. CASE ahead = {}
  <2>1. Min(portals) \in portals /\ \A n \in portals : Min(portals) <= n
    BY <1>1, MinIsLeast DEF Searchable
  <2>2. NextPortal(portals, at) = Min(portals)
    BY <1>3 DEF NextPortal
  <2>3. \A p \in portals : p < at
    BY <1>1, <1>3
  <2>4. b.kind = "loop"
    BY <1>1, <2>3 DEF Searchable
  <2> QED BY <1>1, <2>1, <2>2, <2>3, <2>4
<1> QED BY <1>2, <1>3

(* The wait is the distance to the next portal, across the seam of a loop  *)
(* when it was passed.                                                     *)
LEMMA WaitIsDistance ==
  ASSUME NEW b, NEW portals, Searchable(b, portals), NEW at \in 0..(b.frames - 1)
  PROVE  /\ PortalWait(b, portals, at) \in Nat
         /\ PortalWait(b, portals, at) = 0 <=> at \in portals
<1> DEFINE next == NextPortal(portals, at)
<1>1. /\ next \in portals
      /\ next >= at => \A p \in portals : p >= at => p >= next
  BY NextPortalFound
<1>2. next \in 0..(b.frames - 1) /\ b.frames \in Nat
  BY <1>1 DEF Searchable
<1>3. PortalWait(b, portals, at) = IF next >= at THEN next - at ELSE b.frames - at + next
  BY DEF PortalWait
<1> HIDE DEF next
<1>4. at \in portals => next = at \/ next < at
  BY <1>1, <1>2
<1>5. at \in portals /\ next < at => FALSE
  BY NextPortalFound DEF next
<1>6. next = at => at \in portals
  BY <1>1
<1> QED BY <1>2, <1>3, <1>4, <1>5, <1>6

(* The portals after a portal, and the distance to the first of them, or   *)
(* across the seam to the first of all.                                    *)
Later(portals, p) == {q \in portals : q > p}

Gap(b, portals, p) ==
  (IF Later(portals, p) # {} THEN Min(Later(portals, p)) ELSE b.frames + Min(portals)) - p

(* The gaps are between portals, and no wait inside one is negative.       *)
LEMMA GapFound ==
  ASSUME NEW b, NEW portals, Searchable(b, portals), NEW p \in portals
  PROVE  /\ Gap(b, portals, p) - 1 \in 0..(2 * b.frames)
         /\ \A q \in portals : q > p =>
              \E after \in portals :
                /\ Gap(b, portals, p) = after - p /\ after > p
                /\ \A r \in portals : r > p => r >= after
         /\ (\A q \in portals : q <= p) => Gap(b, portals, p) = (b.frames + Min(portals)) - p
<1>1. b.frames \in Nat \ {0} /\ portals # {} /\ \A q \in portals : q \in Nat /\ q < b.frames
  BY DEF Searchable
<1>2. portals \in SUBSET Nat /\ Later(portals, p) \in SUBSET Nat
  BY <1>1 DEF Later
<1>3. Min(portals) \in portals
  BY <1>1, <1>2, MinIsLeast
<1>4. CASE Later(portals, p) # {}
  <2>1. PICK after : after = Min(Later(portals, p))
    OBVIOUS
  <2>2. after \in Later(portals, p) /\ \A r \in Later(portals, p) : r >= after
    BY <1>2, <1>4, <2>1, MinIsLeast
  <2>3. after \in portals /\ after > p /\ \A r \in portals : r > p => r >= after
    BY <2>2 DEF Later
  <2>4. Gap(b, portals, p) = after - p
    BY <1>4, <2>1 DEF Gap
  <2> QED BY <1>1, <2>3, <2>4
<1>5. CASE Later(portals, p) = {}
  <2>1. Gap(b, portals, p) = (b.frames + Min(portals)) - p
    BY <1>5 DEF Gap
  <2>2. \A q \in portals : ~(q > p)
    BY <1>5 DEF Later
  <2> QED BY <1>1, <1>3, <2>1, <2>2
<1> QED BY <1>4, <1>5

(* The greatest wait is no less than any that it is computed from.         *)
LEMMA GreatestWaitCovers ==
  ASSUME NEW b, NEW portals, Searchable(b, portals)
  PROVE  /\ GreatestPortalWait(b, portals) \in Nat
         /\ b.kind = "loop" =>
              \A p \in portals : GreatestPortalWait(b, portals) >= Gap(b, portals, p) - 1
         /\ b.kind # "loop" =>
              /\ GreatestPortalWait(b, portals) >= Min(portals)
              /\ \A p, q \in portals : q > p =>
                   GreatestPortalWait(b, portals) >= Gap(b, portals, p) - 1
<1> DEFINE all   == {Gap(b, portals, p) - 1 : p \in portals}
           inner == {Min(portals)} \cup
                    {Gap(b, portals, p) - 1 : p \in {q \in portals : Later(portals, q) # {}}}
           bound == 2 * b.frames
<1>1. b.frames \in Nat \ {0} /\ portals # {} /\ \A q \in portals : q \in Nat /\ q < b.frames
  BY DEF Searchable
<1>2. Min(portals) \in portals
  <2>1. portals \in SUBSET Nat
    BY <1>1
  <2> QED BY <1>1, <2>1, MinIsLeast
<1>3. \A p \in portals : Gap(b, portals, p) - 1 \in 0..bound
  BY GapFound
<1>4. bound \in Nat /\ Min(portals) \in 0..bound
  BY <1>1, <1>2
<1>5. GreatestPortalWait(b, portals) = IF b.kind = "loop" THEN Max(all) ELSE Max(inner)
  BY DEF GreatestPortalWait, Gap, Later
<1> HIDE DEF bound
<1>6. Max(all) \in Nat /\ \A n \in all : Max(all) >= n
  <2>1. all \in SUBSET Nat /\ all # {} /\ \A n \in all : n <= bound
    BY <1>1, <1>3, <1>4
  <2> HIDE DEF all
  <2> QED BY <1>4, <2>1, MaxIsGreatest
<1>7. Max(inner) \in Nat /\ \A n \in inner : Max(inner) >= n
  <2>1. inner \in SUBSET Nat /\ inner # {} /\ \A n \in inner : n <= bound
    BY <1>3, <1>4
  <2> HIDE DEF inner
  <2> QED BY <1>4, <2>1, MaxIsGreatest
<1>8. /\ \A p \in portals : Gap(b, portals, p) - 1 \in all
      /\ Min(portals) \in inner
      /\ \A p, q \in portals : q > p => Gap(b, portals, p) - 1 \in inner
  BY DEF Later
<1> HIDE DEF all, inner
<1> QED BY <1>5, <1>6, <1>7, <1>8

(* The greatest wait that validation computes is as long as the wait from  *)
(* any frame.                                                              *)
LEMMA GreatestWaitBounds ==
  ASSUME NEW b, NEW portals, Searchable(b, portals), NEW at \in 0..(b.frames - 1)
  PROVE  PortalWait(b, portals, at) <= GreatestPortalWait(b, portals)
<1> DEFINE greatest == GreatestPortalWait(b, portals)
           next     == NextPortal(portals, at)
<1>1. b.frames \in Nat \ {0} /\ portals # {} /\ \A q \in portals : q \in Nat /\ q < b.frames
  BY DEF Searchable
<1>2. portals \in SUBSET Nat
  BY <1>1
<1>3. /\ next \in portals
      /\ next >= at => \A p \in portals : p >= at => p >= next
      /\ next < at => b.kind = "loop" /\ \A p \in portals : p < at /\ p >= next
      /\ PortalWait(b, portals, at)
           = IF next >= at THEN next - at ELSE b.frames - at + next
  BY NextPortalFound DEF PortalWait
<1>4. Min(portals) \in portals /\ \A p \in portals : Min(portals) <= p
  BY <1>1, <1>2, MinIsLeast
<1> HIDE DEF greatest, next
<1>5. greatest \in Nat
  BY GreatestWaitCovers DEF greatest
<1>6. b.kind = "loop" => \E last \in portals : /\ \A p \in portals : p <= last
                                               /\ greatest >= (b.frames + Min(portals)) - last - 1
  <2>1. b.frames \in Nat /\ \A p \in portals : p <= b.frames
    BY <1>1
  <2>2. PICK last \in portals : \A p \in portals : last >= p
    BY <1>1, <1>2, <2>1, MaxIsGreatest
  <2>3. Gap(b, portals, last) = (b.frames + Min(portals)) - last
    <3>1. \A q \in portals : q <= last
      BY <1>1, <2>2
    <3> QED BY <3>1, GapFound
  <2>4. b.kind = "loop" => greatest >= Gap(b, portals, last) - 1
    BY GreatestWaitCovers DEF greatest
  <2> QED BY <1>1, <1>4, <1>5, <2>2, <2>3, <2>4
<1>7. CASE next < at
  BY <1>1, <1>3, <1>4, <1>5, <1>6, <1>7 DEF greatest
<1>8. CASE next >= at /\ \E p \in portals : p < at
  <2> DEFINE below == {p \in portals : p < at}
  <2>1. below \in SUBSET Nat /\ below # {} /\ at \in Nat /\ \A p \in below : p <= at
    BY <1>1, <1>8
  <2>2. Max(below) \in below /\ \A p \in below : p <= Max(below)
    <3> HIDE DEF below
    <3> QED BY <2>1, MaxIsGreatest
  <2>3. PICK p \in portals : p < at /\ \A q \in portals : q < at => q <= p
    BY <2>2
  <2>4. next > p
    BY <1>1, <1>3, <1>8, <2>3
  <2>5. PICK after \in portals : Gap(b, portals, p) = after - p /\ after > p
    BY <1>3, <2>4, GapFound
  <2>6. after >= next
    BY <1>1, <1>3, <1>8, <2>3, <2>5
  <2>7. greatest >= Gap(b, portals, p) - 1
    BY <1>3, <2>4, GreatestWaitCovers DEF greatest
  <2> QED BY <1>1, <1>3, <1>5, <1>8, <2>3, <2>5, <2>6, <2>7 DEF greatest
<1>9. CASE next >= at /\ \A p \in portals : p >= at
  <2>1. \A p \in portals : p >= next
    BY <1>3, <1>9
  <2>2. CASE b.kind = "loop"
    BY <1>1, <1>3, <1>4, <1>5, <1>6, <1>9, <2>1, <2>2 DEF greatest
  <2>3. CASE b.kind # "loop"
    <3>1. greatest >= Min(portals)
      BY <2>3, GreatestWaitCovers DEF greatest
    <3> QED BY <1>1, <1>3, <1>4, <1>5, <1>9, <2>1, <3>1 DEF greatest
  <2> QED BY <2>2, <2>3
<1>10. next \in Nat /\ at \in Nat /\ \A p \in portals : p \in Nat
  BY <1>1, <1>3
<1> QED BY <1>7, <1>8, <1>9, <1>10

(* The frame that is displayed next is one frame closer to the portal.     *)
LEMMA FrameTakesOneOff ==
  ASSUME NEW b, NEW portals, Searchable(b, portals), NEW at \in 0..(b.frames - 1),
         PortalWait(b, portals, at) > 0
  PROVE  /\ NextBodyFrame(b, at) \in 0..(b.frames - 1)
         /\ PortalWait(b, portals, NextBodyFrame(b, at)) = PortalWait(b, portals, at) - 1
<1> DEFINE shown == NextBodyFrame(b, at)
           next  == NextPortal(portals, at)
           after  == NextPortal(portals, shown)
<1>1. b.frames \in Nat \ {0} /\ \A p \in portals : p \in Nat /\ p < b.frames
  BY DEF Searchable
<1>2. /\ next \in portals
      /\ next >= at => \A p \in portals : p >= at => p >= next
      /\ next < at => b.kind = "loop" /\ \A p \in portals : p < at /\ p >= next
      /\ PortalWait(b, portals, at)
           = IF next >= at THEN next - at ELSE b.frames - at + next
  BY NextPortalFound DEF PortalWait
<1>3. shown = IF at < b.frames - 1 THEN at + 1 ELSE IF b.kind = "loop" THEN 0 ELSE at
  BY DEF NextBodyFrame
<1>4. shown \in 0..(b.frames - 1)
  BY <1>1, <1>3
<1>5. /\ after \in portals
      /\ after >= shown => \A p \in portals : p >= shown => p >= after
      /\ after < shown => b.kind = "loop" /\ \A p \in portals : p < shown /\ p >= after
      /\ PortalWait(b, portals, shown)
           = IF after >= shown THEN after - shown ELSE b.frames - shown + after
  BY <1>4, NextPortalFound DEF PortalWait
<1> HIDE DEF shown, next, after
<1>6. next # at /\ next \in 0..(b.frames - 1) /\ after \in 0..(b.frames - 1)
  BY <1>1, <1>2, <1>5
<1>7. after = next
  BY <1>1, <1>2, <1>3, <1>4, <1>5, <1>6
<1>8. PortalWait(b, portals, shown) = PortalWait(b, portals, at) - 1
  BY <1>1, <1>2, <1>3, <1>4, <1>5, <1>6, <1>7
<1> QED BY <1>4, <1>8 DEF shown

----------------------------------------------------------------------------
(* The playback of one body.                                               *)

CursorInv == body \in PlayedBodies /\ frame \in 0..(body.frames - 1)

(* The bodies that are played may be searched.                             *)
LEMMA PlayedIsSearchable ==
  ASSUME body \in PlayedBodies PROVE Searchable(body, Portals) /\ body.kind \in {"loop", "finite"}
<1>1. PICK n \in 1..MaxFrames :
             body \in [kind : {"loop", "finite"}, frames : {n},
                       ports : [home : (SUBSET (0..(n - 1))) \ {{}}]]
  BY DEF PlayedBodies
<1>2. body.kind = "loop" \/ body.frames - 1 \in body.ports.home
  BY DEF PlayedBodies
<1>3. n \in Nat \ {0} /\ body.frames = n
      /\ body.ports.home # {} /\ body.ports.home \subseteq 0..(n - 1)
      /\ body.kind \in {"loop", "finite"}
  <2>1. n \in Nat \ {0}
    BY MaxFramesAssumption
  <2>2. body.kind \in {"loop", "finite"} /\ body.frames \in {n}
        /\ body.ports \in [home : (SUBSET (0..(n - 1))) \ {{}}]
    BY <1>1
  <2>3. body.ports.home \in (SUBSET (0..(n - 1))) \ {{}}
    BY <2>2
  <2>4. body.ports.home # {} /\ body.ports.home \subseteq 0..(n - 1) /\ body.frames = n
    BY <2>2, <2>3
  <2> QED BY <2>1, <2>2, <2>4
<1> QED BY <1>2, <1>3 DEF Searchable, Portals

(* Whatever the body is and wherever its portals are, the search finds a   *)
(* boundary where there is one, and each displayed frame takes one off the *)
(* wait that it foretold.                                                  *)
THEOREM SearchesForetell == BodySpec => WaitsForetold
<1>1. BodyInit => CursorInv
  <2> SUFFICES ASSUME BodyInit PROVE CursorInv
    OBVIOUS
  <2>1. body.frames \in Nat \ {0}
    BY PlayedIsSearchable DEF BodyInit, Searchable
  <2> QED BY <2>1 DEF BodyInit, CursorInv
<1>2. CursorInv /\ [PlayBody]_bodyVars => CursorInv'
  <2> SUFFICES ASSUME CursorInv, [PlayBody]_bodyVars PROVE CursorInv'
    OBVIOUS
  <2>1. body.frames \in Nat \ {0}
    BY PlayedIsSearchable DEF CursorInv, Searchable
  <2>2. CASE PlayBody
    BY <2>1, <2>2 DEF CursorInv, PlayBody, NextBodyFrame
  <2>3. CASE UNCHANGED bodyVars
    BY <2>3 DEF CursorInv, bodyVars
  <2> QED BY <2>2, <2>3
<1>3. CursorInv /\ [PlayBody]_bodyVars => [Foretold]_bodyVars
  <2> SUFFICES ASSUME CursorInv, PlayBody, frame' # frame PROVE Foretold
    BY DEF PlayBody, bodyVars
  <2>1. Searchable(body, Portals) /\ frame \in 0..(body.frames - 1) /\ body.frames \in Nat \ {0}
    BY PlayedIsSearchable DEF CursorInv, Searchable
  <2>2. frame' = NextBodyFrame(body, frame) /\ body' = body
    BY DEF PlayBody
  <2>3. PortalWait(body, Portals, frame) = 0 <=> frame \in Portals
    BY <2>1, WaitIsDistance
  <2>4. PortalWait(body, Portals, frame) > 0 =>
          PortalWait(body, Portals, frame') = PortalWait(body, Portals, frame) - 1
    BY <2>1, <2>2, FrameTakesOneOff
  <2>5. body.kind # "loop" => FinishWait(body, frame') = FinishWait(body, frame) - 1
    BY <2>1, <2>2, SMTT(30) DEF FinishWait, NextBodyFrame
  <2> QED BY <2>3, <2>4, <2>5 DEF Foretold
<1> QED BY <1>1, <1>2, <1>3, PTL DEF BodySpec, WaitsForetold

----------------------------------------------------------------------------
(* The engine that waits.                                                  *)

(* An edge of a valid graph waits no longer than it was authored to.       *)
LEMMA StartIsBounded ==
  ASSUME NEW d \in Definitions, Valid(d), NEW e \in EdgesOf(d),
         NEW shown \in 0..(d.states[d.edges[e].from].frames - 1)
  PROVE  LET edge == d.edges[e]
             from == d.states[edge.from]
         IN  /\ edge.start = "portal" =>
                  PortalWait(from, from.ports[edge.sourcePort], shown) \in 0..edge.maxWait
             /\ edge.start = "finish" => FinishWait(from, shown) \in 0..edge.maxWait
<1> DEFINE edge == d.edges[e]
           from == d.states[edge.from]
<1>1. /\ edge.from \in StatesOf(d) /\ ValidBody(from) /\ from.frames \in Nat \ {0}
      /\ edge.maxWait \in Nat /\ ValidStart(d, e)
  <2>1. IsDefinition(d) /\ Sound(d)
    BY ValidIsSound, DefinitionsAssumption
  <2>2. edge.from \in StatesOf(d) /\ from.frames \in Nat \ {0} /\ edge.maxWait \in Nat
    BY <2>1, SMTT(30) DEF Sound, IsDefinition
  <2>3. ValidStart(d, e) /\ ValidStates(d)
    BY Zenon DEF Valid
  <2>4. ValidBody(from)
    BY <2>2, <2>3 DEF ValidStates
  <2> QED BY <2>2, <2>3, <2>4
<1>2. CASE edge.start = "portal"
  <2> DEFINE portals == from.ports[edge.sourcePort]
  <2>1. ValidPortalStart(edge, from)
    BY <1>1, <1>2, Zenon DEF ValidStart
  <2>2. Searchable(from, portals)
    <3>1. edge.sourcePort \in DOMAIN from.ports /\ (from.kind # "loop" => from.frames - 1 \in portals)
      BY <2>1 DEF ValidPortalStart
    <3>2. portals # {} /\ portals \subseteq 0..(from.frames - 1)
      BY <1>1, <3>1, Zenon DEF ValidBody, ValidPorts
    <3> QED BY <1>1, <3>1, <3>2, Zenon DEF Searchable
  <2>3. PortalWait(from, portals, shown) \in Nat
        /\ PortalWait(from, portals, shown) <= GreatestPortalWait(from, portals)
        /\ GreatestPortalWait(from, portals) \in Nat
    <3> HIDE DEF portals
    <3>1. shown \in 0..(from.frames - 1)
      OBVIOUS
    <3> HIDE DEF from
    <3> QED BY <2>2, <3>1, WaitIsDistance, GreatestWaitBounds, GreatestWaitCovers, Zenon
  <2>4. edge.maxWait >= GreatestPortalWait(from, portals)
    BY <2>1 DEF ValidPortalStart
  <2>5. PortalWait(from, portals, shown) \in 0..edge.maxWait
    <3> DEFINE wait == PortalWait(from, portals, shown)
               bound == GreatestPortalWait(from, portals)
    <3> HIDE DEF wait, bound, portals, edge, from
    <3> QED BY <1>1, <2>3, <2>4
  <2> QED BY <1>2, <2>5
<1>3. CASE edge.start = "finish"
  <2>1. edge.maxWait >= from.frames - 1
    BY <1>1, <1>3 DEF ValidStart, ValidFinishStart, GreatestFinishWait
  <2> QED BY <1>1, <1>3, <2>1 DEF FinishWait
<1> QED BY <1>2, <1>3

(* A pending route departs within the frames that its edge was authored to *)
(* wait, whichever frame is displayed when it is chosen.                   *)
THEOREM WaitBoundedHolds == HSpec => []WaitBounded
<1>1. Inv => WaitBounded
  <2> SUFFICES ASSUME Inv, phase = "waiting", Edge(pending.edge).start # "cut"
               PROVE  Wait \in 0..Edge(pending.edge).maxWait
    BY DEF WaitBounded
  <2>1. graph # None /\ pending # None /\ pending.edge \in EdgesOf(graph) /\ graph \in Definitions
    BY DEF Inv, TypeOK, RouteShape, PendingShape, PresentationShape, RouteSet, EdgeIds
  <2>2. /\ Valid(graph) /\ graph.edges[pending.edge].from = visual
        /\ presentation.frame \in 0..(graph.states[visual].frames - 1)
    BY <2>1 DEF Inv, TypeOK, RouteShape, PendingShape, PresentationShape, From
  <2>3. Edge(pending.edge).start \in {"portal", "finish"}
    BY <2>1, <2>2 DEF Valid, ValidShape, Edge
  <2> QED BY <2>1, <2>2, <2>3, StartIsBounded DEF Wait, Edge
<1> QED BY <1>1, InvariantHolds, PTL

----------------------------------------------------------------------------
(* The walk over completions.                                              *)

(* Where completions lead from the states of a set.                        *)
Completed(g, at) ==
  {g.edges[e].to : e \in {i \in ImmediateEdges(g) : g.edges[i].from \in at}}

(* A walk is determined by where it starts.                                *)
IsWalk(w, g, start, n) ==
  w = [i \in 0..n |-> IF i = 0 THEN {start} ELSE Completed(g, w[i - 1])]

(* There is a walk from everywhere.                                        *)
LEMMA WalkExists ==
  ASSUME NEW g, NEW start, NEW n \in Nat
  PROVE  \E w : IsWalk(w, g, start, n)
<1> DEFINE Bad == {i \in Nat : ~\E w : IsWalk(w, g, start, i)}
<1> SUFFICES ASSUME Bad # {} PROVE FALSE
  OBVIOUS
<1>1. PICK m \in Bad : \A i \in Bad : m <= i
  <2>1. Bad \in SUBSET Nat
    OBVIOUS
  <2> HIDE DEF Bad
  <2> QED BY <2>1, MinIsLeast
<1>2. m \in Nat /\ ~\E w : IsWalk(w, g, start, m)
  OBVIOUS
<1>3. CASE m = 0
  <2> DEFINE w == [i \in 0..0 |-> IF i = 0 THEN {start} ELSE Completed(g, {})]
  <2>1. IsWalk(w, g, start, 0)
    BY DEF IsWalk
  <2> QED BY <1>2, <1>3, <2>1
<1>4. CASE m # 0
  <2>1. m - 1 \in Nat /\ ~(m <= m - 1)
    BY <1>2, <1>4
  <2>2. PICK v : IsWalk(v, g, start, m - 1)
    BY <1>1, <2>1
  <2> DEFINE w == [i \in 0..m |-> IF i = 0 THEN {start} ELSE Completed(g, v[i - 1])]
  <2>3. \A i \in 0..(m - 1) : v[i] = IF i = 0 THEN {start} ELSE Completed(g, v[i - 1])
    BY <2>2 DEF IsWalk
  <2>4. \A i \in 0..(m - 1) : w[i] = v[i]
    <3>1. \A i \in 0..(m - 1) : i \in 0..m
      BY <1>2
    <3>2. \A i \in 0..m : w[i] = IF i = 0 THEN {start} ELSE Completed(g, v[i - 1])
      OBVIOUS
    <3> HIDE DEF w
    <3> QED BY <2>3, <3>1, <3>2
  <2>5. \A i \in 0..m : i # 0 => i - 1 \in 0..(m - 1)
    BY <1>2
  <2>6. w = [i \in 0..m |-> IF i = 0 THEN {start} ELSE Completed(g, w[i - 1])]
    <3>1. \A i \in 0..m : i # 0 => w[i - 1] = v[i - 1]
      BY <2>4, <2>5
    <3> DEFINE at(i) == IF i = 0 THEN {start} ELSE Completed(g, v[i - 1])
               to(i) == IF i = 0 THEN {start} ELSE Completed(g, w[i - 1])
    <3>2. \A i \in 0..m : at(i) = to(i)
      BY <3>1
    <3>3. w = [i \in 0..m |-> at(i)]
      OBVIOUS
    <3> HIDE DEF at, to, w
    <3>4. w = [i \in 0..m |-> to(i)]
      BY <3>2, <3>3
    <3> QED BY <3>4 DEF to
  <2> QED BY <1>2, <2>6 DEF IsWalk
<1> QED BY <1>3, <1>4

(* The validator's cursor is one.                                          *)
LEMMA CursorWalks ==
  ASSUME NEW g, NEW start, NEW n \in Nat
  PROVE  /\ Cursor(g, start, n)[0] = {start}
         /\ \A i \in 1..n : Cursor(g, start, n)[i] = Completed(g, Cursor(g, start, n)[i - 1])
<1> DEFINE w == Cursor(g, start, n)
<1>1. w = CHOOSE v : IsWalk(v, g, start, n)
  BY DEF Cursor, IsWalk, Completed
<1>2. IsWalk(w, g, start, n)
  BY <1>1, WalkExists
<1> HIDE DEF w
<1>3. \A i \in 0..n : w[i] = IF i = 0 THEN {start} ELSE Completed(g, w[i - 1])
  BY <1>2 DEF IsWalk
<1>4. 0 \in 0..n /\ \A i \in 1..n : i \in 0..n /\ i # 0
  OBVIOUS
<1> QED BY <1>3, <1>4 DEF w

(* A graph of finitely many states whose completions stay inside it:       *)
(* validation has checked the references before it walks.                  *)
Referenced(g) ==
  /\ IsFiniteSet(StatesOf(g))
  /\ \A e \in ImmediateEdges(g) : g.edges[e].to \in StatesOf(g)

Steps(g) == Cardinality(StatesOf(g))
Reached(g, s, k) == Cursor(g, s, Steps(g))[k]

(* Wherever a walk goes, one that begins a completion later goes as well.  *)
LEMMA WalkOn ==
  ASSUME NEW g, Referenced(g), NEW k \in Nat, k + 1 \in 0..Steps(g)
  PROVE  \A s : Reached(g, s, k + 1) = UNION {Reached(g, t, k) : t \in Completed(g, {s})}
<1> DEFINE N == Steps(g)
           Goes(i) == \A s : \A y :
             y \in Reached(g, s, i + 1) <=> \E t \in Completed(g, {s}) : y \in Reached(g, t, i)
           Bad == {i \in Nat : i + 1 \in 0..N /\ ~Goes(i)}
<1>1. N \in Nat
  BY FS_CardinalityType DEF Referenced, Steps
<1>2. \A s : /\ Reached(g, s, 0) = {s}
             /\ \A i \in 1..N : Reached(g, s, i) = Completed(g, Reached(g, s, i - 1))
  BY <1>1, CursorWalks DEF Reached
<1>3. \A at, y : y \in Completed(g, at) <=>
        \E e \in ImmediateEdges(g) : g.edges[e].from \in at /\ g.edges[e].to = y
  BY DEF Completed
<1>4. Bad = {}
  <2> SUFFICES ASSUME Bad # {} PROVE FALSE
    OBVIOUS
  <2>1. PICK m \in Bad : \A i \in Bad : m <= i
    <3>1. Bad \in SUBSET Nat
      OBVIOUS
    <3> HIDE DEF Bad
    <3> QED BY <3>1, MinIsLeast
  <2>2. m \in Nat /\ m + 1 \in 0..N /\ ~Goes(m)
    OBVIOUS
  <2> HIDE DEF N
  <2>3. \A s : Reached(g, s, m + 1) = Completed(g, Reached(g, s, m))
    <3>1. m + 1 \in 1..N /\ m + 1 - 1 = m
      BY <1>1, <2>2
    <3> QED BY <1>2, <3>1
  <2>4. CASE m = 0
    <3>1. \A s : Reached(g, s, m) = {s}
      BY <1>2, <2>4
    <3>2. ASSUME NEW s, NEW y
          PROVE  y \in Reached(g, s, m + 1) <=> \E t \in Completed(g, {s}) : y \in Reached(g, t, m)
      <4>1. Reached(g, s, m + 1) = Completed(g, {s})
        BY <2>3, <3>1
      <4>2. \A t : y \in Reached(g, t, m) <=> y = t
        BY <3>1
      <4> QED BY <4>1, <4>2
    <3>3. Goes(m)
      BY <3>2
    <3> QED BY <2>2, <3>3
  <2>5. CASE m # 0
    <3>1. m - 1 \in Nat /\ m \in 0..N /\ m \in 1..N /\ ~(m <= m - 1) /\ (m - 1) + 1 = m
      BY <1>1, <2>2, <2>5
    <3>2. Goes(m - 1)
      <4>1. m - 1 \notin Bad
        BY <2>1, <3>1
      <4> QED BY <3>1, <4>1
    <3>3. \A s, y : y \in Reached(g, s, m) <=>
            \E t \in Completed(g, {s}) : y \in Reached(g, t, m - 1)
      BY <3>1, <3>2
    <3>4. \A t : Reached(g, t, m) = Completed(g, Reached(g, t, m - 1))
      BY <1>2, <3>1
    <3> HIDE DEF Goes
    <3>5. ASSUME NEW s, NEW y
          PROVE  y \in Reached(g, s, m + 1) <=> \E t \in Completed(g, {s}) : y \in Reached(g, t, m)
      <4>1. y \in Reached(g, s, m + 1) <=>
              \E e \in ImmediateEdges(g) : g.edges[e].from \in Reached(g, s, m) /\ g.edges[e].to = y
        BY <1>3, <2>3
      <4>2. \A t : y \in Reached(g, t, m) <=>
              \E e \in ImmediateEdges(g) :
                g.edges[e].from \in Reached(g, t, m - 1) /\ g.edges[e].to = y
        BY <1>3, <3>4
      <4> QED BY <3>3, <4>1, <4>2
    <3>6. Goes(m)
      BY <3>5 DEF Goes
    <3> QED BY <2>2, <3>6
  <2> QED BY <2>4, <2>5
<1>5. Goes(k)
  BY <1>4
<1> QED BY <1>5

(* The states that a walk of k completions begins at become fewer, unless  *)
(* some of them complete into one another.                                 *)
Begins(g, k) == {s \in StatesOf(g) : Reached(g, s, k) # {}}

(* A state that completes into none of them is one that begins no longer walk. *)
LEMMA FewerBegin ==
  ASSUME NEW g, Referenced(g), NEW k \in Nat, k + 1 \in 0..Steps(g),
         NEW s \in Begins(g, k),
         \A e \in ImmediateEdges(g) : g.edges[e].from = s => g.edges[e].to \notin Begins(g, k)
  PROVE  /\ Begins(g, k + 1) \subseteq Begins(g, k) \ {s}
         /\ IsFiniteSet(Begins(g, k))
         /\ Cardinality(Begins(g, k + 1)) < Cardinality(Begins(g, k))
<1>1. \A t : Reached(g, t, k + 1) = UNION {Reached(g, u, k) : u \in Completed(g, {t})}
  BY WalkOn
<1>2. Reached(g, s, k + 1) = {}
  <2>1. \A u \in Completed(g, {s}) : Reached(g, u, k) = {}
    BY DEF Completed, Begins, Referenced
  <2> QED BY <1>1, <2>1
<1>3. \A t : Reached(g, t, k) = {} => Reached(g, t, k + 1) = {}
  <2>1. Steps(g) \in Nat
    BY FS_CardinalityType DEF Referenced, Steps
  <2>2. k + 1 \in 1..Steps(g) /\ k + 1 - 1 = k
    BY <2>1
  <2>3. \A t : Reached(g, t, k + 1) = Completed(g, Reached(g, t, k))
    BY <2>1, <2>2, CursorWalks DEF Reached
  <2>4. Completed(g, {}) = {}
    BY DEF Completed
  <2> QED BY <2>3, <2>4
<1>4. Begins(g, k + 1) \subseteq Begins(g, k) \ {s}
  BY <1>2, <1>3 DEF Begins
<1>5. IsFiniteSet(Begins(g, k))
  BY FS_Subset DEF Begins, Referenced
<1>6. /\ IsFiniteSet(Begins(g, k) \ {s})
      /\ Cardinality(Begins(g, k) \ {s}) = Cardinality(Begins(g, k)) - 1
  BY <1>5, FS_RemoveElement
<1>7. Cardinality(Begins(g, k + 1)) <= Cardinality(Begins(g, k) \ {s})
  BY <1>4, <1>6, FS_Subset
<1>8. Cardinality(Begins(g, k)) \in Nat /\ Cardinality(Begins(g, k + 1)) \in Nat
  <2>1. IsFiniteSet(Begins(g, k + 1))
    BY <1>4, <1>6, FS_Subset
  <2> QED BY <1>5, <2>1, FS_CardinalityType
<1> QED BY <1>4, <1>5, <1>6, <1>7, <1>8

(* Some of the states of a set complete into one another.                  *)
Cyclic(g, C) ==
  \A s \in C : \E e \in ImmediateEdges(g) : g.edges[e].from = s /\ g.edges[e].to \in C

(* Where there is no cycle, every walk has come to its end.                *)
LEMMA WalkEnds ==
  ASSUME NEW g, Referenced(g), \A C \in SUBSET StatesOf(g) : Cyclic(g, C) => C = {}
  PROVE  NoImmediateCompletionCycle(g)
<1> DEFINE N == Steps(g)
           Few(i) == Cardinality(Begins(g, i)) <= N - i
           Bad == {i \in 0..N : ~Few(i)}
<1>1. N \in Nat /\ \A i : IsFiniteSet(Begins(g, i)) /\ Cardinality(Begins(g, i)) \in Nat
  <2>1. \A i : IsFiniteSet(Begins(g, i))
    BY FS_Subset DEF Begins, Referenced
  <2> QED BY <2>1, FS_CardinalityType DEF Referenced, Steps
<1>2. Bad = {}
  <2> SUFFICES ASSUME Bad # {} PROVE FALSE
    OBVIOUS
  <2>1. PICK m \in Bad : \A i \in Bad : m <= i
    <3>1. Bad \in SUBSET Nat
      BY <1>1
    <3> HIDE DEF Bad
    <3> QED BY <3>1, MinIsLeast
  <2>2. m \in 0..N /\ ~Few(m)
    OBVIOUS
  <2>3. CASE m = 0
    <3>1. Cardinality(Begins(g, 0)) <= N
      BY FS_Subset DEF Begins, Referenced, Steps
    <3> HIDE DEF N
    <3> QED BY <1>1, <2>2, <2>3, <3>1
  <2>4. CASE m # 0
    <3> DEFINE k == m - 1
               B == Begins(g, k)
    <3>1. k \in Nat /\ k \in 0..N /\ k + 1 = m /\ ~(m <= k)
      BY <1>1, <2>2, <2>4
    <3>2. Few(k)
      BY <2>1, <3>1
    <3>3. CASE Cyclic(g, B)
      <4>1. B = {}
        BY <3>3 DEF Begins
      <4>2. Cardinality(Begins(g, m)) <= 0
        <5>1. \A s \in StatesOf(g) : Reached(g, s, k) = {}
          BY <4>1 DEF Begins
        <5>2. \A s : Reached(g, s, m) = UNION {Reached(g, u, k) : u \in Completed(g, {s})}
          BY <2>2, <3>1, WalkOn
        <5>3. \A s, u : u \in Completed(g, {s}) => u \in StatesOf(g)
          BY DEF Completed, Referenced
        <5>4. Begins(g, m) = {}
          <6>1. ASSUME NEW s \in StatesOf(g) PROVE Reached(g, s, m) = {}
            <7>1. \A u \in Completed(g, {s}) : Reached(g, u, k) = {}
              BY <5>1, <5>3
            <7>2. UNION {Reached(g, u, k) : u \in Completed(g, {s})} = {}
              BY <7>1
            <7> QED BY <5>2, <7>2
          <6> QED BY <6>1 DEF Begins
        <5>5. Cardinality(Begins(g, m)) = 0
          BY <5>4, FS_EmptySet
        <5> QED BY <5>5
      <4> HIDE DEF N
      <4> QED BY <1>1, <2>2, <4>2
    <3>4. CASE ~Cyclic(g, B)
      <4>1. PICK s \in B : \A e \in ImmediateEdges(g) :
              g.edges[e].from = s => g.edges[e].to \notin B
        BY <3>4 DEF Cyclic
      <4>2. Cardinality(Begins(g, k + 1)) < Cardinality(Begins(g, k))
        <5>1. k + 1 \in 0..Steps(g)
          BY <2>2, <3>1
        <5> HIDE DEF k
        <5> QED BY <3>1, <4>1, <5>1, FewerBegin
      <4>3. Cardinality(Begins(g, m)) < Cardinality(Begins(g, k))
        BY <3>1, <4>2
      <4> HIDE DEF N
      <4> QED BY <1>1, <2>2, <3>1, <3>2, <4>3
    <3> QED BY <3>3, <3>4
  <2> QED BY <2>3, <2>4
<1>3. Few(N)
  BY <1>1, <1>2
<1>4. Begins(g, N) = {}
  <2> HIDE DEF N
  <2>1. Cardinality(Begins(g, N)) = 0
    BY <1>1, <1>3
  <2> QED BY <1>1, <2>1, FS_EmptySet
<1> QED BY <1>4 DEF NoImmediateCompletionCycle, Begins, Reached, Steps

(* On a cycle there is always a completion to follow.                      *)
LEMMA CycleGoesOn ==
  ASSUME NEW g, Referenced(g), NEW C \in SUBSET StatesOf(g), Cyclic(g, C), C # {}
  PROVE  ~NoImmediateCompletionCycle(g)
<1> DEFINE N == Steps(g)
<1>1. PICK s : s \in C
  OBVIOUS
<1>2. N \in Nat
  BY FS_CardinalityType DEF Referenced, Steps
<1> DEFINE Bad == {i \in 0..N : Reached(g, s, i) \cap C = {}}
<1>3. /\ Reached(g, s, 0) = {s}
      /\ \A i \in 1..N : Reached(g, s, i) = Completed(g, Reached(g, s, i - 1))
  BY <1>2, CursorWalks DEF Reached
<1>4. Bad = {}
  <2> SUFFICES ASSUME Bad # {} PROVE FALSE
    OBVIOUS
  <2>1. PICK m \in Bad : \A i \in Bad : m <= i
    <3>1. Bad \in SUBSET Nat
      BY <1>2
    <3> HIDE DEF Bad
    <3> QED BY <3>1, MinIsLeast
  <2>2. m \in 0..N /\ Reached(g, s, m) \cap C = {}
    OBVIOUS
  <2>3. m # 0
    BY <1>1, <1>3, <2>2
  <2>4. m - 1 \in 0..N /\ m \in 1..N /\ ~(m <= m - 1)
    BY <1>2, <2>2, <2>3
  <2>5. PICK t \in C : t \in Reached(g, s, m - 1)
    BY <2>1, <2>4
  <2>6. PICK e \in ImmediateEdges(g) : g.edges[e].from = t /\ g.edges[e].to \in C
    BY <2>5 DEF Cyclic
  <2>7. g.edges[e].to \in Completed(g, Reached(g, s, m - 1))
    BY <2>5, <2>6 DEF Completed
  <2> QED BY <1>3, <2>2, <2>4, <2>6, <2>7
<1>5. Reached(g, s, N) # {}
  BY <1>2, <1>4
<1> QED BY <1>1, <1>5 DEF NoImmediateCompletionCycle, Reached, Steps

----------------------------------------------------------------------------
(* An authored graph refers to its own states only.                        *)
AuthorInv ==
  /\ DOMAIN authored = {"initial", "introFrames", "edges", "states"}
  /\ StatesOf(authored) = Names
  /\ \A e \in EdgesOf(authored) : authored.edges[e].to \in Names

(* The walk of the validator, with as many steps as there are states,      *)
(* rejects exactly the graphs in which states complete into one another    *)
(* for ever (validateImmediateCompletionCycles).                           *)
THEOREM CyclesAreFound == AuthorSpec => []CyclesFound
<1>1. authored \in Graphs => AuthorInv
  <2> SUFFICES ASSUME authored \in Graphs PROVE AuthorInv
    OBVIOUS
  <2>1. /\ DOMAIN authored = {"initial", "introFrames", "edges", "states"}
        /\ authored.edges = [e \in {} |-> <<>>] /\ DOMAIN authored.states = Names
    BY DEF Graphs
  <2> QED BY <2>1 DEF AuthorInv, StatesOf, EdgesOf
<1>2. AuthorInv /\ [Author]_authored => AuthorInv'
  <2> SUFFICES ASSUME AuthorInv, [Author]_authored PROVE AuthorInv'
    OBVIOUS
  <2>1. CASE UNCHANGED authored
    BY <2>1 DEF AuthorInv, StatesOf, EdgesOf
  <2>2. ASSUME NEW from \in Names, NEW to \in Names, NEW kind, AddCompletion(from, to, kind)
        PROVE  AuthorInv'
    BY <2>2 DEF AddCompletion, AuthorInv, StatesOf, EdgesOf
  <2>3. ASSUME NEW s \in Names, Shorten(s)
        PROVE  AuthorInv'
    BY <2>3 DEF Shorten, AuthorInv, StatesOf, EdgesOf
  <2> QED BY <2>1, <2>2, <2>3 DEF Author
<1>3. AuthorInv => CyclesFound
  <2> SUFFICES ASSUME AuthorInv PROVE CyclesFound
    OBVIOUS
  <2>1. StatesOf(authored) = Names /\ Referenced(authored)
    BY NamesAssumption DEF AuthorInv, Referenced, ImmediateEdges
  <2>2. \A C : Endless(C) <=> Cyclic(authored, C)
    BY DEF Endless, Cyclic
  <2>3. ASSUME \A C \in SUBSET Names : Endless(C) => C = {}
        PROVE  NoImmediateCompletionCycle(authored)
    BY <2>1, <2>2, <2>3, WalkEnds
  <2>4. ASSUME NEW C \in SUBSET Names, Endless(C), C # {}
        PROVE  ~NoImmediateCompletionCycle(authored)
    BY <2>1, <2>2, <2>4, CycleGoesOn
  <2> QED BY <2>3, <2>4 DEF CyclesFound
<1> QED BY <1>1, <1>2, <1>3, PTL DEF AuthorSpec

----------------------------------------------------------------------------
(* The calls of the host.  Each disjunct is the guard of one way in which  *)
(* the engine handles the call, in the order of Request, Send and Tick.    *)
RequestHandled(target) ==
  \/ ~Routable \/ target \notin GraphStates \/ Unroutable(target)
  \/ /\ target = visual
     /\ phase \in {"stable", "static"} \/ (Early /\ pending = None /\ group = None)
  \/ phase = "waiting" /\ target = To(pending)
  \/ /\ target = visual
     /\ \/ Early /\ (pending # None \/ group # None)
        \/ phase = "waiting" /\ target # To(pending)
  \/ /\ Early \/ phase = "stable" \/ (phase = "waiting" /\ target # To(pending))
     /\ target # visual /\ DirectEdges(graph, visual, target) # {}
  \/ InTransition /\ target \in {To(active), To(Effective)}
  \/ /\ InTransition /\ target \notin {To(active), To(Effective)}
     /\ \E e \in ActiveInverses : Edge(e).to = target
  \/ /\ InTransition /\ target \notin {To(active), To(Effective)}
     /\ \A e \in ActiveInverses : Edge(e).to # target
     /\ DirectEdges(graph, To(Effective), target) # {}
  \/ phase = "static" /\ target # visual /\ DirectEdges(graph, visual, target) # {}

EventHandled(event) ==
  \/ Routable => EventEdge(event) = {}
  \/ \E e \in EventEdge(event) :
       \/ InTransition /\ followOn = None /\ e = Effective.edge
       \/ InTransition /\ followOn # None /\ e \notin {active.edge} \cup ActiveInverses
                       /\ e = followOn.edge
       \/ ~InTransition /\ pending # None /\ e = pending.edge
       \/ (Early \/ phase = "waiting") /\ pending # None /\ Edge(e).to = visual
       \/ /\ Early \/ phase \in {"stable", "waiting"}
          /\ pending # None => e # pending.edge /\ Edge(e).to # visual
       \/ InTransition /\ (followOn # None \/ active.edge # Effective.edge) /\ e = active.edge
       \/ InTransition /\ e \in ActiveInverses /\ (followOn # None \/ e # Effective.edge)
       \/ InTransition /\ e \notin {active.edge} \cup ActiveInverses
                       /\ (followOn # None => e # followOn.edge)
       \/ phase = "static"

TickHandled ==
  /\ ~Terminated
  /\ \/ phase \in {"preparing", "static", "intro", "locked", "reversible"}
     \/ phase \in {"stable", "waiting"} /\ OnBody

(* Whatever the host asks, sends or ticks meets a case; a graph that never *)
(* began has a way to its static state, and a static one can be resumed.   *)
Handled ==
  /\ \A target : RequestHandled(target)
  /\ \A event : EventHandled(event)
  /\ phase \notin {"unready", "error", "disposed"} => TickHandled
  /\ phase = "preparing" =>
       visual = requested \/ DirectEdges(graph, visual, requested) # {}
  /\ phase = "static" =>
       /\ readiness = "static" /\ presentation = Static(visual)
       /\ requested = visual /\ ~HasRoute /\ group = None

USE DEF Inv, RouteShape, PendingShape, ActiveShape, ContinuationShape, PresentationShape,
        ReadinessShape, RequestedIsProspective, GroupFollowsRoutes, InTransition, Early,
        Terminated, From, To, Edge, Effective, Prospective, HasRoute, GraphStates

(* The phases of an engine that takes inputs.                              *)
LEMMA RoutablePhases ==
  ASSUME Inv, Routable
  PROVE  /\ graph # None
         /\ phase \in {"preparing", "intro", "stable", "waiting", "locked", "reversible", "static"}
BY DEF TypeOK, Routable, Phases

(* Each phase has a case for a request that may be routed.                 *)
LEMMA RequestsHandled == ASSUME Inv, NEW target PROVE RequestHandled(target)
<1> SUFFICES ASSUME Routable, target \in GraphStates, ~Unroutable(target)
             PROVE  RequestHandled(target)
  BY DEF RequestHandled
<1>1. CASE phase \in {"stable", "static"}
  <2>1. target # visual => DirectEdges(graph, visual, target) # {}
    BY <1>1 DEF Unroutable, Origin
  <2> QED BY <1>1, <2>1 DEF RequestHandled
<1>2. CASE Early
  <2>1. target # visual => DirectEdges(graph, visual, target) # {}
    BY <1>2 DEF Unroutable, Origin
  <2> QED BY <1>2, <2>1 DEF RequestHandled
<1>3. CASE phase = "waiting"
  <2>1. target # visual /\ target # To(pending) => DirectEdges(graph, visual, target) # {}
    BY <1>3 DEF Unroutable, Origin
  <2> QED BY <1>3, <2>1 DEF RequestHandled
<1>4. CASE InTransition
  <2>1. /\ target \notin {To(active), To(Effective)}
        /\ \A e \in ActiveInverses : Edge(e).to # target
        => DirectEdges(graph, To(Effective), target) # {}
    BY <1>4 DEF Unroutable, Origin
  <2> QED BY <1>4, <2>1 DEF RequestHandled
<1> QED BY <1>1, <1>2, <1>3, <1>4, RoutablePhases

(* And for an event that selects an edge.                                  *)
LEMMA EventsHandled == ASSUME Inv, NEW event PROVE EventHandled(event)
<1> SUFFICES ASSUME Routable, EventEdge(event) # {}
             PROVE  EventHandled(event)
  BY DEF EventHandled
<1>1. PICK e \in EventEdge(event) : TRUE
  OBVIOUS
<1>2. CASE phase = "static"
  BY <1>1, <1>2 DEF EventHandled
<1>3. CASE Early \/ phase \in {"stable", "waiting"}
  BY <1>1, <1>3 DEF EventHandled
<1>4. CASE InTransition
  BY <1>1, <1>4 DEF EventHandled
<1> QED BY <1>2, <1>3, <1>4, RoutablePhases

(* A graph that never began leads, if anywhere, to what was requested.     *)
LEMMA BeginsStatic ==
  ASSUME Inv, phase = "preparing", visual # requested
  PROVE  DirectEdges(graph, visual, requested) # {}
<1>1. graph # None /\ readiness = "preparing" /\ active = None
  OBVIOUS
<1>2. followOn = None /\ reversal = None
  OBVIOUS
<1>3. requested = IF pending # None THEN To(pending) ELSE visual
  BY <1>1, <1>2
<1>4. pending # None /\ From(pending) = visual
  BY <1>3
<1>5. pending.edge \in EdgesOf(graph)
  BY <1>1, <1>4 DEF TypeOK, RouteSet, EdgeIds
<1> QED BY <1>3, <1>4, <1>5 DEF DirectEdges

(* The shapes of the phases are what the cases need.                       *)
LEMMA InvHandles == ASSUME Inv PROVE Handled
<1>1. phase \notin {"unready", "error", "disposed"} => TickHandled
  BY DEF TickHandled, TypeOK, Phases, OnBody
<1>2. phase = "preparing" =>
        visual = requested \/ DirectEdges(graph, visual, requested) # {}
  BY BeginsStatic
<1>3. phase = "static" =>
        /\ readiness = "static" /\ presentation = Static(visual)
        /\ requested = visual /\ ~HasRoute /\ group = None
  OBVIOUS
<1> QED BY <1>1, <1>2, <1>3, RequestsHandled, EventsHandled DEF Handled

HIDE DEF Inv, RouteShape, PendingShape, ActiveShape, ContinuationShape, PresentationShape,
         ReadinessShape, RequestedIsProspective, GroupFollowsRoutes, InTransition, Early,
         Terminated, From, To, Edge, Effective, Prospective, HasRoute, GraphStates

(* An engine handles every call in every state that earlier calls left,    *)
(* whatever definition was validated: none of the internal errors of       *)
(* engine.ts and engine-state.ts is thrown.                                *)
THEOREM EveryCallHandled == HSpec => []Handled
<1>1. Inv => Handled
  BY InvHandles
<1> QED BY <1>1, InvariantHolds, PTL
=============================================================================
