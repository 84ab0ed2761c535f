------------------------- MODULE DecoderLaneProofs -------------------------
(***************************************************************************)
(* A decoder lane is in one of six situations: its configuration is        *)
(* checked, it is offered for a run, its worker has not heard of the run   *)
(* yet, the run is decoded (or closes), it is decoded and its frames are   *)
(* still taken, or the lane has ended.  Each situation says what may be on *)
(* its way in either channel and where the frames of the run are; with it  *)
(* no side receives a message out of turn, the surfaces fit the ring, and  *)
(* a caller never waits in vain for a worker that has nothing left to do.  *)
(***************************************************************************)
EXTENDS DecoderLaneProperties, TLAPS, FiniteSetTheorems, SequenceTheorems, WellFoundedInduction

----------------------------------------------------------------------------
(* The samples.                                                            *)

(* The frames of the first n samples.                                      *)
Prefix(n) == UNION {Samples[k] : k \in 1 .. n}

(* Every frame is displayed by one sample.                                 *)
LEMMA SampleFacts ==
  /\ Len(Samples) \in Nat /\ DOMAIN Samples = 1 .. Len(Samples)
  /\ Frames = Prefix(Len(Samples)) /\ Frames \subseteq Nat
  /\ IsFiniteSet(Frames) /\ Cardinality(Frames) \in Nat
  /\ \A i \in Frames, k \in 1 .. Len(Samples) : i \in Samples[k] => SampleOf(i) = k
<1>1. Len(Samples) \in Nat /\ DOMAIN Samples = 1 .. Len(Samples)
  BY LaneAssumption
<1>2. Frames = Prefix(Len(Samples))
  BY <1>1 DEF Frames, Prefix, Range
<1>3. IsFiniteSet(Frames)
  <2>1. IsFiniteSet(1 .. Len(Samples)) BY <1>1, FS_Interval
  <2> DEFINE all == {Samples[k] : k \in 1 .. Len(Samples)}
  <2>2. IsFiniteSet(all)
    <3>1. Samples \in [1 .. Len(Samples) -> all] BY <1>1, LaneAssumption
    <3>2. Samples \in Surjection(1 .. Len(Samples), all) BY <3>1 DEF Surjection
    <3> HIDE DEF all
    <3> QED BY <2>1, <3>2, FS_Surjection
  <2> HIDE DEF Frames
  <2>3. \A T \in all : IsFiniteSet(T) BY <1>1, LaneAssumption
  <2> QED BY <1>2, <2>2, <2>3, FS_UNION DEF Prefix
<1>4. Cardinality(Frames) \in Nat BY <1>3, FS_CardinalityType
<1>5. Frames \subseteq Nat BY <1>4, LaneAssumption
<1>6. ASSUME NEW i \in Frames, NEW k \in 1 .. Len(Samples), i \in Samples[k]
      PROVE  SampleOf(i) = k
  BY <1>1, <1>6, LaneAssumption DEF SampleOf
<1> QED BY <1>1, <1>2, <1>3, <1>4, <1>5, <1>6

(* More samples display more frames.                                       *)
LEMMA PrefixFacts ==
  /\ Prefix(0) = {}
  /\ \A n \in 0 .. Len(Samples) : /\ Prefix(n) \subseteq Frames
                                  /\ IsFiniteSet(Prefix(n)) /\ Cardinality(Prefix(n)) \in Nat
  /\ \A m, n \in 0 .. Len(Samples) : m <= n => Prefix(m) \subseteq Prefix(n)
  /\ \A n \in 1 .. Len(Samples) : /\ Prefix(n) = Prefix(n - 1) \cup Samples[n]
                                  /\ Prefix(n - 1) \cap Samples[n] = {}
<1>1. Prefix(0) = {} BY DEF Prefix
<1>2. \A m, n \in 0 .. Len(Samples) : m <= n => Prefix(m) \subseteq Prefix(n)
  BY SampleFacts DEF Prefix
<1>3. \A n \in 0 .. Len(Samples) : Prefix(n) \subseteq Frames BY <1>2, SampleFacts
<1>4. \A n \in 0 .. Len(Samples) : IsFiniteSet(Prefix(n)) /\ Cardinality(Prefix(n)) \in Nat
  BY <1>3, SampleFacts, FS_Subset, FS_CardinalityType
<1>5. \A n \in 1 .. Len(Samples) : /\ Prefix(n) = Prefix(n - 1) \cup Samples[n]
                                   /\ Prefix(n - 1) \cap Samples[n] = {}
  <2>1. SUFFICES ASSUME NEW n \in 1 .. Len(Samples)
                 PROVE  /\ Prefix(n) = Prefix(n - 1) \cup Samples[n]
                        /\ Prefix(n - 1) \cap Samples[n] = {}
    OBVIOUS
  <2>2. 1 .. n = (1 .. n - 1) \cup {n} BY SampleFacts
  <2>3. Prefix(n) = Prefix(n - 1) \cup Samples[n] BY <2>2 DEF Prefix
  <2>4. \A k \in 1 .. n - 1 : k # n /\ k \in DOMAIN Samples /\ n \in DOMAIN Samples
    BY SampleFacts
  <2>5. \A k \in 1 .. n - 1 : Samples[k] \cap Samples[n] = {} BY <2>4, LaneAssumption
  <2>6. Prefix(n - 1) \cap Samples[n] = {} BY <2>5 DEF Prefix
  <2> QED BY <2>3, <2>6
<1> QED BY <1>1, <1>2, <1>3, <1>4, <1>5

(* What samples display, counted.                                          *)
LEMMA DisplayedCount ==
  ASSUME NEW m \in 0 .. Len(Samples), NEW n \in 0 .. Len(Samples), m <= n
  PROVE  /\ Displayed(m, n) = Cardinality(Prefix(n)) - Cardinality(Prefix(m))
         /\ Displayed(m, n) = Cardinality(Prefix(n) \ Prefix(m))
         /\ Displayed(m, n) \in Nat
<1> DEFINE new == UNION {Samples[k] : k \in m + 1 .. n}
<1>1. \A j \in 1 .. m, k \in m + 1 .. n : Samples[j] \cap Samples[k] = {}
  <2>1. \A j \in 1 .. m, k \in m + 1 .. n : j # k /\ j \in DOMAIN Samples /\ k \in DOMAIN Samples
    BY SampleFacts
  <2> QED BY <2>1, LaneAssumption
<1>2. Prefix(m) \cap new = {} BY <1>1 DEF Prefix
<1>3. 1 .. n = (1 .. m) \cup (m + 1 .. n) BY SampleFacts
<1>4. Prefix(n) = Prefix(m) \cup new BY <1>3 DEF Prefix
<1>5. new = Prefix(n) \ Prefix(m) BY <1>2, <1>4
<1>6. Displayed(m, n) = Cardinality(new) BY DEF Displayed
<1> HIDE DEF new
<1>7. IsFiniteSet(Prefix(m)) /\ IsFiniteSet(Prefix(n)) /\ Cardinality(Prefix(m)) \in Nat
      /\ Cardinality(Prefix(n)) \in Nat /\ Prefix(n) \cap Prefix(m) = Prefix(m)
  BY PrefixFacts
<1>8. Cardinality(Prefix(n) \ Prefix(m)) = Cardinality(Prefix(n)) - Cardinality(Prefix(m))
  BY <1>7, FS_Difference
<1>9. Cardinality(Prefix(n) \ Prefix(m)) \in Nat BY <1>7, FS_Difference, FS_CardinalityType
<1> QED BY <1>5, <1>6, <1>8, <1>9

(* A set of natural numbers that has a bound has a greatest one.           *)
LEMMA MaxIsGreatest ==
  ASSUME NEW S \in SUBSET Nat, S # {}, NEW bound \in Nat, \A n \in S : n <= bound
  PROVE  Max(S) \in S /\ \A n \in S : Max(S) >= n
<1> DEFINE less == {ss \in Nat \X Nat : ss[1] < ss[2]}
           T == {bound - n : n \in S}
<1>1. T \in SUBSET Nat /\ T # {}
  <2>1. \A n \in S : n \in Nat /\ n <= bound OBVIOUS
  <2>2. \A n \in S : bound - n \in Nat BY <2>1
  <2> QED BY <2>2
<1>2. OpToRel(<, Nat) = less BY DEF OpToRel
<1>3. IsWellFoundedOn(less, Nat) BY <1>2, NatLessThanWellFounded
<1>4. PICK t \in T : \A y \in T : ~(<<y, t>> \in less)
  <2> HIDE DEF less, T
  <2> QED BY <1>1, <1>3, WFMin
<1>5. \A y \in T : t <= y
  <2>1. ASSUME NEW y \in T, y < t PROVE FALSE
    <3>1. <<y, t>> \in less BY <1>1, <2>1
    <3> QED BY <1>4, <3>1
  <2> QED BY <1>1, <2>1
<1>6. PICK x \in S : t = bound - x BY <1>4
<1>7. \A y \in S : x >= y BY <1>5, <1>6
<1> QED BY <1>7 DEF Max

----------------------------------------------------------------------------
(* A run and its credit.                                                   *)

Runs ==
  [next : 0 .. Len(Samples), outstanding : 0 .. Ring,
   seen : SUBSET Frames, buffered : SUBSET Frames, leased : SUBSET Frames,
   taken : SUBSET Frames, started : BOOLEAN, batch : BOOLEAN, flushSent : BOOLEAN,
   flushed : BOOLEAN, closed : BOOLEAN, awaits : {"nothing", "ready", "frame", "complete"}]

(* The frames that take room in the ring: those asked for and not released. *)
Room(r) == Prefix(r.next) \ (r.taken \ r.leased)

(* No sample can be asked for that has not been: the credit is used up.    *)
Full(r) ==
  ~r.closed /\ r.started /\ ~r.batch /\ ~r.flushSent =>
     r.next < Len(Samples) /\ Displayed(r.next, r.next + 1) > Ring - r.outstanding

(* What a run keeps by itself, but for samples it could ask for.           *)
Kept(r) ==
  /\ r \in Runs
  /\ r.closed => /\ r.buffered = {} /\ r.leased = {} /\ r.outstanding = 0
                 /\ r.awaits = "nothing"
  /\ ~r.closed => /\ r.seen = r.buffered \cup r.taken /\ r.buffered \cap r.taken = {}
                  /\ r.outstanding = Cardinality(Room(r))
  /\ r.leased = {} \/ \E i \in r.taken : r.leased = {i}
  /\ r.taken \subseteq r.seen /\ r.seen \subseteq Prefix(r.next)
  /\ \E n \in Nat : r.taken = 0 .. n - 1
  /\ Cardinality(Room(r)) <= Ring
  /\ r.flushSent => r.next = Len(Samples) /\ ~r.batch
  /\ ~r.started => r.next = 0 /\ ~r.batch /\ ~r.flushSent
  /\ r.awaits # "nothing" => r.leased = {}
  /\ r.awaits = "ready" => r.taken = {}
  /\ r.awaits = "complete" => r.taken = Frames

Sound(r) == Kept(r) /\ Full(r)

(* The room of a run is finite, and counts.                                *)
LEMMA RoomFacts ==
  ASSUME NEW r \in Runs
  PROVE  IsFiniteSet(Room(r)) /\ Cardinality(Room(r)) \in Nat /\ Room(r) \subseteq Frames
BY PrefixFacts, FS_Difference, FS_CardinalityType DEF Room, Runs

(* No samples display nothing.                                             *)
LEMMA NothingDisplayed == \A n \in 0 .. Len(Samples) : Displayed(n, n) = 0
<1>1. TAKE n \in 0 .. Len(Samples)
<1>2. n \in Nat BY SampleFacts
<1>3. Displayed(n, n) = Cardinality(Prefix(n)) - Cardinality(Prefix(n)) BY <1>2, DisplayedCount
<1> QED BY <1>3, PrefixFacts

(* A run asks for no more than the ring has room for, and for all it has.  *)
LEMMA BatchEndFits ==
  ASSUME NEW r \in Runs
  PROVE  /\ BatchEnd(r) \in r.next .. Len(Samples)
         /\ Displayed(r.next, BatchEnd(r)) \in Nat
         /\ r.outstanding + Displayed(r.next, BatchEnd(r)) <= Ring
         /\ BatchEnd(r) = r.next /\ r.next < Len(Samples) =>
              Displayed(r.next, r.next + 1) > Ring - r.outstanding
<1> DEFINE fits == {k \in r.next + 1 .. Len(Samples) :
                      /\ k - r.next <= Ring
                      /\ Displayed(r.next, k) <= Ring - r.outstanding}
           S == {r.next} \cup fits
<1>1. /\ r.next \in 0 .. Len(Samples) /\ Len(Samples) \in Nat /\ r.outstanding \in 0 .. Ring
      /\ Ring \in Nat \ {0}
  BY SampleFacts, LaneAssumption DEF Runs
<1>2. S \in SUBSET Nat /\ S # {} /\ \A n \in S : n <= Len(Samples) BY <1>1
<1>3. BatchEnd(r) = Max(S) BY DEF BatchEnd
<1>4. Max(S) \in S /\ \A n \in S : Max(S) >= n
  <2> HIDE DEF S
  <2> QED BY <1>1, <1>2, MaxIsGreatest
<1>5. Displayed(r.next, r.next) = 0 BY <1>1, NothingDisplayed
<1>6. \A k \in S : /\ k \in r.next .. Len(Samples) /\ Displayed(r.next, k) \in Nat
                   /\ Displayed(r.next, k) <= Ring - r.outstanding
  <2>1. \A k \in S : k \in 0 .. Len(Samples) /\ r.next <= k /\ k <= Len(Samples) BY <1>1
  <2>2. \A k \in S : Displayed(r.next, k) \in Nat
    <3> HIDE DEF S
    <3> QED BY <1>1, <2>1, DisplayedCount
  <2>3. \A k \in S : Displayed(r.next, k) <= Ring - r.outstanding
    BY <1>1, <1>5
  <2> QED BY <2>1, <2>2, <2>3, <1>1
<1>7. r.next < Len(Samples) /\ Displayed(r.next, r.next + 1) <= Ring - r.outstanding =>
        r.next + 1 \in S
  BY <1>1
<1>8. r.next < Len(Samples) => Displayed(r.next, r.next + 1) \in Nat
  <2>1. SUFFICES ASSUME r.next < Len(Samples) PROVE Displayed(r.next, r.next + 1) \in Nat
    OBVIOUS
  <2>2. PICK m \in 0 .. Len(Samples), n \in 0 .. Len(Samples) : m = r.next /\ n = r.next + 1
    BY <1>1, <2>1
  <2>3. m <= n BY <1>1, <2>2
  <2>4. Displayed(m, n) \in Nat BY <2>3, DisplayedCount
  <2> QED BY <2>2, <2>4
<1> HIDE DEF S
<1> QED BY <1>1, <1>3, <1>4, <1>6, <1>7, <1>8

(* What pump() does to a run: nothing, a batch, or the flush.              *)
LEMMA PumpedCases ==
  ASSUME NEW r \in Runs
  PROVE  \/ Pumped(r) = r /\ (r.started => r.closed \/ r.batch \/ r.flushSent)
         \/ /\ r.started /\ ~r.closed /\ ~r.batch /\ ~r.flushSent
            /\ BatchEnd(r) = r.next
            /\ Pumped(r) = [r EXCEPT !.flushSent = r.next = Len(Samples)]
         \/ /\ r.started /\ ~r.closed /\ ~r.batch /\ ~r.flushSent
            /\ BatchEnd(r) > r.next
            /\ Pumped(r) = [r EXCEPT !.next = BatchEnd(r), !.batch = TRUE,
                                     !.outstanding = @ + Displayed(r.next, BatchEnd(r))]
<1> DEFINE b == BatchEnd(r)
<1>1. CASE ~r.started \/ r.closed \/ r.batch \/ r.flushSent
  BY <1>1 DEF Pumped
<1>2. CASE r.started /\ ~r.closed /\ ~r.batch /\ ~r.flushSent
  <2>1. Pumped(r) = [r EXCEPT !.next = b, !.batch = b > r.next,
                              !.outstanding = @ + Displayed(r.next, b),
                              !.flushSent = r.next = Len(Samples)]
    BY <1>2 DEF Pumped
  <2>2. b \in r.next .. Len(Samples) /\ Displayed(r.next, b) \in Nat
    BY BatchEndFits
  <2>3. r.next \in 0 .. Len(Samples) /\ r.outstanding \in Nat /\ Len(Samples) \in Nat
    BY SampleFacts, LaneAssumption DEF Runs
  <2> HIDE DEF b
  <2>4. CASE b = r.next
    <3>1. Displayed(r.next, b) = 0 BY <2>3, <2>4, NothingDisplayed
    <3>2. r.outstanding + 0 = r.outstanding /\ ~(b > r.next) BY <2>3, <2>4
    <3>3. r = [r EXCEPT !.next = b, !.batch = FALSE, !.outstanding = @ + 0]
      BY <1>2, <2>4, <3>2 DEF Runs
    <3>4. (b > r.next) = FALSE BY <3>2
    <3>5. Pumped(r) = [r EXCEPT !.next = b, !.batch = FALSE, !.outstanding = @ + 0,
                                !.flushSent = r.next = Len(Samples)]
      BY <2>1, <3>1, <3>4
    <3>6. Pumped(r) = [r EXCEPT !.flushSent = r.next = Len(Samples)]
      BY <3>3, <3>5
    <3> QED BY <1>2, <2>4, <3>6 DEF b
  <2>5. CASE b > r.next
    <3>1. r.next # Len(Samples) BY <2>2, <2>3, <2>5
    <3>2. Pumped(r) = [r EXCEPT !.next = b, !.batch = TRUE,
                                !.outstanding = @ + Displayed(r.next, b)]
      BY <1>2, <2>1, <2>3, <2>5, <3>1 DEF Runs
    <3> QED BY <1>2, <2>5, <3>2 DEF b
  <2> QED BY <2>2, <2>3, <2>4, <2>5
<1> QED BY <1>1, <1>2 DEF Runs

(* pump() leaves no sample unasked for that the ring has room for.         *)
LEMMA PumpedSound ==
  ASSUME NEW r, Kept(r)
  PROVE  Sound(Pumped(r))
<1>0. r \in Runs BY DEF Kept
<1>1. CASE Pumped(r) = r /\ (r.started => r.closed \/ r.batch \/ r.flushSent)
  BY <1>1 DEF Sound, Full
<1>2. CASE /\ r.started /\ ~r.closed /\ ~r.batch /\ ~r.flushSent
           /\ BatchEnd(r) = r.next
           /\ Pumped(r) = [r EXCEPT !.flushSent = r.next = Len(Samples)]
  <2> DEFINE p == [r EXCEPT !.flushSent = r.next = Len(Samples)]
  <2>1. r.next < Len(Samples) => Displayed(r.next, r.next + 1) > Ring - r.outstanding
    BY <1>0, <1>2, BatchEndFits
  <2>2. r.next \in 0 .. Len(Samples) /\ Len(Samples) \in Nat BY <1>0, SampleFacts DEF Runs
  <2>3. Room(p) = Room(r) BY <1>0 DEF Room, Runs
  <2>4. Kept(p) BY <1>2, <2>3 DEF Kept, Runs
  <2>5. Full(p) BY <1>0, <1>2, <2>1, <2>2 DEF Full, Runs
  <2> QED BY <1>2, <2>4, <2>5 DEF Sound
<1>3. CASE /\ r.started /\ ~r.closed /\ ~r.batch /\ ~r.flushSent
           /\ BatchEnd(r) > r.next
           /\ Pumped(r) = [r EXCEPT !.next = BatchEnd(r), !.batch = TRUE,
                                    !.outstanding = @ + Displayed(r.next, BatchEnd(r))]
  <2> DEFINE b == BatchEnd(r)
             d == Displayed(r.next, b)
             p == [r EXCEPT !.next = b, !.batch = TRUE, !.outstanding = @ + d]
  <2>1. /\ b \in r.next .. Len(Samples) /\ d \in Nat /\ r.outstanding + d <= Ring
        /\ r.next \in 0 .. Len(Samples) /\ Len(Samples) \in Nat
        /\ b \in 0 .. Len(Samples) /\ r.outstanding \in Nat
    BY <1>0, BatchEndFits, SampleFacts, LaneAssumption DEF Runs
  <2>2. d = Cardinality(Prefix(b) \ Prefix(r.next))
    BY <2>1, DisplayedCount
  <2> HIDE DEF b, d
  <2>3. p \in Runs
    <3>1. r.outstanding + d \in 0 .. Ring
      <4>1. Ring \in Nat BY LaneAssumption
      <4> QED BY <2>1, <4>1
    <3> QED BY <1>0, <2>1, <3>1 DEF Runs
  <2>4. Room(p) = Room(r) \cup (Prefix(b) \ Prefix(r.next))
    <3>1. r.taken \subseteq Prefix(r.next) BY DEF Kept
    <3>2. Prefix(r.next) \subseteq Prefix(b) BY <2>1, PrefixFacts
    <3>3. p.next = b /\ p.taken = r.taken /\ p.leased = r.leased BY <1>0 DEF Runs
    <3> QED BY <3>1, <3>2, <3>3 DEF Room
  <2>5. Room(r) \cap (Prefix(b) \ Prefix(r.next)) = {} BY DEF Room
  <2>6. IsFiniteSet(Room(r)) /\ Cardinality(Room(r)) \in Nat BY <1>0, RoomFacts
  <2>7. IsFiniteSet(Prefix(b) \ Prefix(r.next)) BY <2>1, PrefixFacts, FS_Difference
  <2>8. Cardinality(Room(p)) = Cardinality(Room(r)) + d
    <3>1. Cardinality(Room(r) \cup (Prefix(b) \ Prefix(r.next))) =
            Cardinality(Room(r)) + d - Cardinality(Room(r) \cap (Prefix(b) \ Prefix(r.next)))
      BY <2>2, <2>6, <2>7, FS_Union
    <3>2. Cardinality(Room(r) \cap (Prefix(b) \ Prefix(r.next))) = 0 BY <2>5, FS_EmptySet
    <3> HIDE DEF p
    <3> QED BY <2>1, <2>4, <2>6, <3>1, <3>2
  <2>9. r.outstanding = Cardinality(Room(r)) BY <1>3 DEF Kept
  <2>10. Prefix(r.next) \subseteq Prefix(b) BY <2>1, PrefixFacts
  <2>11. /\ p.next = b /\ p.batch /\ p.outstanding = r.outstanding + d
         /\ p.seen = r.seen /\ p.buffered = r.buffered /\ p.leased = r.leased
         /\ p.taken = r.taken /\ p.started = r.started /\ p.flushSent = r.flushSent
         /\ p.closed = r.closed /\ p.awaits = r.awaits
    BY <1>0 DEF Runs
  <2> HIDE DEF p
  <2>12. Kept(p)
    BY <1>3, <2>1, <2>3, <2>8, <2>9, <2>10, <2>11 DEF Kept
  <2>13. Full(p) BY <2>11 DEF Full
  <2> QED BY <1>3, <2>12, <2>13 DEF Sound, p, b, d
<1> QED BY <1>0, <1>1, <1>2, <1>3, PumpedCases

(* A run that has not begun asks for nothing yet.                          *)
LEMMA NewRunSound == Sound(NewRun)
<1>1. NewRun \in Runs BY SampleFacts, LaneAssumption DEF NewRun, Runs
<1>2. Room(NewRun) = {} BY PrefixFacts DEF Room, NewRun
<1>3. Cardinality(Room(NewRun)) = 0 /\ 0 <= Ring BY <1>2, FS_EmptySet, LaneAssumption
<1>4. {} = 0 .. 0 - 1 /\ 0 \in Nat OBVIOUS
<1>5. \E n \in Nat : {} = 0 .. n - 1 BY <1>4
<1> QED BY <1>1, <1>3, <1>5 DEF Sound, Kept, Full, NewRun

(* A run that is closed gives its frames back.                             *)
LEMMA ClosedSound ==
  ASSUME NEW r, Kept(r)
  PROVE  Sound(Closed(r)) /\ Room(Closed(r)) \subseteq Room(r)
<1> DEFINE p == Closed(r)
<1>1. r \in Runs BY DEF Kept
<1>2. p \in Runs
  <2>1. 0 \in 0 .. Ring BY LaneAssumption
  <2> QED BY <1>1, <2>1 DEF Runs, Closed
<1>3. /\ p.closed /\ p.buffered = {} /\ p.leased = {} /\ p.outstanding = 0 /\ p.awaits = "nothing"
      /\ p.taken = r.taken /\ p.seen = r.seen /\ p.next = r.next /\ p.flushSent = r.flushSent
      /\ p.batch = r.batch /\ p.started = r.started
  BY <1>1 DEF Runs, Closed
<1> HIDE DEF p
<1>4. Room(p) \subseteq Room(r) BY <1>3 DEF Room
<1>5. Cardinality(Room(p)) <= Ring
  <2>1. IsFiniteSet(Room(r)) /\ Cardinality(Room(r)) \in Nat BY <1>1, RoomFacts
  <2>2. Cardinality(Room(p)) \in Nat BY <1>2, RoomFacts
  <2>3. Cardinality(Room(p)) <= Cardinality(Room(r)) BY <1>4, <2>1, FS_Subset
  <2>4. Cardinality(Room(r)) <= Ring /\ Ring \in Nat BY LaneAssumption DEF Kept
  <2> QED BY <2>1, <2>2, <2>3, <2>4
<1>6. Kept(p) BY <1>2, <1>3, <1>5 DEF Kept
<1>7. Full(p) BY <1>3 DEF Full
<1> QED BY <1>4, <1>6, <1>7 DEF p, Sound

(* Two runs that have asked for the same, and heard the same.              *)
Alike(r, p) ==
  /\ p.next = r.next /\ p.seen = r.seen /\ p.started = r.started /\ p.batch = r.batch
  /\ p.flushSent = r.flushSent /\ p.closed = r.closed

(* Who begins to wait holds no frame, and takes or gives back none.        *)
LEMMA AwaitSound ==
  ASSUME NEW r, Sound(r), ~r.closed, NEW what \in {"ready", "frame", "complete"}, r.leased = {},
         what = "ready" => r.taken = {}, what = "complete" => r.taken = Frames
  PROVE  Sound([r EXCEPT !.awaits = what]) /\ Alike(r, [r EXCEPT !.awaits = what])
<1> DEFINE p == [r EXCEPT !.awaits = what]
<1>1. r \in Runs BY DEF Sound, Kept
<1>2. p \in Runs BY <1>1 DEF Runs
<1>3. /\ p.awaits = what /\ Alike(r, p) /\ p.outstanding = r.outstanding
      /\ p.buffered = r.buffered /\ p.leased = r.leased /\ p.taken = r.taken
  BY <1>1 DEF Runs, Alike
<1> HIDE DEF p
<1>4. Room(p) = Room(r) BY <1>3 DEF Room, Alike
<1>5. Kept(p) BY <1>2, <1>3, <1>4 DEF Sound, Kept, Alike
<1>6. Full(p) BY <1>3 DEF Sound, Full, Alike
<1> QED BY <1>3, <1>5, <1>6 DEF p, Sound

(* The frames that are taken are the first ones: the next is their count.  *)
LEMMA CursorFacts ==
  ASSUME NEW r, \E n \in Nat : r.taken = 0 .. n - 1
  PROVE  Cursor(r) \in Nat /\ r.taken = 0 .. Cursor(r) - 1
<1>1. PICK n \in Nat : r.taken = 0 .. n - 1 OBVIOUS
<1>2. Cardinality(0 .. n - 1) = n BY FS_Interval
<1> QED BY <1>1, <1>2 DEF Cursor

(* The next frame that is taken is leased and keeps its room in the ring.  *)
LEMMA ResumeSound ==
  ASSUME NEW r, Sound(r), ~r.closed, Satisfied(r),
         NEW p, p = IF r.awaits = "frame"
                    THEN [r EXCEPT !.awaits = "nothing", !.buffered = @ \ {Cursor(r)},
                                   !.taken = @ \cup {Cursor(r)}, !.leased = {Cursor(r)}]
                    ELSE [r EXCEPT !.awaits = "nothing"]
  PROVE  Sound(p) /\ Alike(r, p)
<1>1. r \in Runs BY DEF Sound, Kept
<1>2. CASE r.awaits # "frame"
  <2>1. p \in Runs BY <1>1, <1>2 DEF Runs
  <2>2. /\ p.awaits = "nothing" /\ Alike(r, p) /\ p.outstanding = r.outstanding
        /\ p.buffered = r.buffered /\ p.leased = r.leased /\ p.taken = r.taken
    BY <1>1, <1>2 DEF Runs, Alike
  <2>3. Room(p) = Room(r) BY <2>2 DEF Room, Alike
  <2>4. Kept(p) BY <2>1, <2>2, <2>3 DEF Sound, Kept, Alike
  <2>5. Full(p) BY <2>2 DEF Sound, Full, Alike
  <2> QED BY <2>2, <2>4, <2>5 DEF Sound
<1>3. CASE r.awaits = "frame"
  <2> DEFINE i == Cursor(r)
  <2>1. i \in r.buffered BY <1>3 DEF Satisfied
  <2>2. r.leased = {} /\ i \in Frames BY <1>1, <1>3, <2>1 DEF Sound, Kept, Runs
  <2>3. i \in Nat /\ r.taken = 0 .. i - 1 BY CursorFacts DEF Sound, Kept
  <2> HIDE DEF i
  <2>4. p \in Runs BY <1>1, <1>3, <2>2 DEF Runs, i
  <2>5. /\ p.awaits = "nothing" /\ Alike(r, p) /\ p.outstanding = r.outstanding
        /\ p.buffered = r.buffered \ {i} /\ p.leased = {i} /\ p.taken = r.taken \cup {i}
    BY <1>1, <1>3 DEF Runs, Alike, i
  <2>6. i \notin r.taken BY <2>3
  <2>7. Room(p) = Room(r)
    <3>1. p.taken \ p.leased = r.taken \ r.leased BY <2>2, <2>5, <2>6
    <3> QED BY <2>5, <3>1 DEF Room, Alike
  <2>8. \E n \in Nat : p.taken = 0 .. n - 1
    <3>1. (0 .. i - 1) \cup {i} = 0 .. (i + 1) - 1 /\ i + 1 \in Nat BY <2>3
    <3> QED BY <2>3, <2>5, <3>1
  <2>9. /\ p.seen = p.buffered \cup p.taken /\ p.buffered \cap p.taken = {} /\ p.taken \subseteq p.seen
    BY <2>1, <2>5 DEF Sound, Kept, Alike
  <2>10. Kept(p) BY <2>4, <2>5, <2>7, <2>8, <2>9 DEF Sound, Kept, Alike
  <2>11. Full(p) BY <2>5 DEF Sound, Full, Alike
  <2> QED BY <2>5, <2>10, <2>11 DEF Sound
<1> QED BY <1>2, <1>3

(* A frame that is released gives its room back.                           *)
LEMMA ReleasedKept ==
  ASSUME NEW r, Sound(r), ~r.closed, r.leased # {}
  PROVE  /\ Kept([r EXCEPT !.leased = {}, !.outstanding = @ - 1])
         /\ Alike(r, [r EXCEPT !.leased = {}, !.outstanding = @ - 1])
         /\ r.started
<1> DEFINE p == [r EXCEPT !.leased = {}, !.outstanding = @ - 1]
<1>1. r \in Runs /\ IsFiniteSet(Room(r)) /\ Cardinality(Room(r)) \in Nat
      /\ r.outstanding = Cardinality(Room(r)) /\ r.outstanding \in 0 .. Ring /\ Ring \in Nat
  <2>1. r \in Runs /\ r.outstanding = Cardinality(Room(r)) BY DEF Sound, Kept
  <2>2. r.outstanding \in 0 .. Ring /\ Ring \in Nat BY <2>1, LaneAssumption DEF Runs
  <2> QED BY <2>1, <2>2, RoomFacts
<1>2. PICK i \in r.taken : r.leased = {i} BY DEF Sound, Kept
<1>3. i \in Room(r) BY <1>2 DEF Room, Sound, Kept
<1>4. Cardinality(Room(r) \ {i}) = Cardinality(Room(r)) - 1 BY <1>1, <1>3, FS_RemoveElement
<1>5. Cardinality(Room(r) \ {i}) \in Nat BY <1>1, FS_RemoveElement, FS_CardinalityType
<1>6. p \in Runs
  <2>1. r.outstanding - 1 \in 0 .. Ring BY <1>1, <1>4, <1>5
  <2> QED BY <1>1, <2>1 DEF Runs
<1>7. /\ p.awaits = r.awaits /\ Alike(r, p) /\ p.outstanding = r.outstanding - 1
      /\ p.buffered = r.buffered /\ p.leased = {} /\ p.taken = r.taken
  BY <1>1 DEF Runs, Alike
<1>8. r.started
  <2>1. ~r.started => r.taken \subseteq Prefix(0) BY DEF Sound, Kept
  <2> QED BY <1>2, <2>1, PrefixFacts
<1> HIDE DEF p
<1>9. Room(p) = Room(r) \ {i} BY <1>2, <1>7 DEF Room, Alike
<1>10. p.outstanding = Cardinality(Room(p)) /\ Cardinality(Room(p)) <= Ring
  BY <1>1, <1>4, <1>5, <1>7, <1>9
<1>11. Kept(p) BY <1>6, <1>7, <1>10 DEF Sound, Kept, Alike
<1> QED BY <1>7, <1>8, <1>11 DEF p

(* A frame that arrives is buffered.                                       *)
LEMMA FrameSound ==
  ASSUME NEW r, Sound(r), ~r.closed, NEW i \in Prefix(r.next), i \notin r.seen
  PROVE  /\ Sound([r EXCEPT !.seen = @ \cup {i}, !.buffered = @ \cup {i}])
         /\ r.outstanding >= 1 /\ SampleOf(i) <= r.next
<1> DEFINE p == [r EXCEPT !.seen = @ \cup {i}, !.buffered = @ \cup {i}]
<1>1. r \in Runs /\ r.next \in 0 .. Len(Samples) /\ Len(Samples) \in Nat
  BY SampleFacts DEF Sound, Kept, Runs
<1>2. i \in Frames BY <1>1, PrefixFacts
<1>3. p \in Runs BY <1>1, <1>2 DEF Runs
<1>4. /\ p.awaits = r.awaits /\ p.outstanding = r.outstanding /\ p.leased = r.leased
      /\ p.taken = r.taken /\ p.next = r.next /\ p.started = r.started /\ p.batch = r.batch
      /\ p.flushSent = r.flushSent /\ p.closed = r.closed
      /\ p.seen = r.seen \cup {i} /\ p.buffered = r.buffered \cup {i}
  BY <1>1 DEF Runs
<1> HIDE DEF p
<1>5. Room(p) = Room(r) BY <1>4 DEF Room
<1>6. Kept(p) BY <1>3, <1>4, <1>5 DEF Sound, Kept
<1>7. Full(p) BY <1>4 DEF Sound, Full
<1>8. r.outstanding >= 1
  <2>1. i \in Room(r) BY DEF Room, Sound, Kept
  <2>2. IsFiniteSet(Room(r)) /\ Cardinality(Room(r)) \in Nat BY <1>1, RoomFacts
  <2>3. Cardinality(Room(r)) # 0 BY <2>1, <2>2, FS_EmptySet
  <2> QED BY <2>2, <2>3 DEF Sound, Kept
<1>9. SampleOf(i) <= r.next
  <2>1. PICK k \in 1 .. r.next : i \in Samples[k] BY DEF Prefix
  <2>2. k \in 1 .. Len(Samples) BY <1>1
  <2>3. SampleOf(i) = k BY <1>2, <2>1, <2>2, SampleFacts
  <2> QED BY <1>1, <2>1, <2>3
<1> QED BY <1>6, <1>7, <1>8, <1>9 DEF p, Sound

(* A run that the worker has begun asks for nothing by that.               *)
LEMMA StartedKept ==
  ASSUME NEW r, Sound(r), ~r.started
  PROVE  Kept([r EXCEPT !.started = TRUE])
<1> DEFINE p == [r EXCEPT !.started = TRUE]
<1>1. r \in Runs BY DEF Sound, Kept
<1>2. p \in Runs BY <1>1 DEF Runs
<1>3. /\ p.awaits = r.awaits /\ p.outstanding = r.outstanding /\ p.leased = r.leased
      /\ p.taken = r.taken /\ p.next = r.next /\ p.started /\ p.batch = r.batch
      /\ p.flushSent = r.flushSent /\ p.closed = r.closed
      /\ p.seen = r.seen /\ p.buffered = r.buffered
  BY <1>1 DEF Runs
<1> HIDE DEF p
<1>4. Room(p) = Room(r) BY <1>3 DEF Room
<1> QED BY <1>2, <1>3, <1>4 DEF Sound, Kept, p

(* Nor does a run whose batch was accepted.                                *)
LEMMA AcceptedKept ==
  ASSUME NEW r, Sound(r)
  PROVE  Kept([r EXCEPT !.batch = FALSE])
<1> DEFINE p == [r EXCEPT !.batch = FALSE]
<1>1. r \in Runs BY DEF Sound, Kept
<1>2. p \in Runs BY <1>1 DEF Runs
<1>3. /\ p.awaits = r.awaits /\ p.outstanding = r.outstanding /\ p.leased = r.leased
      /\ p.taken = r.taken /\ p.next = r.next /\ p.started = r.started /\ ~p.batch
      /\ p.flushSent = r.flushSent /\ p.closed = r.closed
      /\ p.seen = r.seen /\ p.buffered = r.buffered
  BY <1>1 DEF Runs
<1> HIDE DEF p
<1>4. Room(p) = Room(r) BY <1>3 DEF Room
<1> QED BY <1>2, <1>3, <1>4 DEF Sound, Kept, p

(* Nor does a run that was flushed, which has asked for everything.        *)
LEMMA FlushedSound ==
  ASSUME NEW r, Sound(r)
  PROVE  Sound([r EXCEPT !.flushed = TRUE]) /\ Alike(r, [r EXCEPT !.flushed = TRUE])
<1> DEFINE p == [r EXCEPT !.flushed = TRUE]
<1>1. r \in Runs BY DEF Sound, Kept
<1>2. p \in Runs BY <1>1 DEF Runs
<1>3. /\ p.awaits = r.awaits /\ p.outstanding = r.outstanding /\ p.leased = r.leased
      /\ p.taken = r.taken /\ p.buffered = r.buffered /\ Alike(r, p)
  BY <1>1 DEF Runs, Alike
<1> HIDE DEF p
<1>4. Room(p) = Room(r) BY <1>3 DEF Room, Alike
<1>5. Kept(p) BY <1>2, <1>3, <1>4 DEF Sound, Kept, Alike
<1>6. Full(p) BY <1>3 DEF Sound, Full, Alike
<1> QED BY <1>3, <1>5, <1>6 DEF p, Sound

----------------------------------------------------------------------------
(* The two channels.                                                       *)

Commands ==
  [t : {"configure", "start", "decode", "flush", "close"}, run : Nat, chunks : Seq(Nat)]

Events ==
  [t : {"configured", "started", "accepted", "frame", "flushed", "closed", "error"},
   run : Nat, frame : Nat, why : {"none", "protocol", "unsupported", "decoder"}]

(* The frames on their way to the host.                                    *)
FrameEvents(e) == {k \in 1 .. Len(e) : e[k].t = "frame"}
Arriving(e) == {e[k].frame : k \in FrameEvents(e)}
Distinct(e) == \A j, k \in FrameEvents(e) : j # k => e[j].frame # e[k].frame
Has(e, t) == \E k \in 1 .. Len(e) : e[k].t = t

(* What is left of a channel when its first message is received.           *)
LEMMA TailOf ==
  ASSUME NEW S, NEW e \in Seq(S), e # <<>>
  PROVE  /\ e[1] \in S /\ Head(e) = e[1] /\ Tail(e) \in Seq(S)
         /\ Len(e) \in Nat /\ Len(e) >= 1 /\ Len(Tail(e)) = Len(e) - 1
         /\ \A k \in 1 .. Len(e) - 1 : Tail(e)[k] = e[k + 1]
         /\ Tail(e) = <<>> <=> Len(e) = 1
<1>1. Len(e) \in Nat /\ Len(e) >= 1 BY EmptySeq
<1>2. Tail(e) \in Seq(S) /\ Len(Tail(e)) = Len(e) - 1 BY <1>1
<1>3. Tail(e) = <<>> <=> Len(Tail(e)) = 0 BY <1>2, EmptySeq
<1> QED BY <1>1, <1>2, <1>3

(* A channel that gets one message more.                                   *)
LEMMA AppendTo ==
  ASSUME NEW S, NEW e \in Seq(S), NEW x \in S
  PROVE  /\ e \o <<x>> \in Seq(S) /\ Len(e) \in Nat /\ Len(e \o <<x>>) = Len(e) + 1
         /\ \A k \in 1 .. Len(e) : (e \o <<x>>)[k] = e[k]
         /\ (e \o <<x>>)[Len(e) + 1] = x
         /\ e \o <<x>> # <<>>
<1>1. Len(e) \in Nat OBVIOUS
<1>2. e \o <<x>> \in Seq(S) /\ Len(e \o <<x>>) = Len(e) + 1 OBVIOUS
<1>3. e \o <<x>> # <<>>
  <2>1. Len(<<>>) = 0 OBVIOUS
  <2> QED BY <1>1, <1>2, <2>1
<1> QED BY <1>1, <1>2, <1>3

(* A channel that gets none.                                               *)
LEMMA AppendNothing == ASSUME NEW S, NEW e \in Seq(S) PROVE e \o <<>> = e
OBVIOUS

(* What arrives once the first event is received.                          *)
LEMMA ReceivedFrames ==
  ASSUME NEW e \in Seq(Events), e # <<>>
  PROVE  /\ Distinct(e) => Distinct(Tail(e))
         /\ Arriving(Tail(e)) \subseteq Arriving(e)
         /\ e[1].t = "frame" =>
              /\ Arriving(e) = Arriving(Tail(e)) \cup {e[1].frame}
              /\ Distinct(e) => e[1].frame \notin Arriving(Tail(e))
         /\ e[1].t # "frame" => Arriving(e) = Arriving(Tail(e))
         /\ e[1].t # "accepted" => (Has(Tail(e), "accepted") <=> Has(e, "accepted"))
<1> DEFINE t == Tail(e)
<1>1. /\ Len(e) \in Nat /\ Len(e) >= 1 /\ Len(t) = Len(e) - 1
      /\ \A k \in 1 .. Len(e) - 1 : t[k] = e[k + 1]
  BY TailOf
<1> HIDE DEF t
<1>2. \A k \in 1 .. Len(t) : k + 1 \in 1 .. Len(e) /\ k + 1 # 1 /\ t[k] = e[k + 1] BY <1>1
<1>3. \A k \in 1 .. Len(e) : k = 1 \/ (k - 1 \in 1 .. Len(t) /\ t[k - 1] = e[k]) BY <1>1
<1>4. \A k \in FrameEvents(t) : k + 1 \in FrameEvents(e) /\ k + 1 # 1 /\ t[k] = e[k + 1]
  BY <1>2 DEF FrameEvents
<1>5. \A k \in FrameEvents(e) : k = 1 \/ (k - 1 \in FrameEvents(t) /\ t[k - 1] = e[k])
  BY <1>3 DEF FrameEvents
<1>6. Distinct(e) => Distinct(t)
  <2>1. \A j, k \in FrameEvents(t) : j # k => j + 1 # k + 1 BY <1>1 DEF FrameEvents
  <2> QED BY <1>4, <2>1 DEF Distinct
<1>7. Arriving(t) \subseteq Arriving(e) BY <1>4 DEF Arriving
<1>8. 1 \in FrameEvents(e) <=> e[1].t = "frame" BY <1>1 DEF FrameEvents
<1>9. e[1].t = "frame" => Arriving(e) = Arriving(t) \cup {e[1].frame}
  <2>1. Arriving(e) \subseteq Arriving(t) \cup {e[1].frame} BY <1>5 DEF Arriving
  <2>2. e[1].t = "frame" => e[1].frame \in Arriving(e) BY <1>8 DEF Arriving
  <2> QED BY <1>7, <2>1, <2>2
<1>10. e[1].t = "frame" /\ Distinct(e) => e[1].frame \notin Arriving(t)
  BY <1>4, <1>8 DEF Arriving, Distinct
<1>11. e[1].t # "frame" => Arriving(e) = Arriving(t)
  <2>1. e[1].t # "frame" => Arriving(e) \subseteq Arriving(t) BY <1>5, <1>8 DEF Arriving
  <2> QED BY <1>7, <2>1
<1>12. e[1].t # "accepted" => (Has(t, "accepted") <=> Has(e, "accepted"))
  <2>1. Has(t, "accepted") => Has(e, "accepted") BY <1>2 DEF Has
  <2>2. e[1].t # "accepted" /\ Has(e, "accepted") => Has(t, "accepted") BY <1>3 DEF Has
  <2> QED BY <2>1, <2>2
<1> QED BY <1>6, <1>7, <1>9, <1>10, <1>11, <1>12 DEF t

(* What arrives once one more event is posted.                             *)
LEMMA PostedFrames ==
  ASSUME NEW e \in Seq(Events), NEW x \in Events
  PROVE  /\ x.t # "frame" => /\ Arriving(e \o <<x>>) = Arriving(e)
                             /\ Distinct(e) => Distinct(e \o <<x>>)
         /\ x.t = "frame" =>
              /\ Arriving(e \o <<x>>) = Arriving(e) \cup {x.frame}
              /\ Distinct(e) /\ x.frame \notin Arriving(e) => Distinct(e \o <<x>>)
         /\ Has(e \o <<x>>, "accepted") <=> Has(e, "accepted") \/ x.t = "accepted"
<1> DEFINE t == e \o <<x>>
           n == Len(e) + 1
<1>1. /\ Len(e) \in Nat /\ Len(t) = n /\ n \in Nat
      /\ \A k \in 1 .. Len(e) : t[k] = e[k] /\ k # n
      /\ t[n] = x /\ n \in 1 .. n /\ 1 .. n = (1 .. Len(e)) \cup {n}
  BY AppendTo
<1> HIDE DEF t, n
<1>2. FrameEvents(t) = FrameEvents(e) \cup (IF x.t = "frame" THEN {n} ELSE {})
  BY <1>1 DEF FrameEvents
<1>3. \A k \in FrameEvents(e) : t[k] = e[k] /\ k # n BY <1>1 DEF FrameEvents
<1>4. x.t # "frame" => Arriving(t) = Arriving(e) /\ (Distinct(e) => Distinct(t))
  BY <1>2, <1>3 DEF Arriving, Distinct
<1>5. x.t = "frame" => Arriving(t) = Arriving(e) \cup {x.frame}
  BY <1>1, <1>2, <1>3 DEF Arriving
<1>6. x.t = "frame" /\ Distinct(e) /\ x.frame \notin Arriving(e) => Distinct(t)
  BY <1>1, <1>2, <1>3 DEF Arriving, Distinct
<1>7. Has(t, "accepted") <=> Has(e, "accepted") \/ x.t = "accepted" BY <1>1 DEF Has
<1> QED BY <1>4, <1>5, <1>6, <1>7 DEF t

(* Events that show different frames are as many as their frames.          *)
LEMMA ArrivingCount ==
  ASSUME NEW e \in Seq(Events), Distinct(e)
  PROVE  /\ Cardinality({k \in DOMAIN e : e[k].t = "frame"}) = Cardinality(Arriving(e))
         /\ IsFiniteSet(Arriving(e)) /\ Cardinality(Arriving(e)) \in Nat
<1> DEFINE F == FrameEvents(e)
           f == [k \in F |-> e[k].frame]
<1>1. {k \in DOMAIN e : e[k].t = "frame"} = F BY DEF FrameEvents
<1>2. IsFiniteSet(F)
  <2>1. F \in SUBSET (1 .. Len(e)) /\ Len(e) \in Nat BY DEF FrameEvents
  <2>2. IsFiniteSet(1 .. Len(e)) BY <2>1, FS_Interval
  <2> HIDE DEF F
  <2> QED BY <2>1, <2>2, FS_Subset
<1>3. f \in Bijection(F, Arriving(e))
  <2>1. f \in [F -> Arriving(e)] BY DEF Arriving
  <2>2. \A y \in Arriving(e) : \E k \in F : f[k] = y BY DEF Arriving
  <2>3. \A j, k \in F : f[j] = f[k] => j = k BY DEF Distinct
  <2>4. DOMAIN f = F OBVIOUS
  <2> HIDE DEF F, f
  <2> QED BY <2>1, <2>2, <2>3, <2>4 DEF Bijection, Injection, Surjection, IsInjective
<1> HIDE DEF F, f
<1>4. IsFiniteSet(Arriving(e)) /\ Cardinality(F) = Cardinality(Arriving(e))
  <2>1. ExistsBijection(F, Arriving(e)) BY <1>3 DEF ExistsBijection
  <2> QED BY <1>2, <2>1, FS_Bijection
<1>5. Cardinality(Arriving(e)) \in Nat BY <1>4, FS_CardinalityType
<1> QED BY <1>1, <1>4, <1>5

----------------------------------------------------------------------------
(* The inductive invariant: a lane is in one of six situations.            *)

Hosts ==
  [configured : BOOLEAN, gen : Nat, run : Runs,
   phase : {"idle", "running", "retained", "closing", "terminal"},
   fault : {"none", "protocol", "unsupported", "decoder", "disposed", "timeout",
            "transport", "output"}]

Workers ==
  [run : Nat, pending : Seq(Nat), queue : Seq(Nat), held : SUBSET Frames, given : Nat,
   phase : {"unconfigured", "configuring", "idle", "ready", "accepting", "flushing",
            "closing", "terminal"}]

Typed(h, w, c, e) ==
  h \in Hosts /\ w \in Workers /\ c \in Seq(Commands) /\ e \in Seq(Events)

(* The support check of the browser is still out.                          *)
Setup(h, w, c, e) ==
  /\ ~h.configured /\ h.phase = "idle" /\ h.gen = 0 /\ w.run = 0
  /\ \/ w.phase = "unconfigured" /\ Len(c) = 1 /\ c[1].t = "configure" /\ e = <<>>
     \/ w.phase = "configuring" /\ c = <<>> /\ e = <<>>
     \/ w.phase = "idle" /\ c = <<>> /\ Len(e) = 1 /\ e[1].t = "configured"
     \/ w.phase = "terminal" /\ c = <<>> /\ Len(e) = 1 /\ e[1].t = "error"
        /\ e[1].why # "protocol"

(* The lane is offered for a run: at most a late close is on its way.      *)
Quiet(h, w, c, e) ==
  /\ h.configured /\ h.phase = "idle" /\ w.phase = "idle" /\ w.run = h.gen /\ e = <<>>
  /\ c = <<>> \/ (Len(c) = 1 /\ c[1].t = "close" /\ c[1].run = h.gen)

(* The worker has not heard yet of the run, closed again or not.           *)
Starting(h, w, c, e) ==
  /\ h.configured /\ h.phase \in {"running", "closing"} /\ h.gen = w.run + 1
  /\ w.phase = "idle" /\ e = <<>> /\ ~h.run.started
  /\ \E i \in {1, 2} :
       /\ Len(c) = i + IF h.phase = "closing" THEN 1 ELSE 0
       /\ c[i].t = "start" /\ c[i].run = h.gen
       /\ i = 2 => c[1].t = "close" /\ c[1].run = w.run
       /\ h.phase = "closing" => c[i + 1].t = "close" /\ c[i + 1].run = h.gen

(* What is on its way to the host are answers that the run waits for.      *)
Answers(h, w, e) ==
  /\ \A k \in 1 .. Len(e) :
       /\ e[k].t # "configured"
       /\ e[k].t # "error" => e[k].run = h.gen
       /\ e[k].t = "error" => k = Len(e) /\ w.phase = "terminal" /\ e[k].why # "protocol"
       /\ Ends(e[k]) => k = Len(e) /\ w.phase = "idle"
       /\ e[k].t = "closed" => h.phase = "closing"
       /\ e[k].t = "started" => k = 1 /\ (h.phase = "running" => ~h.run.started)
       /\ e[k].t = "accepted" /\ h.phase = "running" =>
            h.run.batch /\ \A j \in 1 .. Len(e) : e[j].t = "accepted" => j = k
  /\ w.phase = "terminal" => e # <<>> /\ e[Len(e)].t = "error"
  /\ w.phase = "idle" => e # <<>> /\ Ends(e[Len(e)])
  /\ h.phase = "running" /\ ~h.run.started => e # <<>> /\ e[1].t = "started"

(* Every frame that the decoder gave out is seen or arrives, once.         *)
Flow(h, w, e) ==
  /\ Distinct(e) /\ Arriving(e) \cap h.run.seen = {}
  /\ Arriving(e) \cup h.run.seen \subseteq 0 .. w.given - 1
  /\ 0 .. w.given - 1 \subseteq Prefix(h.run.next)
  /\ h.phase = "running" => Arriving(e) \cup h.run.seen = 0 .. w.given - 1
  /\ h.phase = "running" /\ w.phase = "idle" => 0 .. w.given - 1 = Frames

(* The worker is ready for the command that is on its way.                 *)
Orders(h, w, c, e) ==
  /\ \A k \in 1 .. Len(c) :
       /\ c[k].run = h.gen
       /\ \/ c[k].t = "close" /\ k = Len(c) /\ h.phase = "closing"
          \/ c[k].t \in {"decode", "flush"} /\ k = 1 /\ w.phase = "ready"
             /\ (k = Len(c) => h.phase = "running")
  /\ w.phase = "closing" => h.phase = "closing" /\ c = <<>>
  /\ w.phase # "unconfigured" /\ w.phase # "configuring"
  /\ h.phase = "running" =>
       /\ w.phase = "ready" /\ c = <<>> =>
            (h.run.batch <=> Has(e, "accepted")) /\ ~h.run.flushSent
       /\ w.phase = "accepting" \/ (c # <<>> /\ c[1].t = "decode") =>
            h.run.batch /\ ~Has(e, "accepted")
       /\ w.phase \in {"flushing", "idle"} \/ (c # <<>> /\ c[1].t = "flush") =>
            h.run.flushSent /\ ~Has(e, "accepted")

(* The samples that were asked for and are not decoded are, in order, in   *)
(* the decoder's queue, in the worker's list and on their way.             *)
Consecutive(s, from) == \A k \in 1 .. Len(s) : s[k] = from + k

OnTheWay(c) == IF c # <<>> /\ c[1].t = "decode" THEN c[1].chunks ELSE <<>>
Read(h, c) == h.run.next - Len(OnTheWay(c))
Offered(h, w, c) == Read(h, c) - Len(w.pending)
Decoded(h, w, c) == Offered(h, w, c) - Len(w.queue)

Feeding(h, w, c) ==
  /\ Decoded(h, w, c) >= 0 /\ Len(w.queue) <= Ring
  /\ Consecutive(OnTheWay(c), Read(h, c))
  /\ Consecutive(w.pending, Offered(h, w, c))
  /\ Consecutive(w.queue, Decoded(h, w, c))
  /\ 0 .. w.given - 1 \subseteq Prefix(Decoded(h, w, c))
  /\ w.held = Prefix(Decoded(h, w, c)) \ (0 .. w.given - 1)
  /\ w.phase \in {"ready", "flushing"} => w.pending = <<>>

(* The worker has begun the run.                                           *)
Active(h, w, c, e) ==
  /\ h.configured /\ h.phase \in {"running", "closing"} /\ h.gen = w.run
  /\ Answers(h, w, e) /\ Flow(h, w, e)
  /\ w.phase # "terminal" => Orders(h, w, c, e)
  /\ Owns(w) => Feeding(h, w, c)

(* The worker is done with the run, its frames may still be taken.         *)
Parked(h, w, c, e) ==
  /\ h.configured /\ h.phase = "retained" /\ w.phase = "idle" /\ w.run = h.gen
  /\ h.run.flushSent /\ e = <<>> /\ c = <<>>

Ended(h, w, c, e) ==
  /\ h.phase = "terminal" /\ w.phase = "terminal"
  /\ Distinct(e) /\ Cardinality(Arriving(e)) <= Ring

Stands(h, w, c, e) ==
  \/ Setup(h, w, c, e) \/ Quiet(h, w, c, e) \/ Starting(h, w, c, e) \/ Active(h, w, c, e)
  \/ Parked(h, w, c, e) \/ Ended(h, w, c, e)

Whole(h, w, c, e) ==
  /\ Typed(h, w, c, e) /\ Sound(h.run) /\ h.fault # "protocol"
  /\ h.phase \in {"running", "retained"} <=> ~h.run.closed
  /\ Stands(h, w, c, e)

Inv == Whole(host, worker, toWorker, toHost)

----------------------------------------------------------------------------
(* Steps of the host that keep the situation, and steps that end it.       *)

(* The frames on their way fit the room of the run.                        *)
LEMMA ArrivingFits ==
  ASSUME NEW h, NEW w, NEW c, NEW e, Whole(h, w, c, e), h.phase # "terminal"
  PROVE  Distinct(e) /\ Cardinality(Arriving(e)) <= Ring
<1>1. e \in Seq(Events) /\ h.run \in Runs /\ Sound(h.run)
  BY DEF Whole, Typed, Sound, Kept
<1>2. CASE Active(h, w, c, e)
  <2>1. Distinct(e) /\ Arriving(e) \cap h.run.seen = {} /\ Arriving(e) \subseteq Prefix(h.run.next)
    BY <1>2 DEF Active, Flow
  <2>2. h.run.taken \subseteq h.run.seen BY <1>1 DEF Sound, Kept
  <2>3. Arriving(e) \subseteq Room(h.run) BY <2>1, <2>2 DEF Room
  <2>4. IsFiniteSet(Room(h.run)) /\ Cardinality(Room(h.run)) \in Nat BY <1>1, RoomFacts
  <2>5. Cardinality(Arriving(e)) <= Cardinality(Room(h.run)) BY <2>3, <2>4, FS_Subset
  <2>6. Cardinality(Arriving(e)) \in Nat BY <1>1, <2>1, ArrivingCount
  <2>7. Cardinality(Room(h.run)) <= Ring /\ Ring \in Nat BY <1>1, LaneAssumption DEF Sound, Kept
  <2> QED BY <2>1, <2>4, <2>5, <2>6, <2>7
<1>3. CASE ~Active(h, w, c, e)
  <2>1. e = <<>> \/ (Len(e) = 1 /\ e[1].t # "frame")
    BY <1>3 DEF Whole, Stands, Setup, Quiet, Starting, Parked, Ended
  <2>2. FrameEvents(e) = {} BY <1>1, <2>1 DEF FrameEvents
  <2>3. Arriving(e) = {} /\ Distinct(e) BY <2>2 DEF Arriving, Distinct
  <2>4. Cardinality(Arriving(e)) <= Ring BY <2>3, FS_EmptySet, LaneAssumption
  <2> QED BY <2>3, <2>4
<1> QED BY <1>2, <1>3

(* What is left of the frames on their way still fits the ring.            *)
LEMMA TailFits ==
  ASSUME NEW e \in Seq(Events), e # <<>>, Distinct(e), Cardinality(Arriving(e)) <= Ring
  PROVE  Distinct(Tail(e)) /\ Cardinality(Arriving(Tail(e))) <= Ring
<1>1. Distinct(Tail(e)) /\ Arriving(Tail(e)) \subseteq Arriving(e) BY ReceivedFrames
<1>2. IsFiniteSet(Arriving(e)) /\ Cardinality(Arriving(e)) \in Nat BY ArrivingCount
<1>3. Cardinality(Arriving(Tail(e))) <= Cardinality(Arriving(e)) BY <1>1, <1>2, FS_Subset
<1>4. Tail(e) \in Seq(Events) BY TailOf
<1>5. Cardinality(Arriving(Tail(e))) \in Nat BY <1>1, <1>4, ArrivingCount
<1>6. Ring \in Nat BY LaneAssumption
<1> QED BY <1>1, <1>2, <1>3, <1>5, <1>6

(* A lane that fails ends, whatever is on its way.                         *)
LEMMA FailingStep ==
  ASSUME Inv, Live,
         NEW why \in {"unsupported", "decoder", "disposed", "timeout", "transport", "output", "none"},
         HostGoes(Failed(host, why), <<>>),
         toHost' = toHost \/ (toHost # <<>> /\ toHost' = Tail(toHost))
  PROVE  Inv'
<1>1. /\ host \in Hosts /\ worker \in Workers /\ toWorker \in Seq(Commands)
      /\ toHost \in Seq(Events) /\ Sound(host.run)
  BY DEF Inv, Whole, Typed
<1>2. Distinct(toHost) /\ Cardinality(Arriving(toHost)) <= Ring
  BY ArrivingFits DEF Inv, Live
<1>3. toHost' \in Seq(Events) BY <1>1, TailOf
<1>4. Distinct(toHost') /\ Cardinality(Arriving(toHost')) <= Ring
  BY <1>1, <1>2, TailFits
<1>5. Sound(Closed(host.run)) /\ Closed(host.run) \in Runs /\ Closed(host.run).closed
  <2>1. Sound(Closed(host.run)) BY <1>1, ClosedSound DEF Sound
  <2>2. Closed(host.run) \in Runs BY <2>1 DEF Sound, Kept
  <2>3. Closed(host.run).closed BY <1>1 DEF Closed, Hosts, Runs
  <2> QED BY <2>1, <2>2, <2>3
<1>6. /\ host' = [host EXCEPT !.fault = why, !.phase = "terminal", !.run = Closed(host.run)]
      /\ worker' = [worker EXCEPT !.phase = "terminal"] /\ toWorker' = <<>>
  <2>1. host' = [host EXCEPT !.fault = why, !.phase = "terminal", !.run = Closed(host.run)]
    BY DEF HostGoes, Failed
  <2>2. Failed(host, why).phase = "terminal" BY <1>1 DEF Failed, Hosts
  <2> QED BY <2>1, <2>2 DEF HostGoes
<1>7. host' \in Hosts BY <1>1, <1>5, <1>6 DEF Hosts
<1>8. worker' \in Workers /\ toWorker' \in Seq(Commands)
  <2>1. worker' \in Workers BY <1>1, <1>6 DEF Workers
  <2>2. <<>> \in Seq(Commands) OBVIOUS
  <2> QED BY <1>6, <2>1, <2>2
<1>9. /\ host'.fault # "protocol" /\ host'.phase = "terminal" /\ worker'.phase = "terminal"
      /\ host'.run = Closed(host.run)
  BY <1>1, <1>6 DEF Hosts, Workers
<1>10. Ended(host', worker', toWorker', toHost') BY <1>4, <1>9 DEF Ended
<1>11. Typed(host', worker', toWorker', toHost') BY <1>3, <1>7, <1>8 DEF Typed
<1> QED BY <1>5, <1>9, <1>10, <1>11 DEF Inv, Whole, Stands

(* What only the run's owner does keeps the situation of an open run.      *)
LEMMA Steady ==
  ASSUME NEW h, NEW w, NEW c, NEW e, Whole(h, w, c, e), h.phase \in {"running", "retained"},
         NEW p, Sound(p), Alike(h.run, p)
  PROVE  Whole([h EXCEPT !.run = p], w, c, e)
<1> DEFINE n == [h EXCEPT !.run = p]
<1>1. h \in Hosts /\ p \in Runs BY DEF Whole, Typed, Sound, Kept
<1>2. /\ n \in Hosts /\ n.run = p /\ n.phase = h.phase /\ n.configured = h.configured
      /\ n.gen = h.gen /\ n.fault = h.fault
  BY <1>1 DEF Hosts
<1> HIDE DEF n
<1>3. CASE Starting(h, w, c, e)
  <2>1. Starting(n, w, c, e) BY <1>2, <1>3 DEF Starting, Alike
  <2> QED BY <1>2, <2>1 DEF Whole, Typed, Stands, Alike, n
<1>4. CASE Active(h, w, c, e)
  <2>1. Answers(n, w, e) BY <1>2, <1>4 DEF Active, Answers, Alike
  <2>2. Flow(n, w, e) BY <1>2, <1>4 DEF Active, Flow, Alike
  <2>3. w.phase # "terminal" => Orders(n, w, c, e) BY <1>2, <1>4 DEF Active, Orders, Alike
  <2>4. Owns(w) => Feeding(n, w, c)
    BY <1>2, <1>4 DEF Active, Feeding, Read, Offered, Decoded, Alike
  <2>5. Active(n, w, c, e) BY <1>2, <1>4, <2>1, <2>2, <2>3, <2>4 DEF Active
  <2> QED BY <1>2, <2>5 DEF Whole, Typed, Stands, Alike, n
<1>5. CASE Parked(h, w, c, e)
  <2>1. Parked(n, w, c, e) BY <1>2, <1>5 DEF Parked, Alike
  <2> QED BY <1>2, <2>1 DEF Whole, Typed, Stands, Alike, n
<1> QED BY <1>3, <1>4, <1>5 DEF Whole, Stands, Setup, Quiet, Ended

(* ready(), take() and complete() begin to wait.                           *)
LEMMA AwaitStep == ASSUME Inv, NEW what \in {"ready", "frame", "complete"}, Await(what) PROVE Inv'
<1>1. /\ host \in Hosts /\ toWorker \in Seq(Commands) /\ Sound(host.run) /\ ~host.run.closed
      /\ host.phase \in {"running", "retained"}
  BY DEF Inv, Whole, Typed, Await, Open
<1>2. /\ host.run.leased = {} /\ (what = "ready" => host.run.taken = {})
      /\ (what = "complete" => host.run.taken = Frames)
  BY DEF Await
<1> DEFINE p == [host.run EXCEPT !.awaits = what]
           n == [host EXCEPT !.run = p]
<1>3. Sound(p) /\ Alike(host.run, p) BY <1>1, <1>2, AwaitSound
<1>4. n = [host EXCEPT !.run.awaits = what] BY <1>1 DEF Hosts
<1>5. n.phase = host.phase BY <1>1 DEF Hosts
<1>6. host' = n /\ worker' = worker /\ toWorker' = toWorker /\ toHost' = toHost
  <2>1. HostGoes(n, <<>>) /\ toHost' = toHost BY <1>4 DEF Await
  <2> HIDE DEF n
  <2> QED BY <1>1, <1>5, <2>1, AppendNothing DEF HostGoes
<1> HIDE DEF p
<1>7. Whole(n, worker, toWorker, toHost) BY <1>1, <1>3, Steady DEF Inv
<1> QED BY <1>6, <1>7 DEF Inv

(* They settle.                                                            *)
LEMMA ResumeStep == ASSUME Inv, Resume PROVE Inv'
<1>1. /\ host \in Hosts /\ toWorker \in Seq(Commands) /\ Sound(host.run) /\ ~host.run.closed
      /\ host.phase \in {"running", "retained"} /\ Satisfied(host.run)
  BY DEF Inv, Whole, Typed, Resume, Open
<1> DEFINE i == Cursor(host.run)
           p == IF host.run.awaits = "frame"
                THEN [host.run EXCEPT !.awaits = "nothing", !.buffered = @ \ {i},
                                      !.taken = @ \cup {i}, !.leased = {i}]
                ELSE [host.run EXCEPT !.awaits = "nothing"]
           n == [host EXCEPT !.run = p]
<1>2. Sound(p) /\ Alike(host.run, p) BY <1>1, ResumeSound
<1>3. n.phase = host.phase BY <1>1 DEF Hosts
<1>4. host' = n /\ worker' = worker /\ toWorker' = toWorker /\ toHost' = toHost
  <2>1. HostGoes(n, <<>>) /\ toHost' = toHost BY DEF Resume
  <2> HIDE DEF n
  <2> QED BY <1>1, <1>3, <2>1, AppendNothing DEF HostGoes
<1> HIDE DEF p
<1>5. Whole(n, worker, toWorker, toHost) BY <1>1, <1>2, Steady DEF Inv
<1> QED BY <1>4, <1>5 DEF Inv

----------------------------------------------------------------------------
(* The pump: it posts a batch, or the flush, when the worker is ready.     *)

(* What the pump has to do finds the worker ready and nothing on its way.  *)
LEMMA PumpFinds ==
  ASSUME NEW h, NEW w, NEW c, NEW e, Typed(h, w, c, e), Active(h, w, c, e), h.phase = "running",
         ~h.run.batch, ~h.run.flushSent
  PROVE  /\ ~Has(e, "accepted")
         /\ w.phase # "terminal" => w.phase = "ready" /\ c = <<>>
<1>1. ~Has(e, "accepted") BY DEF Active, Answers, Has
<1>2. ASSUME w.phase # "terminal" PROVE w.phase = "ready" /\ c = <<>>
  <2>1. Orders(h, w, c, e) BY <1>2 DEF Active
  <2>2. w.phase = "ready" BY <1>2, <2>1 DEF Orders, Typed, Workers
  <2>3. ASSUME c # <<>> PROVE FALSE
    <3>1. 1 \in 1 .. Len(c) BY <2>3, TailOf DEF Typed
    <3>2. c[1].t \in {"decode", "flush"} BY <2>1, <3>1 DEF Orders
    <3> QED BY <2>1, <2>3, <3>2 DEF Orders
  <2> QED BY <2>2, <2>3
<1> QED BY <1>1, <1>2

(* The pump of an open run posts a batch, the flush or nothing.            *)
LEMMA PumpStep ==
  ASSUME NEW h, NEW w, NEW c, NEW e, Typed(h, w, c, e), Active(h, w, c, e), h.phase = "running",
         Kept(h.run), ~h.run.closed, h.run.started, h.fault # "protocol"
  PROVE  Whole([h EXCEPT !.run = Pumped(h.run)], w,
               c \o Posts(h.gen, h.run, Pumped(h.run)), e)
<1> DEFINE r == h.run
           p == Pumped(r)
           n == [h EXCEPT !.run = p]
           c2 == c \o Posts(h.gen, r, p)
<1>1. h \in Hosts /\ w \in Workers /\ c \in Seq(Commands) /\ e \in Seq(Events) /\ r \in Runs
  BY DEF Typed, Kept
<1>2. Sound(p) /\ p \in Runs
  <2>1. Sound(p) BY PumpedSound
  <2> QED BY <2>1 DEF Sound, Kept
<1>3. /\ n \in Hosts /\ n.run = p /\ n.phase = h.phase /\ n.configured = h.configured
      /\ n.gen = h.gen /\ n.fault = h.fault
  <2> HIDE DEF p
  <2> QED BY <1>1, <1>2 DEF Hosts
<1>4. h.gen \in Nat /\ r.next \in Nat BY <1>1, SampleFacts DEF Hosts, Runs
<1>5. SUFFICES /\ c2 \in Seq(Commands) /\ ~p.closed
               /\ Active(n, w, c2, e)
  <2> HIDE DEF p, n, c2
  <2>1. Whole(n, w, c2, e) BY <1>1, <1>2, <1>3, <1>5 DEF Whole, Typed, Stands
  <2> QED BY <2>1 DEF p, n, c2
<1>6. CASE p = r
  <2>1. Posts(h.gen, r, r) = <<>> BY <1>4 DEF Posts
  <2>2. c2 = c BY <1>1, <1>6, <2>1, AppendNothing
  <2>3. n = h BY <1>1, <1>6 DEF Hosts
  <2> HIDE DEF p, n, c2
  <2> QED BY <1>1, <1>6, <2>2, <2>3
<1>7. ASSUME ~r.batch, ~r.flushSent,
             p.seen = r.seen, p.started, ~p.closed,
             p.next \in Nat, p.next >= r.next, p.next <= Len(Samples),
             \/ p.next = r.next /\ ~p.batch /\ p.flushSent
             \/ p.next > r.next /\ p.batch /\ ~p.flushSent
      PROVE  c2 \in Seq(Commands) /\ ~p.closed /\ Active(n, w, c2, e)
  <2> HIDE DEF n, p
  <2>1. /\ ~Has(e, "accepted")
        /\ w.phase # "terminal" => w.phase = "ready" /\ c = <<>>
    BY <1>7, PumpFinds
  <2> DEFINE x == IF p.next > r.next
                  THEN [t |-> "decode", run |-> h.gen,
                        chunks |-> [k \in 1 .. p.next - r.next |-> r.next + k]]
                  ELSE Command("flush", h.gen)
  <2>2. Posts(h.gen, r, p) = <<x>> BY <1>4, <1>7 DEF Posts
  <2>3. /\ x \in Commands /\ x.run = h.gen
        /\ p.next > r.next => /\ x.t = "decode" /\ Len(x.chunks) = p.next - r.next
                              /\ Consecutive(x.chunks, r.next)
        /\ p.next = r.next => x.t = "flush"
    <3>1. CASE p.next > r.next
      <4> DEFINE s == [k \in 1 .. p.next - r.next |-> r.next + k]
      <4>1. p.next - r.next \in Nat BY <1>4, <1>7, <3>1
      <4>2. s \in Seq(Nat) /\ Len(s) = p.next - r.next BY <1>4, <4>1
      <4>3. \A k \in 1 .. Len(s) : s[k] = r.next + k BY <4>1, <4>2
      <4> HIDE DEF s
      <4>4. x = [t |-> "decode", run |-> h.gen, chunks |-> s] BY <3>1 DEF s
      <4> HIDE DEF x
      <4> QED BY <1>4, <3>1, <4>2, <4>3, <4>4 DEF Commands, Consecutive
    <3>2. CASE p.next = r.next
      <4>1. x = Command("flush", h.gen) BY <1>4, <3>2
      <4> QED BY <1>4, <3>2, <4>1 DEF Command, Commands
    <3> QED BY <1>4, <1>7, <3>1, <3>2
  <2> HIDE DEF x
  <2>4. c2 = c \o <<x>> BY <2>2
  <2>5. c2 \in Seq(Commands) BY <1>1, <2>3, <2>4, AppendTo
  <2>6. w.phase # "terminal" => c2 = <<x>>
    <3>1. <<>> \o <<x>> = <<x>> OBVIOUS
    <3> QED BY <2>1, <2>4, <3>1
  <2> HIDE DEF c2
  <2>7. Answers(n, w, e) BY <1>3, <1>7, <2>1 DEF Active, Answers, Has
  <2>8. Flow(n, w, e)
    <3>1. Prefix(r.next) \subseteq Prefix(p.next)
      <4>1. r.next \in 0 .. Len(Samples) /\ p.next \in 0 .. Len(Samples)
        BY <1>4, <1>7, SampleFacts
      <4> QED BY <1>7, <4>1, PrefixFacts
    <3>2. Flow(h, w, e) BY DEF Active
    <3> QED BY <1>3, <1>7, <3>1, <3>2 DEF Flow
  <2>9. w.phase # "terminal" => Orders(n, w, c2, e)
    BY <1>3, <1>4, <1>7, <2>1, <2>3, <2>6 DEF Orders
  <2>10. Owns(w) => Feeding(n, w, c2)
    <3>1. SUFFICES ASSUME Owns(w) PROVE Feeding(n, w, c2) OBVIOUS
    <3>2. Feeding(h, w, c) /\ w.phase # "terminal" BY <3>1 DEF Active, Owns
    <3>3. Read(h, c) = r.next
      <4>1. Len(<<>>) = 0 /\ OnTheWay(c) = <<>> BY <2>1, <3>2 DEF OnTheWay
      <4> QED BY <1>4, <4>1 DEF Read
    <3>4. Read(n, c2) = r.next /\ Consecutive(OnTheWay(c2), r.next)
      <4>1. c2 # <<>> /\ c2[1] = x BY <2>6, <3>2
      <4>2. CASE p.next > r.next
        <5>1. OnTheWay(c2) = x.chunks BY <2>3, <4>1, <4>2 DEF OnTheWay
        <5> QED BY <1>3, <1>4, <1>7, <2>3, <4>2, <5>1 DEF Read
      <4>3. CASE p.next = r.next
        <5>1. OnTheWay(c2) = <<>> BY <2>3, <4>1, <4>3 DEF OnTheWay
        <5>2. Len(<<>>) = 0 OBVIOUS
        <5> QED BY <1>3, <1>4, <4>3, <5>1, <5>2 DEF Read, Consecutive
      <4> QED BY <1>4, <1>7, <4>2, <4>3
    <3> QED BY <3>2, <3>3, <3>4 DEF Feeding, Offered, Decoded
  <2>11. Active(n, w, c2, e) BY <1>3, <2>7, <2>8, <2>9, <2>10 DEF Active
  <2> QED BY <1>7, <2>5, <2>11
<1>8. CASE ~(p = r)
  <2>1. ~r.batch /\ ~r.flushSent BY <1>1, <1>8, PumpedCases
  <2>2. /\ p.seen = r.seen /\ p.started /\ ~p.closed
        /\ p.next \in Nat /\ p.next >= r.next /\ p.next <= Len(Samples)
    <3>1. r.next <= Len(Samples) /\ Len(Samples) \in Nat BY <1>1, SampleFacts DEF Runs
    <3>2. BatchEnd(r) \in r.next .. Len(Samples) BY <1>1, BatchEndFits
    <3>3. /\ p.seen = r.seen /\ p.started = r.started /\ p.closed = r.closed
          /\ p.next = r.next \/ p.next = BatchEnd(r)
      BY <1>1, PumpedCases DEF Runs
    <3> HIDE DEF p
    <3> QED BY <1>4, <3>1, <3>2, <3>3
  <2>3. \/ p.next = r.next /\ ~p.batch /\ p.flushSent
        \/ p.next > r.next /\ p.batch /\ ~p.flushSent
    <3>1. CASE p = [r EXCEPT !.flushSent = r.next = Len(Samples)]
      <4>1. ASSUME r.next # Len(Samples) PROVE FALSE
        <5>1. (r.next = Len(Samples)) = FALSE BY <4>1
        <5>2. p = [r EXCEPT !.flushSent = FALSE]
          <6> HIDE DEF p, r
          <6> QED BY <3>1, <5>1
        <5>3. p = r BY <1>1, <2>1, <5>2 DEF Runs
        <5> QED BY <1>8, <5>3
      <4> HIDE DEF p
      <4> QED BY <1>1, <2>1, <3>1, <4>1 DEF Runs
    <3>2. CASE /\ BatchEnd(r) > r.next
               /\ p = [r EXCEPT !.next = BatchEnd(r), !.batch = TRUE,
                                !.outstanding = @ + Displayed(r.next, BatchEnd(r))]
      <4> HIDE DEF p
      <4> QED BY <1>1, <2>1, <3>2 DEF Runs
    <3> QED BY <1>1, <1>8, <3>1, <3>2, PumpedCases
  <2> HIDE DEF p, n, c2
  <2> QED BY <1>7, <2>1, <2>2, <2>3
<1> QED BY <1>6, <1>8

----------------------------------------------------------------------------
(* The owner's steps.                                                      *)

(* release() of a frame, and the credit it gives back.                     *)
LEMMA ReleaseStep == ASSUME Inv, Release PROVE Inv'
<1> DEFINE r == [host.run EXCEPT !.leased = {}, !.outstanding = @ - 1]
           h == [host EXCEPT !.run = r]
<1>1. /\ host \in Hosts /\ toWorker \in Seq(Commands) /\ Sound(host.run) /\ ~host.run.closed
      /\ host.phase \in {"running", "retained"} /\ host.run.leased # {}
      /\ Typed(host, worker, toWorker, toHost)
  BY DEF Inv, Whole, Typed, Release, Open
<1>2. Kept(r) /\ Alike(host.run, r) /\ host.run.started BY <1>1, ReleasedKept
<1>3. r \in Runs BY <1>2 DEF Kept
<1> HIDE DEF r
<1>4. /\ h \in Hosts /\ h.run = r /\ h.phase = host.phase /\ h.gen = host.gen
      /\ h.fault = host.fault /\ h.configured = host.configured
  BY <1>1, <1>3 DEF Hosts
<1>5. Released(host) = IF host.phase = "running" THEN Pumped(r) ELSE r BY DEF Released, r
<1> DEFINE n == [host EXCEPT !.run = Released(host)]
<1>6. n.phase = host.phase BY <1>1 DEF Hosts
<1>7. /\ host' = n /\ worker' = worker /\ toHost' = toHost
      /\ toWorker' = toWorker \o Posts(host.gen, host.run, Released(host))
  BY <1>1, <1>6 DEF Release, HostGoes
<1>8. Posts(host.gen, host.run, Released(host)) = Posts(h.gen, r, Released(host))
  BY <1>2, <1>4 DEF Posts, Alike
<1>9. CASE host.phase = "running"
  <2>1. Active(host, worker, toWorker, toHost)
    BY <1>2, <1>9 DEF Inv, Whole, Stands, Setup, Quiet, Starting, Parked, Ended
  <2>2. Active(h, worker, toWorker, toHost)
    <3>1. Answers(h, worker, toHost) BY <1>2, <1>4, <2>1 DEF Active, Answers, Alike
    <3>2. Flow(h, worker, toHost) BY <1>2, <1>4, <2>1 DEF Active, Flow, Alike
    <3>3. worker.phase # "terminal" => Orders(h, worker, toWorker, toHost)
      BY <1>2, <1>4, <2>1 DEF Active, Orders, Alike
    <3>4. Owns(worker) => Feeding(h, worker, toWorker)
      BY <1>2, <1>4, <2>1 DEF Active, Feeding, Read, Offered, Decoded, Alike
    <3> QED BY <1>4, <2>1, <3>1, <3>2, <3>3, <3>4 DEF Active
  <2>3. /\ Typed(h, worker, toWorker, toHost) /\ h.phase = "running" /\ Kept(h.run)
        /\ ~h.run.closed /\ h.run.started /\ h.fault # "protocol"
    BY <1>1, <1>2, <1>4, <1>9 DEF Typed, Alike, Inv, Whole
  <2>4. Whole([h EXCEPT !.run = Pumped(r)], worker, toWorker \o Posts(h.gen, r, Pumped(r)), toHost)
    BY <1>4, <2>2, <2>3, PumpStep
  <2>5. Released(host) = Pumped(r) BY <1>5, <1>9
  <2>6. n = [h EXCEPT !.run = Pumped(r)] BY <1>1, <2>5 DEF Hosts
  <2> HIDE DEF n, h
  <2> QED BY <1>7, <1>8, <2>4, <2>5, <2>6 DEF Inv
<1>10. CASE host.phase = "retained"
  <2>1. host.run.flushSent
    BY <1>10 DEF Inv, Whole, Stands, Setup, Quiet, Starting, Active, Parked, Ended
  <2>2. Sound(r) BY <1>2, <2>1 DEF Sound, Full, Alike
  <2>3. Released(host) = r BY <1>5, <1>10
  <2>4. host.run.next \in Nat BY <1>1, SampleFacts DEF Sound, Kept, Runs
  <2>5. Posts(h.gen, r, r) = <<>> BY <1>2, <2>4 DEF Posts, Alike
  <2>6. toWorker' = toWorker BY <1>1, <1>7, <1>8, <2>3, <2>5, AppendNothing
  <2>7. Whole([host EXCEPT !.run = r], worker, toWorker, toHost)
    BY <1>1, <1>2, <2>2, Steady DEF Inv
  <2> QED BY <1>7, <2>3, <2>6, <2>7 DEF Inv
<1> QED BY <1>1, <1>9, <1>10

(* A run is created on a lane that is quiet.                               *)
LEMMA CreateRunStep == ASSUME Inv, CreateRun PROVE Inv'
<1>1. Quiet(host, worker, toWorker, toHost)
  BY DEF CreateRun, Available, Inv, Whole, Stands, Setup, Starting, Active, Parked, Ended
<1>2. /\ host \in Hosts /\ worker \in Workers /\ toWorker \in Seq(Commands)
      /\ toHost \in Seq(Events) /\ host.gen \in Nat /\ host.fault # "protocol"
  BY DEF Inv, Whole, Typed, Hosts
<1> DEFINE n == [host EXCEPT !.phase = "running", !.gen = @ + 1, !.run = NewRun]
           x == Command("start", host.gen + 1)
<1>3. Sound(NewRun) /\ NewRun \in Runs
  <2>1. NewRun \in Runs BY NewRunSound DEF Sound, Kept
  <2> QED BY <2>1, NewRunSound
<1>4. /\ n \in Hosts /\ n.phase = "running" /\ n.gen = host.gen + 1 /\ n.run = NewRun
      /\ n.fault = host.fault /\ n.configured = host.configured
  <2>1. host.gen + 1 \in Nat BY <1>2
  <2> HIDE DEF NewRun
  <2> QED BY <1>2, <1>3, <2>1 DEF Hosts
<1>5. ~NewRun.started /\ ~NewRun.closed BY DEF NewRun
<1>6. x \in Commands /\ x.t = "start" /\ x.run = host.gen + 1
  <2>1. <<>> \in Seq(Nat) OBVIOUS
  <2> QED BY <1>2, <2>1 DEF Command, Commands
<1>7. /\ host' = n /\ worker' = worker /\ toHost' = toHost /\ toWorker' = toWorker \o <<x>>
  BY <1>4 DEF CreateRun, HostGoes
<1> HIDE DEF n, x
<1> DEFINE c == toWorker \o <<x>>
<1>8. /\ c \in Seq(Commands) /\ Len(toWorker) \in Nat /\ Len(c) = Len(toWorker) + 1
      /\ \A k \in 1 .. Len(toWorker) : c[k] = toWorker[k]
      /\ c[Len(toWorker) + 1] = x
  BY <1>2, <1>6, AppendTo
<1> HIDE DEF c
<1>9. Starting(n, worker, c, toHost)
  <2>1. CASE toWorker = <<>>
    <3>1. Len(c) = 1 /\ c[1] = x BY <1>8, <2>1
    <3>2. \E i \in {1, 2} :
            /\ Len(c) = i + IF n.phase = "closing" THEN 1 ELSE 0
            /\ c[i].t = "start" /\ c[i].run = n.gen
            /\ i = 2 => c[1].t = "close" /\ c[1].run = worker.run
            /\ n.phase = "closing" => c[i + 1].t = "close" /\ c[i + 1].run = n.gen
      BY <1>4, <1>6, <3>1
    <3> QED BY <1>1, <1>2, <1>4, <1>5, <3>2 DEF Starting, Quiet
  <2>2. CASE Len(toWorker) = 1 /\ toWorker[1].t = "close" /\ toWorker[1].run = host.gen
    <3>1. Len(c) = 2 /\ c[2] = x /\ c[1] = toWorker[1] BY <1>8, <2>2
    <3>2. \E i \in {1, 2} :
            /\ Len(c) = i + IF n.phase = "closing" THEN 1 ELSE 0
            /\ c[i].t = "start" /\ c[i].run = n.gen
            /\ i = 2 => c[1].t = "close" /\ c[1].run = worker.run
            /\ n.phase = "closing" => c[i + 1].t = "close" /\ c[i + 1].run = n.gen
      BY <1>1, <1>4, <1>6, <2>2, <3>1 DEF Quiet
    <3> QED BY <1>1, <1>2, <1>4, <1>5, <3>2 DEF Starting, Quiet
  <2> QED BY <1>1, <2>1, <2>2 DEF Quiet
<1>10. Whole(n, worker, c, toHost)
  BY <1>2, <1>3, <1>4, <1>5, <1>8, <1>9 DEF Whole, Typed, Stands
<1> QED BY <1>7, <1>10 DEF Inv, c

(* A run is closed, whatever is on its way in both directions.             *)
LEMMA CloseStep == ASSUME Inv, Close PROVE Inv'
<1> DEFINE r == host.run
           p == Closed(r)
           n == [host EXCEPT !.run = p, !.phase = CloseLeaves(@)]
           x == Command("close", host.gen)
<1>1. /\ host \in Hosts /\ worker \in Workers /\ toWorker \in Seq(Commands)
      /\ toHost \in Seq(Events) /\ host.gen \in Nat /\ host.fault # "protocol"
      /\ Sound(r) /\ r \in Runs /\ host.phase \in {"running", "retained"}
  BY DEF Inv, Whole, Typed, Hosts, Sound, Kept, Close, Open
<1>2. Sound(p) /\ p \in Runs
  <2>1. Sound(p) BY <1>1, ClosedSound DEF Sound
  <2> QED BY <2>1 DEF Sound, Kept
<1>3. /\ p.closed /\ p.next = r.next /\ p.seen = r.seen /\ p.started = r.started
  BY <1>1 DEF Closed, Runs
<1> HIDE DEF p
<1>4. /\ n \in Hosts /\ n.gen = host.gen /\ n.run = p
      /\ n.fault = host.fault /\ n.configured = host.configured
      /\ n.phase = IF host.phase = "retained" THEN "idle" ELSE "closing"
  BY <1>1, <1>2 DEF Hosts, CloseLeaves
<1>5. x \in Commands /\ x.t = "close" /\ x.run = host.gen
  <2>1. <<>> \in Seq(Nat) OBVIOUS
  <2> QED BY <1>1, <2>1 DEF Command, Commands
<1>6. /\ host' = n /\ worker' = worker /\ toHost' = toHost
      /\ toWorker' = toWorker \o IF host.phase = "running" THEN <<x>> ELSE <<>>
  <2>1. HostGoes(n, IF host.phase = "running" THEN <<x>> ELSE <<>>) /\ toHost' = toHost
    BY DEF Close, p
  <2>2. n.phase # "terminal" BY <1>4
  <2> HIDE DEF n, x
  <2> QED BY <2>1, <2>2 DEF HostGoes
<1> HIDE DEF n, x
<1>7. CASE host.phase = "retained"
  <2>1. Parked(host, worker, toWorker, toHost)
    BY <1>7 DEF Inv, Whole, Stands, Setup, Quiet, Starting, Active, Ended
  <2>2. toWorker' = toWorker BY <1>1, <1>6, <1>7, AppendNothing
  <2>3. Quiet(n, worker, toWorker, toHost) BY <1>4, <1>7, <2>1 DEF Parked, Quiet
  <2>4. Whole(n, worker, toWorker, toHost)
    BY <1>1, <1>2, <1>3, <1>4, <1>7, <2>3 DEF Whole, Typed, Stands
  <2> QED BY <1>6, <2>2, <2>4 DEF Inv
<1>8. CASE host.phase = "running"
  <2> DEFINE c == toWorker \o <<x>>
  <2>1. /\ c \in Seq(Commands) /\ Len(toWorker) \in Nat /\ Len(c) = Len(toWorker) + 1
        /\ \A k \in 1 .. Len(toWorker) : c[k] = toWorker[k]
        /\ c[Len(toWorker) + 1] = x /\ c # <<>>
    BY <1>1, <1>5, AppendTo
  <2> HIDE DEF c
  <2>2. toWorker' = c BY <1>6, <1>8 DEF c
  <2>3. ASSUME Starting(host, worker, toWorker, toHost) PROVE Starting(n, worker, c, toHost)
    <3>1. PICK i \in {1, 2} : /\ Len(toWorker) = i
                              /\ toWorker[i].t = "start" /\ toWorker[i].run = host.gen
                              /\ i = 2 => toWorker[1].t = "close" /\ toWorker[1].run = worker.run
      BY <1>8, <2>3 DEF Starting
    <3>2. /\ Len(c) = i + 1 /\ c[i] = toWorker[i] /\ c[i + 1] = x
          /\ i = 2 => c[1] = toWorker[1]
      BY <2>1, <3>1
    <3>3. n.phase = "closing" BY <1>4, <1>8
    <3> QED BY <1>3, <1>4, <1>5, <2>3, <3>1, <3>2, <3>3 DEF Starting
  <2>4. ASSUME Active(host, worker, toWorker, toHost) PROVE Active(n, worker, c, toHost)
    <3>1. n.phase = "closing" BY <1>4, <1>8
    <3>2. Answers(n, worker, toHost) BY <1>4, <2>4, <3>1 DEF Active, Answers
    <3>3. Flow(n, worker, toHost) BY <1>3, <1>4, <2>4, <3>1 DEF Active, Flow
    <3>4. worker.phase # "terminal" => Orders(n, worker, c, toHost)
      <4>1. SUFFICES ASSUME Orders(host, worker, toWorker, toHost)
                     PROVE  Orders(n, worker, c, toHost)
        BY <2>4 DEF Active
      <4>2. \A k \in 1 .. Len(toWorker) : /\ toWorker[k].run = host.gen /\ k = 1
                                          /\ toWorker[k].t \in {"decode", "flush"}
                                          /\ worker.phase = "ready"
        BY <1>8, <4>1 DEF Orders
      <4>3. \A k \in 1 .. Len(c) : k = Len(c) \/ (k \in 1 .. Len(toWorker) /\ c[k] = toWorker[k])
        BY <2>1
      <4>4. worker.phase # "closing" BY <1>8, <4>1 DEF Orders
      <4> QED BY <1>4, <1>5, <2>1, <3>1, <4>1, <4>2, <4>3, <4>4 DEF Orders
    <3>5. Owns(worker) => Feeding(n, worker, c)
      <4>1. OnTheWay(c) = OnTheWay(toWorker)
        <5>1. CASE toWorker = <<>>
          <6>1. c[1] = x BY <2>1, <5>1
          <6> QED BY <1>5, <2>1, <5>1, <6>1 DEF OnTheWay
        <5>2. CASE toWorker # <<>>
          <6>1. c[1] = toWorker[1] BY <1>1, <2>1, <5>2, TailOf
          <6> QED BY <2>1, <5>2, <6>1 DEF OnTheWay
        <5> QED BY <5>1, <5>2
      <4> QED BY <1>3, <1>4, <2>4, <4>1 DEF Active, Feeding, Read, Offered, Decoded
    <3> QED BY <1>4, <2>4, <3>1, <3>2, <3>3, <3>4, <3>5 DEF Active
  <2>5. Starting(host, worker, toWorker, toHost) \/ Active(host, worker, toWorker, toHost)
    BY <1>8 DEF Inv, Whole, Stands, Setup, Quiet, Parked, Ended
  <2>6. Whole(n, worker, c, toHost)
    BY <1>1, <1>2, <1>3, <1>4, <1>8, <2>1, <2>3, <2>4, <2>5 DEF Whole, Typed, Stands
  <2> QED BY <1>6, <2>2, <2>6 DEF Inv
<1> QED BY <1>1, <1>7, <1>8

----------------------------------------------------------------------------
(* What the host receives.                                                 *)

(* A lane that has ended ignores what it receives.                         *)
LEMMA ReceiveTerminalStep == ASSUME Inv, ReceiveTerminal PROVE Inv'
<1>1. /\ toHost \in Seq(Events) /\ toHost # <<>> /\ toHost' = Tail(toHost)
      /\ host' = host /\ worker' = worker /\ toWorker' = toWorker
  BY DEF Inv, Whole, Typed, ReceiveTerminal
<1>2. Ended(host, worker, toWorker, toHost)
  BY DEF ReceiveTerminal, Live, Inv, Whole, Stands, Setup, Quiet, Starting, Active, Parked
<1>3. Tail(toHost) \in Seq(Events) BY <1>1, TailOf
<1>4. Distinct(Tail(toHost)) /\ Cardinality(Arriving(Tail(toHost))) <= Ring
  BY <1>1, <1>2, TailFits DEF Ended
<1>5. Whole(host, worker, toWorker, Tail(toHost))
  BY <1>2, <1>3, <1>4 DEF Inv, Whole, Typed, Stands, Ended
<1> QED BY <1>1, <1>5 DEF Inv

(* The support check has ended well.                                       *)
LEMMA ReceiveConfiguredStep == ASSUME Inv, ReceiveConfigured PROVE Inv'
<1>1. /\ host \in Hosts /\ worker \in Workers /\ toWorker \in Seq(Commands)
      /\ toHost \in Seq(Events) /\ toHost # <<>> /\ toHost[1].t = "configured"
      /\ toHost' = Tail(toHost)
  BY DEF Inv, Whole, Typed, ReceiveConfigured
<1>2. Len(toHost) \in Nat /\ Len(toHost) >= 1 /\ Tail(toHost) \in Seq(Events)
      /\ (Tail(toHost) = <<>> <=> Len(toHost) = 1)
  BY <1>1, TailOf
<1>3. ~Active(host, worker, toWorker, toHost) BY <1>1, <1>2 DEF Active, Answers
<1>4. Setup(host, worker, toWorker, toHost)
  BY <1>1, <1>3 DEF ReceiveConfigured, Live, Inv, Whole, Stands, Quiet, Starting, Parked, Ended
<1>5. worker.phase = "idle" /\ toWorker = <<>> /\ Len(toHost) = 1
  BY <1>1, <1>4 DEF Setup
<1> DEFINE n == [host EXCEPT !.configured = TRUE]
<1>6. /\ n \in Hosts /\ n.configured /\ n.phase = host.phase /\ n.gen = host.gen
      /\ n.run = host.run /\ n.fault = host.fault
  BY <1>1 DEF Hosts
<1>7. host' = n /\ worker' = worker /\ toWorker' = toWorker
  <2>1. HostGoes(n, <<>>) BY DEF ReceiveConfigured
  <2>2. n.phase # "terminal" BY <1>4, <1>6 DEF Setup
  <2> HIDE DEF n
  <2> QED BY <1>1, <2>1, <2>2, AppendNothing DEF HostGoes
<1> HIDE DEF n
<1>8. Quiet(n, worker, toWorker, Tail(toHost)) BY <1>2, <1>4, <1>5, <1>6 DEF Setup, Quiet
<1>9. Whole(n, worker, toWorker, Tail(toHost))
  BY <1>1, <1>2, <1>6, <1>8 DEF Inv, Whole, Typed, Stands
<1> QED BY <1>1, <1>7, <1>9 DEF Inv

(* The worker reports a failure: it is never one of the protocol.          *)
LEMMA ReceiveErrorStep == ASSUME Inv, ReceiveError PROVE Inv'
<1>1. /\ toHost \in Seq(Events) /\ toHost # <<>> /\ toHost[1].t = "error" /\ Live
      /\ HostGoes(Failed(host, toHost[1].why), <<>>) /\ toHost' = Tail(toHost)
  BY DEF Inv, Whole, Typed, ReceiveError
<1>2. Len(toHost) \in Nat /\ Len(toHost) >= 1 /\ toHost[1] \in Events BY <1>1, TailOf
<1>3. toHost[1].why # "protocol"
  BY <1>1, <1>2
  DEF Live, Inv, Whole, Stands, Setup, Quiet, Starting, Active, Answers, Parked, Ended
<1>4. toHost[1].why \in {"none", "unsupported", "decoder"} BY <1>2, <1>3 DEF Events
<1> QED BY <1>1, <1>4, FailingStep

(* A frame fails its validation.                                           *)
LEMMA RejectFrameStep == ASSUME Inv, RejectFrame PROVE Inv'
<1>1. Live /\ toHost # <<>> /\ toHost' = Tail(toHost) /\ HostGoes(Failed(host, "output"), <<>>)
  BY DEF RejectFrame, Live
<1> QED BY <1>1, FailingStep

(* An answer of the worker, that is not its last, is received.             *)
LEMMA AnswersReceived ==
  ASSUME NEW h, NEW w, NEW e \in Seq(Events), e # <<>>, Answers(h, w, e), NEW n,
         ~Ends(e[1]), e[1].t # "error", n.phase = h.phase, n.gen = h.gen,
         h.phase = "running" =>
           n.run.started /\ (n.run.batch <=> (h.run.batch /\ e[1].t # "accepted"))
  PROVE  Answers(n, w, Tail(e))
<1> DEFINE t == Tail(e)
<1>1. /\ Len(e) \in Nat /\ Len(e) >= 1 /\ Len(t) = Len(e) - 1
      /\ \A k \in 1 .. Len(e) - 1 : t[k] = e[k + 1]
      /\ (t = <<>> <=> Len(e) = 1) /\ e[1] \in Events
  BY TailOf
<1> HIDE DEF t
<1>2. \A k \in 1 .. Len(t) :
        k + 1 \in 1 .. Len(e) /\ k + 1 # 1 /\ t[k] = e[k + 1] /\ (k + 1 = Len(e) <=> k = Len(t))
  BY <1>1
<1>3. ASSUME NEW k \in 1 .. Len(t)
      PROVE  /\ t[k].t # "configured"
             /\ t[k].t # "error" => t[k].run = h.gen
             /\ t[k].t = "error" => k = Len(t) /\ w.phase = "terminal" /\ t[k].why # "protocol"
             /\ Ends(t[k]) => k = Len(t) /\ w.phase = "idle"
             /\ t[k].t = "closed" => h.phase = "closing"
             /\ t[k].t # "started"
             /\ t[k].t = "accepted" /\ h.phase = "running" =>
                  /\ h.run.batch /\ e[1].t # "accepted"
                  /\ \A j \in 1 .. Len(t) : t[j].t = "accepted" => j = k
  <2>1. k + 1 \in 1 .. Len(e) /\ k + 1 # 1 /\ t[k] = e[k + 1] /\ (k + 1 = Len(e) <=> k = Len(t))
        /\ 1 \in 1 .. Len(e)
    BY <1>1, <1>2
  <2>2. /\ e[k + 1].t # "configured"
        /\ e[k + 1].t # "error" => e[k + 1].run = h.gen
        /\ e[k + 1].t = "error" => k + 1 = Len(e) /\ w.phase = "terminal" /\ e[k + 1].why # "protocol"
        /\ Ends(e[k + 1]) => k + 1 = Len(e) /\ w.phase = "idle"
        /\ e[k + 1].t = "closed" => h.phase = "closing"
        /\ e[k + 1].t = "started" => k + 1 = 1
        /\ e[k + 1].t = "accepted" /\ h.phase = "running" =>
             h.run.batch /\ \A j \in 1 .. Len(e) : e[j].t = "accepted" => j = k + 1
    BY <2>1 DEF Answers
  <2>3. ASSUME NEW j \in 1 .. Len(t), t[j].t = "accepted", t[k].t = "accepted", h.phase = "running"
        PROVE  j = k
    <3>1. j + 1 \in 1 .. Len(e) /\ e[j + 1].t = "accepted" BY <1>2, <2>3
    <3>2. j + 1 = k + 1 BY <2>1, <2>2, <2>3, <3>1
    <3> QED BY <1>1, <3>2
  <2> QED BY <2>1, <2>2, <2>3
<1>4. ~(Ends(e[1]) \/ e[1].t = "error") OBVIOUS
<1>5. w.phase \in {"terminal", "idle"} => Len(e) # 1 BY <1>1, <1>4 DEF Answers
<1>6. w.phase \in {"terminal", "idle"} =>
        t # <<>> /\ Len(t) \in 1 .. Len(t) /\ t[Len(t)] = e[Len(e)]
  BY <1>1, <1>5
<1>7. /\ w.phase = "terminal" => t # <<>> /\ t[Len(t)].t = "error"
      /\ w.phase = "idle" => t # <<>> /\ Ends(t[Len(t)])
  BY <1>6 DEF Answers
<1> QED BY <1>3, <1>7 DEF Answers, t

(* What the worker is to do next, once the host has received an answer.    *)
LEMMA OrdersReceived ==
  ASSUME NEW h, NEW w, NEW c \in Seq(Commands), NEW e \in Seq(Events), e # <<>>,
         Answers(h, w, e), Orders(h, w, c, e), NEW n,
         n.phase = h.phase, n.gen = h.gen, n.run.flushSent = h.run.flushSent,
         h.phase = "running" => (n.run.batch <=> (h.run.batch /\ e[1].t # "accepted"))
  PROVE  Orders(n, w, c, Tail(e))
<1>1. /\ Len(e) \in Nat /\ Len(e) >= 1 /\ Len(Tail(e)) = Len(e) - 1
      /\ \A k \in 1 .. Len(e) - 1 : Tail(e)[k] = e[k + 1]
  BY TailOf
<1>2. e[1].t # "accepted" => (Has(Tail(e), "accepted") <=> Has(e, "accepted"))
  BY ReceivedFrames
<1>3. ASSUME h.phase = "running", e[1].t = "accepted"
      PROVE  ~Has(Tail(e), "accepted") /\ Has(e, "accepted")
  <2>1. 1 \in 1 .. Len(e) BY <1>1
  <2>2. \A j \in 1 .. Len(e) : e[j].t = "accepted" => j = 1 BY <1>3, <2>1 DEF Answers
  <2>3. \A k \in 1 .. Len(Tail(e)) : k + 1 \in 1 .. Len(e) /\ k + 1 # 1 /\ Tail(e)[k] = e[k + 1]
    BY <1>1
  <2> QED BY <1>3, <2>1, <2>2, <2>3 DEF Has
<1> QED BY <1>2, <1>3 DEF Orders

(* Nothing that arrives is out of turn.                                    *)
LEMMA NothingOutOfTurn ==
  ASSUME NEW h, NEW w, NEW c, NEW e, Whole(h, w, c, e), Active(h, w, c, e),
         e # <<>>, e[1].t # "error"
  PROVE  /\ ~OutOfTurn(h, e[1]) /\ e[1].run = h.gen /\ e[1] \in Events
         /\ e[1].t \in {"started", "accepted", "frame", "flushed", "closed"}
         /\ h.phase = "running" =>
              /\ e[1].t # "closed"
              /\ e[1].t = "started" => ~h.run.started
              /\ e[1].t # "started" => h.run.started
              /\ e[1].t = "accepted" => h.run.batch
         /\ e[1].t = "frame" => e[1].frame \in Prefix(h.run.next) /\ e[1].frame \notin h.run.seen
         /\ Ends(e[1]) => w.phase = "idle" /\ Len(e) = 1
<1>1. /\ h \in Hosts /\ e \in Seq(Events) /\ Sound(h.run) /\ h.phase \in {"running", "closing"}
      /\ Answers(h, w, e) /\ Flow(h, w, e) /\ h.gen \in Nat
      /\ h.phase = "running" => ~h.run.closed
  BY DEF Whole, Typed, Active, Hosts
<1>2. /\ e[1] \in Events /\ 1 \in 1 .. Len(e) BY <1>1, TailOf
<1>3. /\ e[1].run = h.gen
      /\ e[1].t \in {"started", "accepted", "frame", "flushed", "closed"}
      /\ Ends(e[1]) => w.phase = "idle" /\ Len(e) = 1
  BY <1>1, <1>2 DEF Answers, Events
<1>4. h.phase = "running" =>
        /\ e[1].t # "closed"
        /\ e[1].t = "started" => ~h.run.started
        /\ e[1].t # "started" => h.run.started
        /\ e[1].t = "accepted" => h.run.batch
  BY <1>1, <1>2 DEF Answers
<1>5. e[1].t = "frame" => e[1].frame \in Prefix(h.run.next) /\ e[1].frame \notin h.run.seen
  <2>1. e[1].t = "frame" => e[1].frame \in Arriving(e) BY <1>2 DEF Arriving, FrameEvents
  <2> QED BY <1>1, <2>1 DEF Flow
<1>6. ASSUME h.phase = "running", e[1].t = "frame"
      PROVE  /\ e[1].frame \notin h.run.seen /\ SampleOf(e[1].frame) <= h.run.next
             /\ ~(h.run.outstanding < 1)
  <2>1. SampleOf(e[1].frame) <= h.run.next /\ h.run.outstanding >= 1
    BY <1>1, <1>5, <1>6, FrameSound
  <2>2. h.run.outstanding \in Nat BY <1>1, LaneAssumption DEF Sound, Kept, Runs
  <2> QED BY <1>5, <1>6, <2>1, <2>2
<1>7. ASSUME h.phase = "running", e[1].t = "flushed"
      PROVE  h.run.flushSent /\ ~h.run.batch /\ h.run.next = Len(Samples) /\ h.run.seen = Frames
  <2>1. w.phase = "idle" /\ Len(e) = 1 BY <1>3, <1>7 DEF Ends
  <2>2. Orders(h, w, c, e) BY <2>1 DEF Active
  <2>3. h.run.flushSent BY <1>7, <2>1, <2>2 DEF Orders
  <2>4. Arriving(e) = {} BY <1>7, <2>1 DEF Arriving, FrameEvents
  <2>5. h.run.seen = Frames BY <1>1, <1>7, <2>1, <2>4 DEF Flow
  <2> QED BY <1>1, <2>3, <2>5 DEF Sound, Kept
<1>8. ~OutOfTurn(h, e[1])
  <2>1. ~(e[1].run > h.gen) /\ ~(e[1].run < h.gen) BY <1>1, <1>3
  <2>2. h.phase # "idle" /\ h.phase # "retained" BY <1>1
  <2>3. ASSUME h.phase = "running"
        PROVE  ~(CASE e[1].t = "started" -> h.run.started
                   [] e[1].t = "accepted" -> ~h.run.batch
                   [] e[1].t = "closed" -> TRUE
                   [] e[1].t = "flushed" -> \/ ~h.run.flushSent \/ h.run.batch
                                            \/ h.run.next # Len(Samples)
                                            \/ h.run.seen # Frames
                   [] e[1].t = "frame" -> \/ e[1].frame \in h.run.seen
                                          \/ SampleOf(e[1].frame) > h.run.next
                                          \/ h.run.outstanding < 1)
    <3>1. CASE e[1].t = "started" BY <1>4, <2>3, <3>1
    <3>2. CASE e[1].t = "accepted" BY <1>4, <2>3, <3>2
    <3>3. CASE e[1].t = "flushed" BY <1>7, <2>3, <3>3
    <3>4. CASE e[1].t = "frame"
      <4>1. SampleOf(e[1].frame) \in Int
        <5>1. e[1].frame \in Frames
          <6>1. h.run.next \in 0 .. Len(Samples) BY <1>1 DEF Sound, Kept, Runs
          <6> QED BY <1>5, <3>4, <6>1, PrefixFacts
        <5>2. PICK k \in 1 .. Len(Samples) : e[1].frame \in Samples[k]
          BY <5>1, SampleFacts DEF Prefix
        <5>3. SampleOf(e[1].frame) = k BY <5>1, <5>2, SampleFacts
        <5> QED BY <5>3
      <4>2. h.run.next \in Int BY <1>1, SampleFacts DEF Sound, Kept, Runs
      <4>3. ~(SampleOf(e[1].frame) > h.run.next) BY <1>6, <2>3, <3>4, <4>1, <4>2
      <4> QED BY <1>6, <2>3, <3>4, <4>3
    <3> QED BY <1>3, <1>4, <2>3, <3>1, <3>2, <3>3, <3>4
  <2> QED BY <2>1, <2>2, <2>3 DEF OutOfTurn
<1> QED BY <1>2, <1>3, <1>4, <1>5, <1>8

(* A closing run: its answers are dropped, the last one ends it.           *)
LEMMA ReceiveClosing ==
  ASSUME Inv, ReceiveRun, Active(host, worker, toWorker, toHost), host.phase = "closing"
  PROVE  Inv'
<1> DEFINE x == toHost[1]
           n == Heard(host, x)
<1>1. /\ host \in Hosts /\ worker \in Workers /\ toWorker \in Seq(Commands)
      /\ toHost \in Seq(Events) /\ host.gen \in Nat /\ host.fault # "protocol"
      /\ toHost # <<>> /\ x.t # "error" /\ toHost' = Tail(toHost)
      /\ host.run \in Runs /\ Sound(host.run) /\ host.run.closed
  <2>1. /\ toHost # <<>> /\ Head(toHost).t # "error" /\ toHost' = Tail(toHost)
    BY DEF ReceiveRun
  <2>2. Typed(host, worker, toWorker, toHost) /\ Sound(host.run) /\ host.fault # "protocol"
        /\ host.run.closed
    BY DEF Inv, Whole
  <2>3. host.run \in Runs BY <2>2 DEF Sound, Kept
  <2>4. host.gen \in Nat BY <2>2 DEF Typed, Hosts
  <2> QED BY <2>1, <2>2, <2>3, <2>4 DEF Typed
<1>2. /\ ~OutOfTurn(host, x) /\ x.run = host.gen
      /\ Ends(x) => worker.phase = "idle" /\ Len(toHost) = 1
  BY <1>1, NothingOutOfTurn DEF Inv
<1>3. Tail(toHost) \in Seq(Events) /\ (Tail(toHost) = <<>> <=> Len(toHost) = 1)
  BY <1>1, TailOf
<1>4. host' = n /\ (n.phase # "terminal" =>
        worker' = worker /\ toWorker' = toWorker \o Posts(host.gen, host.run, n.run))
  BY DEF ReceiveRun, HostGoes
<1>5. host.run.next \in Nat BY <1>1, SampleFacts DEF Runs
<1>6. Posts(host.gen, host.run, host.run) = <<>> BY <1>5 DEF Posts
<1>7. CASE ~Ends(x)
  <2>1. n = host BY <1>2, <1>7 DEF Heard
  <2> HIDE DEF n, x
  <2>2. host' = host /\ worker' = worker /\ toWorker' = toWorker
    BY <1>1, <1>4, <1>6, <2>1, AppendNothing
  <2>3. Answers(host, worker, Tail(toHost))
    BY <1>1, <1>7, AnswersReceived DEF Active, x
  <2>4. Flow(host, worker, Tail(toHost))
    <3>1. Flow(host, worker, toHost) BY DEF Active
    <3>2. Distinct(Tail(toHost)) /\ Arriving(Tail(toHost)) \subseteq Arriving(toHost)
      BY <1>1, <3>1, ReceivedFrames DEF Flow
    <3> QED BY <3>1, <3>2 DEF Flow
  <2>5. worker.phase # "terminal" => Orders(host, worker, toWorker, Tail(toHost))
    BY <1>1, OrdersReceived DEF Active
  <2>6. Active(host, worker, toWorker, Tail(toHost))
    BY <2>3, <2>4, <2>5 DEF Active
  <2>7. Whole(host, worker, toWorker, Tail(toHost))
    BY <1>1, <1>3, <2>6 DEF Whole, Typed, Stands
  <2> QED BY <1>1, <2>2, <2>7 DEF Inv
<1>8. CASE Ends(x)
  <2>1. n = [host EXCEPT !.phase = "idle"] BY <1>2, <1>8 DEF Heard
  <2> HIDE DEF n, x
  <2>2. /\ n \in Hosts /\ n.configured = host.configured /\ n.phase = "idle"
        /\ n.gen = host.gen /\ n.run = host.run /\ n.fault = host.fault
    BY <1>1, <2>1 DEF Hosts
  <2>3. host' = n /\ worker' = worker /\ toWorker' = toWorker
    BY <1>1, <1>4, <1>6, <2>2, AppendNothing
  <2>4. worker.phase = "idle" /\ Tail(toHost) = <<>> BY <1>2, <1>3, <1>8
  <2>5. toWorker = <<>> \/ (Len(toWorker) = 1 /\ toWorker[1].t = "close" /\ toWorker[1].run = host.gen)
    <3>1. SUFFICES ASSUME toWorker # <<>>
                   PROVE  Len(toWorker) = 1 /\ toWorker[1].t = "close" /\ toWorker[1].run = host.gen
      OBVIOUS
    <3>2. Len(toWorker) \in Nat /\ Len(toWorker) >= 1 BY <1>1, <3>1, TailOf
    <3>3. 1 \in 1 .. Len(toWorker) BY <3>2
    <3>4. Orders(host, worker, toWorker, toHost) BY <2>4 DEF Active
    <3> QED BY <2>4, <3>3, <3>4 DEF Orders
  <2>6. Quiet(n, worker, toWorker, Tail(toHost)) BY <2>2, <2>4, <2>5 DEF Quiet, Active
  <2>7. Whole(n, worker, toWorker, Tail(toHost))
    BY <1>1, <1>3, <2>2, <2>6 DEF Whole, Typed, Stands
  <2> QED BY <1>1, <2>3, <2>7 DEF Inv
<1> QED BY <1>7, <1>8

(* The run that is open hears of a frame, of its start, of room, or of its *)
(* end; it pumps when there is something new to ask for.                   *)
LEMMA ReceiveRunning ==
  ASSUME Inv, ReceiveRun, Active(host, worker, toWorker, toHost), host.phase = "running"
  PROVE  Inv'
<1> DEFINE x == toHost[1]
           t == Tail(toHost)
           r == host.run
           n == Told(host, x)
<1>1. /\ host \in Hosts /\ worker \in Workers /\ toWorker \in Seq(Commands)
      /\ toHost \in Seq(Events) /\ host.gen \in Nat /\ host.fault # "protocol"
      /\ toHost # <<>> /\ x.t # "error" /\ toHost' = t
      /\ r \in Runs /\ Sound(r) /\ ~r.closed /\ r.next \in Nat
  <2>1. /\ toHost # <<>> /\ Head(toHost).t # "error" /\ toHost' = Tail(toHost)
    BY DEF ReceiveRun
  <2>2. Typed(host, worker, toWorker, toHost) /\ Sound(host.run) /\ host.fault # "protocol"
        /\ ~host.run.closed
    BY DEF Inv, Whole
  <2>3. host.run \in Runs BY <2>2 DEF Sound, Kept
  <2>4. host.gen \in Nat BY <2>2 DEF Typed, Hosts
  <2>5. host.run.next \in Nat BY <2>3, SampleFacts DEF Runs
  <2> QED BY <2>1, <2>2, <2>3, <2>4, <2>5 DEF Typed
<1>2. /\ ~OutOfTurn(host, x) /\ x.run = host.gen /\ x \in Events
      /\ x.t \in {"started", "accepted", "frame", "flushed"}
      /\ x.t = "started" => ~r.started
      /\ x.t # "started" => r.started
      /\ x.t = "accepted" => r.batch
      /\ x.t = "frame" => x.frame \in Prefix(r.next) /\ x.frame \notin r.seen
      /\ Ends(x) => worker.phase = "idle" /\ Len(toHost) = 1
  BY <1>1, NothingOutOfTurn DEF Inv
<1>3. t \in Seq(Events) /\ (t = <<>> <=> Len(toHost) = 1)
  BY <1>1, TailOf
<1>4. n = Heard(host, x) BY <1>2 DEF Heard
<1>5. host' = n /\ (n.phase # "terminal" =>
        worker' = worker /\ toWorker' = toWorker \o Posts(host.gen, r, n.run))
  BY <1>4 DEF ReceiveRun, HostGoes
<1>6. Flow(host, worker, toHost) /\ Answers(host, worker, toHost) BY DEF Active
<1>7. CASE x.t = "frame"
  <2> DEFINE p == [r EXCEPT !.seen = @ \cup {x.frame}, !.buffered = @ \cup {x.frame}]
  <2>1. Sound(p) BY <1>1, <1>2, <1>7, FrameSound
  <2>2. /\ p.seen = r.seen \cup {x.frame} /\ p.next = r.next /\ p.started = r.started
        /\ p.batch = r.batch /\ p.flushSent = r.flushSent /\ p.closed = r.closed
    BY <1>1 DEF Runs
  <2>3. n = [host EXCEPT !.run = p]
    BY <1>1, <1>7 DEF Told, Hosts
  <2> HIDE DEF n, p
  <2>4. /\ n \in Hosts /\ n.configured = host.configured /\ n.phase = host.phase
        /\ n.gen = host.gen /\ n.run = p /\ n.fault = host.fault
    <3>1. p \in Runs BY <2>1 DEF Sound, Kept
    <3> QED BY <1>1, <2>3, <3>1 DEF Hosts
  <2>5. Posts(host.gen, r, p) = <<>> BY <1>1, <2>2 DEF Posts
  <2>6. host' = n /\ worker' = worker /\ toWorker' = toWorker
    <3>1. toWorker \o <<>> = toWorker BY <1>1, AppendNothing
    <3> QED BY <1>5, <2>4, <2>5, <3>1
  <2>7. Answers(n, worker, t)
    <3>1. ~Ends(x) BY <1>7 DEF Ends
    <3> QED BY <1>1, <1>2, <1>6, <1>7, <2>2, <2>4, <3>1, AnswersReceived
  <2>8. Flow(n, worker, t)
    <3>1. /\ Distinct(t) /\ Arriving(toHost) = Arriving(t) \cup {x.frame}
          /\ x.frame \notin Arriving(t)
      BY <1>1, <1>6, <1>7, ReceivedFrames DEF Flow
    <3> HIDE DEF x, t
    <3> QED BY <1>6, <2>2, <2>4, <3>1 DEF Flow
  <2>9. worker.phase # "terminal" => Orders(n, worker, toWorker, t)
    BY <1>1, <1>6, <1>7, <2>2, <2>4, OrdersReceived DEF Active
  <2>10. Owns(worker) => Feeding(n, worker, toWorker)
    BY <2>2, <2>4 DEF Active, Feeding, Read, Offered, Decoded
  <2>11. Active(n, worker, toWorker, t)
    BY <2>4, <2>7, <2>8, <2>9, <2>10 DEF Active
  <2>12. Whole(n, worker, toWorker, t)
    BY <1>1, <1>3, <2>1, <2>2, <2>4, <2>11 DEF Inv, Whole, Typed, Stands
  <2> QED BY <1>1, <2>6, <2>12 DEF Inv
<1>8. CASE x.t \in {"started", "accepted"}
  <2> DEFINE p == IF x.t = "started" THEN [r EXCEPT !.started = TRUE]
                                     ELSE [r EXCEPT !.batch = FALSE]
             h == [host EXCEPT !.run = p]
  <2>1. Kept(p) BY <1>1, <1>2, <1>8, StartedKept, AcceptedKept
  <2>2. /\ p.seen = r.seen /\ p.next = r.next /\ p.started
        /\ p.batch <=> (r.batch /\ x.t # "accepted")
        /\ p.flushSent = r.flushSent /\ p.closed = r.closed
    BY <1>1, <1>2, <1>8 DEF Runs
  <2>3. n = [host EXCEPT !.run = Pumped(p)]
    BY <1>1, <1>8 DEF Told, Hosts
  <2> HIDE DEF n, p
  <2>4. /\ h \in Hosts /\ h.configured = host.configured /\ h.phase = host.phase
        /\ h.gen = host.gen /\ h.run = p /\ h.fault = host.fault
    <3>1. p \in Runs BY <2>1 DEF Kept
    <3> QED BY <1>1, <3>1 DEF Hosts
  <2>5. n = [h EXCEPT !.run = Pumped(p)] /\ n.phase = host.phase /\ n.run = Pumped(p)
    BY <1>1, <2>3 DEF Hosts
  <2> HIDE DEF h
  <2>6. Posts(host.gen, r, Pumped(p)) = Posts(h.gen, p, Pumped(p)) BY <2>2, <2>4 DEF Posts
  <2>7. Answers(h, worker, t)
    <3>1. ~Ends(x) BY <1>8 DEF Ends
    <3> QED BY <1>1, <1>2, <1>6, <2>2, <2>4, <3>1, AnswersReceived
  <2>8. Flow(h, worker, t)
    <3>1. Distinct(t) /\ Arriving(toHost) = Arriving(t)
      BY <1>1, <1>6, <1>8, ReceivedFrames DEF Flow
    <3> HIDE DEF x, t
    <3> QED BY <1>6, <2>2, <2>4, <3>1 DEF Flow
  <2>9. worker.phase # "terminal" => Orders(h, worker, toWorker, t)
    BY <1>1, <1>6, <2>2, <2>4, OrdersReceived DEF Active
  <2>10. Owns(worker) => Feeding(h, worker, toWorker)
    BY <2>2, <2>4 DEF Active, Feeding, Read, Offered, Decoded
  <2>11. Active(h, worker, toWorker, t)
    BY <2>4, <2>7, <2>8, <2>9, <2>10 DEF Active
  <2>12. Typed(h, worker, toWorker, t) BY <1>1, <1>3, <2>4 DEF Typed
  <2>13. Whole([h EXCEPT !.run = Pumped(h.run)], worker,
               toWorker \o Posts(h.gen, h.run, Pumped(h.run)), t)
    BY <1>1, <2>1, <2>2, <2>4, <2>11, <2>12, PumpStep
  <2>14. Whole(n, worker, toWorker \o Posts(host.gen, r, n.run), t)
    BY <2>4, <2>5, <2>6, <2>13
  <2> QED BY <1>1, <1>5, <2>5, <2>14 DEF Inv
<1>9. CASE x.t = "flushed"
  <2> DEFINE p == [r EXCEPT !.flushed = TRUE]
  <2>1. Sound(p) /\ Alike(r, p) BY <1>1, FlushedSound
  <2>2. n = [host EXCEPT !.run = p, !.phase = "retained"]
    BY <1>1, <1>9 DEF Told, Hosts
  <2> HIDE DEF n, p
  <2>3. /\ n \in Hosts /\ n.configured = host.configured /\ n.phase = "retained"
        /\ n.gen = host.gen /\ n.run = p /\ n.fault = host.fault
    <3>1. p \in Runs BY <2>1 DEF Sound, Kept
    <3> QED BY <1>1, <2>2, <3>1 DEF Hosts
  <2>4. Posts(host.gen, r, p) = <<>> BY <1>1, <2>1 DEF Posts, Alike
  <2>5. host' = n /\ worker' = worker /\ toWorker' = toWorker
    <3>1. toWorker \o <<>> = toWorker BY <1>1, AppendNothing
    <3> QED BY <1>5, <2>3, <2>4, <3>1
  <2>6. worker.phase = "idle" /\ t = <<>> BY <1>2, <1>3, <1>9 DEF Ends
  <2>7. Orders(host, worker, toWorker, toHost) BY <2>6 DEF Active
  <2>8. toWorker = <<>>
    <3>1. SUFFICES ASSUME toWorker # <<>> PROVE FALSE OBVIOUS
    <3>2. 1 \in 1 .. Len(toWorker) BY <1>1, <3>1, TailOf
    <3> QED BY <2>6, <2>7, <3>2 DEF Orders
  <2>9. r.flushSent BY <2>6, <2>7 DEF Orders
  <2>10. Parked(n, worker, toWorker, t)
    BY <2>1, <2>3, <2>6, <2>8, <2>9 DEF Parked, Active, Alike
  <2>11. Whole(n, worker, toWorker, t)
    BY <1>1, <1>3, <2>1, <2>3, <2>10 DEF Whole, Typed, Stands, Alike
  <2> QED BY <1>1, <2>5, <2>11 DEF Inv
<1> QED BY <1>2, <1>7, <1>8, <1>9

(* An event of a run is received: it is in turn, whichever it is.          *)
LEMMA ReceiveRunStep == ASSUME Inv, ReceiveRun PROVE Inv'
<1>1. /\ toHost \in Seq(Events) /\ toHost # <<>>
      /\ toHost[1].t # "configured" /\ toHost[1].t # "error" /\ Live
  BY DEF Inv, Whole, Typed, ReceiveRun
<1>2. Active(host, worker, toWorker, toHost)
  BY <1>1 DEF Live, Inv, Whole, Stands, Setup, Quiet, Starting, Parked, Ended
<1> QED BY <1>2, ReceiveClosing, ReceiveRunning DEF Active

----------------------------------------------------------------------------
(* The worker.                                                             *)

(* What is on its way to the host, once the worker has posted an answer.   *)
LEMMA AnswersPosted ==
  ASSUME NEW h, NEW w, NEW e \in Seq(Events), Answers(h, w, e), Owns(w),
         NEW x \in Events, x.t \in {"accepted", "frame", "flushed", "closed", "error"},
         x.t # "error" => x.run = h.gen, x.why # "protocol",
         x.t = "closed" => h.phase = "closing",
         x.t = "accepted" /\ h.phase = "running" => h.run.batch /\ ~Has(e, "accepted"),
         NEW v, v.phase = "idle" <=> Ends(x), v.phase = "terminal" <=> x.t = "error"
  PROVE  Answers(h, v, e \o <<x>>)
<1> DEFINE t == e \o <<x>>
           n == Len(e) + 1
<1>1. /\ Len(e) \in Nat /\ Len(t) = n /\ t # <<>> /\ t[n] = x
      /\ \A k \in 1 .. Len(e) : t[k] = e[k] /\ k # n
      /\ \A k \in 1 .. n : k \in 1 .. Len(e) \/ k = n
      /\ n \in 1 .. n
  BY AppendTo
<1>2. w.phase # "idle" /\ w.phase # "terminal" BY DEF Owns
<1>3. e # <<>> => t[1] = e[1] BY <1>1, TailOf
<1> HIDE DEF t, n
<1>4. \A k \in 1 .. Len(e) :
        /\ e[k].t # "configured" /\ e[k].t # "error" /\ ~Ends(e[k]) /\ e[k].run = h.gen
        /\ e[k].t = "closed" => h.phase = "closing"
        /\ e[k].t = "started" => k = 1 /\ (h.phase = "running" => ~h.run.started)
        /\ e[k].t = "accepted" /\ h.phase = "running" =>
             h.run.batch /\ \A j \in 1 .. Len(e) : e[j].t = "accepted" => j = k
  BY <1>2 DEF Answers
<1>5. ASSUME NEW k \in 1 .. n
      PROVE  /\ t[k].t # "configured"
             /\ t[k].t # "error" => t[k].run = h.gen
             /\ t[k].t = "error" => k = n /\ v.phase = "terminal" /\ t[k].why # "protocol"
             /\ Ends(t[k]) => k = n /\ v.phase = "idle"
             /\ t[k].t = "closed" => h.phase = "closing"
             /\ t[k].t = "started" => k = 1 /\ (h.phase = "running" => ~h.run.started)
  BY <1>1, <1>4
<1>6. ASSUME NEW k \in 1 .. n, t[k].t = "accepted", h.phase = "running"
      PROVE  h.run.batch /\ \A j \in 1 .. n : t[j].t = "accepted" => j = k
  BY <1>1, <1>4, <1>6 DEF Has
<1>7. h.phase = "running" /\ ~h.run.started => t # <<>> /\ t[1].t = "started"
  BY <1>1, <1>3 DEF Answers
<1>8. \A k \in 1 .. Len(t) :
       /\ t[k].t # "configured"
       /\ t[k].t # "error" => t[k].run = h.gen
       /\ t[k].t = "error" => k = Len(t) /\ v.phase = "terminal" /\ t[k].why # "protocol"
       /\ Ends(t[k]) => k = Len(t) /\ v.phase = "idle"
       /\ t[k].t = "closed" => h.phase = "closing"
       /\ t[k].t = "started" => k = 1 /\ (h.phase = "running" => ~h.run.started)
       /\ t[k].t = "accepted" /\ h.phase = "running" =>
            h.run.batch /\ \A j \in 1 .. Len(t) : t[j].t = "accepted" => j = k
  BY <1>1, <1>5, <1>6
<1> QED BY <1>1, <1>7, <1>8 DEF Answers, t

(* pump() of the worker moves samples and keeps their order.               *)
LEMMA FedFacts ==
  ASSUME NEW w \in Workers, NEW d \in Int, Len(w.queue) <= Ring,
         Consecutive(w.queue, d), Consecutive(w.pending, d + Len(w.queue)),
         NEW f, f = Fed(w)
  PROVE  /\ f \in Workers /\ f.held = w.held /\ f.given = w.given /\ f.run = w.run
         /\ Len(f.queue) + Len(f.pending) = Len(w.queue) + Len(w.pending) /\ Len(f.queue) <= Ring
         /\ Consecutive(f.queue, d) /\ Consecutive(f.pending, d + Len(f.queue))
         /\ f.phase \in {"ready", "accepting"}
         /\ f.phase = "ready" => f.pending = <<>>
<1> DEFINE k == Min({Len(w.pending), Ring - Len(w.queue)})
           m == Len(w.queue)
           l == Len(w.pending)
           head == SubSeq(w.pending, 1, k)
           rest == SubSeq(w.pending, k + 1, l)
<1>1. /\ w.queue \in Seq(Nat) /\ w.pending \in Seq(Nat) /\ m \in Nat /\ l \in Nat /\ Ring \in Nat
  BY LaneAssumption DEF Workers
<1>2. k \in Nat /\ k <= l /\ k <= Ring - m
  <2> DEFINE S == {l, Ring - m}
  <2>1. \E z \in S : \A y \in S : z <= y BY <1>1
  <2>2. Min(S) \in S /\ \A y \in S : Min(S) <= y
    <3> HIDE DEF S
    <3> QED BY <2>1 DEF Min
  <2> QED BY <1>1, <2>2
<1>3. f = [w EXCEPT !.queue = w.queue \o head, !.pending = rest,
                    !.phase = IF k = l THEN "ready" ELSE "accepting"]
  BY DEF Fed
<1> HIDE DEF k
<1>4. /\ head \in Seq(Nat) /\ Len(head) = k /\ \A j \in 1 .. k : head[j] = w.pending[j]
      /\ rest \in Seq(Nat) /\ Len(rest) = l - k /\ \A j \in 1 .. l - k : rest[j] = w.pending[k + j]
  <2>1. head \in Seq(Nat) /\ Len(head) = k /\ \A j \in 1 .. k : head[j] = w.pending[j]
    <3>1. \A j \in 1 .. k : j \in 1 .. l /\ w.pending[j] \in Nat BY <1>1, <1>2
    <3>2. k - 1 + 1 = k /\ (1 <= k \/ k = 0) /\ \A j \in 1 .. k : 1 + j - 1 = j BY <1>2
    <3> HIDE DEF l
    <3> QED BY <1>2, <3>1, <3>2, SubSeqProperties
  <2>2. rest \in Seq(Nat) /\ Len(rest) = l - k /\ \A j \in 1 .. l - k : rest[j] = w.pending[k + j]
    <3>1. \A j \in k + 1 .. l : w.pending[j] \in Nat BY <1>1, <1>2
    <3>2. /\ k + 1 \in Int /\ l \in Int /\ l - (k + 1) + 1 = l - k /\ (k + 1 <= l \/ l - k = 0)
          /\ \A j \in 1 .. l - k : (k + 1) + j - 1 = k + j
      BY <1>1, <1>2
    <3> HIDE DEF l
    <3>3. /\ rest \in Seq(Nat)
          /\ Len(rest) = IF k + 1 <= l THEN l - (k + 1) + 1 ELSE 0
          /\ \A j \in 1 .. l - (k + 1) + 1 : rest[j] = w.pending[(k + 1) + j - 1]
      BY <3>1, <3>2, SubSeqProperties
    <3> QED BY <1>1, <1>2, <3>2, <3>3
  <2> QED BY <2>1, <2>2
<1> DEFINE q == w.queue \o head
<1>5. /\ q \in Seq(Nat) /\ Len(q) = m + k
      /\ \A j \in 1 .. m + k : q[j] = IF j <= m THEN w.queue[j] ELSE head[j - m]
  <2> HIDE DEF head
  <2>1. Len(w.queue) = m /\ Len(head) = k BY <1>4
  <2>2. /\ w.queue \o head \in Seq(Nat)
        /\ Len(w.queue \o head) = Len(w.queue) + Len(head)
        /\ \A j \in 1 .. Len(w.queue) + Len(head) :
             (w.queue \o head)[j] = IF j <= Len(w.queue) THEN w.queue[j] ELSE head[j - Len(w.queue)]
    <3>1. w.queue \in Seq(Nat) /\ head \in Seq(Nat) BY <1>1, <1>4
    <3> QED BY <3>1, ConcatProperties, Zenon
  <2> QED BY <2>1, <2>2
<1>6. l - k = 0 => rest = <<>> BY <1>4, EmptySeq
<1> HIDE DEF head, rest, q
<1>7. /\ f \in Workers /\ f.held = w.held /\ f.given = w.given /\ f.run = w.run
      /\ f.queue = q /\ f.pending = rest
      /\ f.phase = IF k = l THEN "ready" ELSE "accepting"
  <2>1. f = [w EXCEPT !.queue = q, !.pending = rest,
                      !.phase = IF k = l THEN "ready" ELSE "accepting"]
    BY <1>3 DEF q
  <2> QED BY <1>4, <1>5, <2>1 DEF Workers
<1>8. Consecutive(q, d)
  <2>1. SUFFICES ASSUME NEW j \in 1 .. Len(q) PROVE q[j] = d + j BY DEF Consecutive
  <2>2. j \in 1 .. m + k BY <1>5
  <2>3. CASE j <= m
    <3>1. j \in 1 .. Len(w.queue) BY <1>1, <1>2, <2>2, <2>3
    <3> QED BY <1>5, <2>2, <2>3, <3>1 DEF Consecutive
  <2>4. CASE ~(j <= m)
    <3>1. j - m \in 1 .. k /\ j - m \in 1 .. Len(w.pending) BY <1>1, <1>2, <2>2, <2>4
    <3>2. q[j] = w.pending[j - m] BY <1>4, <1>5, <2>2, <2>4, <3>1
    <3>3. q[j] = (d + m) + (j - m) BY <3>1, <3>2 DEF Consecutive
    <3> HIDE DEF m
    <3>4. (d + m) + (j - m) = d + j BY <1>1, <1>2, <2>2
    <3> QED BY <3>3, <3>4
  <2> QED BY <2>3, <2>4
<1>9. Consecutive(rest, d + Len(q))
  <2>1. SUFFICES ASSUME NEW j \in 1 .. Len(rest) PROVE rest[j] = d + Len(q) + j BY DEF Consecutive
  <2>2. j \in 1 .. l - k /\ k + j \in 1 .. Len(w.pending) BY <1>1, <1>2, <1>4
  <2>3. rest[j] = (d + m) + (k + j) BY <1>4, <2>2 DEF Consecutive
  <2> HIDE DEF m, l
  <2>4. (d + m) + (k + j) = d + Len(q) + j BY <1>1, <1>2, <1>5, <2>2
  <2> QED BY <2>3, <2>4
<1>10. /\ Len(f.queue) + Len(f.pending) = m + l /\ Len(f.queue) <= Ring
       /\ f.phase = "ready" => f.pending = <<>>
  <2> HIDE DEF m, l
  <2>1. Len(q) + Len(rest) = m + l /\ Len(q) <= Ring BY <1>1, <1>2, <1>4, <1>5
  <2>2. k = l => rest = <<>> BY <1>2, <1>6
  <2> QED BY <1>7, <2>1, <2>2
<1> QED BY <1>7, <1>8, <1>9, <1>10

(* What the worker has in hand is in order, and what it decoded is held or *)
(* was given out.                                                          *)
InHand(h, w, c) ==
  /\ Decoded(h, w, c) >= 0 /\ Len(w.queue) <= Ring
  /\ Consecutive(w.pending, Offered(h, w, c))
  /\ Consecutive(w.queue, Decoded(h, w, c))
  /\ 0 .. w.given - 1 \subseteq Prefix(Decoded(h, w, c))
  /\ w.held = Prefix(Decoded(h, w, c)) \ (0 .. w.given - 1)

(* No command but a last close is on its way.                              *)
Drained(h, c) ==
  \A k \in 1 .. Len(c) :
    c[k].run = h.gen /\ c[k].t = "close" /\ k = Len(c) /\ h.phase = "closing"

(* No samples are on their way to a worker that has read all but a close.  *)
LEMMA DrainedFacts ==
  ASSUME NEW h \in Hosts, NEW c \in Seq(Commands), Drained(h, c)
  PROVE  /\ OnTheWay(c) = <<>> /\ Len(OnTheWay(c)) = 0 /\ Read(h, c) = h.run.next
         /\ h.phase # "closing" => c = <<>>
         /\ h.run.next \in 0 .. Len(Samples) /\ h.run.next \in Int
<1>1. c # <<>> => 1 \in 1 .. Len(c) BY TailOf
<1>2. OnTheWay(c) = <<>> BY <1>1 DEF Drained, OnTheWay
<1>3. h.run.next \in 0 .. Len(Samples) /\ h.run.next \in Int BY SampleFacts DEF Hosts, Runs
<1>4. Len(<<>>) = 0 OBVIOUS
<1> QED BY <1>1, <1>2, <1>3, <1>4 DEF Drained, Read

(* The events of the worker.                                               *)
LEMMA EventFacts ==
  ASSUME NEW g \in Nat
  PROVE  /\ \A t \in {"configured", "started", "accepted", "flushed", "closed"} :
              Event(t, g) \in Events /\ Event(t, g).t = t /\ Event(t, g).run = g
              /\ Event(t, g).why # "protocol"
         /\ \A why \in {"unsupported", "decoder"} :
              ErrorEvent(why) \in Events /\ ErrorEvent(why).t = "error" /\ ErrorEvent(why).why = why
BY DEF Event, ErrorEvent, Events

(* The worker feeds its decoder, and accepts the batch if that was all.    *)
LEMMA FedStep ==
  ASSUME NEW h, NEW w, NEW c, NEW e, Typed(h, w, c, e), h.configured,
         h.phase \in {"running", "closing"}, h.gen = w.run, Kept(h.run), Owns(w),
         Answers(h, w, e), Flow(h, w, e), Drained(h, c), InHand(h, w, c),
         h.phase = "running" => h.run.batch /\ ~Has(e, "accepted")
  PROVE  /\ Typed(h, Fed(w), c, e \o Accepted(Fed(w)))
         /\ Active(h, Fed(w), c, e \o Accepted(Fed(w)))
<1> DEFINE f == Fed(w)
           t == e \o Accepted(f)
           d == Decoded(h, w, c)
           x == Event("accepted", w.run)
<1>1. /\ h \in Hosts /\ w \in Workers /\ c \in Seq(Commands) /\ e \in Seq(Events)
      /\ w.run \in Nat /\ w.queue \in Seq(Nat) /\ w.pending \in Seq(Nat)
      /\ Len(w.queue) \in Nat /\ Len(w.pending) \in Nat
  BY DEF Typed, Workers
<1>2. /\ OnTheWay(c) = <<>> /\ Read(h, c) = h.run.next /\ (h.phase # "closing" => c = <<>>)
      /\ h.run.next \in Int
  BY <1>1, DrainedFacts
<1>3. /\ Offered(h, w, c) = h.run.next - Len(w.pending)
      /\ d = h.run.next - Len(w.pending) - Len(w.queue) /\ d \in Int
      /\ Offered(h, w, c) = d + Len(w.queue)
  BY <1>1, <1>2 DEF Offered, Decoded
<1> HIDE DEF d, f, x
<1>4. /\ d >= 0 /\ Len(w.queue) <= Ring /\ Consecutive(w.pending, d + Len(w.queue))
      /\ Consecutive(w.queue, d) /\ 0 .. w.given - 1 \subseteq Prefix(d)
      /\ w.held = Prefix(d) \ (0 .. w.given - 1)
  BY <1>3 DEF InHand, d
<1>5. /\ f \in Workers /\ f.held = w.held /\ f.given = w.given /\ f.run = w.run
      /\ Len(f.queue) + Len(f.pending) = Len(w.queue) + Len(w.pending) /\ Len(f.queue) <= Ring
      /\ Consecutive(f.queue, d) /\ Consecutive(f.pending, d + Len(f.queue))
      /\ f.phase \in {"ready", "accepting"}
      /\ f.phase = "ready" => f.pending = <<>>
  BY <1>1, <1>3, <1>4, FedFacts DEF f
<1>6. /\ Offered(h, f, c) = d + Len(f.queue) /\ Decoded(h, f, c) = d
  <2>1. Len(f.queue) \in Nat /\ Len(f.pending) \in Nat BY <1>5 DEF Workers
  <2>2. Offered(h, f, c) = h.run.next - Len(f.pending) BY <1>2 DEF Offered
  <2>3. Decoded(h, f, c) = Offered(h, f, c) - Len(f.queue) BY DEF Decoded
  <2>4. h.run.next - Len(f.pending) = d + Len(f.queue)
    <3>1. Len(w.queue) \in Nat /\ Len(w.pending) \in Nat /\ h.run.next \in Int BY <1>1, <1>2
    <3>2. d = h.run.next - Len(w.pending) - Len(w.queue) BY <1>3
    <3>3. Len(f.queue) + Len(f.pending) = Len(w.queue) + Len(w.pending) BY <1>5
    <3>4. PICK g \in Int : g = Len(f.queue) BY <2>1
    <3>5. PICK y \in Int : y = Len(f.pending) BY <2>1
    <3>6. PICK q \in Int : q = Len(w.queue) BY <3>1
    <3>7. PICK p \in Int : p = Len(w.pending) BY <3>1
    <3>8. PICK n \in Int : n = h.run.next BY <3>1
    <3>9. /\ g \in Int /\ y \in Int /\ q \in Int /\ p \in Int /\ n \in Int
          /\ g + y = q + p /\ d = n - p - q
      BY <3>2, <3>3, <3>4, <3>5, <3>6, <3>7, <3>8
    <3>10. n - y = d + g BY <3>9
    <3> QED BY <3>4, <3>5, <3>8, <3>10
  <2> QED BY <1>3, <2>1, <2>2, <2>3, <2>4
<1>7. Feeding(h, f, c)
  <2>1. Consecutive(OnTheWay(c), Read(h, c))
    <3>1. Len(<<>>) = 0 OBVIOUS
    <3> QED BY <1>2, <3>1 DEF Consecutive
  <2> QED BY <1>4, <1>5, <1>6, <2>1 DEF Feeding
<1>8. x \in Events /\ x.t = "accepted" /\ x.run = h.gen /\ x.why # "protocol"
  BY <1>1, EventFacts DEF x
<1>9. Accepted(f) = IF f.phase = "ready" THEN <<x>> ELSE <<>> BY <1>5 DEF Accepted, x
<1> HIDE DEF t
<1>10. /\ t \in Seq(Events) /\ Answers(h, f, t)
       /\ Distinct(t) /\ Arriving(t) = Arriving(e)
       /\ Has(t, "accepted") <=> Has(e, "accepted") \/ f.phase = "ready"
  <2>1. CASE f.phase = "ready"
    <3>1. t = e \o <<x>> BY <1>9, <2>1 DEF t
    <3>2. Answers(h, f, e \o <<x>>)
      <4>1. f.phase # "idle" /\ f.phase # "terminal" /\ ~Ends(x) BY <1>8, <2>1 DEF Ends
      <4> QED BY <1>1, <1>8, <4>1, AnswersPosted
    <3>3. Distinct(e \o <<x>>) /\ Arriving(e \o <<x>>) = Arriving(e) /\ Has(e \o <<x>>, "accepted")
      BY <1>1, <1>8, PostedFrames DEF Flow
    <3>4. e \o <<x>> \in Seq(Events) BY <1>1, <1>8, AppendTo
    <3> QED BY <2>1, <3>1, <3>2, <3>3, <3>4
  <2>2. CASE f.phase # "ready"
    <3>1. t = e BY <1>1, <1>9, <2>2, AppendNothing DEF t
    <3>2. Answers(h, f, e) BY <1>5 DEF Answers, Owns
    <3> QED BY <1>1, <2>2, <3>1, <3>2 DEF Flow
  <2> QED BY <2>1, <2>2
<1>11. Flow(h, f, t) BY <1>5, <1>10 DEF Flow, Owns
<1>12. Orders(h, f, c, t)
  <2>1. h.phase = "running" => ~h.run.flushSent BY DEF Kept
  <2> QED BY <1>2, <1>5, <1>10, <2>1 DEF Orders, Drained
<1>13. Active(h, f, c, t) BY <1>5, <1>7, <1>10, <1>11, <1>12 DEF Active
<1>14. Typed(h, f, c, t) BY <1>1, <1>5, <1>10 DEF Typed
<1> QED BY <1>13, <1>14 DEF f, t

(* The decoder has room again, and the worker goes on.                     *)
LEMMA DequeuedStep == ASSUME Inv, Dequeued PROVE Inv'
<1>1. worker.phase = "accepting" /\ Owns(worker) BY DEF Dequeued, Owns
<1>2. Active(host, worker, toWorker, toHost)
  BY <1>1 DEF Inv, Whole, Stands, Setup, Quiet, Starting, Parked, Ended
<1>3. /\ Typed(host, worker, toWorker, toHost) /\ Kept(host.run) /\ host.fault # "protocol"
      /\ Sound(host.run) /\ (host.phase \in {"running", "retained"} <=> ~host.run.closed)
  BY DEF Inv, Whole, Sound
<1>4. /\ host.configured /\ host.phase \in {"running", "closing"} /\ host.gen = worker.run
      /\ Answers(host, worker, toHost) /\ Flow(host, worker, toHost)
      /\ Orders(host, worker, toWorker, toHost) /\ Feeding(host, worker, toWorker)
  BY <1>1, <1>2 DEF Active
<1>5. Drained(host, toWorker) BY <1>1, <1>4 DEF Orders, Drained
<1>6. InHand(host, worker, toWorker) BY <1>4 DEF Feeding, InHand
<1>7. host.phase = "running" => host.run.batch /\ ~Has(toHost, "accepted") BY <1>1, <1>4 DEF Orders
<1>8. /\ Typed(host, Fed(worker), toWorker, toHost \o Accepted(Fed(worker)))
      /\ Active(host, Fed(worker), toWorker, toHost \o Accepted(Fed(worker)))
  BY <1>1, <1>3, <1>4, <1>5, <1>6, <1>7, FedStep
<1>9. /\ worker' = Fed(worker) /\ toHost' = toHost \o Accepted(Fed(worker))
      /\ host' = host /\ toWorker' = toWorker
  BY DEF Dequeued, WorkerGoes
<1> QED BY <1>3, <1>8, <1>9 DEF Inv, Whole, Stands

(* What holds when the worker owns the decoder of the run.                 *)
LEMMA OwnsFacts ==
  ASSUME Inv, Owns(worker)
  PROVE  /\ Active(host, worker, toWorker, toHost) /\ Typed(host, worker, toWorker, toHost)
         /\ host.configured /\ host.phase \in {"running", "closing"} /\ host.gen = worker.run
         /\ Answers(host, worker, toHost) /\ Flow(host, worker, toHost)
         /\ Orders(host, worker, toWorker, toHost) /\ Feeding(host, worker, toWorker)
         /\ Sound(host.run) /\ host.fault # "protocol" /\ host.gen \in Nat
         /\ (host.phase \in {"running", "retained"} <=> ~host.run.closed)
         /\ host.run.next \in 0 .. Len(Samples) /\ Len(Samples) \in Nat
<1>1. Active(host, worker, toWorker, toHost)
  BY DEF Owns, Inv, Whole, Stands, Setup, Quiet, Starting, Parked, Ended
<1>2. worker.phase # "terminal" BY DEF Owns
<1>3. Typed(host, worker, toWorker, toHost) /\ Sound(host.run) /\ host.fault # "protocol"
      /\ (host.phase \in {"running", "retained"} <=> ~host.run.closed)
  BY DEF Inv, Whole
<1>4. host.gen \in Nat /\ host.run.next \in 0 .. Len(Samples) /\ Len(Samples) \in Nat
  BY <1>3, SampleFacts DEF Typed, Hosts, Runs
<1> QED BY <1>1, <1>2, <1>3, <1>4 DEF Active

(* What was decoded is part of what was asked for.                         *)
LEMMA DecodedFits ==
  ASSUME NEW h, NEW w, NEW c, NEW e, Typed(h, w, c, e), Feeding(h, w, c)
  PROVE  /\ Decoded(h, w, c) \in 0 .. h.run.next /\ h.run.next \in 0 .. Len(Samples)
         /\ Len(w.queue) \in Nat /\ Len(w.pending) \in Nat /\ Len(OnTheWay(c)) \in Nat
         /\ Decoded(h, w, c) = h.run.next - Len(OnTheWay(c)) - Len(w.pending) - Len(w.queue)
         /\ Decoded(h, w, c) + Len(w.queue) <= h.run.next
         /\ Prefix(Decoded(h, w, c)) \subseteq Prefix(h.run.next)
<1>1. h.run.next \in 0 .. Len(Samples) /\ Len(Samples) \in Nat
  BY SampleFacts DEF Typed, Hosts, Runs
<1>2. Len(w.queue) \in Nat /\ Len(w.pending) \in Nat BY DEF Typed, Workers
<1>3. Len(OnTheWay(c)) \in Nat
  <2>1. c # <<>> => c[1] \in Commands BY TailOf DEF Typed
  <2>2. OnTheWay(c) \in Seq(Nat) BY <2>1 DEF OnTheWay, Commands
  <2> QED BY <2>2
<1>4. Decoded(h, w, c) = h.run.next - Len(OnTheWay(c)) - Len(w.pending) - Len(w.queue)
  BY DEF Decoded, Offered, Read
<1>5. Decoded(h, w, c) >= 0 BY DEF Feeding
<1>6. Decoded(h, w, c) \in 0 .. h.run.next /\ Decoded(h, w, c) + Len(w.queue) <= h.run.next
  <2>1. PICK next, way, pends, queues, done :
           /\ next = h.run.next /\ way = Len(OnTheWay(c)) /\ pends = Len(w.pending)
           /\ queues = Len(w.queue) /\ done = Decoded(h, w, c)
    BY Zenon
  <2>2. next \in Nat /\ way \in Nat /\ pends \in Nat /\ queues \in Nat
    BY <1>1, <1>2, <1>3, <2>1
  <2>3. done = next - way - pends - queues /\ done >= 0
    BY <1>4, <1>5, <2>1, Zenon
  <2>4. done \in 0 .. next /\ done + queues <= next
    BY <2>2, <2>3
  <2> QED BY <2>1, <2>4, Zenon
<1>7. Prefix(Decoded(h, w, c)) \subseteq Prefix(h.run.next)
  <2>1. Decoded(h, w, c) \in 0 .. Len(Samples) /\ Decoded(h, w, c) <= h.run.next BY <1>1, <1>6
  <2> QED BY <1>1, <2>1, PrefixFacts
<1> QED BY <1>1, <1>2, <1>3, <1>4, <1>6, <1>7

(* The decoder decodes the next sample.                                    *)
LEMMA DecodeStep == ASSUME Inv, Decode PROVE Inv'
<1> DEFINE w == worker
           d == Decoded(host, w, toWorker)
           v == [w EXCEPT !.queue = Tail(@), !.held = @ \cup Samples[Head(w.queue)]]
<1>1. Owns(w) /\ w.queue # <<>> BY DEF Decode
<1>2. /\ Active(host, w, toWorker, toHost) /\ Typed(host, w, toWorker, toHost)
      /\ Orders(host, w, toWorker, toHost) /\ Feeding(host, w, toWorker)
      /\ Answers(host, w, toHost) /\ Flow(host, w, toHost)
  BY <1>1, OwnsFacts
<1>3. /\ w \in Workers /\ w.queue \in Seq(Nat) /\ toHost \in Seq(Events) BY <1>2 DEF Typed, Workers
<1>4. /\ w.queue[1] = Head(w.queue) /\ Tail(w.queue) \in Seq(Nat) /\ Len(w.queue) \in Nat
      /\ Len(w.queue) >= 1 /\ Len(Tail(w.queue)) = Len(w.queue) - 1
      /\ \A k \in 1 .. Len(w.queue) - 1 : Tail(w.queue)[k] = w.queue[k + 1]
  BY <1>1, <1>3, TailOf
<1>5. /\ d \in 0 .. host.run.next /\ host.run.next \in 0 .. Len(Samples)
      /\ d + Len(w.queue) <= host.run.next /\ Len(Samples) \in Nat
  BY <1>2, DecodedFits, SampleFacts
<1>6. /\ w.held = Prefix(d) \ (0 .. w.given - 1) /\ 0 .. w.given - 1 \subseteq Prefix(d)
      /\ Consecutive(w.queue, d) /\ Len(w.queue) <= Ring
  BY <1>2 DEF Feeding
<1>7. d = Offered(host, w, toWorker) - Len(w.queue) BY DEF Decoded
<1> HIDE DEF d
<1>8. Head(w.queue) = d + 1 /\ d + 1 \in 1 .. Len(Samples) /\ d + 1 \in Nat
  BY <1>4, <1>5, <1>6 DEF Consecutive
<1>9. /\ Prefix(d + 1) = Prefix(d) \cup Samples[d + 1] /\ Prefix(d) \cap Samples[d + 1] = {}
      /\ Prefix(d + 1) \subseteq Frames
  <2>1. (d + 1) - 1 = d /\ d + 1 \in 0 .. Len(Samples) BY <1>5, <1>8
  <2> QED BY <1>8, <2>1, PrefixFacts
<1>10. /\ v \in Workers /\ v.phase = w.phase /\ v.run = w.run /\ v.pending = w.pending
       /\ v.given = w.given /\ v.queue = Tail(w.queue) /\ v.held = w.held \cup Samples[d + 1]
  <2>1. w.held \cup Samples[d + 1] \in SUBSET Frames BY <1>6, <1>9
  <2>2. v = [w EXCEPT !.queue = Tail(w.queue), !.held = w.held \cup Samples[d + 1]]
    BY <1>8
  <2> HIDE DEF v
  <2> QED BY <1>3, <1>4, <2>1, <2>2 DEF Workers
<1>11. /\ worker' = v /\ toHost' = toHost /\ host' = host /\ toWorker' = toWorker
  <2>1. /\ worker' = v /\ toHost' = toHost \o <<>> /\ host' = host /\ toWorker' = toWorker
    BY DEF Decode, WorkerGoes
  <2> QED BY <1>3, <2>1, AppendNothing
<1> HIDE DEF v
<1>12. /\ Offered(host, v, toWorker) = Offered(host, w, toWorker)
       /\ Decoded(host, v, toWorker) = d + 1
  <2>1. Offered(host, v, toWorker) = Offered(host, w, toWorker) BY <1>10 DEF Offered
  <2>2. Decoded(host, v, toWorker) = Offered(host, w, toWorker) - Len(Tail(w.queue))
    BY <1>10, <2>1 DEF Decoded
  <2>3. Offered(host, w, toWorker) \in Int
    <3>1. /\ host.run.next \in Int /\ Len(w.pending) \in Int /\ Len(OnTheWay(toWorker)) \in Int
      BY <1>2, DecodedFits
    <3> QED BY <3>1 DEF Offered, Read
  <2> QED BY <1>4, <1>5, <1>7, <2>1, <2>2, <2>3
<1>13. Consecutive(v.queue, d + 1)
  <2>1. SUFFICES ASSUME NEW k \in 1 .. Len(v.queue) PROVE v.queue[k] = d + 1 + k BY DEF Consecutive
  <2>2. k \in 1 .. Len(w.queue) - 1 /\ k + 1 \in 1 .. Len(w.queue) BY <1>4, <1>10
  <2>3. v.queue[k] = w.queue[k + 1] BY <1>4, <1>10, <2>2
  <2>4. w.queue[k + 1] = d + (k + 1) BY <1>6, <2>2 DEF Consecutive
  <2> QED BY <1>5, <2>2, <2>3, <2>4
<1>14. v.held = Prefix(d + 1) \ (0 .. v.given - 1) /\ 0 .. v.given - 1 \subseteq Prefix(d + 1)
  BY <1>6, <1>9, <1>10
<1>15. Feeding(host, v, toWorker)
  <2>1. Len(v.queue) <= Ring
    <3>1. Ring \in Nat BY LaneAssumption
    <3> QED BY <1>4, <1>6, <1>10, <3>1
  <2> QED BY <1>2, <1>5, <1>10, <1>12, <1>13, <1>14, <2>1 DEF Feeding
<1>16. Active(host, v, toWorker, toHost)
  <2>1. Answers(host, v, toHost) BY <1>2, <1>10 DEF Answers
  <2>2. Flow(host, v, toHost) BY <1>2, <1>10 DEF Flow
  <2>3. Orders(host, v, toWorker, toHost) BY <1>2, <1>10 DEF Orders
  <2> QED BY <1>2, <1>10, <1>15, <2>1, <2>2, <2>3 DEF Active
<1>17. Typed(host, v, toWorker, toHost) BY <1>2, <1>10 DEF Typed
<1> QED BY <1>1, <1>11, <1>16, <1>17, OwnsFacts DEF Inv, Whole, Stands

(* What the worker says while it owns the decoder, and the run still waits.*)
LEMMA PostedTyped ==
  ASSUME NEW e \in Seq(Events), NEW x \in Events
  PROVE  e \o <<x>> \in Seq(Events)
BY AppendTo

(* The decoder gives a frame out.                                          *)
LEMMA OutputStep == ASSUME Inv, Output PROVE Inv'
<1> DEFINE w == worker
           d == Decoded(host, w, toWorker)
           v == [w EXCEPT !.given = @ + 1, !.held = @ \ {w.given}]
           x == [Event("frame", w.run) EXCEPT !.frame = w.given]
           i == w.given
<1>1. Owns(w) /\ i \in w.held BY DEF Output
<1>2. /\ Active(host, w, toWorker, toHost) /\ Typed(host, w, toWorker, toHost)
      /\ Orders(host, w, toWorker, toHost) /\ Feeding(host, w, toWorker)
      /\ Answers(host, w, toHost) /\ Flow(host, w, toHost) /\ host.gen = w.run
  BY <1>1, OwnsFacts
<1>3. /\ w \in Workers /\ toHost \in Seq(Events) /\ i \in Nat /\ w.run \in Nat
      /\ w.held \in SUBSET Frames
  BY <1>2 DEF Typed, Workers
<1>4. /\ w.held = Prefix(d) \ (0 .. i - 1) /\ 0 .. i - 1 \subseteq Prefix(d)
      /\ Prefix(d) \subseteq Prefix(host.run.next)
  BY <1>2, DecodedFits DEF Feeding
<1> HIDE DEF d
<1>5. /\ v \in Workers /\ v.phase = w.phase /\ v.run = w.run /\ v.pending = w.pending
      /\ v.given = i + 1 /\ v.queue = w.queue /\ v.held = w.held \ {i}
  <2>1. i + 1 \in Nat /\ w.held \ {i} \in SUBSET Frames BY <1>3
  <2> QED BY <1>3, <2>1 DEF Workers
<1>6. x \in Events /\ x.t = "frame" /\ x.run = w.run /\ x.frame = i /\ x.why = "none"
  BY <1>3 DEF Event, Events
<1>7. /\ worker' = v /\ host' = host /\ toWorker' = toWorker
      /\ toHost' = toHost \o (IF w.phase = "closing" THEN <<>> ELSE <<x>>)
  BY DEF Output, WorkerGoes, Gives
<1> HIDE DEF v, x, i
<1>8. 0 .. v.given - 1 = (0 .. i - 1) \cup {i}
  <2>1. 0 .. (i + 1) - 1 = (0 .. i - 1) \cup {i} BY <1>3
  <2> QED BY <1>5, <2>1
<1>9. i \in Prefix(d) /\ i \notin 0 .. i - 1 BY <1>1, <1>4
<1>10. Feeding(host, v, toWorker)
  <2>1. /\ Decoded(host, v, toWorker) = d /\ Offered(host, v, toWorker) = Offered(host, w, toWorker)
    BY <1>5 DEF Decoded, Offered, d
  <2>2. v.held = Prefix(d) \ (0 .. v.given - 1) /\ 0 .. v.given - 1 \subseteq Prefix(d)
    BY <1>4, <1>5, <1>8, <1>9
  <2> QED BY <1>2, <1>5, <2>1, <2>2 DEF Feeding, d
<1>11. Owns(v) BY <1>1, <1>5 DEF Owns
<1>12. CASE w.phase = "closing"
  <2>1. toHost' = toHost BY <1>3, <1>7, <1>12, AppendNothing
  <2>2. host.phase = "closing" BY <1>2, <1>12 DEF Orders
  <2>3. Answers(host, v, toHost) BY <1>2, <1>5 DEF Answers
  <2>4. Flow(host, v, toHost)
    <3>1. /\ Distinct(toHost) /\ Arriving(toHost) \cap host.run.seen = {}
          /\ Arriving(toHost) \cup host.run.seen \subseteq 0 .. i - 1
      BY <1>2 DEF Flow, i
    <3> QED BY <1>4, <1>8, <1>9, <2>2, <3>1 DEF Flow
  <2>5. Orders(host, v, toWorker, toHost) BY <1>2, <1>5 DEF Orders
  <2>6. Active(host, v, toWorker, toHost) BY <1>2, <1>5, <1>10, <2>3, <2>4, <2>5 DEF Active
  <2>7. Typed(host, v, toWorker, toHost) BY <1>2, <1>5 DEF Typed
  <2> QED BY <1>1, <1>7, <2>1, <2>6, <2>7, OwnsFacts DEF Inv, Whole, Stands
<1>13. CASE w.phase # "closing"
  <2> DEFINE t == toHost \o <<x>>
  <2>1. toHost' = t BY <1>7, <1>13
  <2>2. t \in Seq(Events) BY <1>3, <1>6, PostedTyped
  <2>3. Answers(host, v, t)
    <3>1. ~Ends(x) /\ v.phase # "idle" /\ v.phase # "terminal"
      BY <1>6, <1>11 DEF Ends, Owns
    <3> QED BY <1>1, <1>2, <1>3, <1>6, <3>1, AnswersPosted
  <2>4. Distinct(t) /\ Arriving(t) = Arriving(toHost) \cup {i} /\ (Has(t, "accepted") <=> Has(toHost, "accepted"))
    <3>1. i \notin Arriving(toHost) BY <1>2, <1>9 DEF Flow, i
    <3> QED BY <1>2, <1>3, <1>6, <3>1, PostedFrames DEF Flow
  <2> HIDE DEF t
  <2>5. Flow(host, v, t)
    <3>1. /\ Arriving(toHost) \cap host.run.seen = {}
          /\ Arriving(toHost) \cup host.run.seen \subseteq 0 .. i - 1
          /\ host.phase = "running" => Arriving(toHost) \cup host.run.seen = 0 .. i - 1
      BY <1>2 DEF Flow, i
    <3>2. v.phase # "idle" BY <1>11 DEF Owns
    <3> QED BY <1>4, <1>8, <1>9, <2>4, <3>1, <3>2 DEF Flow
  <2>6. Orders(host, v, toWorker, t) BY <1>2, <1>5, <2>4 DEF Orders
  <2>7. Active(host, v, toWorker, t) BY <1>2, <1>5, <1>10, <2>3, <2>5, <2>6 DEF Active
  <2>8. Typed(host, v, toWorker, t) BY <1>2, <1>5, <2>2 DEF Typed
  <2> QED BY <1>1, <1>7, <2>1, <2>7, <2>8, OwnsFacts DEF Inv, Whole, Stands
<1> QED BY <1>12, <1>13

(* A worker that is done with its run.                                     *)
LEMMA RetiredFacts ==
  ASSUME NEW w \in Workers
  PROVE  /\ Retired(w) \in Workers /\ Retired(w).phase = "idle" /\ Retired(w).run = w.run
         /\ Retired(w).given = w.given
<1>1. <<>> \in Seq(Nat) OBVIOUS
<1> QED BY <1>1 DEF Retired, Workers

(* The decoder is flushed: all frames of the run were given out.           *)
LEMMA FinishFlushStep == ASSUME Inv, FinishFlush PROVE Inv'
<1> DEFINE w == worker
           v == Retired(w)
           x == Event("flushed", w.run)
           t == toHost \o <<x>>
<1>1. /\ w.phase = "flushing" /\ w.queue = <<>> /\ w.held = {} /\ Owns(w)
      /\ worker' = v /\ host' = host /\ toWorker' = toWorker /\ toHost' = t
  BY DEF FinishFlush, FlushDone, WorkerGoes, Owns
<1>2. /\ Active(host, w, toWorker, toHost) /\ Typed(host, w, toWorker, toHost)
      /\ Orders(host, w, toWorker, toHost) /\ Feeding(host, w, toWorker)
      /\ Answers(host, w, toHost) /\ Flow(host, w, toHost) /\ host.gen = w.run
      /\ Sound(host.run) /\ host.phase \in {"running", "closing"}
      /\ host.run.next \in 0 .. Len(Samples) /\ Len(Samples) \in Nat
  BY <1>1, OwnsFacts
<1>3. /\ w \in Workers /\ toHost \in Seq(Events) /\ w.run \in Nat /\ w.pending = <<>>
      /\ toWorker \in Seq(Commands) /\ host \in Hosts
  BY <1>1, <1>2 DEF Typed, Workers, Feeding
<1>4. v \in Workers /\ v.phase = "idle" /\ v.run = w.run /\ v.given = w.given
  BY <1>3, RetiredFacts
<1>5. x \in Events /\ x.t = "flushed" /\ x.run = host.gen /\ x.why # "protocol"
  BY <1>2, <1>3, EventFacts
<1> HIDE DEF v, x
<1>6. t \in Seq(Events) BY <1>3, <1>5, PostedTyped
<1>7. Answers(host, v, t)
  <2>1. Ends(x) BY <1>5 DEF Ends
  <2> QED BY <1>1, <1>2, <1>3, <1>4, <1>5, <2>1, AnswersPosted
<1>8. Distinct(t) /\ Arriving(t) = Arriving(toHost) /\ (Has(t, "accepted") <=> Has(toHost, "accepted"))
  BY <1>2, <1>3, <1>5, PostedFrames DEF Flow
<1> HIDE DEF t
<1>9. Drained(host, toWorker) BY <1>1, <1>2 DEF Orders, Drained
<1>10. Decoded(host, w, toWorker) = host.run.next
  <2>1. OnTheWay(toWorker) = <<>> BY <1>3, <1>9, DrainedFacts
  <2>2. Decoded(host, w, toWorker) = host.run.next - Len(<<>>) - Len(<<>>) - Len(<<>>)
    BY <1>1, <1>3, <2>1 DEF Decoded, Offered, Read
  <2>3. Len(<<>>) = 0 OBVIOUS
  <2> QED BY <1>2, <2>2, <2>3
<1>11. 0 .. w.given - 1 = Prefix(host.run.next)
  BY <1>1, <1>2, <1>10 DEF Feeding
<1>12. host.phase = "running" => host.run.flushSent /\ ~Has(toHost, "accepted")
  BY <1>1, <1>2 DEF Orders
<1>13. host.phase = "running" => 0 .. w.given - 1 = Frames
  <2>1. host.phase = "running" => host.run.next = Len(Samples) BY <1>2, <1>12 DEF Sound, Kept
  <2> QED BY <1>11, <2>1, SampleFacts
<1>14. Flow(host, v, t) BY <1>2, <1>4, <1>8, <1>13 DEF Flow
<1>15. Orders(host, v, toWorker, t)
  <2>1. host.phase = "running" => toWorker = <<>> BY <1>3, <1>9, DrainedFacts
  <2> QED BY <1>4, <1>8, <1>9, <1>12, <2>1 DEF Orders, Drained
<1>16. Active(host, v, toWorker, t)
  <2>1. ~Owns(v) BY <1>4 DEF Owns
  <2> QED BY <1>2, <1>4, <1>7, <1>14, <1>15, <2>1 DEF Active
<1>17. Typed(host, v, toWorker, t) BY <1>2, <1>4, <1>6 DEF Typed
<1> QED BY <1>1, <1>16, <1>17, OwnsFacts DEF Inv, Whole, Stands

(* The worker is done with a run that was closed.                          *)
LEMMA FinishCloseStep == ASSUME Inv, FinishClose PROVE Inv'
<1> DEFINE w == worker
           v == Retired(w)
           x == Event("closed", w.run)
           t == toHost \o <<x>>
<1>1. /\ w.phase = "closing" /\ Owns(w)
      /\ worker' = v /\ host' = host /\ toWorker' = toWorker /\ toHost' = t
  BY DEF FinishClose, WorkerGoes, Owns
<1>2. /\ Active(host, w, toWorker, toHost) /\ Typed(host, w, toWorker, toHost)
      /\ Orders(host, w, toWorker, toHost) /\ Answers(host, w, toHost) /\ Flow(host, w, toHost)
      /\ host.gen = w.run /\ host.phase \in {"running", "closing"}
  BY <1>1, OwnsFacts
<1>3. w \in Workers /\ toHost \in Seq(Events) /\ w.run \in Nat
      /\ host.phase = "closing" /\ toWorker = <<>>
  BY <1>1, <1>2 DEF Typed, Workers, Orders
<1>4. v \in Workers /\ v.phase = "idle" /\ v.run = w.run /\ v.given = w.given
  BY <1>3, RetiredFacts
<1>5. x \in Events /\ x.t = "closed" /\ x.run = host.gen /\ x.why # "protocol"
  BY <1>2, <1>3, EventFacts
<1> HIDE DEF v, x
<1>6. t \in Seq(Events) BY <1>3, <1>5, PostedTyped
<1>7. Answers(host, v, t)
  <2>1. Ends(x) BY <1>5 DEF Ends
  <2> QED BY <1>1, <1>2, <1>3, <1>4, <1>5, <2>1, AnswersPosted
<1>8. Distinct(t) /\ Arriving(t) = Arriving(toHost)
  BY <1>2, <1>3, <1>5, PostedFrames DEF Flow
<1> HIDE DEF t
<1>9. Flow(host, v, t) BY <1>2, <1>3, <1>4, <1>8 DEF Flow
<1>10. Orders(host, v, toWorker, t) BY <1>2, <1>3, <1>4 DEF Orders
<1>11. Active(host, v, toWorker, t)
  <2>1. ~Owns(v) BY <1>4 DEF Owns
  <2> QED BY <1>2, <1>4, <1>7, <1>9, <1>10, <2>1 DEF Active
<1>12. Typed(host, v, toWorker, t) BY <1>2, <1>4, <1>6 DEF Typed
<1> QED BY <1>1, <1>11, <1>12, OwnsFacts DEF Inv, Whole, Stands

(* The decoder fails.                                                      *)
LEMMA DecoderFailsStep == ASSUME Inv, DecoderFails PROVE Inv'
<1> DEFINE w == worker
           v == [w EXCEPT !.phase = "terminal"]
           x == ErrorEvent("decoder")
           t == toHost \o <<x>>
<1>1. /\ Owns(w) /\ worker' = v /\ host' = host /\ toWorker' = toWorker /\ toHost' = t
  BY DEF DecoderFails, WorkerGoes
<1>2. /\ Active(host, w, toWorker, toHost) /\ Typed(host, w, toWorker, toHost)
      /\ Answers(host, w, toHost) /\ Flow(host, w, toHost)
      /\ host.gen = w.run /\ host.phase \in {"running", "closing"}
  BY <1>1, OwnsFacts
<1>3. w \in Workers /\ toHost \in Seq(Events) /\ w.run \in Nat
  BY <1>2 DEF Typed, Workers
<1>4. v \in Workers /\ v.phase = "terminal" /\ v.run = w.run /\ v.given = w.given
  BY <1>3 DEF Workers
<1>5. x \in Events /\ x.t = "error" /\ x.why # "protocol"
  BY <1>3, EventFacts
<1> HIDE DEF v, x
<1>6. t \in Seq(Events) BY <1>3, <1>5, PostedTyped
<1>7. Answers(host, v, t)
  <2>1. ~Ends(x) BY <1>5 DEF Ends
  <2> QED BY <1>1, <1>2, <1>3, <1>4, <1>5, <2>1, AnswersPosted
<1>8. Distinct(t) /\ Arriving(t) = Arriving(toHost)
  BY <1>2, <1>3, <1>5, PostedFrames DEF Flow
<1> HIDE DEF t
<1>9. Flow(host, v, t) BY <1>2, <1>4, <1>8 DEF Flow
<1>10. Active(host, v, toWorker, t)
  <2>1. ~Owns(v) BY <1>4 DEF Owns
  <2> QED BY <1>2, <1>4, <1>7, <1>9, <2>1 DEF Active
<1>11. Typed(host, v, toWorker, t) BY <1>2, <1>4, <1>6 DEF Typed
<1> QED BY <1>1, <1>10, <1>11, OwnsFacts DEF Inv, Whole, Stands

(* The configuration is supported.                                         *)
LEMMA SupportedStep == ASSUME Inv, Supported PROVE Inv'
<1> DEFINE v == [worker EXCEPT !.phase = "idle"]
           x == Event("configured", 0)
<1>1. /\ worker.phase = "configuring" /\ worker' = v /\ host' = host /\ toWorker' = toWorker
      /\ toHost' = toHost \o <<x>>
  BY DEF Supported, WorkerGoes
<1>2. Setup(host, worker, toWorker, toHost)
  BY <1>1
  DEF Inv, Whole, Stands, Quiet, Starting, Active, Orders, Parked, Ended
<1>3. toHost = <<>> /\ toWorker = <<>> /\ worker \in Workers
  BY <1>1, <1>2 DEF Setup, Inv, Whole, Typed
<1>4. v \in Workers /\ v.phase = "idle" /\ v.run = worker.run BY <1>3 DEF Workers
<1>5. x \in Events /\ x.t = "configured" BY EventFacts
<1> HIDE DEF v, x
<1>6. toHost' = <<x>>
  <2>1. <<>> \o <<x>> = <<x>> OBVIOUS
  <2> QED BY <1>1, <1>3, <2>1
<1>7. <<x>> \in Seq(Events) /\ Len(<<x>>) = 1 /\ <<x>>[1] = x BY <1>5
<1> DEFINE t == <<x>>
<1> HIDE DEF t
<1>8. Setup(host, v, toWorker, t) BY <1>2, <1>3, <1>4, <1>5, <1>7 DEF Setup, t
<1>9. Typed(host, v, toWorker, t) BY <1>3, <1>4, <1>7 DEF Inv, Whole, Typed, t
<1> QED BY <1>1, <1>6, <1>8, <1>9 DEF Inv, Whole, Stands, t

(* The configuration is not supported.                                     *)
LEMMA UnsupportedStep == ASSUME Inv, Unsupported PROVE Inv'
<1> DEFINE v == [worker EXCEPT !.phase = "terminal"]
           x == ErrorEvent("unsupported")
<1>1. /\ worker.phase = "configuring" /\ worker' = v /\ host' = host /\ toWorker' = toWorker
      /\ toHost' = toHost \o <<x>>
  BY DEF Unsupported, WorkerGoes
<1>2. Setup(host, worker, toWorker, toHost)
  BY <1>1
  DEF Inv, Whole, Stands, Quiet, Starting, Active, Orders, Parked, Ended
<1>3. toHost = <<>> /\ toWorker = <<>> /\ worker \in Workers
  BY <1>1, <1>2 DEF Setup, Inv, Whole, Typed
<1>4. v \in Workers /\ v.phase = "terminal" /\ v.run = worker.run BY <1>3 DEF Workers
<1>5. x \in Events /\ x.t = "error" /\ x.why # "protocol" BY EventFacts
<1> HIDE DEF v, x
<1>6. toHost' = <<x>>
  <2>1. <<>> \o <<x>> = <<x>> OBVIOUS
  <2> QED BY <1>1, <1>3, <2>1
<1>7. <<x>> \in Seq(Events) /\ Len(<<x>>) = 1 /\ <<x>>[1] = x BY <1>5
<1> DEFINE t == <<x>>
<1> HIDE DEF t
<1>8. Setup(host, v, toWorker, t) BY <1>2, <1>3, <1>4, <1>5, <1>7 DEF Setup, t
<1>9. Typed(host, v, toWorker, t) BY <1>3, <1>4, <1>7 DEF Inv, Whole, Typed, t
<1> QED BY <1>1, <1>6, <1>8, <1>9 DEF Inv, Whole, Stands, t

(* The worker hears a command.  A lane that is set up, quiet or starting.  *)
LEMMA HearConfigure ==
  ASSUME Inv, WorkerReceive, Setup(host, worker, toWorker, toHost) PROVE Inv'
<1> DEFINE v == [worker EXCEPT !.phase = "configuring"]
<1>1. /\ worker.phase = "unconfigured" /\ Len(toWorker) = 1 /\ toWorker # <<>>
      /\ toWorker[1].t = "configure" /\ toHost = <<>>
  <2>1. toWorker # <<>> BY DEF WorkerReceive
  <2> QED BY <2>1 DEF Setup
<1>2. /\ worker \in Workers /\ toWorker \in Seq(Commands) /\ toHost \in Seq(Events)
  BY DEF Inv, Whole, Typed
<1>3. Head(toWorker) = toWorker[1] /\ Tail(toWorker) = <<>> BY <1>1, <1>2, TailOf
<1>4. ~Misuse(worker, toWorker[1]) /\ Handled(worker, toWorker[1]) = v
  BY <1>1 DEF Misuse, Handled
<1>5. WorkerGoes(v, <<>>) /\ toWorker' = <<>>
  <2> HIDE DEF v
  <2> QED BY <1>1, <1>3, <1>4 DEF WorkerReceive
<1>6. worker' = v /\ toHost' = toHost /\ host' = host
  BY <1>2, <1>5, AppendNothing DEF WorkerGoes
<1>7. v \in Workers /\ v.phase = "configuring" /\ v.run = worker.run BY <1>2 DEF Workers
<1> HIDE DEF v
<1>8. <<>> \in Seq(Commands) OBVIOUS
<1>9. Setup(host, v, <<>>, toHost) BY <1>1, <1>7 DEF Setup
<1>10. Typed(host, v, <<>>, toHost) BY <1>2, <1>7, <1>8 DEF Inv, Whole, Typed
<1> QED BY <1>5, <1>6, <1>9, <1>10 DEF Inv, Whole, Stands

(* A close that came after the flush: the worker is idle and ignores it.   *)
LEMMA HearLateClose ==
  ASSUME Inv, WorkerReceive, Quiet(host, worker, toWorker, toHost) PROVE Inv'
<1>1. /\ worker.phase = "idle" /\ Len(toWorker) = 1 /\ toWorker # <<>>
      /\ toWorker[1].t = "close" /\ toWorker[1].run = worker.run
  <2>1. toWorker # <<>> BY DEF WorkerReceive
  <2> QED BY <2>1 DEF Quiet
<1>2. /\ worker \in Workers /\ toWorker \in Seq(Commands) /\ toHost \in Seq(Events)
      /\ worker.run \in Nat
  BY DEF Inv, Whole, Typed, Workers
<1>3. Head(toWorker) = toWorker[1] /\ Tail(toWorker) = <<>> BY <1>1, <1>2, TailOf
<1>4. ~Misuse(worker, toWorker[1]) /\ Handled(worker, toWorker[1]) = worker
  BY <1>1, <1>2 DEF Misuse, Handled, Owns
<1>5. WorkerGoes(worker, <<>>) /\ toWorker' = <<>>
  BY <1>1, <1>3, <1>4 DEF WorkerReceive
<1>6. worker' = worker /\ toHost' = toHost /\ host' = host
  BY <1>2, <1>5, AppendNothing DEF WorkerGoes
<1>7. <<>> \in Seq(Commands) OBVIOUS
<1>8. Quiet(host, worker, <<>>, toHost) BY DEF Quiet
<1>9. Typed(host, worker, <<>>, toHost) BY <1>7 DEF Inv, Whole, Typed
<1> QED BY <1>5, <1>6, <1>8, <1>9 DEF Inv, Whole, Stands

(* The worker begins the run, or hears first of the end of the last one.   *)
LEMMA HearStart ==
  ASSUME Inv, WorkerReceive, Starting(host, worker, toWorker, toHost) PROVE Inv'
<1>1. /\ worker \in Workers /\ toWorker \in Seq(Commands) /\ toHost \in Seq(Events)
      /\ worker.run \in Nat /\ host \in Hosts /\ host.gen \in Nat /\ Sound(host.run)
      /\ worker.phase = "idle" /\ host.gen = worker.run + 1 /\ toHost = <<>> /\ toWorker # <<>>
      /\ ~host.run.started
  <2>1. Typed(host, worker, toWorker, toHost) /\ Sound(host.run) BY DEF Inv, Whole
  <2>2. worker.run \in Nat /\ host.gen \in Nat BY <2>1 DEF Typed, Hosts, Workers
  <2>3. toWorker # <<>> BY DEF WorkerReceive
  <2> QED BY <2>1, <2>2, <2>3 DEF Typed, Starting
<1>2. PICK i \in {1, 2} :
        /\ Len(toWorker) = i + IF host.phase = "closing" THEN 1 ELSE 0
        /\ toWorker[i].t = "start" /\ toWorker[i].run = host.gen
        /\ i = 2 => toWorker[1].t = "close" /\ toWorker[1].run = worker.run
        /\ host.phase = "closing" => toWorker[i + 1].t = "close" /\ toWorker[i + 1].run = host.gen
  BY DEF Starting
<1> DEFINE c == Tail(toWorker)
<1>3. /\ Head(toWorker) = toWorker[1] /\ c \in Seq(Commands) /\ Len(c) = Len(toWorker) - 1
      /\ \A k \in 1 .. Len(toWorker) - 1 : c[k] = toWorker[k + 1]
      /\ (c = <<>> <=> Len(toWorker) = 1) /\ toWorker' = c
  BY <1>1, TailOf DEF WorkerReceive
<1> HIDE DEF c
<1>4. CASE i = 2
  <2>1. ~Misuse(worker, toWorker[1]) /\ Handled(worker, toWorker[1]) = worker
    <3>1. toWorker[1].t = "close" /\ toWorker[1].run = worker.run BY <1>2, <1>4
    <3>2. ~(toWorker[1].run > worker.run) BY <1>1, <3>1
    <3>3. worker.phase = "idle" BY <1>1
    <3> QED BY <3>1, <3>2, <3>3 DEF Misuse, Handled, Owns
  <2>2. WorkerGoes(worker, <<>>) BY <1>2, <1>3, <1>4, <2>1 DEF WorkerReceive
  <2>3. worker' = worker /\ toHost' = toHost /\ host' = host
    BY <1>1, <2>2, AppendNothing DEF WorkerGoes
  <2>4. /\ Len(c) = 1 + IF host.phase = "closing" THEN 1 ELSE 0
        /\ c[1] = toWorker[2]
        /\ host.phase = "closing" => c[2] = toWorker[3]
    BY <1>2, <1>3, <1>4
  <2>5. Starting(host, worker, c, toHost)
    <3>1. \E j \in {1, 2} :
            /\ Len(c) = j + IF host.phase = "closing" THEN 1 ELSE 0
            /\ c[j].t = "start" /\ c[j].run = host.gen
            /\ j = 2 => c[1].t = "close" /\ c[1].run = worker.run
            /\ host.phase = "closing" => c[j + 1].t = "close" /\ c[j + 1].run = host.gen
      BY <1>2, <1>4, <2>4
    <3> QED BY <3>1 DEF Starting
  <2>6. Typed(host, worker, c, toHost) BY <1>1, <1>3 DEF Typed
  <2> QED BY <1>3, <2>3, <2>5, <2>6 DEF Inv, Whole, Stands
<1>5. CASE i = 1
  <2> DEFINE v == [phase |-> "ready", run |-> host.gen, pending |-> <<>>, queue |-> <<>>,
                   held |-> {}, given |-> 0]
             x == Event("started", host.gen)
             t == <<x>>
  <2>1. ~Misuse(worker, toWorker[1]) /\ Handled(worker, toWorker[1]) = v
    <3>1. toWorker[1].t = "start" /\ toWorker[1].run = host.gen BY <1>2, <1>5
    <3>2. ~(toWorker[1].run <= worker.run) BY <1>1, <3>1
    <3>3. worker.phase = "idle" BY <1>1
    <3> QED BY <3>1, <3>2, <3>3 DEF Misuse, Handled
  <2>2. v \in Workers
    <3>1. <<>> \in Seq(Nat) OBVIOUS
    <3> QED BY <1>1, <3>1 DEF Workers
  <2>3. /\ v.phase = "ready" /\ v.run = host.gen /\ v.pending = <<>> /\ v.queue = <<>>
        /\ v.held = {} /\ v.given = 0
    OBVIOUS
  <2> HIDE DEF v
  <2>4. WorkerGoes(v, <<x>>) BY <1>2, <1>3, <1>5, <2>1 DEF WorkerReceive
  <2>5. x \in Events /\ x.t = "started" /\ x.run = host.gen BY <1>1, EventFacts
  <2> HIDE DEF x
  <2>6. t \in Seq(Events) /\ Len(t) = 1 /\ t[1] = x /\ t # <<>>
    <3>1. Len(<<>>) = 0 OBVIOUS
    <3> QED BY <2>5, <3>1
  <2>7. worker' = v /\ toHost' = t /\ host' = host
    <3>1. <<>> \o <<x>> = <<x>> OBVIOUS
    <3> QED BY <1>1, <2>4, <3>1 DEF WorkerGoes
  <2> HIDE DEF t
  <2>8. Drained(host, c)
    <3>1. \A k \in 1 .. Len(c) : k = 1 /\ host.phase = "closing" /\ c[1] = toWorker[2] /\ Len(c) = 1
      BY <1>2, <1>3, <1>5
    <3> QED BY <1>2, <1>5, <3>1 DEF Drained
  <2>9. /\ OnTheWay(c) = <<>> /\ Read(host, c) = host.run.next
        /\ host.phase # "closing" => c = <<>>
    BY <1>1, <1>3, <2>8, DrainedFacts
  <2>10. host.run.next = 0 /\ ~host.run.batch /\ ~host.run.flushSent /\ host.run.seen = {}
    <3>1. host.run.next = 0 /\ ~host.run.batch /\ ~host.run.flushSent
      BY <1>1 DEF Sound, Kept
    <3>2. host.run.seen \subseteq Prefix(0) BY <1>1, <3>1 DEF Sound, Kept
    <3> QED BY <3>1, <3>2, PrefixFacts
  <2>11. FrameEvents(t) = {} BY <2>5, <2>6 DEF FrameEvents
  <2>12. Arriving(t) = {} /\ Distinct(t) BY <2>11 DEF Arriving, Distinct
  <2>13. ~Has(t, "accepted") BY <2>5, <2>6 DEF Has
  <2>14. host.phase \in {"running", "closing"} /\ host.configured BY DEF Starting
  <2>15. Answers(host, v, t)
    BY <1>1, <2>3, <2>5, <2>6, <2>14 DEF Answers, Ends
  <2>16. Flow(host, v, t)
    <3>1. 0 .. v.given - 1 = {} BY <2>3
    <3> QED BY <2>3, <2>10, <2>12, <3>1 DEF Flow
  <2>17. Orders(host, v, c, t) BY <2>3, <2>8, <2>9, <2>10, <2>13 DEF Orders, Drained
  <2>18. Feeding(host, v, c)
    <3>1. Len(<<>>) = 0 /\ \A n \in Int : Consecutive(<<>>, n) BY DEF Consecutive
    <3>2. Offered(host, v, c) = 0 /\ Decoded(host, v, c) = 0 /\ Read(host, c) = 0
      <4>1. Len(v.pending) = 0 /\ Len(v.queue) = 0 BY <2>3, <3>1
      <4> QED BY <2>9, <2>10, <4>1 DEF Offered, Decoded
    <3>3. 0 .. v.given - 1 = {} BY <2>3
    <3>4. Len(v.queue) <= Ring BY <2>3, <3>1, LaneAssumption
    <3>5. v.held = Prefix(0) \ (0 .. v.given - 1) BY <2>3, PrefixFacts
    <3> QED BY <2>3, <2>9, <3>1, <3>2, <3>3, <3>4, <3>5 DEF Feeding
  <2>19. Active(host, v, c, t) BY <2>3, <2>14, <2>15, <2>16, <2>17, <2>18 DEF Active
  <2>20. Typed(host, v, c, t) BY <1>1, <1>3, <2>2, <2>6 DEF Typed
  <2> QED BY <1>3, <2>7, <2>19, <2>20 DEF Inv, Whole, Stands
<1> QED BY <1>4, <1>5

(* A command of the run that the worker has begun.                         *)
LEMMA HearOrder ==
  ASSUME Inv, WorkerReceive, Active(host, worker, toWorker, toHost) PROVE Inv'
<1> DEFINE w == worker
           c == Tail(toWorker)
           x == toWorker[1]
<1>1. /\ w \in Workers /\ toWorker \in Seq(Commands) /\ toHost \in Seq(Events)
      /\ w.run \in Nat /\ host \in Hosts /\ Sound(host.run) /\ toWorker # <<>>
      /\ w.phase # "terminal" /\ host.fault # "protocol"
      /\ (host.phase \in {"running", "retained"} <=> ~host.run.closed)
  <2>1. Typed(host, w, toWorker, toHost) BY DEF Inv, Whole
  <2>2. w.run \in Nat BY <2>1 DEF Typed, Workers
  <2> QED BY <2>1, <2>2 DEF Typed, WorkerReceive, Inv, Whole
<1>2. /\ host.configured /\ host.phase \in {"running", "closing"} /\ host.gen = w.run
      /\ Answers(host, w, toHost) /\ Flow(host, w, toHost)
      /\ Orders(host, w, toWorker, toHost) /\ (Owns(w) => Feeding(host, w, toWorker))
  BY <1>1 DEF Active
<1>3. /\ Head(toWorker) = x /\ x \in Commands /\ c \in Seq(Commands) /\ Len(c) = Len(toWorker) - 1
      /\ \A k \in 1 .. Len(toWorker) - 1 : c[k] = toWorker[k + 1]
      /\ (c = <<>> <=> Len(toWorker) = 1) /\ toWorker' = c
      /\ Len(toWorker) \in Nat /\ Len(toWorker) >= 1
  BY <1>1, TailOf DEF WorkerReceive
<1>4. Drained(host, c)
  <2>1. \A k \in 1 .. Len(c) : /\ k + 1 \in 1 .. Len(toWorker) /\ k + 1 # 1 /\ c[k] = toWorker[k + 1]
                               /\ (k = Len(c) <=> k + 1 = Len(toWorker))
    BY <1>3
  <2> QED BY <1>2, <2>1 DEF Orders, Drained
<1> HIDE DEF c
<1>5. /\ x.run = host.gen
      /\ \/ x.t = "close" /\ Len(toWorker) = 1 /\ host.phase = "closing"
         \/ x.t \in {"decode", "flush"} /\ w.phase = "ready"
  <2>1. 1 \in 1 .. Len(toWorker) BY <1>3
  <2> QED BY <1>2, <2>1 DEF Orders
<1>6. /\ OnTheWay(c) = <<>> /\ Len(OnTheWay(c)) = 0 /\ Read(host, c) = host.run.next
      /\ host.phase # "closing" => c = <<>>
      /\ host.run.next \in Int
  BY <1>1, <1>3, <1>4, DrainedFacts
<1>7. w.phase = "idle" \/ Owns(w) BY <1>1, <1>2 DEF Orders, Owns, Workers
<1>8. ~Misuse(w, x)
  <2>1. ~(x.run > w.run) BY <1>1, <1>2, <1>5
  <2> QED BY <1>2, <1>5, <1>7, <2>1 DEF Misuse
<1>9. WorkerGoes(Handled(w, x), IF x.t = "start" THEN <<Event("started", x.run)>>
                                ELSE IF x.t = "decode" THEN Accepted(Handled(w, x)) ELSE <<>>)
  BY <1>3, <1>8 DEF WorkerReceive
<1> HIDE DEF x
<1>10. CASE x.t = "close"
  <2> DEFINE v == Handled(w, x)
  <2>1. v = IF Owns(w) THEN [w EXCEPT !.phase = "closing"] ELSE w
    BY <1>2, <1>5, <1>10 DEF Handled
  <2>2. /\ v \in Workers /\ v.run = w.run /\ v.given = w.given /\ v.held = w.held
        /\ v.queue = w.queue /\ v.pending = w.pending
        /\ (Owns(v) <=> Owns(w)) /\ (v.phase = "idle" <=> w.phase = "idle")
        /\ v.phase # "terminal" /\ v.phase \in {"idle", "closing"}
    BY <1>1, <1>7, <2>1 DEF Workers, Owns
  <2> HIDE DEF v
  <2>3. worker' = v /\ toHost' = toHost /\ host' = host
    <3>1. WorkerGoes(v, <<>>) BY <1>9, <1>10 DEF v
    <3> QED BY <1>1, <3>1, AppendNothing DEF WorkerGoes
  <2>4. host.phase = "closing" /\ c = <<>> BY <1>3, <1>5, <1>10
  <2>5. Answers(host, v, toHost) BY <1>1, <1>2, <2>2 DEF Answers
  <2>6. Flow(host, v, toHost) BY <1>2, <2>2 DEF Flow
  <2>7. Orders(host, v, c, toHost)
    <3>1. Len(c) = 0 BY <2>4
    <3> QED BY <2>2, <2>4, <3>1 DEF Orders
  <2>8. Owns(v) => Feeding(host, v, c)
    <3>1. SUFFICES ASSUME Owns(w) PROVE Feeding(host, v, c) BY <2>2
    <3>2. Feeding(host, w, toWorker) BY <1>2, <3>1
    <3>3. OnTheWay(toWorker) = OnTheWay(c)
      <4>1. OnTheWay(toWorker) = <<>> BY <1>10 DEF OnTheWay, x
      <4> QED BY <1>6, <4>1
    <3>4. v.phase = "closing" BY <2>2, <3>1 DEF Owns
    <3> QED BY <2>2, <3>2, <3>3, <3>4 DEF Feeding, Read, Offered, Decoded
  <2>9. Active(host, v, c, toHost) BY <1>2, <2>2, <2>5, <2>6, <2>7, <2>8 DEF Active
  <2>10. Typed(host, v, c, toHost) BY <1>1, <1>3, <2>2 DEF Typed
  <2> QED BY <1>1, <1>3, <2>3, <2>9, <2>10 DEF Inv, Whole, Stands
<1>11. CASE x.t = "flush"
  <2> DEFINE v == [w EXCEPT !.phase = "flushing"]
  <2>1. Handled(w, x) = v BY <1>11 DEF Handled
  <2>2. w.phase = "ready" /\ Owns(w) /\ toWorker[1].t = "flush" BY <1>5, <1>11 DEF Owns, x
  <2>3. /\ v \in Workers /\ v.run = w.run /\ v.given = w.given /\ v.held = w.held
        /\ v.queue = w.queue /\ v.pending = w.pending /\ v.phase = "flushing"
    BY <1>1 DEF Workers
  <2> HIDE DEF v
  <2>4. worker' = v /\ toHost' = toHost /\ host' = host
    <3>1. WorkerGoes(v, <<>>) BY <1>9, <1>11, <2>1
    <3> QED BY <1>1, <3>1, AppendNothing DEF WorkerGoes
  <2>5. Answers(host, v, toHost) BY <1>1, <1>2, <2>2, <2>3 DEF Answers
  <2>6. Flow(host, v, toHost) BY <1>2, <2>2, <2>3 DEF Flow
  <2>7. host.phase = "running" => host.run.flushSent /\ ~Has(toHost, "accepted")
    BY <1>1, <1>2, <2>2 DEF Orders
  <2>8. Orders(host, v, c, toHost) BY <1>4, <1>6, <2>3, <2>7 DEF Orders, Drained
  <2>9. Feeding(host, v, c)
    <3>1. Feeding(host, w, toWorker) BY <1>2, <2>2
    <3>2. OnTheWay(toWorker) = OnTheWay(c)
      <4>1. OnTheWay(toWorker) = <<>> BY <2>2 DEF OnTheWay
      <4> QED BY <1>6, <4>1
    <3> QED BY <2>2, <2>3, <3>1, <3>2 DEF Feeding, Read, Offered, Decoded
  <2>10. Active(host, v, c, toHost) BY <1>2, <2>3, <2>5, <2>6, <2>8, <2>9 DEF Active
  <2>11. Typed(host, v, c, toHost) BY <1>1, <1>3, <2>3 DEF Typed
  <2> QED BY <1>1, <1>3, <2>4, <2>10, <2>11 DEF Inv, Whole, Stands
<1>12. CASE x.t = "decode"
  <2> DEFINE v == [w EXCEPT !.pending = x.chunks]
  <2>1. Handled(w, x) = Fed(v) BY <1>12 DEF Handled
  <2>2. w.phase = "ready" /\ Owns(w) /\ toWorker[1].t = "decode" BY <1>5, <1>12 DEF Owns, x
  <2>3. x.chunks \in Seq(Nat) BY <1>3 DEF Commands, x
  <2>4. /\ v \in Workers /\ v.run = w.run /\ v.given = w.given /\ v.held = w.held
        /\ v.queue = w.queue /\ v.pending = x.chunks /\ v.phase = w.phase
    BY <1>1, <2>3 DEF Workers
  <2> HIDE DEF v
  <2>5. worker' = Fed(v) /\ toHost' = toHost \o Accepted(Fed(v)) /\ host' = host
    <3>1. WorkerGoes(Fed(v), Accepted(Fed(v))) BY <1>9, <1>12, <2>1
    <3> QED BY <3>1 DEF WorkerGoes
  <2>6. Answers(host, v, toHost) BY <1>2, <2>4 DEF Answers
  <2>7. Flow(host, v, toHost) BY <1>2, <2>4 DEF Flow
  <2>8. host.phase = "running" => host.run.batch /\ ~Has(toHost, "accepted")
    BY <1>1, <1>2, <2>2 DEF Orders
  <2>9. Feeding(host, w, toWorker) /\ w.pending = <<>>
    BY <1>2, <2>2 DEF Feeding
  <2>10. OnTheWay(toWorker) = x.chunks BY <1>1, <2>2 DEF OnTheWay, x
  <2>11. /\ Offered(host, v, c) = Read(host, toWorker)
         /\ Decoded(host, v, c) = Decoded(host, w, toWorker)
    <3>1. Len(w.pending) = 0 BY <2>9
    <3>2. Offered(host, v, c) = Read(host, toWorker)
      BY <1>6, <2>4, <2>10 DEF Offered, Read
    <3>3. Offered(host, w, toWorker) = Read(host, toWorker)
      <4>1. Read(host, toWorker) \in Int
        <5>1. Len(x.chunks) \in Nat BY <2>3
        <5> QED BY <1>6, <2>10, <5>1 DEF Read
      <4> QED BY <3>1, <4>1 DEF Offered
    <3> QED BY <2>4, <3>2, <3>3 DEF Decoded
  <2>12. InHand(host, v, c) BY <2>4, <2>9, <2>10, <2>11 DEF Feeding, InHand
  <2>13. Typed(host, v, c, toHost) BY <1>1, <1>3, <2>4 DEF Typed
  <2>14. Owns(v) /\ Kept(host.run) BY <1>1, <2>2, <2>4 DEF Owns, Sound
  <2>15. /\ Typed(host, Fed(v), c, toHost \o Accepted(Fed(v)))
         /\ Active(host, Fed(v), c, toHost \o Accepted(Fed(v)))
    BY <1>2, <1>4, <2>4, <2>6, <2>7, <2>8, <2>12, <2>13, <2>14, FedStep
  <2> QED BY <1>1, <1>3, <2>5, <2>15 DEF Inv, Whole, Stands
<1> QED BY <1>5, <1>10, <1>11, <1>12

(* The worker handles a command: it misuses none.                          *)
LEMMA WorkerReceiveStep == ASSUME Inv, WorkerReceive PROVE Inv'
<1>1. worker.phase # "terminal" /\ toWorker # <<>> BY DEF WorkerReceive
<1>2. ~Parked(host, worker, toWorker, toHost) /\ ~Ended(host, worker, toWorker, toHost)
  BY <1>1 DEF Parked, Ended
<1> QED BY <1>2, HearConfigure, HearLateClose, HearStart, HearOrder DEF Inv, Whole, Stands

----------------------------------------------------------------------------
(* The invariant of the specification.                                     *)

(* A lane begins with its support check.                                   *)
LEMMA InvInit == Init => Inv
<1> SUFFICES ASSUME Init PROVE Inv OBVIOUS
<1> DEFINE r == Closed(NewRun)
<1>1. Sound(r) /\ r \in Runs /\ r.closed
  <2>1. Sound(r) BY NewRunSound, ClosedSound DEF Sound
  <2>2. r \in Runs BY <2>1 DEF Sound, Kept
  <2>3. r.closed BY DEF Closed, NewRun
  <2> QED BY <2>1, <2>2, <2>3
<1>2. /\ host = [configured |-> FALSE, phase |-> "idle", gen |-> 0, fault |-> "none", run |-> r]
      /\ worker = [phase |-> "unconfigured", run |-> 0, pending |-> <<>>,
                   queue |-> <<>>, held |-> {}, given |-> 0]
      /\ toWorker = <<Command("configure", 0)>> /\ toHost = <<>>
  BY DEF Init
<1> HIDE DEF r
<1>3. host \in Hosts BY <1>1, <1>2 DEF Hosts
<1>4. worker \in Workers
  <2>1. <<>> \in Seq(Nat) OBVIOUS
  <2> QED BY <1>2, <2>1 DEF Workers
<1>5. toWorker \in Seq(Commands) /\ Len(toWorker) = 1 /\ toWorker[1].t = "configure"
  <2>1. Command("configure", 0) \in Commands /\ Command("configure", 0).t = "configure"
    <3>1. <<>> \in Seq(Nat) OBVIOUS
    <3> QED BY <3>1 DEF Command, Commands
  <2> QED BY <1>2, <2>1
<1>6. toHost \in Seq(Events) BY <1>2
<1>7. Setup(host, worker, toWorker, toHost) BY <1>2, <1>5 DEF Setup
<1> QED BY <1>1, <1>2, <1>3, <1>4, <1>5, <1>6, <1>7 DEF Inv, Whole, Typed, Stands

(* Every step leads from one situation to another.                         *)
LEMMA InvNext == Inv /\ [Next]_vars => Inv'
<1> SUFFICES ASSUME Inv, [Next]_vars PROVE Inv' OBVIOUS
<1>1. CASE UNCHANGED vars
  <2>1. host' = host /\ worker' = worker /\ toWorker' = toWorker /\ toHost' = toHost
    BY <1>1 DEF vars
  <2> QED BY <2>1 DEF Inv
<1>2. CASE OwnerNext
  <2>1. CASE CreateRun BY <2>1, CreateRunStep
  <2>2. CASE Resume BY <2>2, ResumeStep
  <2>3. CASE Release BY <2>3, ReleaseStep
  <2>4. CASE Close BY <2>4, CloseStep
  <2>5. CASE Dispose BY <2>5, FailingStep DEF Dispose
  <2>6. CASE \E what \in {"ready", "frame", "complete"} : Await(what) BY <2>6, AwaitStep
  <2> QED BY <1>2, <2>1, <2>2, <2>3, <2>4, <2>5, <2>6 DEF OwnerNext
<1>3. CASE HostNext
  <2>1. CASE ReceiveTerminal BY <2>1, ReceiveTerminalStep
  <2>2. CASE ReceiveConfigured BY <2>2, ReceiveConfiguredStep
  <2>3. CASE ReceiveError BY <2>3, ReceiveErrorStep
  <2>4. CASE ReceiveRun BY <2>4, ReceiveRunStep
  <2>5. CASE RejectFrame BY <2>5, RejectFrameStep
  <2>6. CASE Watchdog BY <2>6, FailingStep DEF Watchdog
  <2>7. CASE TransportBreaks BY <2>7, FailingStep DEF TransportBreaks
  <2> QED BY <1>3, <2>1, <2>2, <2>3, <2>4, <2>5, <2>6, <2>7 DEF HostNext
<1>4. CASE WorkerNext
  <2>1. CASE WorkerReceive BY <2>1, WorkerReceiveStep
  <2>2. CASE Supported BY <2>2, SupportedStep
  <2>3. CASE Unsupported BY <2>3, UnsupportedStep
  <2>4. CASE Dequeued BY <2>4, DequeuedStep
  <2>5. CASE Decode BY <2>5, DecodeStep
  <2>6. CASE Output BY <2>6, OutputStep
  <2>7. CASE FinishFlush BY <2>7, FinishFlushStep
  <2>8. CASE FinishClose BY <2>8, FinishCloseStep
  <2>9. CASE DecoderFails BY <2>9, DecoderFailsStep
  <2> QED BY <1>4, <2>1, <2>2, <2>3, <2>4, <2>5, <2>6, <2>7, <2>8, <2>9 DEF WorkerNext
<1> QED BY <1>1, <1>2, <1>3, <1>4 DEF Next

(* The lane is always in one of its six situations.                        *)
THEOREM Invariant == Spec => []Inv
<1>1. Init => Inv BY InvInit
<1>2. Inv /\ [Next]_vars => Inv' BY InvNext
<1> QED BY <1>1, <1>2, PTL DEF Spec

(* Host and worker never break their protocol, and a lane that is offered  *)
(* for a run has nothing left of the last one.                             *)
THEOREM ProtocolAlwaysHolds == Spec => []ProtocolHolds
<1>1. Inv => ProtocolHolds
  <2>1. SUFFICES ASSUME Inv PROVE ProtocolHolds OBVIOUS
  <2>2. host.fault # "protocol" BY <2>1 DEF Inv, Whole
  <2>3. ASSUME Available PROVE /\ worker.phase = "idle" /\ worker.run = host.gen
                               /\ toHost = <<>>
                               /\ \A k \in DOMAIN toWorker :
                                    toWorker[k].t = "close" /\ toWorker[k].run <= host.gen
    <3>1. Quiet(host, worker, toWorker, toHost)
      BY <2>1, <2>3
      DEF Available, Inv, Whole, Stands, Setup, Starting, Active, Parked, Ended
    <3>2. toWorker \in Seq(Commands) /\ host.gen \in Nat BY <2>1 DEF Inv, Whole, Typed, Hosts
    <3>3. \A k \in DOMAIN toWorker : k = 1 /\ Len(toWorker) = 1
      BY <3>1, <3>2 DEF Quiet
    <3>4. \A k \in DOMAIN toWorker : toWorker[k].t = "close" /\ toWorker[k].run <= host.gen
      BY <3>1, <3>2, <3>3 DEF Quiet
    <3> QED BY <3>1, <3>4 DEF Quiet
  <2> QED BY <2>2, <2>3 DEF ProtocolHolds, AvailableIsQuiet
<1> QED BY <1>1, Invariant, PTL

(* Three sets that do not meet are together no larger than one that holds  *)
(* them.                                                                   *)
LEMMA ThreeApart ==
  ASSUME NEW R, IsFiniteSet(R), NEW S \in SUBSET R, NEW T \in SUBSET R, NEW U \in SUBSET R,
         S \cap T = {}, S \cap U = {}, T \cap U = {}
  PROVE  /\ Cardinality(S) + Cardinality(T) + Cardinality(U) <= Cardinality(R)
         /\ Cardinality(R) \in Nat
<1>1. /\ IsFiniteSet(S) /\ IsFiniteSet(T) /\ IsFiniteSet(U)
      /\ Cardinality(S) \in Nat /\ Cardinality(T) \in Nat /\ Cardinality(U) \in Nat
      /\ Cardinality(R) \in Nat
  BY FS_Subset, FS_CardinalityType
<1>2. Cardinality(S \cup T) = Cardinality(S) + Cardinality(T) /\ IsFiniteSet(S \cup T)
  <2>1. /\ Cardinality(S \cup T) = Cardinality(S) + Cardinality(T) - Cardinality(S \cap T)
        /\ IsFiniteSet(S \cup T)
    BY <1>1, FS_Union
  <2>2. Cardinality(S \cap T) = 0 BY FS_EmptySet
  <2> QED BY <1>1, <2>1, <2>2
<1>3. Cardinality((S \cup T) \cup U) = Cardinality(S \cup T) + Cardinality(U)
      /\ IsFiniteSet((S \cup T) \cup U)
  <2>1. /\ Cardinality((S \cup T) \cup U)
             = Cardinality(S \cup T) + Cardinality(U) - Cardinality((S \cup T) \cap U)
        /\ IsFiniteSet((S \cup T) \cup U)
    BY <1>1, <1>2, FS_Union
  <2>2. (S \cup T) \cap U = {} OBVIOUS
  <2>3. Cardinality((S \cup T) \cap U) = 0 BY <2>2, FS_EmptySet
  <2> QED BY <1>1, <1>2, <2>1, <2>3
<1>4. Cardinality((S \cup T) \cup U) <= Cardinality(R)
  <2>1. (S \cup T) \cup U \in SUBSET R OBVIOUS
  <2> QED BY <2>1, FS_Subset
<1> QED BY <1>1, <1>2, <1>3, <1>4

(* The frames the lane holds are, wherever they are, in the room of its    *)
(* run.                                                                    *)
LEMMA HeldInRoom ==
  ASSUME Inv, host.phase # "terminal",
         NEW held, held = IF Owns(worker) THEN worker.held ELSE {},
         NEW kept, kept = host.run.buffered \cup host.run.leased
  PROVE  /\ held \subseteq Room(host.run) /\ Arriving(toHost) \subseteq Room(host.run)
         /\ kept \subseteq Room(host.run)
         /\ held \cap Arriving(toHost) = {} /\ held \cap kept = {} /\ Arriving(toHost) \cap kept = {}
<1>1. /\ Typed(host, worker, toWorker, toHost) /\ Sound(host.run) BY DEF Inv, Whole
<1>2. /\ host.run.taken \subseteq host.run.seen /\ host.run.leased \subseteq host.run.taken
      /\ kept \subseteq host.run.seen /\ host.run.seen \subseteq Prefix(host.run.next)
      /\ kept \cap (host.run.taken \ host.run.leased) = {}
  BY <1>1 DEF Sound, Kept
<1>3. kept \subseteq Room(host.run) BY <1>2 DEF Room
<1>4. CASE Active(host, worker, toWorker, toHost)
  <2>1. /\ Arriving(toHost) \cap host.run.seen = {}
        /\ Arriving(toHost) \cup host.run.seen \subseteq 0 .. worker.given - 1
        /\ 0 .. worker.given - 1 \subseteq Prefix(host.run.next)
    BY <1>4 DEF Active, Flow
  <2>2. held \subseteq Prefix(host.run.next) /\ held \cap (0 .. worker.given - 1) = {}
    <3>1. CASE Owns(worker)
      <4>1. Feeding(host, worker, toWorker) BY <1>4, <3>1 DEF Active
      <4>2. Prefix(Decoded(host, worker, toWorker)) \subseteq Prefix(host.run.next)
        BY <1>1, <4>1, DecodedFits
      <4> QED BY <3>1, <4>1, <4>2 DEF Feeding
    <3>2. CASE ~Owns(worker) BY <3>2
    <3> QED BY <3>1, <3>2
  <2> QED BY <1>2, <1>3, <2>1, <2>2 DEF Room
<1>5. CASE ~Active(host, worker, toWorker, toHost)
  <2>1. toHost = <<>> \/ (Len(toHost) = 1 /\ toHost[1].t # "frame")
    BY <1>5 DEF Inv, Whole, Stands, Setup, Quiet, Starting, Parked, Ended
  <2>2. FrameEvents(toHost) = {} BY <1>1, <2>1 DEF FrameEvents
  <2>3. Arriving(toHost) = {} BY <2>2 DEF Arriving
  <2>4. held = {}
    <3>1. ~Owns(worker)
      BY <1>5 DEF Owns, Inv, Whole, Stands, Setup, Quiet, Starting, Parked, Ended
    <3> QED BY <3>1
  <2> QED BY <1>3, <2>3, <2>4
<1> QED BY <1>4, <1>5

(* The surfaces of a lane never exceed its ring, nor the credit of its run.*)
THEOREM SurfacesAlwaysBounded == Spec => []SurfacesBounded
<1>1. Inv => SurfacesBounded
  <2> SUFFICES ASSUME Inv PROVE SurfacesBounded OBVIOUS
  <2> DEFINE held == IF Owns(worker) THEN worker.held ELSE {}
             kept == host.run.buffered \cup host.run.leased
             room == Room(host.run)
  <2>1. /\ toHost \in Seq(Events) /\ Sound(host.run) /\ host.run \in Runs
        /\ (host.phase \in {"running", "retained"} <=> ~host.run.closed)
    BY DEF Inv, Whole, Typed, Sound, Kept
  <2>2. Ring \in Nat /\ Cardinality({}) = 0 BY FS_EmptySet, LaneAssumption
  <2>3. Distinct(toHost)
    <3>1. host.phase # "terminal" => Distinct(toHost) BY ArrivingFits DEF Inv
    <3>2. host.phase = "terminal" => Distinct(toHost)
      BY DEF Inv, Whole, Stands, Setup, Quiet, Starting, Active, Parked, Ended
    <3> QED BY <3>1, <3>2
  <2>4. Surfaces = Cardinality(held) + Cardinality(Arriving(toHost)) + Cardinality(kept)
    <3>1. (IF Owns(worker) THEN Cardinality(worker.held) ELSE 0) = Cardinality(held) BY <2>2
    <3>2. Cardinality({k \in DOMAIN toHost : toHost[k].t = "frame"}) = Cardinality(Arriving(toHost))
      BY <2>1, <2>3, ArrivingCount
    <3> QED BY <3>1, <3>2 DEF Surfaces
  <2>5. CASE host.phase # "terminal"
    <3>1. /\ held \subseteq room /\ Arriving(toHost) \subseteq room /\ kept \subseteq room
          /\ held \cap Arriving(toHost) = {} /\ held \cap kept = {} /\ Arriving(toHost) \cap kept = {}
      <4>1. PICK H, K : H = held /\ K = kept OBVIOUS
      <4>2. /\ H = IF Owns(worker) THEN worker.held ELSE {}
            /\ K = host.run.buffered \cup host.run.leased
        BY <4>1
      <4>3. /\ H \subseteq Room(host.run) /\ Arriving(toHost) \subseteq Room(host.run)
            /\ K \subseteq Room(host.run)
            /\ H \cap Arriving(toHost) = {} /\ H \cap K = {} /\ Arriving(toHost) \cap K = {}
        BY <2>5, <4>2, HeldInRoom
      <4> QED BY <4>1, <4>3
    <3>2. IsFiniteSet(room) /\ Cardinality(room) \in Nat BY <2>1, RoomFacts
    <3> HIDE DEF held, kept, room
    <3>3. Cardinality(held) + Cardinality(Arriving(toHost)) + Cardinality(kept) <= Cardinality(room)
      BY <3>1, <3>2, ThreeApart
    <3>4. Surfaces <= Cardinality(room) BY <2>4, <3>3
    <3>5. Cardinality(room) <= Ring BY <2>1 DEF Sound, Kept, room
    <3>6. Open => host.run.outstanding = Cardinality(room) BY <2>1 DEF Open, Sound, Kept, room
    <3>7. Surfaces \in Int
      <4>1. IsFiniteSet(held) /\ IsFiniteSet(Arriving(toHost)) /\ IsFiniteSet(kept)
        BY <3>1, <3>2, FS_Subset
      <4>2. /\ Cardinality(held) \in Nat /\ Cardinality(Arriving(toHost)) \in Nat
            /\ Cardinality(kept) \in Nat
        BY <4>1, FS_CardinalityType
      <4> QED BY <2>4, <4>2
    <3> QED BY <2>2, <3>2, <3>4, <3>5, <3>6, <3>7 DEF SurfacesBounded
  <2>6. CASE host.phase = "terminal"
    <3>1. Ended(host, worker, toWorker, toHost)
      BY <2>6 DEF Inv, Whole, Stands, Setup, Quiet, Starting, Active, Parked
    <3>2. held = {} BY <3>1 DEF Ended, Owns
    <3>3. kept = {} BY <2>1, <2>6 DEF Sound, Kept
    <3>4. Cardinality(Arriving(toHost)) \in Nat /\ Cardinality(Arriving(toHost)) <= Ring
      BY <2>1, <2>3, <3>1, ArrivingCount DEF Ended
    <3> HIDE DEF held, kept
    <3>5. Surfaces = Cardinality(Arriving(toHost)) BY <2>2, <2>4, <3>2, <3>3, <3>4
    <3>6. ~Open BY <2>6 DEF Open
    <3> QED BY <3>4, <3>5, <3>6 DEF SurfacesBounded
  <2> QED BY <2>5, <2>6
<1> QED BY <1>1, Invariant, PTL

(* A worker that owes nothing to an open run has begun it, has accepted    *)
(* all that was asked for and decoded it, and holds back at most Lag       *)
(* frames: the others are buffered, and no more samples fit the ring.      *)
LEMMA AllDone ==
  ASSUME Inv, Live, Watched(host), ~Owed
  PROVE  /\ ~host.run.closed /\ host.run.awaits # "nothing" /\ ~Satisfied(host.run)
         /\ host.run.outstanding > Cardinality(host.run.buffered \cup host.run.leased)
         /\ host.run.next < Len(Samples)
         /\ Displayed(host.run.next, host.run.next + 1) > Ring - host.run.outstanding
         /\ host.run.seen = 0 .. worker.given - 1
         /\ worker.held = Prefix(host.run.next) \ (0 .. worker.given - 1)
         /\ ~(Cardinality(worker.held) > Lag)
<1>1. /\ toWorker = <<>> /\ toHost = <<>> /\ worker.queue = <<>>
      /\ worker.phase \notin {"configuring", "accepting", "flushing"}
      /\ ~(Cardinality(worker.held) > Lag)
  BY DEF Owed
<1>2. Len(toWorker) = 0 /\ Len(toHost) = 0 BY <1>1
<1>3. /\ Typed(host, worker, toWorker, toHost) /\ Sound(host.run)
      /\ (host.phase \in {"running", "retained"} <=> ~host.run.closed)
  BY DEF Inv, Whole
<1>4. ~Setup(host, worker, toWorker, toHost) BY <1>1, <1>2 DEF Setup
<1>5. ~Quiet(host, worker, toWorker, toHost) BY DEF Quiet, Watched
<1>6. ~Starting(host, worker, toWorker, toHost)
  <2>1. ASSUME NEW i \in {1, 2} PROVE ~(0 = i + IF host.phase = "closing" THEN 1 ELSE 0)
    OBVIOUS
  <2> QED BY <1>2, <2>1 DEF Starting
<1>7. ~Parked(host, worker, toWorker, toHost) BY DEF Parked, Watched
<1>8. ~Ended(host, worker, toWorker, toHost) BY DEF Ended, Live
<1>9. Active(host, worker, toWorker, toHost)
  BY <1>4, <1>5, <1>6, <1>7, <1>8 DEF Inv, Whole, Stands
<1>10. /\ host.phase = "running" /\ host.run.awaits # "nothing" /\ ~Satisfied(host.run)
       /\ \/ ~host.run.started \/ host.run.batch \/ host.run.flushSent
          \/ host.run.outstanding > Cardinality(host.run.buffered \cup host.run.leased)
  BY <1>9 DEF Active, Watched
<1>11. worker.phase # "terminal" /\ worker.phase # "idle" /\ host.run.started
  BY <1>1, <1>9, <1>10 DEF Active, Answers
<1>12. worker.phase = "ready"
  <2>1. Orders(host, worker, toWorker, toHost) BY <1>9, <1>11 DEF Active
  <2>2. /\ worker.phase # "closing" /\ worker.phase # "unconfigured"
        /\ worker.phase # "configuring"
    BY <1>10, <2>1 DEF Orders
  <2> QED BY <1>1, <1>3, <1>11, <2>2 DEF Typed, Workers
<1>13. ~host.run.batch /\ ~host.run.flushSent
  <2>1. ~Has(toHost, "accepted") BY <1>2 DEF Has
  <2> QED BY <1>1, <1>9, <1>10, <1>12, <2>1 DEF Active, Orders
<1>14. host.run.outstanding > Cardinality(host.run.buffered \cup host.run.leased)
  BY <1>10, <1>11, <1>13
<1>15. /\ ~host.run.closed /\ host.run.next < Len(Samples)
       /\ Displayed(host.run.next, host.run.next + 1) > Ring - host.run.outstanding
  BY <1>3, <1>10, <1>11, <1>13 DEF Sound, Full
<1>16. host.run.seen = 0 .. worker.given - 1
  <2>1. FrameEvents(toHost) = {} BY <1>2 DEF FrameEvents
  <2>2. Arriving(toHost) = {} BY <2>1 DEF Arriving
  <2> QED BY <1>9, <1>10, <2>2 DEF Active, Flow
<1>17. worker.held = Prefix(host.run.next) \ (0 .. worker.given - 1)
  <2>1. Feeding(host, worker, toWorker) BY <1>9, <1>12 DEF Active, Owns
  <2>2. worker.pending = <<>> /\ OnTheWay(toWorker) = <<>>
    BY <1>1, <1>12, <2>1 DEF Feeding, OnTheWay
  <2>3. Len(OnTheWay(toWorker)) = 0 /\ Len(worker.pending) = 0 /\ Len(worker.queue) = 0
    BY <1>1, <2>2
  <2>4. /\ Decoded(host, worker, toWorker) = host.run.next - 0 - 0 - 0
        /\ host.run.next \in 0 .. Len(Samples) /\ Len(Samples) \in Nat
    BY <1>3, <2>1, <2>3, DecodedFits, SampleFacts
  <2>5. Decoded(host, worker, toWorker) = host.run.next BY <2>4
  <2> QED BY <2>1, <2>5 DEF Feeding
<1> QED BY <1>1, <1>10, <1>14, <1>15, <1>16, <1>17

(* The progress watchdog never runs against a worker that has done all it  *)
(* was asked for: the room that the ring has not is the caller's to give.  *)
THEOREM WatchdogAlwaysJust == Spec => []WatchdogJust
<1>1. Inv => WatchdogJust
  <2> SUFFICES ASSUME Inv, Live, Watched(host), ~Owed PROVE FALSE BY DEF WatchdogJust
  <2> DEFINE r == host.run
             g == worker.given
             out == host.run.outstanding
  <2>1. /\ ~r.closed /\ r.awaits # "nothing" /\ ~Satisfied(r)
        /\ out > Cardinality(r.buffered \cup r.leased)
        /\ r.next < Len(Samples) /\ Displayed(r.next, r.next + 1) > Ring - out
        /\ r.seen = 0 .. g - 1 /\ worker.held = Prefix(r.next) \ (0 .. g - 1)
        /\ ~(Cardinality(worker.held) > Lag)
    BY AllDone
  <2>2. Kept(r) /\ r \in Runs /\ g \in Nat /\ worker.held \in SUBSET Frames
    BY DEF Inv, Whole, Typed, Sound, Kept, Workers
  <2>3. /\ r.next \in 0 .. Len(Samples) /\ out \in Nat /\ out <= Ring /\ Len(Samples) \in Nat
        /\ Ring \in Nat /\ Lag \in Nat /\ ReadyFrames \in Nat /\ ReadyFrames >= 1
    BY <2>2, SampleFacts, LaneAssumption DEF Runs
  <2>4. /\ r.leased = {} /\ r.seen = r.buffered \cup r.taken /\ r.buffered \cap r.taken = {}
        /\ out = Cardinality(Room(r)) /\ (\E n \in Nat : r.taken = 0 .. n - 1)
        /\ (r.awaits = "ready" => r.taken = {}) /\ (r.awaits = "complete" => r.taken = Frames)
        /\ r.awaits \in {"ready", "frame", "complete"}
    BY <2>1, <2>2 DEF Kept, Runs
  <2>5. Room(r) \subseteq worker.held \cup r.buffered
    BY <2>1, <2>4 DEF Room
  <2>6. /\ IsFiniteSet(worker.held) /\ IsFiniteSet(r.buffered)
        /\ Cardinality(worker.held) \in Nat /\ Cardinality(r.buffered) \in Nat
        /\ r.buffered \cup r.leased = r.buffered
    BY <2>2, <2>4, SampleFacts, FS_Subset, FS_CardinalityType DEF Runs
  <2> HIDE DEF r, out, g
  <2>7. out <= Cardinality(worker.held) + Cardinality(r.buffered)
    <3>1. /\ IsFiniteSet(worker.held \cup r.buffered)
          /\ Cardinality(worker.held \cup r.buffered) \in Nat
          /\ Cardinality(worker.held \cup r.buffered)
               = Cardinality(worker.held) + Cardinality(r.buffered)
                   - Cardinality(worker.held \cap r.buffered)
      BY <2>6, FS_Union, FS_CardinalityType
    <3>2. Cardinality(worker.held \cap r.buffered) \in Nat
      BY <2>6, FS_Intersection, FS_CardinalityType
    <3>3. Cardinality(Room(r)) <= Cardinality(worker.held \cup r.buffered)
      BY <2>5, <3>1, FS_Subset
    <3> QED BY <2>3, <2>4, <2>6, <3>1, <3>2, <3>3
  <2>8. out >= ReadyFrames + Lag
    <3>1. PICK m \in 0 .. Len(Samples), n \in 1 .. Len(Samples) : m = r.next /\ n = r.next + 1
      BY <2>1, <2>3
    <3>2. m <= n /\ n - 1 = m /\ n \in 0 .. Len(Samples) BY <2>3, <3>1
    <3>3. Displayed(m, n) = Cardinality(Prefix(n) \ Prefix(m)) BY <3>2, DisplayedCount
    <3>4. Prefix(n) = Prefix(m) \cup Samples[n] /\ Prefix(m) \cap Samples[n] = {}
      BY <3>1, <3>2, PrefixFacts
    <3>5. Prefix(n) \ Prefix(m) = Samples[n] BY <3>4
    <3>6. n \in DOMAIN Samples BY SampleFacts
    <3>7. /\ IsFiniteSet(Samples[n]) /\ Cardinality(Samples[n]) \in Nat
          /\ ReadyFrames + Lag + Cardinality(Samples[n]) <= Ring + 1
      BY <3>6, LaneAssumption, FS_CardinalityType
    <3>8. Cardinality(Samples[n]) > Ring - out BY <2>1, <3>1, <3>3, <3>5
    <3> QED BY <2>3, <3>7, <3>8
  <2>9. Cardinality(r.buffered) >= ReadyFrames BY <2>1, <2>3, <2>6, <2>7, <2>8
  <2>10. Cursor(r) \in Nat /\ r.taken = 0 .. Cursor(r) - 1 BY <2>4, CursorFacts
  <2>11. CASE r.awaits = "frame"
    <3>1. Cursor(r) \notin r.buffered BY <2>1, <2>11 DEF Satisfied
    <3>2. ~(Cursor(r) < g)
      <4>1. Cursor(r) \notin r.taken BY <2>10
      <4>2. Cursor(r) \notin 0 .. g - 1 BY <2>1, <2>4, <3>1, <4>1
      <4> QED BY <2>2, <2>10, <4>2
    <3>3. 0 .. g - 1 \subseteq 0 .. Cursor(r) - 1 BY <2>2, <2>10, <3>2
    <3>4. r.buffered = {} BY <2>1, <2>4, <2>10, <3>3
    <3>5. Cardinality(r.buffered) = 0 BY <3>4, FS_EmptySet
    <3> QED BY <2>3, <2>9, <3>5
  <2>12. CASE r.awaits = "ready"
    <3>1. r.taken = {} /\ r.buffered = 0 .. g - 1 BY <2>1, <2>4, <2>12
    <3>2. ~({i \in Frames : i < ReadyFrames} \subseteq r.buffered) BY <2>1, <2>12, <3>1 DEF Satisfied
    <3>3. g < ReadyFrames
      <4>1. PICK i \in Frames : i < ReadyFrames /\ i \notin 0 .. g - 1 BY <3>1, <3>2
      <4>2. i \in Nat BY <4>1, SampleFacts
      <4> QED BY <2>2, <2>3, <4>1, <4>2
    <3>4. Cardinality(0 .. g - 1) = g
      <4>1. PICK a \in Int, b \in Int : a = 0 /\ b = g - 1 BY <2>2
      <4>2. Cardinality(a .. b) = IF a > b THEN 0 ELSE b - a + 1 BY FS_Interval
      <4> QED BY <2>2, <4>1, <4>2
    <3> QED BY <2>2, <2>3, <2>9, <3>1, <3>3, <3>4
  <2>13. CASE r.awaits = "complete"
    <3>1. r.taken = Frames /\ r.leased = {} BY <2>4, <2>13
    <3>2. Prefix(r.next) \subseteq Frames BY <2>3, PrefixFacts
    <3>3. Room(r) = {} BY <3>1, <3>2 DEF Room
    <3>4. out = 0 BY <2>4, <3>3, FS_EmptySet
    <3>5. out > Cardinality(r.buffered) BY <2>1, <2>6
    <3> QED BY <2>6, <3>4, <3>5
  <2> QED BY <2>4, <2>11, <2>12, <2>13
<1> QED BY <1>1, Invariant, PTL
=============================================================================
