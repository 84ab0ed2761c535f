------------------------ MODULE AssetTransportProofs ------------------------
(***************************************************************************)
(* Theorems about the transport of an asset, for any units, any number of  *)
(* ranges and bodies, and any number of loads and of people who wait.      *)
(***************************************************************************)
EXTENDS AssetTransportProperties, TLAPS, SequenceTheorems, FiniteSetTheorems, FunctionTheorems

----------------------------------------------------------------------------
(* Those who wait in a queue, each once.                                   *)
Els(q) == {q[i] : i \in DOMAIN q}
Distinct(q) == \A i, j \in DOMAIN q : q[i] = q[j] => i = j

(* A list and one more at its end.                                         *)
LEMMA AppendEls ==
  ASSUME NEW S, NEW q \in Seq(S), Distinct(q), NEW e \in S, e \notin Els(q)
  PROVE  /\ Append(q, e) \in Seq(S)
         /\ Distinct(Append(q, e))
         /\ \A f : f \in Els(Append(q, e)) <=> f \in Els(q) \/ f = e
<1>1. /\ Append(q, e) \in Seq(S) /\ Len(Append(q, e)) = Len(q) + 1
      /\ \A i \in 1 .. Len(q) : Append(q, e)[i] = q[i]
      /\ Append(q, e)[Len(q) + 1] = e
  BY AppendProperties
<1>2. DOMAIN q = 1 .. Len(q) /\ DOMAIN Append(q, e) = 1 .. Len(q) + 1 /\ Len(q) \in Nat
  BY <1>1, LenProperties
<1> QED BY <1>1, <1>2 DEF Els, Distinct

(* An entry is taken out of a list of distinct ones.                       *)
LEMMA RemovalEls ==
  ASSUME NEW n \in Nat, NEW at \in 1 .. n, NEW q, DOMAIN q = 1 .. n, Distinct(q),
         NEW t, DOMAIN t = 1 .. n - 1,
         \A i \in 1 .. n - 1 : t[i] = IF i < at THEN q[i] ELSE q[i + 1]
  PROVE  /\ Distinct(t)
         /\ \A f : f \in Els(t) <=> f \in Els(q) /\ f # q[at]
<1>1. \A i, j \in 1 .. n : q[i] = q[j] => i = j
  BY DEF Distinct
<1>2. Distinct(t)
  BY <1>1 DEF Distinct
<1>3. \A i \in 1 .. n - 1 : \E j \in 1 .. n : j # at /\ t[i] = q[j]
  BY <1>1
<1>4. ASSUME NEW j \in 1 .. n, j # at PROVE \E i \in 1 .. n - 1 : t[i] = q[j]
  <2>1. j < at => j \in 1 .. n - 1 /\ t[j] = q[j]
    OBVIOUS
  <2>2. j > at => j - 1 \in 1 .. n - 1 /\ t[j - 1] = q[j]
    OBVIOUS
  <2> QED BY <1>4, <2>1, <2>2
<1>5. ASSUME NEW i \in 1 .. n - 1 PROVE t[i] \in Els(q) /\ t[i] # q[at]
  <2>1. PICK j \in 1 .. n : j # at /\ t[i] = q[j]
    BY <1>3
  <2> QED BY <1>1, <2>1 DEF Els
<1>6. ASSUME NEW j \in 1 .. n, q[j] # q[at] PROVE q[j] \in Els(t)
  BY <1>4, <1>6 DEF Els
<1>7. \A f : f \in Els(t) => f \in Els(q) /\ f # q[at]
  BY <1>5 DEF Els
<1>8. \A f : f \in Els(q) /\ f # q[at] => f \in Els(t)
  BY <1>6 DEF Els
<1> QED BY <1>2, <1>7, <1>8

(* The head of a queue leaves it, and nothing else does.                   *)
LEMMA TailEls ==
  ASSUME NEW S, NEW q \in Seq(S), Distinct(q), q # <<>>
  PROVE  /\ Head(q) \in S /\ Head(q) \in Els(q)
         /\ Tail(q) \in Seq(S)
         /\ Distinct(Tail(q))
         /\ \A f : f \in Els(Tail(q)) <=> f \in Els(q) /\ f # Head(q)
<1>1. /\ Head(q) \in S /\ Tail(q) \in Seq(S) /\ Len(Tail(q)) = Len(q) - 1
      /\ \A i \in 1 .. Len(q) - 1 : Tail(q)[i] = q[i + 1]
  BY HeadTailProperties
<1>2. /\ Len(q) \in Nat /\ DOMAIN q = 1 .. Len(q) /\ DOMAIN Tail(q) = 1 .. Len(q) - 1
      /\ 1 \in 1 .. Len(q) /\ Head(q) = q[1]
  BY <1>1, LenProperties, EmptySeq
<1> DEFINE n == Len(q)
           t == Tail(q)
<1>3. /\ n \in Nat /\ 1 \in 1 .. n /\ DOMAIN q = 1 .. n /\ DOMAIN t = 1 .. n - 1
      /\ \A i \in 1 .. n - 1 : t[i] = IF i < 1 THEN q[i] ELSE q[i + 1]
  BY <1>1, <1>2
<1> HIDE DEF n, t
<1>4. Distinct(t) /\ \A f : f \in Els(t) <=> f \in Els(q) /\ f # q[1]
  BY <1>3, RemovalEls
<1>5. Head(q) \in Els(q)
  BY <1>2 DEF Els
<1> QED BY <1>1, <1>2, <1>4, <1>5 DEF t

(* Without() takes one entry out of a queue of distinct ones.              *)
LEMMA WithoutEls ==
  ASSUME NEW S, NEW q \in Seq(S), Distinct(q), NEW e \in S
  PROVE  /\ Without(q, e) \in Seq(S)
         /\ Distinct(Without(q, e))
         /\ \A f : f \in Els(Without(q, e)) <=> f \in Els(q) /\ f # e
<1>1. CASE \A i \in DOMAIN q : q[i] # e
  BY <1>1 DEF Without, Els
<1>2. CASE \E i \in DOMAIN q : q[i] = e
  <2> DEFINE at == CHOOSE i \in DOMAIN q : q[i] = e
             n == Len(q)
             a == SubSeq(q, 1, at - 1)
             b == SubSeq(q, at + 1, n)
  <2>1. /\ DOMAIN q = 1 .. n /\ n \in Nat /\ \A i \in 1 .. n : q[i] \in S
        /\ at \in 1 .. n /\ q[at] = e /\ Without(q, e) = a \o b
    BY <1>2, LenProperties DEF Without
  <2> HIDE DEF at, n
  <2>2. a \in Seq(S) /\ Len(a) = at - 1 /\ \A i \in 1 .. at - 1 : a[i] = q[i]
    BY <2>1, SubSeqProperties
  <2>3. b \in Seq(S) /\ Len(b) = n - at /\ \A i \in 1 .. n - at : b[i] = q[at + i]
    BY <2>1, SubSeqProperties
  <2> HIDE DEF a, b
  <2>4. /\ a \o b \in Seq(S) /\ Len(a \o b) = n - 1 /\ DOMAIN (a \o b) = 1 .. n - 1
        /\ \A i \in 1 .. n - 1 : (a \o b)[i] = IF i < at THEN q[i] ELSE q[i + 1]
    BY <2>1, <2>2, <2>3, ConcatProperties, LenProperties
  <2>5. Distinct(a \o b) /\ \A f : f \in Els(a \o b) <=> f \in Els(q) /\ f # q[at]
    BY <2>1, <2>4, RemovalEls
  <2> QED BY <2>1, <2>4, <2>5
<1> QED BY <1>1, <1>2

----------------------------------------------------------------------------
(* The inductive invariant.                                                *)
Steps == {"none", "new", "queued", "admitted", "requested", "reading", "rejected", "verifying"}

LoadRecords ==
  [unit : Units, step : Steps, ranges : Nat, whole : BOOLEAN, aborted : BOOLEAN,
   waiters : SUBSET Interests]

Assets ==
  [mode : {"range", "full"}, file : BOOLEAN, cache : SUBSET Units, active : Int, bodies : Int,
   queue : Seq(Loads), listed : [Units -> Loads \cup {0}],
   disposal : {"none", "pending", "done"}, load : [Loads -> LoadRecords]]

Held == {"admitted", "requested", "reading"}
Sent == {"requested", "reading"}

Holding(a) == {l \in Loads : a.load[l].step \in Held}
Reading(a) == {l \in Loads : a.load[l].step \in Sent}

(* The bodies are those that are held, but for those of X, which are being *)
(* given back; nobody waits while one is free.                             *)
BodyCount(a, X) ==
  /\ a.bodies = Cardinality(Holding(a) \ X)
  /\ a.bodies <= Bodies
  /\ a.queue # <<>> => a.bodies = Bodies
  /\ Distinct(a.queue)
  /\ \A l \in Loads : l \in Els(a.queue) <=> l \notin X /\ a.load[l].step = "queued"

ActiveCount(a, X) == a.active = Cardinality(Reading(a) \ X)

(* What is listed is pending, for somebody; what goes on is listed.        *)
Lists(a) ==
  /\ \A l \in Loads : a.load[l].step # "none" /\ ~a.load[l].aborted => Listed(a, l)
  /\ \A u \in Units : a.listed[u] # 0 =>
       /\ a.load[a.listed[u]].step # "none"
       /\ a.load[a.listed[u]].unit = u
       /\ a.load[a.listed[u]].waiters # {}
  /\ \A l, k \in Loads : l # k => a.load[l].waiters \cap a.load[k].waiters = {}
  /\ \A l \in Loads : a.load[l].step = "queued" => ~a.load[l].aborted

Ended(a) ==
  a.disposal = "done" => /\ \A l \in Loads : a.load[l].step = "none"
                         /\ a.cache = {} /\ ~a.file

Good(a) == a \in Assets /\ BodyCount(a, {}) /\ ActiveCount(a, {}) /\ Lists(a) /\ Ended(a)

(* Good, but for load l, which is between two steps.                       *)
GoodBut(a, l) ==
  /\ a \in Assets /\ BodyCount(a, {l}) /\ ActiveCount(a, {l}) /\ Lists(a)
  /\ a.load[l].step \notin {"none", "queued"} /\ a.disposal # "done"

(* Before the asset is open there are no loads.                            *)
Blank(a, active) ==
  /\ a \in Assets /\ a.active = active /\ a.bodies = 0 /\ a.queue = <<>>
  /\ a.disposal = "none" /\ a.listed = [u \in Units |-> 0]
  /\ \A l \in Loads : a.load[l] = NoLoad

Openings ==
  [step : {"requested", "reading", "failed", "open"},
   stage : {"header", "manifest", "index", "whole", "none"}, whole : BOOLEAN, aborted : BOOLEAN]

Inv ==
  /\ opening \in Openings
  /\ opening.step \in Sent => Blank(asset, 1)
  /\ opening.step = "failed" => Blank(asset, 0)
  /\ opening.step = "open" => Good(asset)

----------------------------------------------------------------------------
(* Loads and their numbers.                                                *)
LEMMA LoadTypes ==
  /\ Loads \subseteq Nat \ {0} /\ IsFiniteSet(Loads) /\ NoLoad \in LoadRecords
  /\ Bodies \in Nat \ {0}
<1>1. MaxLoads \in Nat /\ Bodies \in Nat \ {0} /\ Units # {}
  BY TransportAssumption
<1>2. IsFiniteSet(Loads) /\ Loads \subseteq Nat \ {0}
  BY <1>1, FS_Interval DEF Loads
<1>3. NoLoad \in LoadRecords
  BY <1>1 DEF NoLoad, LoadRecords, Steps
<1> QED BY <1>1, <1>2, <1>3

(* Any set of loads can be counted.                                        *)
LEMMA SubsetsCounted ==
  ASSUME NEW T \in SUBSET Loads
  PROVE  IsFiniteSet(T) /\ Cardinality(T) \in Nat
BY LoadTypes, FS_Subset, FS_CardinalityType

(* An asset without loads is good.                                         *)
LEMMA BlankGood ==
  ASSUME NEW a, Blank(a, 0)
  PROVE  Good(a)
<1>1. a \in Assets /\ \A l \in Loads : a.load[l].step = "none" /\ a.load[l].waiters = {}
  <2>1. NoLoad.step = "none" /\ NoLoad.waiters = {}
    BY DEF NoLoad
  <2> QED BY <2>1 DEF Blank
<1>2. Holding(a) = {} /\ Reading(a) = {}
  BY <1>1 DEF Holding, Reading, Held, Sent
<1>3. Cardinality(Holding(a) \ {}) = 0 /\ Cardinality(Reading(a) \ {}) = 0
  BY <1>2, FS_EmptySet
<1>4. BodyCount(a, {})
  <2>1. a.bodies = 0 /\ a.queue = <<>> /\ Els(a.queue) = {} /\ Distinct(a.queue) /\ Bodies \in Nat
    BY LoadTypes DEF Blank, Els, Distinct
  <2> QED BY <1>1, <1>3, <2>1 DEF BodyCount
<1>5. ActiveCount(a, {})
  BY <1>3 DEF ActiveCount, Blank
<1>6. Lists(a)
  BY <1>1 DEF Lists, Blank
<1> QED BY <1>1, <1>4, <1>5, <1>6 DEF Good, Ended, Blank

----------------------------------------------------------------------------
(* Steps of one load.                                                      *)

(* One load is changed, the others are not.                                *)
Only(a, b, l) == \A k \in Loads : k # l => b.load[k] = a.load[k]

SameBodies(a, b) == b.bodies = a.bodies /\ b.queue = a.queue

(* A load that is between two steps goes on to one that has no body.       *)
LEMMA CountsOn ==
  ASSUME NEW a, NEW b, NEW l \in Loads, Only(a, b, l),
         BodyCount(a, {l}), ActiveCount(a, {l}), SameBodies(a, b), b.active = a.active
  PROVE  /\ BodyCount(b, {l}) /\ ActiveCount(b, {l})
         /\ b.load[l].step \notin Held \cup {"queued"} => BodyCount(b, {}) /\ ActiveCount(b, {})
<1>1. Holding(b) \ {l} = Holding(a) \ {l} /\ Reading(b) \ {l} = Reading(a) \ {l}
  BY DEF Only, Holding, Reading
<1>2. BodyCount(b, {l}) /\ ActiveCount(b, {l})
  BY <1>1 DEF BodyCount, ActiveCount, SameBodies, Only
<1>3. ASSUME b.load[l].step \notin Held \cup {"queued"}
      PROVE  BodyCount(b, {}) /\ ActiveCount(b, {})
  <2>1. Holding(b) \ {l} = Holding(b) \ {} /\ Reading(b) \ {l} = Reading(b) \ {}
    BY <1>3 DEF Holding, Reading, Held, Sent
  <2> QED BY <1>2, <1>3, <2>1 DEF BodyCount, ActiveCount
<1> QED BY <1>2, <1>3

(* A load that has no body and does not wait for one is between two steps. *)
LEMMA OffBodies ==
  ASSUME NEW a, NEW l \in Loads, Good(a), a.load[l].step \in {"new", "rejected", "verifying"}
  PROVE  GoodBut(a, l)
<1>1. Holding(a) \ {l} = Holding(a) \ {} /\ Reading(a) \ {l} = Reading(a) \ {}
  BY DEF Holding, Reading, Held, Sent
<1>2. BodyCount(a, {l}) /\ ActiveCount(a, {l})
  BY <1>1 DEF Good, BodyCount, ActiveCount
<1> QED BY <1>2 DEF Good, GoodBut, Ended

(* A load settles: nobody waits for it any longer and nothing lists it.    *)
LEMMA SettleFields ==
  ASSUME NEW a \in Assets, NEW l \in Loads, NEW b, b = Settle(a, l)
  PROVE  /\ b \in Assets /\ Only(a, b, l) /\ b.load[l] = NoLoad
         /\ \A u \in Units : b.listed[u] = IF u = a.load[l].unit /\ a.listed[u] = l THEN 0 ELSE a.listed[u]
         /\ SameBodies(a, b) /\ b.active = a.active /\ b.disposal = a.disposal
         /\ b.cache = a.cache /\ b.file = a.file
<1>1. a.load[l].unit \in Units /\ NoLoad \in LoadRecords
  BY LoadTypes DEF Assets, LoadRecords
<1>2. /\ b.load = [a.load EXCEPT ![l] = NoLoad]
      /\ b.listed = [a.listed EXCEPT ![a.load[l].unit] = IF @ = l THEN 0 ELSE @]
      /\ SameBodies(a, b) /\ b.active = a.active /\ b.disposal = a.disposal
      /\ b.cache = a.cache /\ b.file = a.file /\ b.mode = a.mode
      /\ b = [mode |-> b.mode, file |-> b.file, cache |-> b.cache, active |-> b.active,
              bodies |-> b.bodies, queue |-> b.queue, listed |-> b.listed,
              disposal |-> b.disposal, load |-> b.load]
  BY DEF Settle, Assets, SameBodies
<1>3. b.load \in [Loads -> LoadRecords] /\ b.listed \in [Units -> Loads \cup {0}]
  BY <1>1, <1>2 DEF Assets
<1>4. b \in Assets
  BY <1>2, <1>3 DEF Assets, SameBodies
<1> QED BY <1>1, <1>2, <1>4 DEF Assets, Only

(* What a load leaves when it settles is good.                             *)
LEMMA SettleKeeps ==
  ASSUME NEW a, NEW l \in Loads, GoodBut(a, l)
  PROVE  Good(Settle(a, l))
<1> DEFINE b == Settle(a, l)
<1>1. /\ a \in Assets /\ b \in Assets /\ Only(a, b, l) /\ b.load[l] = NoLoad
      /\ \A u \in Units : b.listed[u] = IF u = a.load[l].unit /\ a.listed[u] = l THEN 0 ELSE a.listed[u]
      /\ SameBodies(a, b) /\ b.active = a.active /\ b.disposal = a.disposal
  BY SettleFields DEF GoodBut
<1>2. b.load[l].step = "none" /\ b.load[l].waiters = {}
  BY <1>1 DEF NoLoad
<1> HIDE DEF b
<1>3. BodyCount(b, {}) /\ ActiveCount(b, {})
  BY <1>1, <1>2, CountsOn DEF GoodBut, Held
<1>4. \A k \in Loads : a.load[k].unit \in Units
  BY <1>1 DEF Assets, LoadRecords
<1>5. Lists(b)
  <2>1. ASSUME NEW k \in Loads, b.load[k].step # "none", ~b.load[k].aborted
        PROVE  Listed(b, k)
    BY <2>1, <1>1, <1>2, <1>4 DEF GoodBut, Lists, Listed, Only
  <2>2. ASSUME NEW u \in Units, b.listed[u] # 0
        PROVE  /\ b.load[b.listed[u]].step # "none" /\ b.load[b.listed[u]].unit = u
               /\ b.load[b.listed[u]].waiters # {}
    <3>1. a.listed[u] # 0 /\ b.listed[u] = a.listed[u] /\ a.load[a.listed[u]].unit = u
      BY <2>2, <1>1 DEF GoodBut, Lists
    <3>2. b.listed[u] # l /\ b.listed[u] \in Loads
      BY <3>1, <2>2, <1>1, LoadTypes DEF Assets
    <3> QED BY <3>1, <3>2, <1>1 DEF GoodBut, Lists, Only
  <2>3. \A k, m \in Loads : k # m => b.load[k].waiters \cap b.load[m].waiters = {}
    BY <1>1, <1>2 DEF GoodBut, Lists, Only
  <2>4. \A k \in Loads : b.load[k].step = "queued" => ~b.load[k].aborted
    BY <1>1, <1>2 DEF GoodBut, Lists, Only
  <2> QED BY <2>1, <2>2, <2>3, <2>4 DEF Lists
<1>6. Ended(b)
  BY <1>1 DEF Ended, GoodBut
<1> QED BY <1>1, <1>3, <1>5, <1>6 DEF Good, b

(* A load goes to another step, and all else about it stays.               *)
Moves(a, b, l, step) ==
  /\ b \in Assets /\ Only(a, b, l) /\ b.load[l].step = step
  /\ b.load[l].unit = a.load[l].unit /\ b.load[l].waiters = a.load[l].waiters
  /\ b.load[l].aborted = a.load[l].aborted /\ b.listed = a.listed
  /\ b.disposal = a.disposal /\ b.cache = a.cache /\ b.file = a.file

(* A load that goes to another step does not disturb the list.             *)
LEMMA ListsOn ==
  ASSUME NEW a \in Assets, NEW b, NEW l \in Loads, NEW step, Moves(a, b, l, step), Lists(a),
         a.load[l].step # "none", step # "none", step = "queued" => ~a.load[l].aborted
  PROVE  Lists(b)
<1>1. \A k \in Loads : /\ b.load[k].step = "none" <=> a.load[k].step = "none"
                       /\ b.load[k].unit = a.load[k].unit
                       /\ b.load[k].waiters = a.load[k].waiters
                       /\ b.load[k].aborted = a.load[k].aborted
                       /\ b.load[k].step = "queued" => ~a.load[k].aborted
  BY DEF Moves, Only, Lists
<1>2. b.listed = a.listed /\ \A u \in Units : a.listed[u] \in Loads \cup {0}
  BY DEF Moves, Assets
<1> QED BY <1>1, <1>2 DEF Lists, Listed

(* The digest of the bytes of a load begins.                               *)
LEMMA VerifyMoves ==
  ASSUME NEW a \in Assets, NEW l \in Loads
  PROVE  /\ Moves(a, Verify(a, l), l, "verifying") /\ SameBodies(a, Verify(a, l))
         /\ Verify(a, l).active = a.active
<1> DEFINE b == Verify(a, l)
           k == [a.load[l] EXCEPT !.step = "verifying", !.ranges = 0, !.whole = FALSE]
<1>1. a.load[l] \in LoadRecords
  BY DEF Assets
<1>2. /\ k \in LoadRecords /\ k.step = "verifying" /\ k.unit = a.load[l].unit
      /\ k.waiters = a.load[l].waiters /\ k.aborted = a.load[l].aborted
  BY <1>1 DEF LoadRecords, Steps
<1>3. b = [a EXCEPT !.load = [a.load EXCEPT ![l] = k]]
  BY <1>1 DEF Verify, Assets, LoadRecords
<1> HIDE DEF b, k
<1>4. /\ b \in Assets /\ b.load = [a.load EXCEPT ![l] = k] /\ b.listed = a.listed
      /\ SameBodies(a, b) /\ b.active = a.active
      /\ b.disposal = a.disposal /\ b.cache = a.cache /\ b.file = a.file
  BY <1>2, <1>3 DEF Assets, SameBodies
<1> QED BY <1>2, <1>4 DEF Moves, Only, Assets, b

(* A load whose body was given back may go on to its digest.               *)
LEMMA VerifyKeeps ==
  ASSUME NEW a, NEW l \in Loads, GoodBut(a, l)
  PROVE  Good(Verify(a, l))
<1> DEFINE b == Verify(a, l)
<1>1. a \in Assets /\ Moves(a, b, l, "verifying") /\ SameBodies(a, b) /\ b.active = a.active
  BY VerifyMoves DEF GoodBut
<1> HIDE DEF b
<1>2. Lists(b)
  BY <1>1, ListsOn DEF GoodBut
<1>3. BodyCount(b, {}) /\ ActiveCount(b, {})
  BY <1>1, CountsOn DEF GoodBut, Moves, Held
<1> QED BY <1>1, <1>2, <1>3 DEF Good, GoodBut, Moves, Ended, b

(* A load gets a body, or a place in the queue for one.                    *)
LEMMA AcquireKeeps ==
  ASSUME NEW a, NEW l \in Loads, GoodBut(a, l), ~a.load[l].aborted
  PROVE  Good(Acquire(a, l))
<1> DEFINE b == Acquire(a, l)
           steps(step) == [a.load[l] EXCEPT !.step = step]
<1>1. a \in Assets /\ a.load[l] \in LoadRecords
  BY DEF GoodBut, Assets
<1>2. \A step \in Steps :
        /\ steps(step) \in LoadRecords /\ steps(step).step = step
        /\ steps(step).unit = a.load[l].unit
        /\ steps(step).waiters = a.load[l].waiters /\ steps(step).aborted = a.load[l].aborted
  BY <1>1 DEF LoadRecords
<1>3. CASE a.bodies < Bodies
  <2>1. b = [a EXCEPT !.bodies = a.bodies + 1, !.load = [a.load EXCEPT ![l] = steps("admitted")]]
    BY <1>1, <1>3 DEF Acquire, Assets, LoadRecords
  <2> HIDE DEF b, steps
  <2>2. steps("admitted") \in LoadRecords /\ steps("admitted").step = "admitted"
    BY <1>2 DEF Steps
  <2>3. /\ b \in Assets /\ b.load = [a.load EXCEPT ![l] = steps("admitted")] /\ b.listed = a.listed
        /\ b.bodies = a.bodies + 1 /\ b.queue = a.queue /\ b.active = a.active
        /\ b.disposal = a.disposal /\ b.cache = a.cache /\ b.file = a.file
    <3>1. /\ a.bodies + 1 \in Int
          /\ [a.load EXCEPT ![l] = steps("admitted")] \in [Loads -> LoadRecords]
      BY <1>1, <2>2 DEF Assets
    <3> QED BY <1>1, <2>1, <3>1 DEF Assets
  <2>4. Moves(a, b, l, "admitted")
    BY <1>1, <1>2, <2>2, <2>3 DEF Moves, Only, Assets, Steps
  <2>5. Lists(b)
    BY <1>1, <2>4, ListsOn DEF GoodBut
  <2>6. /\ Holding(b) = (Holding(a) \ {l}) \cup {l} /\ Reading(b) = Reading(a) \ {l}
    BY <2>4 DEF Moves, Only, Holding, Reading, Held, Sent
  <2>7. Cardinality(Holding(b)) = Cardinality(Holding(a) \ {l}) + 1
    <3>1. IsFiniteSet(Holding(a) \ {l})
      BY SubsetsCounted DEF Holding
    <3> QED BY <3>1, <2>6, FS_AddElement
  <2>8. a.queue = <<>> /\ Els(a.queue) = {} /\ Bodies \in Nat /\ a.bodies \in Int
    <3>1. a.queue = <<>> /\ Bodies \in Nat /\ a.bodies \in Int
      BY <1>1, <1>3, LoadTypes DEF GoodBut, BodyCount, Assets
    <3> QED BY <3>1 DEF Els
  <2>9. \A k \in Loads : b.load[k].step # "queued"
    BY <2>4, <2>8 DEF Moves, Only, GoodBut, BodyCount
  <2>10. BodyCount(b, {})
    <3>1. b.bodies = Cardinality(Holding(b) \ {}) /\ b.bodies <= Bodies
      BY <2>3, <2>7, <2>8, <1>3 DEF GoodBut, BodyCount
    <3> QED BY <3>1, <2>3, <2>8, <2>9 DEF BodyCount, GoodBut
  <2>11. ActiveCount(b, {})
    BY <2>3, <2>6 DEF ActiveCount, GoodBut
  <2> QED BY <2>3, <2>5, <2>10, <2>11 DEF Good, GoodBut, Ended, b
<1>4. CASE ~(a.bodies < Bodies)
  <2>1. b = [a EXCEPT !.queue = Append(a.queue, l), !.load = [a.load EXCEPT ![l] = steps("queued")]]
    BY <1>1, <1>4 DEF Acquire, Assets, LoadRecords
  <2> HIDE DEF b, steps
  <2>2. steps("queued") \in LoadRecords /\ steps("queued").step = "queued"
    BY <1>2 DEF Steps
  <2>3. /\ a.queue \in Seq(Loads) /\ Distinct(a.queue) /\ l \notin Els(a.queue)
    BY <1>1 DEF GoodBut, BodyCount, Assets
  <2>4. /\ Append(a.queue, l) \in Seq(Loads) /\ Distinct(Append(a.queue, l))
        /\ \A f : f \in Els(Append(a.queue, l)) <=> f \in Els(a.queue) \/ f = l
    BY <2>3, AppendEls
  <2>5. /\ b \in Assets /\ b.load = [a.load EXCEPT ![l] = steps("queued")] /\ b.listed = a.listed
        /\ b.bodies = a.bodies /\ b.queue = Append(a.queue, l) /\ b.active = a.active
        /\ b.disposal = a.disposal /\ b.cache = a.cache /\ b.file = a.file
    BY <1>1, <2>1, <2>2, <2>4 DEF Assets
  <2>6. Moves(a, b, l, "queued")
    BY <1>1, <1>2, <2>2, <2>5 DEF Moves, Only, Assets, Steps
  <2>7. Lists(b)
    BY <1>1, <2>6, ListsOn DEF GoodBut
  <2>8. /\ Holding(b) \ {} = Holding(a) \ {l} /\ Reading(b) \ {} = Reading(a) \ {l}
    BY <2>6 DEF Moves, Only, Holding, Reading, Held, Sent
  <2>9. a.bodies = Bodies
    BY <1>1, <1>4, LoadTypes DEF GoodBut, BodyCount, Assets
  <2>10. \A k \in Loads : k \in Els(b.queue) <=> b.load[k].step = "queued"
    BY <2>4, <2>5, <2>6 DEF Moves, Only, GoodBut, BodyCount
  <2>11. BodyCount(b, {})
    BY <2>4, <2>5, <2>8, <2>9, <2>10 DEF BodyCount, GoodBut
  <2>12. ActiveCount(b, {})
    BY <2>5, <2>8 DEF ActiveCount, GoodBut
  <2> QED BY <2>5, <2>7, <2>11, <2>12 DEF Good, GoodBut, Ended, b
<1> QED BY <1>3, <1>4

(* A load goes on to its next range, or is over.                           *)
LEMMA ProceedKeeps ==
  ASSUME NEW a, NEW l \in Loads, GoodBut(a, l)
  PROVE  Good(Proceed(a, l))
BY SettleKeeps, VerifyKeeps, AcquireKeeps DEF Proceed

----------------------------------------------------------------------------
(* Bodies that are given back.                                             *)

(* The body of a load that is over is free, or goes to the first in the    *)
(* queue.                                                                  *)
LEMMA ReleaseKeeps ==
  ASSUME NEW a \in Assets, NEW l \in Holding(a), BodyCount(a, {}), ActiveCount(a, {l}),
         Lists(a), a.disposal # "done"
  PROVE  /\ GoodBut(Release(a), l) /\ Release(a).load[l] = a.load[l]
         /\ Release(a).file = a.file
<1> DEFINE b == Release(a)
<1>1. l \in Loads /\ a.load[l].step \in Held /\ a.load[l].step \notin {"none", "queued"}
  BY DEF Holding, Held
<1>2. IsFiniteSet(Holding(a)) /\ IsFiniteSet(Holding(a) \ {l})
  BY SubsetsCounted DEF Holding
<1>3. /\ a.bodies = Cardinality(Holding(a)) /\ a.bodies <= Bodies /\ a.bodies \in Int
      /\ Cardinality(Holding(a) \ {l}) = a.bodies - 1 /\ Bodies \in Nat
  <2>1. Holding(a) \ {} = Holding(a)
    OBVIOUS
  <2>2. Cardinality(Holding(a) \ {l}) = Cardinality(Holding(a)) - 1
    BY <1>2, FS_RemoveElement
  <2> QED BY <2>1, <2>2, LoadTypes DEF BodyCount, Assets
<1>4. CASE a.queue = <<>>
  <2>1. b = [a EXCEPT !.bodies = a.bodies - 1]
    BY <1>4 DEF Release
  <2> HIDE DEF b
  <2>2. /\ b \in Assets /\ b.load = a.load /\ b.listed = a.listed
        /\ b.bodies = a.bodies - 1 /\ b.queue = a.queue /\ b.active = a.active
        /\ b.disposal = a.disposal /\ b.cache = a.cache /\ b.file = a.file
    <3>1. a.bodies - 1 \in Int
      BY <1>3
    <3> QED BY <2>1, <3>1 DEF Assets
  <2>3. Holding(b) = Holding(a) /\ Reading(b) = Reading(a)
    BY <2>2 DEF Holding, Reading
  <2>4. \A k \in Loads : k \in Els(b.queue) <=> k # l /\ b.load[k].step = "queued"
    BY <2>2, <1>1 DEF BodyCount
  <2>5. b.bodies = Cardinality(Holding(b) \ {l}) /\ b.bodies <= Bodies
    BY <2>2, <2>3, <1>3
  <2>6. BodyCount(b, {l})
    BY <2>2, <2>4, <2>5, <1>4 DEF BodyCount
  <2>7. ActiveCount(b, {l}) /\ Lists(b)
    BY <2>2, <2>3 DEF ActiveCount, Lists, Listed
  <2> QED BY <1>1, <2>2, <2>6, <2>7 DEF GoodBut, b
<1>5. CASE a.queue # <<>>
  <2> DEFINE h == Head(a.queue)
             head == [a.load[h] EXCEPT !.step = "admitted"]
  <2>1. /\ a.queue \in Seq(Loads) /\ Distinct(a.queue)
    BY DEF BodyCount, Assets
  <2>2. /\ h \in Loads /\ h \in Els(a.queue) /\ Tail(a.queue) \in Seq(Loads)
        /\ Distinct(Tail(a.queue))
        /\ \A f : f \in Els(Tail(a.queue)) <=> f \in Els(a.queue) /\ f # h
    BY <1>5, <2>1, TailEls
  <2>3. a.load[h].step = "queued" /\ h # l /\ a.load[h] \in LoadRecords
    BY <2>2, <1>1 DEF BodyCount, Assets
  <2>4. /\ head \in LoadRecords /\ head.step = "admitted" /\ head.unit = a.load[h].unit
        /\ head.waiters = a.load[h].waiters /\ head.aborted = a.load[h].aborted
    BY <2>3 DEF LoadRecords, Steps
  <2>5. b = [a EXCEPT !.queue = Tail(a.queue), !.load = [a.load EXCEPT ![h] = head]]
    BY <1>5, <2>2, <2>3 DEF Release, Assets, LoadRecords
  <2> HIDE DEF b, h, head
  <2>6. /\ b \in Assets /\ b.load = [a.load EXCEPT ![h] = head] /\ b.listed = a.listed
        /\ b.bodies = a.bodies /\ b.queue = Tail(a.queue) /\ b.active = a.active
        /\ b.disposal = a.disposal /\ b.cache = a.cache /\ b.file = a.file
    BY <2>2, <2>4, <2>5 DEF Assets
  <2>7. Moves(a, b, h, "admitted") /\ b.load[l] = a.load[l]
    BY <1>1, <2>2, <2>3, <2>4, <2>6 DEF Moves, Only, Assets
  <2>8. Lists(b)
    BY <2>2, <2>3, <2>7, ListsOn
  <2>9. /\ Holding(b) \ {l} = (Holding(a) \ {l}) \cup {h} /\ h \notin Holding(a) \ {l}
        /\ Reading(b) \ {l} = Reading(a) \ {l}
    BY <2>2, <2>3, <2>7 DEF Moves, Only, Holding, Reading, Held, Sent
  <2>10. b.bodies = Cardinality(Holding(b) \ {l})
    <3>1. Cardinality((Holding(a) \ {l}) \cup {h}) = Cardinality(Holding(a) \ {l}) + 1
      BY <1>2, <2>9, FS_AddElement
    <3>2. Cardinality(Holding(b) \ {l}) = Cardinality((Holding(a) \ {l}) \cup {h})
      BY <2>9, Zenon
    <3> HIDE DEF b, h
    <3>3. Cardinality(Holding(b) \ {l}) = a.bodies - 1 + 1
      BY <1>3, <3>1, <3>2
    <3> QED BY <1>3, <2>6, <3>3
  <2>11. \A k \in Loads : k \in Els(b.queue) <=> k # l /\ b.load[k].step = "queued"
    BY <2>2, <2>3, <2>6, <2>7, <1>1 DEF BodyCount, Moves, Only
  <2>12. BodyCount(b, {l})
    BY <1>5, <2>2, <2>6, <2>10, <2>11 DEF BodyCount
  <2>13. ActiveCount(b, {l})
    BY <2>6, <2>9 DEF ActiveCount
  <2> QED BY <1>1, <2>6, <2>7, <2>8, <2>12, <2>13 DEF GoodBut, b
<1> QED BY <1>4, <1>5

(* A request that is over gives its body back.                             *)
LEMMA RequestEndsKeeps ==
  ASSUME NEW a, NEW l \in Reading(a), Good(a)
  PROVE  /\ GoodBut(RequestEnds(a, l), l) /\ RequestEnds(a, l).load[l] = a.load[l]
         /\ RequestEnds(a, l).file = a.file
<1> DEFINE c == [a EXCEPT !.active = a.active - 1]
<1>1. a \in Assets /\ l \in Loads /\ a.load[l].step \in Sent /\ a.active \in Int
  BY DEF Good, Assets, Reading
<1>2. RequestEnds(a, l) = Release(c)
  BY DEF RequestEnds
<1>3. /\ c \in Assets /\ c.load = a.load /\ c.listed = a.listed /\ SameBodies(a, c)
      /\ c.active = a.active - 1 /\ c.disposal = a.disposal /\ c.file = a.file
  <2>1. a.active - 1 \in Int
    BY <1>1
  <2> QED BY <1>1, <2>1 DEF Assets, SameBodies
<1> HIDE DEF c
<1>4. Holding(c) = Holding(a) /\ Reading(c) = Reading(a) /\ l \in Holding(c)
  BY <1>1, <1>3 DEF Holding, Reading, Held, Sent
<1>5. BodyCount(c, {}) /\ Lists(c) /\ c.disposal # "done"
  BY <1>1, <1>3, <1>4 DEF Good, BodyCount, SameBodies, Lists, Listed, Ended, Sent
<1>6. ActiveCount(c, {l})
  <2>1. IsFiniteSet(Reading(a)) /\ Reading(a) \ {} = Reading(a)
    BY SubsetsCounted DEF Reading
  <2>2. Cardinality(Reading(a) \ {l}) = Cardinality(Reading(a)) - 1
    BY <2>1, FS_RemoveElement
  <2> QED BY <1>3, <1>4, <2>1, <2>2 DEF ActiveCount, Good
<1> QED BY <1>2, <1>3, <1>4, <1>5, <1>6, ReleaseKeeps

----------------------------------------------------------------------------
(* What the network, the digest and the timers bring to a load.            *)

(* A load begins.                                                          *)
LEMMA LoadStartsKeeps ==
  ASSUME NEW l \in Loads, Good(asset), LoadStarts(l)
  PROVE  Good(asset')
<1>1. asset.load[l].step = "new"
  BY DEF LoadStarts, Step
<1>2. GoodBut(asset, l)
  BY <1>1, OffBodies
<1> QED BY <1>2, VerifyKeeps, ProceedKeeps DEF LoadStarts

(* A load that got a body sends its request, or gives the body back.       *)
LEMMA AdmittedKeeps ==
  ASSUME NEW l \in Loads, Good(asset), Admitted(l)
  PROVE  Good(asset')
<1> DEFINE a == asset
           b == asset'
<1>1. a \in Assets /\ a.load[l].step = "admitted" /\ a.load[l] \in LoadRecords /\ a.active \in Int
  BY DEF Admitted, Step, Good, Assets
<1>2. l \in Holding(a) /\ l \notin Reading(a) /\ a.disposal # "done"
  BY <1>1 DEF Holding, Reading, Held, Sent, Good, Ended
<1>3. CASE a.load[l].aborted
  <2>1. b = Settle(Release(a), l)
    BY <1>3 DEF Admitted
  <2>2. ActiveCount(a, {l})
    <3>1. Reading(a) \ {l} = Reading(a) \ {}
      BY <1>2
    <3> QED BY <3>1 DEF Good, ActiveCount
  <2>3. GoodBut(Release(a), l)
    BY <1>1, <1>2, <2>2, ReleaseKeeps DEF Good
  <2> QED BY <2>1, <2>3, SettleKeeps
<1>4. CASE ~a.load[l].aborted
  <2> DEFINE k == [a.load[l] EXCEPT !.step = "requested"]
  <2>1. b = [a EXCEPT !.load = [a.load EXCEPT ![l] = k], !.active = a.active + 1]
    BY <1>1, <1>4 DEF Admitted, Assets, LoadRecords
  <2>2. /\ k \in LoadRecords /\ k.step = "requested" /\ k.unit = a.load[l].unit
        /\ k.waiters = a.load[l].waiters /\ k.aborted = a.load[l].aborted
    BY <1>1 DEF LoadRecords, Steps
  <2> HIDE DEF a, b, k
  <2>3. /\ b \in Assets /\ b.load = [a.load EXCEPT ![l] = k] /\ b.listed = a.listed
        /\ b.bodies = a.bodies /\ b.queue = a.queue /\ b.active = a.active + 1
        /\ b.disposal = a.disposal /\ b.cache = a.cache /\ b.file = a.file
    <3>1. /\ a.active + 1 \in Int
          /\ [a.load EXCEPT ![l] = k] \in [Loads -> LoadRecords]
      BY <1>1, <2>2 DEF Assets
    <3> QED BY <1>1, <2>1, <3>1 DEF Assets
  <2>4. Moves(a, b, l, "requested")
    BY <1>1, <2>2, <2>3 DEF Moves, Only, Assets
  <2>5. Lists(a) /\ BodyCount(a, {}) /\ ActiveCount(a, {})
    BY DEF Good, a
  <2>6. Lists(b)
    BY <1>1, <2>4, <2>5, ListsOn
  <2>7. Holding(b) = Holding(a) /\ Reading(b) = Reading(a) \cup {l}
    BY <1>1, <2>4 DEF Moves, Only, Holding, Reading, Held, Sent
  <2>8. BodyCount(b, {})
    BY <1>1, <2>3, <2>4, <2>5, <2>7 DEF BodyCount, Moves, Only
  <2>9. ActiveCount(b, {})
    <3>1. IsFiniteSet(Reading(a)) /\ Reading(a) \ {} = Reading(a) /\ Reading(b) \ {} = Reading(b)
      BY SubsetsCounted DEF Reading
    <3>2. Cardinality(Reading(a) \cup {l}) = Cardinality(Reading(a)) + 1
      BY <1>2, <3>1, FS_AddElement
    <3> QED BY <2>3, <2>5, <2>7, <3>1, <3>2 DEF ActiveCount
  <2> QED BY <1>2, <2>3, <2>6, <2>8, <2>9 DEF Good, Ended, b
<1> QED BY <1>3, <1>4

(* The answer to a request of a load.                                      *)
LEMMA RespondsKeeps ==
  ASSUME NEW l \in Loads, NEW answer, Good(asset), Responds(l, answer)
  PROVE  Good(asset')
<1> DEFINE a == asset
           b == asset'
<1>1. a \in Assets /\ a.load[l].step = "requested" /\ a.load[l] \in LoadRecords
  BY DEF Responds, Step, Good, Assets
<1>2. l \in Reading(a) /\ a.disposal # "done"
  BY <1>1 DEF Reading, Sent, Good, Ended
<1>3. CASE answer \notin {"range", "whole"}
  <2>1. b = Settle(RequestEnds(a, l), l)
    BY <1>3 DEF Responds
  <2> QED BY <2>1, <1>2, RequestEndsKeeps, SettleKeeps
<1>4. CASE answer \in {"range", "whole"}
  <2> DEFINE k == [a.load[l] EXCEPT !.step = "reading", !.whole = answer = "whole"]
  <2>1. b = [a EXCEPT !.load = [a.load EXCEPT ![l] = k]]
    BY <1>1, <1>4 DEF Responds, Assets, LoadRecords
  <2>2. /\ k \in LoadRecords /\ k.step = "reading" /\ k.unit = a.load[l].unit
        /\ k.waiters = a.load[l].waiters /\ k.aborted = a.load[l].aborted
    BY <1>1 DEF LoadRecords, Steps
  <2> HIDE DEF a, b, k
  <2>3. /\ b \in Assets /\ b.load = [a.load EXCEPT ![l] = k] /\ b.listed = a.listed
        /\ b.bodies = a.bodies /\ b.queue = a.queue /\ b.active = a.active
        /\ b.disposal = a.disposal /\ b.cache = a.cache /\ b.file = a.file
    BY <1>1, <2>1, <2>2 DEF Assets
  <2>4. Moves(a, b, l, "reading")
    BY <1>1, <2>2, <2>3 DEF Moves, Only, Assets
  <2>5. Lists(a) /\ BodyCount(a, {}) /\ ActiveCount(a, {})
    BY DEF Good, a
  <2>6. Lists(b)
    BY <1>1, <2>4, <2>5, ListsOn
  <2>7. Holding(b) = Holding(a) /\ Reading(b) = Reading(a)
    BY <1>1, <2>4 DEF Moves, Only, Holding, Reading, Held, Sent
  <2>8. BodyCount(b, {}) /\ ActiveCount(b, {})
    BY <1>1, <2>3, <2>4, <2>5, <2>7 DEF BodyCount, ActiveCount, Moves, Only
  <2> QED BY <1>2, <2>3, <2>6, <2>8 DEF Good, Ended, b
<1> QED BY <1>3, <1>4

(* The file that comes instead of a range changes nothing about loads.     *)
LEMMA InstallKeeps ==
  ASSUME NEW a, NEW l \in Loads, GoodBut(a, l)
  PROVE  GoodBut(Install(a), l)
<1> DEFINE b == Install(a)
<1>1. a \in Assets
  BY DEF GoodBut
<1>2. /\ b \in Assets /\ b.load = a.load /\ b.listed = a.listed /\ SameBodies(a, b)
      /\ b.active = a.active /\ b.disposal = a.disposal
  BY <1>1 DEF Install, Assets, SameBodies
<1> HIDE DEF b
<1>3. Lists(b)
  BY <1>2 DEF GoodBut, Lists, Listed
<1>4. BodyCount(b, {l}) /\ ActiveCount(b, {l})
  BY <1>2, CountsOn DEF GoodBut, Only
<1> QED BY <1>2, <1>3, <1>4 DEF GoodBut, b

(* A range that was read.                                                  *)
LEMMA RangeRead ==
  ASSUME NEW a, NEW l \in Loads, GoodBut(a, l)
  PROVE  GoodBut([a EXCEPT !.load[l].ranges = @ + 1], l)
<1> DEFINE k == [a.load[l] EXCEPT !.ranges = a.load[l].ranges + 1]
           b == [a EXCEPT !.load[l].ranges = @ + 1]
<1>1. a \in Assets /\ a.load[l] \in LoadRecords /\ a.load[l].step \notin {"none", "queued"}
  BY DEF GoodBut, Assets
<1>2. /\ k \in LoadRecords /\ k.step = a.load[l].step /\ k.unit = a.load[l].unit
      /\ k.waiters = a.load[l].waiters /\ k.aborted = a.load[l].aborted
  BY <1>1 DEF LoadRecords
<1>3. b = [a EXCEPT !.load = [a.load EXCEPT ![l] = k]]
  BY <1>1 DEF Assets, LoadRecords
<1> HIDE DEF b, k
<1>4. /\ b \in Assets /\ b.load = [a.load EXCEPT ![l] = k] /\ b.listed = a.listed
      /\ b.bodies = a.bodies /\ b.queue = a.queue /\ b.active = a.active
      /\ b.disposal = a.disposal /\ b.cache = a.cache /\ b.file = a.file
  BY <1>1, <1>2, <1>3 DEF Assets
<1>5. Moves(a, b, l, a.load[l].step)
  BY <1>1, <1>2, <1>4 DEF Moves, Only, Assets
<1>6. Lists(b)
  BY <1>1, <1>5, ListsOn DEF GoodBut
<1>7. BodyCount(b, {l}) /\ ActiveCount(b, {l})
  BY <1>4, <1>5, CountsOn DEF GoodBut, Moves, SameBodies
<1> QED BY <1>1, <1>2, <1>4, <1>5, <1>6, <1>7 DEF GoodBut, Moves, b

(* The end of a body: of a range, or of the file.                          *)
LEMMA BodyEndsKeeps ==
  ASSUME NEW l \in Loads, NEW ok \in BOOLEAN, Good(asset), BodyEnds(l, ok)
  PROVE  Good(asset')
<1> DEFINE a == RequestEnds(asset, l)
           read == [a EXCEPT !.load[l].ranges = @ + 1]
<1>1. l \in Reading(asset)
  BY DEF BodyEnds, Step, Reading, Sent
<1>2. GoodBut(a, l)
  BY <1>1, RequestEndsKeeps
<1>3. GoodBut(read, l) /\ GoodBut(Install(a), l)
  BY <1>2, RangeRead, InstallKeeps
<1>4. \/ asset' = Settle(a, l) \/ asset' = Verify(Install(a), l)
      \/ asset' = Verify(read, l) \/ asset' = Proceed(read, l)
  BY DEF BodyEnds
<1> HIDE DEF a, read
<1> QED BY <1>2, <1>3, <1>4, SettleKeeps, VerifyKeeps, ProceedKeeps

(* The end of a load that was aborted.                                     *)
LEMMA InterruptedKeeps ==
  ASSUME NEW l \in Loads, Good(asset), Interrupted(l) \/ Rejected(l)
  PROVE  Good(asset')
<1>1. CASE Interrupted(l)
  <2>1. l \in Reading(asset) /\ asset' = Settle(RequestEnds(asset, l), l)
    BY <1>1 DEF Interrupted, Step, Reading, Sent
  <2> QED BY <2>1, RequestEndsKeeps, SettleKeeps
<1>2. CASE Rejected(l)
  <2>1. asset.load[l].step = "rejected" /\ asset' = Settle(asset, l)
    BY <1>2 DEF Rejected, Step
  <2> QED BY <2>1, OffBodies, SettleKeeps
<1> QED BY <1>1, <1>2

(* The end of a digest.                                                    *)
LEMMA VerifiedKeeps ==
  ASSUME NEW l \in Loads, NEW ok \in BOOLEAN, Good(asset), Verified(l, ok)
  PROVE  Good(asset')
<1> DEFINE c == [asset EXCEPT !.cache = @ \cup {asset.load[l].unit}]
<1>1. asset.load[l].step = "verifying"
  BY DEF Verified, Step
<1>2. GoodBut(asset, l)
  BY <1>1, OffBodies
<1>3. asset' = Settle(asset, l) \/ asset' = Settle(c, l)
  BY DEF Verified
<1>4. asset \in Assets /\ asset.load[l].unit \in Units
  BY <1>2 DEF GoodBut, Assets, LoadRecords
<1>5. /\ c \in Assets /\ c.load = asset.load /\ c.listed = asset.listed /\ SameBodies(asset, c)
      /\ c.active = asset.active /\ c.disposal = asset.disposal
  BY <1>4 DEF Assets, SameBodies
<1> HIDE DEF c
<1>6. Lists(c)
  BY <1>2, <1>5 DEF GoodBut, Lists, Listed
<1>7. BodyCount(c, {l}) /\ ActiveCount(c, {l})
  BY <1>2, <1>5, CountsOn DEF GoodBut, Only
<1>8. GoodBut(c, l)
  BY <1>2, <1>5, <1>6, <1>7 DEF GoodBut
<1> QED BY <1>2, <1>3, <1>8, SettleKeeps

----------------------------------------------------------------------------
(* Aborts.                                                                 *)

(* What an abort makes of a load that is pending.                          *)
LEMMA AbortedLoad ==
  ASSUME NEW load \in LoadRecords
  PROVE  /\ Aborted(load) \in LoadRecords /\ Aborted(load).aborted
         /\ Aborted(load).unit = load.unit /\ Aborted(load).waiters = load.waiters
         /\ Aborted(load).step = IF load.step = "queued" THEN "rejected" ELSE load.step
BY DEF Aborted, LoadRecords, Steps

(* An aborted load leaves the queue, and keeps its body until it ends.     *)
LEMMA AbortCounts ==
  ASSUME NEW a \in Assets, NEW l \in Loads, BodyCount(a, {}), ActiveCount(a, {}),
         NEW b, b = Abort(a, l)
  PROVE  /\ b \in Assets /\ BodyCount(b, {}) /\ ActiveCount(b, {}) /\ Only(a, b, l)
         /\ b.load[l] = Aborted(a.load[l]) /\ b.listed = a.listed
         /\ b.disposal = a.disposal /\ b.cache = a.cache /\ b.file = a.file
<1> DEFINE k == Aborted(a.load[l])
<1>1. a.load[l] \in LoadRecords /\ a.queue \in Seq(Loads) /\ Distinct(a.queue)
  BY DEF Assets, BodyCount
<1>2. /\ k \in LoadRecords
      /\ k.step = IF a.load[l].step = "queued" THEN "rejected" ELSE a.load[l].step
  BY <1>1, AbortedLoad
<1>3. b = [a EXCEPT !.queue = Without(a.queue, l), !.load = [a.load EXCEPT ![l] = k]]
  BY DEF Abort, Assets
<1> HIDE DEF k
<1>4. /\ Without(a.queue, l) \in Seq(Loads) /\ Distinct(Without(a.queue, l))
      /\ \A f : f \in Els(Without(a.queue, l)) <=> f \in Els(a.queue) /\ f # l
  BY <1>1, WithoutEls
<1>5. /\ b \in Assets /\ b.load = [a.load EXCEPT ![l] = k] /\ b.listed = a.listed
      /\ b.bodies = a.bodies /\ b.queue = Without(a.queue, l) /\ b.active = a.active
      /\ b.disposal = a.disposal /\ b.cache = a.cache /\ b.file = a.file
  <2>1. [a.load EXCEPT ![l] = k] \in [Loads -> LoadRecords]
    BY <1>2 DEF Assets
  <2>2. Without(a.queue, l) \in Seq(Loads)
    BY <1>4
  <2> QED BY <1>3, <2>1, <2>2 DEF Assets
<1>6. Only(a, b, l) /\ b.load[l] = k
  BY <1>5 DEF Only, Assets
<1>7. Holding(b) = Holding(a) /\ Reading(b) = Reading(a)
  BY <1>2, <1>6 DEF Only, Holding, Reading, Held, Sent
<1>8. \A f \in Loads : f \in Els(b.queue) <=> b.load[f].step = "queued"
  BY <1>2, <1>4, <1>5, <1>6 DEF BodyCount, Only
<1>9. b.queue # <<>> => b.bodies = Bodies
  <2>1. a.queue = <<>> => b.queue = <<>>
    BY <1>5 DEF Without
  <2> QED BY <2>1, <1>5 DEF BodyCount
<1> QED BY <1>4, <1>5, <1>6, <1>7, <1>8, <1>9 DEF BodyCount, ActiveCount, k

(* One timer for all ranges of a load.                                     *)
LEMMA TimesOutKeeps ==
  ASSUME NEW l \in Loads, Good(asset), TimesOut(l)
  PROVE  Good(asset')
<1> DEFINE a == asset
           b == asset'
<1>1. /\ a \in Assets /\ BodyCount(a, {}) /\ ActiveCount(a, {}) /\ Lists(a)
      /\ a.load[l].step # "none" /\ b = Abort(a, l) /\ a.disposal # "done"
  BY DEF TimesOut, Pending, Good, Ended
<1>2. a.load[l] \in LoadRecords
  BY <1>1 DEF Assets
<1> HIDE DEF a, b
<1>3. /\ b \in Assets /\ BodyCount(b, {}) /\ ActiveCount(b, {}) /\ Only(a, b, l)
      /\ b.load[l] = Aborted(a.load[l]) /\ b.listed = a.listed /\ b.disposal = a.disposal
  BY <1>1, AbortCounts
<1>4. /\ b.load[l].step \notin {"none", "queued"} /\ b.load[l].aborted
      /\ b.load[l].unit = a.load[l].unit /\ b.load[l].waiters = a.load[l].waiters
  BY <1>1, <1>2, <1>3, AbortedLoad
<1>5. \A k \in Loads : /\ b.load[k].step = "none" <=> a.load[k].step = "none"
                       /\ b.load[k].unit = a.load[k].unit
                       /\ b.load[k].waiters = a.load[k].waiters
                       /\ a.load[k].aborted => b.load[k].aborted
                       /\ b.load[k].step = "queued" => ~b.load[k].aborted
  BY <1>1, <1>3, <1>4 DEF Only, Lists
<1>6. Lists(b)
  <2>1. \A k \in Loads : b.load[k].step # "none" /\ ~b.load[k].aborted => Listed(b, k)
    BY <1>1, <1>3, <1>5 DEF Lists, Listed
  <2>2. \A u \in Units : a.listed[u] \in Loads \cup {0}
    BY <1>1 DEF Assets
  <2>3. \A u \in Units : b.listed[u] # 0 =>
          /\ b.load[b.listed[u]].step # "none" /\ b.load[b.listed[u]].unit = u
          /\ b.load[b.listed[u]].waiters # {}
    BY <1>1, <1>3, <1>5, <2>2 DEF Lists
  <2>4. \A k, m \in Loads : k # m => b.load[k].waiters \cap b.load[m].waiters = {}
    BY <1>1, <1>5 DEF Lists
  <2> QED BY <1>5, <2>1, <2>3, <2>4 DEF Lists
<1> QED BY <1>1, <1>3, <1>6 DEF Good, Ended, b

----------------------------------------------------------------------------
(* Calls.                                                                  *)

(* Somebody asks for a unit.                                               *)
LEMMA UnitBytesKeeps ==
  ASSUME NEW i \in Interests, NEW u \in Units, NEW l \in Loads, Good(asset), UnitBytes(i, u, l)
  PROVE  Good(asset')
<1> DEFINE a == asset
           b == asset'
<1>1. /\ a \in Assets /\ BodyCount(a, {}) /\ ActiveCount(a, {}) /\ Lists(a)
      /\ a.disposal = "none" /\ a.load[l] \in LoadRecords
      /\ \A k \in Loads : i \notin a.load[k].waiters
  BY DEF UnitBytes, Good, Waiting, Assets
<1>2. CASE a.listed[u] # 0
  <2> DEFINE k == [a.load[l] EXCEPT !.waiters = a.load[l].waiters \cup {i}]
  <2>1. l = a.listed[u] /\ b = [a EXCEPT !.load = [a.load EXCEPT ![l] = k]]
    BY <1>1, <1>2 DEF UnitBytes, Assets, LoadRecords
  <2>2. /\ k \in LoadRecords /\ k.step = a.load[l].step /\ k.unit = a.load[l].unit
        /\ k.waiters = a.load[l].waiters \cup {i} /\ k.aborted = a.load[l].aborted
    BY <1>1 DEF LoadRecords
  <2> HIDE DEF a, b, k
  <2>3. /\ b \in Assets /\ b.load = [a.load EXCEPT ![l] = k] /\ b.listed = a.listed
        /\ SameBodies(a, b) /\ b.active = a.active /\ b.disposal = a.disposal
    BY <1>1, <2>1, <2>2 DEF Assets, SameBodies
  <2>4. \A m \in Loads : /\ b.load[m].step = a.load[m].step /\ b.load[m].unit = a.load[m].unit
                         /\ b.load[m].aborted = a.load[m].aborted
                         /\ b.load[m].waiters = IF m = l THEN a.load[m].waiters \cup {i}
                                                ELSE a.load[m].waiters
    BY <1>1, <2>2, <2>3 DEF Assets
  <2>5. Holding(b) = Holding(a) /\ Reading(b) = Reading(a)
    BY <2>4 DEF Holding, Reading
  <2>6. BodyCount(b, {}) /\ ActiveCount(b, {})
    BY <1>1, <2>3, <2>4, <2>5 DEF BodyCount, ActiveCount, SameBodies
  <2>7. Lists(b)
    <3>1. \A m \in Loads : b.load[m].step # "none" /\ ~b.load[m].aborted => Listed(b, m)
      BY <1>1, <2>3, <2>4 DEF Lists, Listed
    <3>2. \A v \in Units : b.listed[v] # 0 =>
            /\ b.load[b.listed[v]].step # "none" /\ b.load[b.listed[v]].unit = v
            /\ b.load[b.listed[v]].waiters # {}
      <4>1. ASSUME NEW v \in Units, b.listed[v] # 0
            PROVE  /\ b.load[b.listed[v]].step # "none" /\ b.load[b.listed[v]].unit = v
                   /\ b.load[b.listed[v]].waiters # {}
        <5>1. b.listed[v] = a.listed[v] /\ a.listed[v] \in Loads
          BY <4>1, <1>1, <2>3 DEF Assets
        <5>2. /\ a.load[a.listed[v]].step # "none" /\ a.load[a.listed[v]].unit = v
              /\ a.load[a.listed[v]].waiters # {}
          BY <4>1, <5>1, <1>1 DEF Lists
        <5> QED BY <5>1, <5>2, <2>4
      <4> QED BY <4>1
    <3>3. ASSUME NEW m \in Loads, NEW n \in Loads, m # n
          PROVE  b.load[m].waiters \cap b.load[n].waiters = {}
      <4>1. a.load[m].waiters \cap a.load[n].waiters = {}
        BY <3>3, <1>1 DEF Lists
      <4>2. i \notin a.load[m].waiters /\ i \notin a.load[n].waiters
        BY <1>1
      <4>3. CASE m = l
        BY <3>3, <4>1, <4>2, <4>3, <2>4
      <4>4. CASE m # l
        BY <4>1, <4>2, <4>4, <2>4
      <4> QED BY <4>3, <4>4
    <3>4. \A m \in Loads : b.load[m].step = "queued" => ~b.load[m].aborted
      BY <1>1, <2>4 DEF Lists
    <3> QED BY <3>1, <3>2, <3>3, <3>4 DEF Lists
  <2> QED BY <1>1, <2>3, <2>6, <2>7 DEF Good, Ended, b
<1>3. CASE a.listed[u] = 0
  <2> DEFINE k == [NoLoad EXCEPT !.unit = u, !.step = "new", !.waiters = {i}]
  <2>1. /\ b = [a EXCEPT !.listed = [a.listed EXCEPT ![u] = l], !.load = [a.load EXCEPT ![l] = k]]
        /\ a.load[l].step = "none"
    BY <1>1, <1>3 DEF UnitBytes, Assets, Pending
  <2>2. /\ k \in LoadRecords /\ k.step = "new" /\ k.unit = u /\ k.waiters = {i} /\ ~k.aborted
    BY LoadTypes DEF LoadRecords, Steps, NoLoad
  <2> HIDE DEF a, b, k
  <2>3. /\ b \in Assets /\ b.load = [a.load EXCEPT ![l] = k]
        /\ b.listed = [a.listed EXCEPT ![u] = l]
        /\ SameBodies(a, b) /\ b.active = a.active /\ b.disposal = a.disposal
    <3>1. [a.listed EXCEPT ![u] = l] \in [Units -> Loads \cup {0}]
      BY <1>1 DEF Assets
    <3> QED BY <1>1, <2>1, <2>2, <3>1 DEF Assets, SameBodies
  <2>4. Only(a, b, l) /\ b.load[l] = k
    BY <1>1, <2>3 DEF Only, Assets
  <2>5. Holding(b) = Holding(a) /\ Reading(b) = Reading(a)
    BY <2>1, <2>2, <2>4 DEF Only, Holding, Reading, Held, Sent
  <2>6. BodyCount(b, {}) /\ ActiveCount(b, {})
    BY <1>1, <2>1, <2>2, <2>3, <2>4, <2>5 DEF BodyCount, ActiveCount, SameBodies, Only
  <2>7. b.listed[u] = l /\ \A v \in Units : v # u => b.listed[v] = a.listed[v]
    BY <1>1, <2>3 DEF Assets
  <2>8. Lists(b)
    <3>1. \A m \in Loads : b.load[m].step # "none" /\ ~b.load[m].aborted => Listed(b, m)
      <4>1. ASSUME NEW m \in Loads, b.load[m].step # "none", ~b.load[m].aborted
            PROVE  Listed(b, m)
        <5>1. CASE m = l
          BY <5>1, <2>2, <2>4, <2>7 DEF Listed
        <5>2. CASE m # l
          <6>1. b.load[m] = a.load[m] /\ a.listed[a.load[m].unit] = m /\ m # 0
            BY <5>2, <4>1, <1>1, <2>4, LoadTypes DEF Lists, Listed, Only
          <6>2. a.load[m].unit \in Units /\ a.load[m].unit # u
            BY <6>1, <1>1, <1>3 DEF Assets, LoadRecords
          <6> QED BY <6>1, <6>2, <2>7 DEF Listed
        <5> QED BY <5>1, <5>2
      <4> QED BY <4>1
    <3>2. ASSUME NEW v \in Units, b.listed[v] # 0
          PROVE  /\ b.load[b.listed[v]].step # "none" /\ b.load[b.listed[v]].unit = v
                 /\ b.load[b.listed[v]].waiters # {}
      <4>1. CASE v = u
        BY <4>1, <2>2, <2>4, <2>7
      <4>2. CASE v # u
        <5>1. /\ b.listed[v] = a.listed[v] /\ a.listed[v] \in Loads
              /\ a.load[a.listed[v]].step # "none" /\ a.load[a.listed[v]].unit = v
              /\ a.load[a.listed[v]].waiters # {}
          BY <4>2, <3>2, <2>7, <1>1 DEF Lists, Assets
        <5>2. a.listed[v] # l
          BY <5>1, <2>1
        <5> QED BY <5>1, <5>2, <2>4 DEF Only
      <4> QED BY <4>1, <4>2
    <3>3. \A m, n \in Loads : m # n => b.load[m].waiters \cap b.load[n].waiters = {}
      BY <1>1, <2>2, <2>4 DEF Lists, Only
    <3>4. \A m \in Loads : b.load[m].step = "queued" => ~b.load[m].aborted
      BY <1>1, <2>2, <2>4 DEF Lists, Only
    <3> QED BY <3>1, <3>2, <3>3, <3>4 DEF Lists
  <2> QED BY <1>1, <2>3, <2>6, <2>8 DEF Good, Ended, b
<1> QED BY <1>2, <1>3

(* Somebody leaves; the last to leave stops the load.                      *)
LEMMA LoseInterestKeeps ==
  ASSUME NEW i \in Interests, NEW l \in Loads, Good(asset), LoseInterest(i, l)
  PROVE  Good(asset')
<1> DEFINE a == asset
           b == asset'
           k == [a.load[l] EXCEPT !.waiters = a.load[l].waiters \ {i}]
           c == [a EXCEPT !.load[l].waiters = @ \ {i}]
           d == [c EXCEPT !.listed[c.load[l].unit] = 0]
<1>1. /\ a \in Assets /\ BodyCount(a, {}) /\ ActiveCount(a, {}) /\ Lists(a) /\ Ended(a)
      /\ a.load[l] \in LoadRecords
  BY DEF Good, Assets
<1>2. b = IF c.load[l].waiters = {} /\ Listed(c, l) THEN Abort(d, l) ELSE c
  BY DEF LoseInterest
<1>3. c = [a EXCEPT !.load = [a.load EXCEPT ![l] = k]]
  BY <1>1 DEF Assets, LoadRecords
<1>4. /\ k \in LoadRecords /\ k.step = a.load[l].step /\ k.unit = a.load[l].unit
      /\ k.waiters = a.load[l].waiters \ {i} /\ k.aborted = a.load[l].aborted
  BY <1>1 DEF LoadRecords
<1> HIDE DEF a, b, k, c
<1>5. /\ c \in Assets /\ c.load = [a.load EXCEPT ![l] = k] /\ c.listed = a.listed
      /\ SameBodies(a, c) /\ c.active = a.active /\ c.disposal = a.disposal
      /\ c.cache = a.cache /\ c.file = a.file
  BY <1>1, <1>3, <1>4 DEF Assets, SameBodies
<1>6. \A m \in Loads : /\ c.load[m].step = a.load[m].step /\ c.load[m].unit = a.load[m].unit
                       /\ c.load[m].aborted = a.load[m].aborted
                       /\ c.load[m].waiters \subseteq a.load[m].waiters
                       /\ m # l => c.load[m].waiters = a.load[m].waiters
  BY <1>1, <1>4, <1>5 DEF Assets
<1>7. Holding(c) = Holding(a) /\ Reading(c) = Reading(a)
  BY <1>6 DEF Holding, Reading
<1>8. BodyCount(c, {}) /\ ActiveCount(c, {})
  BY <1>1, <1>5, <1>6, <1>7 DEF BodyCount, ActiveCount, SameBodies
<1>9. /\ \A m \in Loads : c.load[m].step # "none" /\ ~c.load[m].aborted => Listed(c, m)
      /\ \A m \in Loads : c.load[m].step = "queued" => ~c.load[m].aborted
  BY <1>1, <1>5, <1>6 DEF Lists, Listed
<1>10. \A m, n \in Loads : m # n => c.load[m].waiters \cap c.load[n].waiters = {}
  <2>1. ASSUME NEW m \in Loads, NEW n \in Loads, m # n
        PROVE  c.load[m].waiters \cap c.load[n].waiters = {}
    <3>1. a.load[m].waiters \cap a.load[n].waiters = {}
      BY <2>1, <1>1 DEF Lists
    <3> QED BY <3>1, <1>6
  <2> QED BY <2>1
<1>11. \A u \in Units : c.listed[u] # 0 =>
         /\ c.listed[u] \in Loads /\ c.load[c.listed[u]].step # "none"
         /\ c.load[c.listed[u]].unit = u
         /\ c.listed[u] # l => c.load[c.listed[u]].waiters # {}
  <2>1. ASSUME NEW u \in Units, c.listed[u] # 0
        PROVE  /\ c.listed[u] \in Loads /\ c.load[c.listed[u]].step # "none"
               /\ c.load[c.listed[u]].unit = u
               /\ c.listed[u] # l => c.load[c.listed[u]].waiters # {}
    <3>1. c.listed[u] = a.listed[u] /\ a.listed[u] \in Loads
      BY <2>1, <1>1, <1>5 DEF Assets
    <3>2. /\ a.load[a.listed[u]].step # "none" /\ a.load[a.listed[u]].unit = u
          /\ a.load[a.listed[u]].waiters # {}
      BY <2>1, <3>1, <1>1, <1>5 DEF Lists
    <3> QED BY <3>1, <3>2, <1>6
  <2> QED BY <2>1
<1>12. CASE ~(c.load[l].waiters = {} /\ Listed(c, l))
  <2>1. b = c
    BY <1>2, <1>12
  <2>2. \A u \in Units : c.listed[u] # 0 =>
          /\ c.load[c.listed[u]].step # "none" /\ c.load[c.listed[u]].unit = u
          /\ c.load[c.listed[u]].waiters # {}
    BY <1>11, <1>12 DEF Listed
  <2>3. Lists(c)
    BY <1>9, <1>10, <2>2 DEF Lists
  <2>4. Ended(c)
    BY <1>1, <1>5, <1>6 DEF Ended
  <2> QED BY <1>5, <1>8, <2>1, <2>3, <2>4 DEF Good, b
<1>13. CASE c.load[l].waiters = {} /\ Listed(c, l)
  <2>1. b = Abort(d, l)
    BY <1>2, <1>13
  <2>2. c.load[l] \in LoadRecords /\ c.load[l].unit \in Units
    BY <1>5 DEF Assets, LoadRecords
  <2>3. /\ d \in Assets /\ d.load = c.load /\ SameBodies(c, d) /\ d.active = c.active
        /\ d.disposal = c.disposal /\ d.cache = c.cache /\ d.file = c.file
        /\ d.listed = [c.listed EXCEPT ![c.load[l].unit] = 0]
    BY <1>5, <2>2 DEF Assets, SameBodies
  <2> HIDE DEF d
  <2>4. Holding(d) = Holding(c) /\ Reading(d) = Reading(c)
    BY <2>3 DEF Holding, Reading
  <2>5. BodyCount(d, {}) /\ ActiveCount(d, {})
    BY <1>8, <2>3, <2>4 DEF BodyCount, ActiveCount, SameBodies
  <2>6. /\ b \in Assets /\ BodyCount(b, {}) /\ ActiveCount(b, {}) /\ Only(d, b, l)
        /\ b.load[l] = Aborted(d.load[l]) /\ b.listed = d.listed
        /\ b.disposal = d.disposal /\ b.cache = d.cache /\ b.file = d.file
    BY <2>1, <2>3, <2>5, AbortCounts
  <2>7. /\ b.load[l].step = "none" <=> c.load[l].step = "none"
        /\ b.load[l].step # "queued" /\ b.load[l].aborted /\ b.load[l].waiters = {}
    BY <1>13, <2>2, <2>3, <2>6, AbortedLoad
  <2>8. \A m \in Loads : m # l => b.load[m] = c.load[m]
    BY <2>3, <2>6 DEF Only
  <2>9. \A u \in Units : b.listed[u] = IF u = c.load[l].unit THEN 0 ELSE c.listed[u]
    BY <1>5, <2>3, <2>6 DEF Assets
  <2>10. \A m \in Loads : m # l /\ b.load[m].step # "none" /\ ~b.load[m].aborted => Listed(b, m)
    <3>1. ASSUME NEW m \in Loads, m # l, b.load[m].step # "none", ~b.load[m].aborted
          PROVE  Listed(b, m)
      <4>1. b.load[m] = c.load[m] /\ c.listed[c.load[m].unit] = m /\ c.load[m].unit \in Units
        BY <3>1, <1>5, <1>9, <2>8 DEF Listed, Assets, LoadRecords
      <4>2. c.load[m].unit # c.load[l].unit
        BY <3>1, <4>1, <1>13 DEF Listed
      <4> QED BY <4>1, <4>2, <2>9 DEF Listed
    <3> QED BY <3>1
  <2>11. \A u \in Units : b.listed[u] # 0 =>
           /\ b.load[b.listed[u]].step # "none" /\ b.load[b.listed[u]].unit = u
           /\ b.load[b.listed[u]].waiters # {}
    <3>1. ASSUME NEW u \in Units, b.listed[u] # 0
          PROVE  /\ b.load[b.listed[u]].step # "none" /\ b.load[b.listed[u]].unit = u
                 /\ b.load[b.listed[u]].waiters # {}
      <4>1. u # c.load[l].unit /\ b.listed[u] = c.listed[u]
        BY <3>1, <2>9
      <4>2. /\ c.listed[u] \in Loads /\ c.load[c.listed[u]].step # "none"
            /\ c.load[c.listed[u]].unit = u
            /\ c.listed[u] # l => c.load[c.listed[u]].waiters # {}
        BY <3>1, <4>1, <1>11
      <4>3. c.listed[u] # l
        BY <4>1, <4>2
      <4> QED BY <4>1, <4>2, <4>3, <2>8
    <3> QED BY <3>1
  <2>12. \A m, n \in Loads : m # n => b.load[m].waiters \cap b.load[n].waiters = {}
    BY <1>10, <2>7, <2>8
  <2>13. \A m \in Loads : b.load[m].step = "queued" => ~b.load[m].aborted
    BY <1>9, <2>7, <2>8
  <2>14. Lists(b)
    BY <2>7, <2>10, <2>11, <2>12, <2>13 DEF Lists
  <2>15. Ended(b)
    BY <1>1, <1>5, <1>6, <2>3, <2>6, <2>7, <2>8 DEF Ended
  <2> QED BY <2>6, <2>14, <2>15 DEF Good, b
<1> QED BY <1>12, <1>13

(* The disposal aborts what is listed, and all that wait for a body are.   *)
LEMMA DisposeKeeps ==
  ASSUME NEW a, Good(a)
  PROVE  Good(Dispose(a))
<1> DEFINE b == Dispose(a)
           load == [l \in Loads |-> IF l \in Pending(a) /\ Listed(a, l)
                                      THEN Aborted(a.load[l]) ELSE a.load[l]]
<1>1. CASE a.disposal # "none"
  BY <1>1 DEF Dispose
<1>2. CASE a.disposal = "none"
  <2>1. a \in Assets /\ BodyCount(a, {}) /\ ActiveCount(a, {}) /\ Lists(a)
    BY DEF Good
  <2>2. b = [a EXCEPT !.disposal = "pending", !.queue = <<>>, !.load = load]
    BY <1>2, <2>1 DEF Dispose, Assets
  <2>3. \A l \in Loads :
          /\ a.load[l] \in LoadRecords /\ load[l] \in LoadRecords
          /\ load[l].unit = a.load[l].unit /\ load[l].waiters = a.load[l].waiters
          /\ a.load[l].aborted => load[l].aborted
          /\ load[l].step = IF a.load[l].step = "queued" THEN "rejected" ELSE a.load[l].step
    <3>1. ASSUME NEW l \in Loads
          PROVE  /\ a.load[l] \in LoadRecords /\ load[l] \in LoadRecords
                 /\ load[l].unit = a.load[l].unit /\ load[l].waiters = a.load[l].waiters
                 /\ a.load[l].aborted => load[l].aborted
                 /\ load[l].step = IF a.load[l].step = "queued" THEN "rejected" ELSE a.load[l].step
      <4>1. a.load[l] \in LoadRecords
        BY <2>1 DEF Assets
      <4>2. a.load[l].step = "queued" => l \in Pending(a) /\ Listed(a, l)
        BY <2>1 DEF Lists, Pending
      <4>3. load[l] = IF l \in Pending(a) /\ Listed(a, l) THEN Aborted(a.load[l]) ELSE a.load[l]
        OBVIOUS
      <4> HIDE DEF load
      <4> QED BY <4>1, <4>2, <4>3, AbortedLoad
    <3> QED BY <3>1
  <2>4. load \in [Loads -> LoadRecords]
    BY <2>3
  <2> HIDE DEF b, load
  <2>5. /\ b \in Assets /\ b.load = load /\ b.listed = a.listed /\ b.queue = <<>>
        /\ b.bodies = a.bodies /\ b.active = a.active /\ b.disposal = "pending"
    <3>1. <<>> \in Seq(Loads) /\ "pending" \in {"none", "pending", "done"}
      OBVIOUS
    <3> QED BY <2>1, <2>2, <2>4, <3>1 DEF Assets
  <2>6. Holding(b) = Holding(a) /\ Reading(b) = Reading(a)
    BY <2>3, <2>5 DEF Holding, Reading, Held, Sent
  <2>7. BodyCount(b, {})
    <3>1. Els(b.queue) = {} /\ Distinct(b.queue)
      BY <2>5 DEF Els, Distinct
    <3>2. \A l \in Loads : b.load[l].step # "queued"
      BY <2>3, <2>5
    <3> QED BY <2>1, <2>5, <2>6, <3>1, <3>2 DEF BodyCount
  <2>8. ActiveCount(b, {})
    BY <2>1, <2>5, <2>6 DEF ActiveCount
  <2>9. Lists(b)
    <3>1. \A l \in Loads :
            /\ b.load[l].step = "none" <=> a.load[l].step = "none"
            /\ b.load[l].step # "queued" /\ b.load[l].unit = a.load[l].unit
            /\ b.load[l].waiters = a.load[l].waiters
            /\ a.load[l].aborted => b.load[l].aborted
      BY <2>3, <2>5
    <3>2. \A l \in Loads : b.load[l].step # "none" /\ ~b.load[l].aborted => Listed(b, l)
      BY <2>1, <2>5, <3>1 DEF Lists, Listed
    <3>3. \A u \in Units : a.listed[u] \in Loads \cup {0}
      BY <2>1 DEF Assets
    <3>4. \A u \in Units : b.listed[u] # 0 =>
            /\ b.load[b.listed[u]].step # "none" /\ b.load[b.listed[u]].unit = u
            /\ b.load[b.listed[u]].waiters # {}
      BY <2>1, <2>5, <3>1, <3>3 DEF Lists
    <3>5. \A l, k \in Loads : l # k => b.load[l].waiters \cap b.load[k].waiters = {}
      BY <2>1, <3>1 DEF Lists
    <3> QED BY <3>1, <3>2, <3>4, <3>5 DEF Lists
  <2> QED BY <2>5, <2>7, <2>8, <2>9 DEF Good, Ended, b
<1> QED BY <1>1, <1>2

(* The disposal ends when no load is left.                                 *)
LEMMA DisposedKeeps ==
  ASSUME Good(asset), Disposed
  PROVE  Good(asset')
<1>1. /\ asset \in Assets /\ asset' = [asset EXCEPT !.disposal = "done", !.cache = {}, !.file = FALSE]
      /\ \A l \in Loads : asset.load[l].step = "none"
  BY DEF Disposed, Pending, Good
<1>2. /\ asset' \in Assets /\ asset'.load = asset.load /\ asset'.listed = asset.listed
      /\ SameBodies(asset, asset') /\ asset'.active = asset.active
      /\ asset'.cache = {} /\ asset'.file = FALSE
  BY <1>1 DEF Assets, SameBodies
<1>3. Holding(asset') = Holding(asset) /\ Reading(asset') = Reading(asset)
  BY <1>2 DEF Holding, Reading
<1>4. BodyCount(asset', {}) /\ ActiveCount(asset', {})
  BY <1>2, <1>3 DEF Good, BodyCount, ActiveCount, SameBodies
<1>5. Lists(asset')
  BY <1>2 DEF Good, Lists, Listed
<1> QED BY <1>1, <1>2, <1>4, <1>5 DEF Good, Ended

----------------------------------------------------------------------------
(* The opening.                                                            *)

(* What is requested while the asset is opened.                            *)
LEMMA RequestedTypes ==
  ASSUME NEW stage \in {"header", "manifest", "index", "whole", "none"},
         NEW step \in {"requested", "reading", "failed", "open"}
  PROVE  /\ Requested(stage) \in Openings /\ Requested(stage).step = "requested"
         /\ [Requested(stage) EXCEPT !.step = step] \in Openings
         /\ [Requested(stage) EXCEPT !.step = step].step = step
BY DEF Requested, Openings

(* The last request of the opening ends: the asset is open, or nothing is  *)
(* left of it.                                                             *)
LEMMA EndOpeningKeeps ==
  ASSUME NEW step \in {"failed", "open"}, Blank(asset, 1), EndOpening(step)
  PROVE  Inv'
<1>1. /\ asset \in Assets /\ asset.active = 1
      /\ asset' = [asset EXCEPT !.active = asset.active - 1,
                                !.mode = IF step = "open" /\ opening.whole THEN "full" ELSE asset.mode,
                                !.file = step = "open" /\ opening.whole]
  BY DEF EndOpening, Blank, Assets
<1>2. /\ asset' \in Assets /\ asset'.active = 0 /\ asset'.bodies = asset.bodies
      /\ asset'.queue = asset.queue /\ asset'.disposal = asset.disposal
      /\ asset'.listed = asset.listed /\ asset'.load = asset.load
  <2>1. (step = "open" /\ opening.whole) \in BOOLEAN /\ asset.active - 1 = 0
    BY <1>1
  <2>2. (IF step = "open" /\ opening.whole THEN "full" ELSE asset.mode) \in {"range", "full"}
    BY <1>1 DEF Assets
  <2>3. 0 \in Int
    OBVIOUS
  <2> QED BY <1>1, <2>1, <2>2, <2>3 DEF Assets
<1>3. Blank(asset', 0)
  BY <1>2 DEF Blank
<1>4. opening' \in Openings /\ opening'.step = step
  BY RequestedTypes DEF EndOpening
<1> QED BY <1>3, <1>4, BlankGood DEF Inv, Sent

(* A step of the opening, or the signal of the caller during it.           *)
LEMMA OpeningKeeps ==
  ASSUME Inv,
         \/ \E answer \in {"range", "untagged", "whole", "bad"} : OpenResponds(answer)
         \/ \E ok \in BOOLEAN : OpenBodyEnds(ok)
         \/ OpenInterrupted
         \/ CallerAborts
  PROVE  Inv'
<1>1. ASSUME NEW answer, OpenResponds(answer)
      PROVE  Inv'
  <2>1. /\ opening.step = "requested" /\ Blank(asset, 1) /\ opening \in Openings
    BY <1>1 DEF OpenResponds, Inv, Sent
  <2>2. CASE UNCHANGED asset
    <3>1. \/ opening' = [opening EXCEPT !.step = "reading", !.whole = TRUE]
          \/ opening' = [opening EXCEPT !.step = "reading"]
          \/ opening' = Requested("whole")
          \/ EndOpening("failed")
      BY <1>1 DEF OpenResponds
    <3>2. /\ [opening EXCEPT !.step = "reading", !.whole = TRUE] \in Openings
          /\ [opening EXCEPT !.step = "reading"] \in Openings
          /\ [opening EXCEPT !.step = "reading", !.whole = TRUE].step = "reading"
          /\ [opening EXCEPT !.step = "reading"].step = "reading"
      BY <2>1 DEF Openings
    <3>3. /\ Requested("whole") \in Openings /\ Requested("whole").step = "requested"
      BY RequestedTypes
    <3>4. CASE EndOpening("failed")
      BY <2>1, <3>4, EndOpeningKeeps
    <3>5. CASE ~EndOpening("failed")
      <4>1. opening' \in Openings /\ opening'.step \in {"reading", "requested"}
        BY <3>1, <3>2, <3>3, <3>5
      <4> QED BY <2>1, <2>2, <4>1 DEF Inv, Sent
    <3> QED BY <3>4, <3>5
  <2>3. CASE EndOpening("failed")
    BY <2>1, <2>3, EndOpeningKeeps
  <2> QED BY <1>1, <2>2, <2>3 DEF OpenResponds
<1>2. ASSUME NEW ok, OpenBodyEnds(ok)
      PROVE  Inv'
  <2>1. opening.step = "reading" /\ Blank(asset, 1)
    BY <1>2 DEF OpenBodyEnds, Inv, Sent
  <2>2. CASE EndOpening("failed") \/ EndOpening("open")
    BY <2>1, <2>2, EndOpeningKeeps
  <2>3. CASE opening' = Requested(NextStage(opening.stage)) /\ UNCHANGED asset
    <3>1. NextStage(opening.stage) \in {"manifest", "index"}
      BY DEF NextStage
    <3>2. opening' \in Openings /\ opening'.step = "requested"
      BY <2>3, <3>1, RequestedTypes
    <3> QED BY <2>1, <2>3, <3>2 DEF Inv, Sent
  <2> QED BY <1>2, <2>2, <2>3 DEF OpenBodyEnds
<1>3. CASE OpenInterrupted
  BY <1>3, EndOpeningKeeps DEF OpenInterrupted, Inv, Sent
<1>4. CASE CallerAborts
  <2>1. CASE opening.step = "open"
    <3>1. Good(asset) /\ asset' = Dispose(asset) /\ opening' = opening
      BY <1>4, <2>1 DEF CallerAborts, Inv
    <3> QED BY <2>1, <3>1, DisposeKeeps DEF Inv, Sent
  <2>2. CASE opening.step # "open"
    <3>1. /\ opening' = [opening EXCEPT !.aborted = TRUE] /\ UNCHANGED asset
          /\ opening \in Openings
      BY <1>4, <2>2 DEF CallerAborts, Inv
    <3>2. opening' \in Openings /\ opening'.step = opening.step
      BY <3>1 DEF Openings
    <3> QED BY <2>2, <3>1, <3>2 DEF Inv
  <2> QED BY <2>1, <2>2
<1> QED BY <1>1, <1>2, <1>3, <1>4

(* A step of a load, or a call about one.                                  *)
LEMMA LoadKeeps ==
  ASSUME NEW l \in Loads, Good(asset), Turn(l) \/ Answer(l) \/ Call(l)
  PROVE  Good(asset')
<1>1. CASE Turn(l)
  BY <1>1, LoadStartsKeeps, AdmittedKeeps, InterruptedKeeps DEF Turn
<1>2. CASE Answer(l)
  BY <1>2, RespondsKeeps, BodyEndsKeeps, VerifiedKeeps, TimesOutKeeps DEF Answer
<1>3. CASE Call(l)
  BY <1>3, UnitBytesKeeps, LoseInterestKeeps DEF Call
<1> QED BY <1>1, <1>2, <1>3

(* As many entries as distinct ones.                                       *)
LEMMA DistinctCounted ==
  ASSUME NEW q \in Seq(Loads), Distinct(q)
  PROVE  Len(q) = Cardinality(Els(q))
<1>1. Len(q) \in Nat /\ DOMAIN q = 1 .. Len(q)
  BY LenProperties
<1>2. Els(q) = {q[i] : i \in 1 .. Len(q)}
  BY <1>1 DEF Els
<1>3. q \in Bijection(1 .. Len(q), Els(q))
  <2>1. q \in [1 .. Len(q) -> Els(q)]
    BY <1>1 DEF Els
  <2>2. \A i, j \in 1 .. Len(q) : q[i] = q[j] => i = j
    BY <1>1 DEF Distinct
  <2>3. \A e \in Els(q) : \E i \in 1 .. Len(q) : q[i] = e
    BY <1>2
  <2> QED BY <2>1, <2>2, <2>3, Fun_IsBij
<1>4. IsFiniteSet(1 .. Len(q)) /\ Cardinality(1 .. Len(q)) = Len(q)
  <2>1. \A k \in Nat : IsFiniteSet(1 .. k) /\ Cardinality(1 .. k) = k
    BY FS_Interval, SMTT(60)
  <2> QED BY <1>1, <2>1
<1>5. ExistsBijection(1 .. Len(q), Els(q))
  BY <1>3 DEF ExistsBijection
<1> QED BY <1>4, <1>5, FS_Bijection

(* Before the asset is open no load runs, and nothing is disposed of.      *)
LEMMA NoneBefore ==
  ASSUME NEW n, Blank(asset, n), opening.step # "open"
  PROVE  ~Disposed /\ \A l \in Loads : ~Turn(l) /\ ~Answer(l) /\ ~Call(l)
<1>1. asset.disposal = "none" /\ \A k \in Loads : asset.load[k].waiters = {}
  <2>1. NoLoad.waiters = {}
    BY DEF NoLoad
  <2> QED BY <2>1 DEF Blank
<1> SUFFICES ASSUME NEW l \in Loads
             PROVE  ~Disposed /\ ~Turn(l) /\ ~Answer(l) /\ ~Call(l)
  BY <1>1 DEF Disposed
<1>2. ~Disposed /\ ~Turn(l)
  BY <1>1, ZenonT(40) DEF Disposed, Turn, LoadStarts, Admitted, Interrupted, Rejected, Step
<1>3. ~Answer(l)
  BY ZenonT(40) DEF Answer, Responds, BodyEnds, Verified, TimesOut, Step
<1>4. ~Call(l)
  BY <1>1, ZenonT(40) DEF Call, LoseInterest, UnitBytes
<1> QED BY <1>2, <1>3, <1>4

(* Nothing is listed before there are loads.                               *)
LEMMA BlankLists ==
  ASSUME NEW a, NEW n, Blank(a, n)
  PROVE  Lists(a) /\ a \in Assets
<1>1. \A l \in Loads : a.load[l].step = "none" /\ a.load[l].waiters = {}
  <2>1. NoLoad.step = "none" /\ NoLoad.waiters = {}
    BY DEF NoLoad
  <2> QED BY <2>1 DEF Blank
<1> QED BY <1>1 DEF Lists, Blank

----------------------------------------------------------------------------
(* What is kept.                                                           *)

(* No step of a load but the last adds to what is kept.                    *)
LEMMA OperationsKeepNothing ==
  ASSUME NEW a \in Assets, NEW l \in Loads
  PROVE  /\ Settle(a, l).cache = a.cache /\ Verify(a, l).cache = a.cache
         /\ Acquire(a, l).cache = a.cache /\ Proceed(a, l).cache = a.cache
         /\ Release(a).cache = a.cache /\ RequestEnds(a, l).cache = a.cache
         /\ Install(a).cache \subseteq a.cache /\ Abort(a, l).cache = a.cache
<1>1. Settle(a, l).cache = a.cache
  BY SettleFields
<1>2. Verify(a, l).cache = a.cache
  BY VerifyMoves DEF Moves
<1>3. Acquire(a, l).cache = a.cache
  BY DEF Acquire, Assets
<1>4. Proceed(a, l).cache = a.cache
  BY <1>1, <1>2, <1>3 DEF Proceed
<1>5. Release(a).cache = a.cache
  BY DEF Release, Assets
<1>6. RequestEnds(a, l).cache = a.cache
  BY DEF RequestEnds, Release, Assets
<1>7. Install(a).cache \subseteq a.cache
  BY DEF Install, Assets
<1>8. Abort(a, l).cache = a.cache
  BY DEF Abort, Assets
<1> QED BY <1>1, <1>2, <1>3, <1>4, <1>5, <1>6, <1>7, <1>8

(* Only a digest that is right adds to what is kept.                       *)
LEMMA OthersKeepNothing ==
  ASSUME Inv, TransportNext, ~\E l \in Loads, ok \in BOOLEAN : Verified(l, ok)
  PROVE  asset'.cache \subseteq asset.cache
<1>1. asset \in Assets
  BY DEF Inv, Blank, Good, Sent, Openings
<1>2. ASSUME NEW step, EndOpening(step)
      PROVE  asset'.cache \subseteq asset.cache
  BY <1>1, <1>2 DEF EndOpening, Assets
<1>3. CASE \/ \E answer \in {"range", "untagged", "whole", "bad"} : OpenResponds(answer)
           \/ \E ok \in BOOLEAN : OpenBodyEnds(ok)
           \/ OpenInterrupted
  BY <1>2, <1>3 DEF OpenResponds, OpenBodyEnds, OpenInterrupted
<1>4. CASE CallerAborts
  BY <1>1, <1>4 DEF CallerAborts, Dispose, Assets
<1>5. CASE Disposed
  BY <1>1, <1>5 DEF Disposed, Assets
<1>6. ASSUME NEW l \in Loads, Turn(l) \/ Answer(l)
      PROVE  asset'.cache \subseteq asset.cache
  <2>1. opening.step = "open" /\ Good(asset)
    BY <1>6 DEF Turn, LoadStarts, Admitted, Interrupted, Rejected, Answer, Responds, BodyEnds,
                Verified, TimesOut, Step, Inv
  <2>2. CASE LoadStarts(l) \/ Rejected(l) \/ TimesOut(l)
    BY <1>1, <2>2, OperationsKeepNothing DEF LoadStarts, Rejected, TimesOut
  <2>3. CASE Admitted(l)
    <3>1. asset.load[l].step = "admitted"
      BY <2>3 DEF Admitted, Step
    <3>2. CASE asset.load[l].aborted
      <4>1. ActiveCount(asset, {l}) /\ l \in Holding(asset) /\ asset.disposal # "done"
        <5>1. Reading(asset) \ {l} = Reading(asset) \ {}
          BY <3>1 DEF Reading, Sent
        <5> QED BY <2>1, <3>1, <5>1 DEF Good, ActiveCount, Holding, Held, Ended
      <4>2. Release(asset) \in Assets
        BY <2>1, <4>1, ReleaseKeeps DEF Good, GoodBut
      <4> QED BY <1>1, <2>3, <3>2, <4>2, OperationsKeepNothing DEF Admitted
    <3>3. CASE ~asset.load[l].aborted
      BY <1>1, <2>3, <3>3 DEF Admitted, Assets
    <3> QED BY <3>2, <3>3
  <2>4. ASSUME l \in Reading(asset)
        PROVE  /\ RequestEnds(asset, l).cache = asset.cache
               /\ GoodBut(RequestEnds(asset, l), l)
               /\ Settle(RequestEnds(asset, l), l).cache = asset.cache
    <3>1. GoodBut(RequestEnds(asset, l), l) /\ RequestEnds(asset, l) \in Assets
      BY <2>1, <2>4, RequestEndsKeeps DEF GoodBut
    <3>2. RequestEnds(asset, l).cache = asset.cache
      BY <1>1, OperationsKeepNothing
    <3>3. Settle(RequestEnds(asset, l), l).cache = RequestEnds(asset, l).cache
      BY <3>1, OperationsKeepNothing
    <3> QED BY <3>1, <3>2, <3>3
  <2>5. CASE Interrupted(l)
    BY <2>4, <2>5 DEF Interrupted, Step, Reading, Sent
  <2>6. ASSUME NEW answer, Responds(l, answer)
        PROVE  asset'.cache \subseteq asset.cache
    <3>1. l \in Reading(asset)
      BY <2>6 DEF Responds, Step, Reading, Sent
    <3>2. CASE asset' = Settle(RequestEnds(asset, l), l)
      BY <2>4, <3>1, <3>2
    <3>3. CASE asset' = [asset EXCEPT !.load[l].step = "reading", !.load[l].whole = answer = "whole"]
      BY <1>1, <3>3 DEF Assets
    <3> QED BY <2>6, <3>2, <3>3 DEF Responds
  <2>7. ASSUME NEW ok \in BOOLEAN, BodyEnds(l, ok)
        PROVE  asset'.cache \subseteq asset.cache
    <3> DEFINE a == RequestEnds(asset, l)
               read == [a EXCEPT !.load[l].ranges = @ + 1]
    <3>1. GoodBut(a, l) /\ a.cache = asset.cache
      BY <2>4, <2>7 DEF BodyEnds, Step, Reading, Sent
    <3>2. GoodBut(read, l) /\ GoodBut(Install(a), l)
      BY <3>1, RangeRead, InstallKeeps
    <3>3. read.cache = a.cache
      BY <3>1 DEF GoodBut, Assets
    <3>4. \/ asset' = Settle(a, l) \/ asset' = Verify(Install(a), l)
          \/ asset' = Verify(read, l) \/ asset' = Proceed(read, l)
      BY <2>7 DEF BodyEnds
    <3> HIDE DEF a, read
    <3> QED BY <3>1, <3>2, <3>3, <3>4, OperationsKeepNothing DEF GoodBut
  <2> QED BY <1>6, <2>2, <2>3, <2>5, <2>6, <2>7 DEF Turn, Answer
<1>7. ASSUME NEW l \in Loads, NEW i, NEW u, UnitBytes(i, u, l)
      PROVE  asset'.cache \subseteq asset.cache
  BY <1>1, <1>7 DEF UnitBytes, Assets
<1>8. ASSUME NEW l \in Loads, NEW i, LoseInterest(i, l)
      PROVE  asset'.cache \subseteq asset.cache
  <2> DEFINE c == [asset EXCEPT !.load[l].waiters = @ \ {i}]
  <2>1. asset' \in {c, Abort([c EXCEPT !.listed[c.load[l].unit] = 0], l)}
    BY <1>8 DEF LoseInterest
  <2> QED BY <1>1, <2>1 DEF Abort, Assets
<1> QED BY <1>3, <1>4, <1>5, <1>6, <1>7, <1>8 DEF TransportNext, Call

----------------------------------------------------------------------------
(* The theorems.                                                           *)

(* In every reachable state the bodies, the queue for them, the requests   *)
(* and the list of loads agree with what the loads do.                     *)
THEOREM TransportInvariant == TransportSpec => []Inv
<1>1. TransportInit => Inv
  <2> SUFFICES ASSUME TransportInit PROVE Inv
    OBVIOUS
  <2>1. opening \in Openings /\ opening.step = "requested"
    BY RequestedTypes DEF TransportInit, OpenInit
  <2>2. /\ asset.mode = "range" /\ asset.file = FALSE /\ asset.cache = {} /\ asset.active = 1
        /\ asset.bodies = 0 /\ asset.queue = <<>> /\ asset.listed = [u \in Units |-> 0]
        /\ asset.disposal = "none" /\ asset.load = [l \in Loads |-> NoLoad]
    BY DEF TransportInit
  <2>3. [l \in Loads |-> NoLoad] \in [Loads -> LoadRecords]
    BY LoadTypes
  <2>4. [u \in Units |-> 0] \in [Units -> Loads \cup {0}] /\ <<>> \in Seq(Loads) /\ {} \subseteq Units
    OBVIOUS
  <2>5. asset \in Assets
    BY <2>3, <2>4 DEF TransportInit, Assets
  <2> QED BY <2>1, <2>2, <2>5 DEF Inv, Blank, Sent
<1>2. Inv /\ [TransportNext]_transportVars => Inv'
  <2> SUFFICES ASSUME Inv, [TransportNext]_transportVars PROVE Inv'
    OBVIOUS
  <2>1. CASE UNCHANGED transportVars
    <3>1. asset' = asset /\ opening' = opening
      BY <2>1 DEF transportVars
    <3> QED BY <3>1 DEF Inv
  <2>2. CASE \/ \E answer \in {"range", "untagged", "whole", "bad"} : OpenResponds(answer)
             \/ \E ok \in BOOLEAN : OpenBodyEnds(ok)
             \/ OpenInterrupted
             \/ CallerAborts
    BY <2>2, OpeningKeeps
  <2>3. CASE UNCHANGED opening /\ (Disposed \/ \E l \in Loads : Turn(l) \/ Answer(l) \/ Call(l))
    <3>1. opening.step = "open"
      <4>1. CASE Blank(asset, 0) \/ Blank(asset, 1)
        BY <2>3, <4>1, NoneBefore
      <4> QED BY <4>1 DEF Inv, Sent, Openings
    <3>2. Good(asset')
      BY <2>3, <3>1, LoadKeeps, DisposedKeeps DEF Inv
    <3> QED BY <2>3, <3>1, <3>2 DEF Inv, Sent
  <2> QED BY <2>1, <2>2, <2>3 DEF TransportNext
<1> QED BY <1>1, <1>2, PTL DEF TransportSpec

(* No body is lost or counted twice, and none is free while a load waits   *)
(* (asset.ts, #acquireBody and #releaseBody).                              *)
THEOREM BodiesCountedHolds == TransportSpec => []BodiesCounted
<1>1. Inv => BodiesCounted
  <2> SUFFICES ASSUME Inv PROVE BodiesCounted
    OBVIOUS
  <2>1. /\ InStep({"admitted", "requested", "reading"}) = Holding(asset) \ {}
        /\ InStep({"requested", "reading"}) = Reading(asset) \ {}
        /\ InStep({"queued"}) = {l \in Loads : asset.load[l].step = "queued"}
    BY DEF InStep, Holding, Reading, Held, Sent
  <2>2. CASE opening.step = "open"
    <3>1. asset \in Assets /\ BodyCount(asset, {}) /\ ActiveCount(asset, {}) /\ Ended(asset)
      BY <2>2 DEF Inv, Good
    <3>2. asset.queue \in Seq(Loads) /\ Distinct(asset.queue)
          /\ Els(asset.queue) = InStep({"queued"})
      <4>1. asset.queue \in Seq(Loads) /\ Distinct(asset.queue)
        BY <3>1 DEF BodyCount, Assets
      <4>2. Els(asset.queue) \subseteq Loads
        BY <4>1, LenProperties DEF Els
      <4> QED BY <2>1, <3>1, <4>1, <4>2 DEF BodyCount
    <3>3. Len(asset.queue) = Cardinality(InStep({"queued"}))
      BY <3>2, DistinctCounted
    <3>4. /\ asset.bodies = Cardinality(InStep({"admitted", "requested", "reading"}))
          /\ asset.bodies <= Bodies
          /\ asset.queue # <<>> => asset.bodies = Bodies
      BY <2>1, <3>1 DEF BodyCount
    <3>5. /\ Cardinality(InStep({"requested", "reading"})) \in Nat
          /\ asset.active = Cardinality(InStep({"requested", "reading"}))
      BY <2>1, <3>1, SubsetsCounted DEF ActiveCount, InStep
    <3>6. asset.disposal = "done" => Pending(asset) = {} /\ asset.cache = {} /\ ~asset.file
      BY <3>1 DEF Ended, Pending
    <3> QED BY <2>2, <3>2, <3>3, <3>4, <3>5, <3>6 DEF BodiesCounted, Els
  <2>3. CASE opening.step # "open"
    <3> DEFINE n == IF opening.step \in {"requested", "reading"} THEN 1 ELSE 0
    <3>1. Blank(asset, n)
      BY <2>3 DEF Inv, Sent, Openings
    <3>2. /\ asset.bodies = 0 /\ asset.queue = <<>> /\ asset.disposal = "none"
          /\ asset.active = n /\ \A l \in Loads : asset.load[l].step = "none"
      <4>1. NoLoad.step = "none"
        BY DEF NoLoad
      <4> QED BY <3>1, <4>1 DEF Blank
    <3> HIDE DEF n
    <3>3. /\ InStep({"admitted", "requested", "reading"}) = {} /\ InStep({"requested", "reading"}) = {}
          /\ InStep({"queued"}) = {}
      BY <3>2 DEF InStep
    <3>4. Cardinality({}) = 0 /\ n \in Nat /\ Bodies \in Nat
      BY FS_EmptySet, LoadTypes DEF n
    <3>5. /\ Cardinality(InStep({"admitted", "requested", "reading"})) = 0
          /\ Cardinality(InStep({"requested", "reading"})) = 0
      BY <3>3, <3>4, ZenonT(30)
    <3>6. {asset.queue[k] : k \in DOMAIN asset.queue} = {} /\ Len(asset.queue) = 0
      BY <3>2
    <3>7. /\ asset.bodies = Cardinality(InStep({"admitted", "requested", "reading"}))
          /\ asset.bodies <= Bodies
      BY <3>2, <3>4, <3>5
    <3>8. /\ {asset.queue[k] : k \in DOMAIN asset.queue} = InStep({"queued"})
          /\ Len(asset.queue) = Cardinality(InStep({"queued"}))
      BY <3>3, <3>4, <3>6
    <3>9. asset.active = Cardinality(InStep({"requested", "reading"})) + n
      BY <3>2, <3>4, <3>5
    <3> QED BY <3>2, <3>7, <3>8, <3>9 DEF BodiesCounted, n
  <2> QED BY <2>2, <2>3
<1> QED BY <1>1, TransportInvariant, PTL

(* What goes on is listed and somebody waits for it; nobody waits for two  *)
(* loads (asset.ts, #attach and unitBytes).                                *)
THEOREM LoadsWantedHolds == TransportSpec => []LoadsWanted
<1>1. Inv => LoadsWanted
  <2> SUFFICES ASSUME Inv PROVE LoadsWanted
    OBVIOUS
  <2>1. Lists(asset) /\ asset \in Assets
    BY BlankLists DEF Inv, Good, Sent, Openings
  <2>2. \A u \in Units : asset.listed[u] \in Loads \cup {0}
    BY <2>1 DEF Assets
  <2> QED BY <2>1, <2>2 DEF LoadsWanted, Lists, Pending
<1> QED BY <1>1, TransportInvariant, PTL

(* Bytes are kept only for somebody who waits for them (asset.ts,          *)
(* #loadUnit: the checks after the digest).                                *)
THEOREM KeptForSomeoneHolds == TransportSpec => KeptForSomeone
<1> DEFINE Kept ==
      \A u \in asset'.cache \ asset.cache :
        /\ asset.disposal = "none"
        /\ \E l \in Pending(asset) \ Pending(asset') :
             asset.load[l].unit = u /\ asset.load[l].waiters # {} /\ ~asset.load[l].aborted
<1>1. ASSUME Inv, TransportNext
      PROVE  Kept
  <2>1. asset \in Assets
    BY <1>1 DEF Inv, Blank, Good, Sent, Openings
  <2>2. CASE asset'.cache \subseteq asset.cache
    BY <2>2
  <2>3. ASSUME NEW l \in Loads, NEW ok \in BOOLEAN, Verified(l, ok)
        PROVE  Kept
    <3> DEFINE c == [asset EXCEPT !.cache = asset.cache \cup {asset.load[l].unit}]
    <3>1. opening.step = "open" /\ asset.load[l].step = "verifying" /\ Lists(asset)
      BY <1>1, <2>3 DEF Verified, Step, Inv, Good
    <3>2. asset.load[l].unit \in Units
      BY <2>1 DEF Assets, LoadRecords
    <3>3. c \in Assets /\ c.cache = asset.cache \cup {asset.load[l].unit}
      BY <2>1, <3>2 DEF Assets
    <3>4. CASE asset' = Settle(asset, l)
      BY <2>1, <3>4, SettleFields
    <3>5. CASE /\ asset' = Settle(c, l)
               /\ ~asset.load[l].aborted /\ asset.disposal = "none"
      <4> HIDE DEF c
      <4>1. asset'.cache = asset.cache \cup {asset.load[l].unit} /\ asset'.load[l] = NoLoad
        BY <3>3, <3>5, SettleFields
      <4>2. l \in Pending(asset) /\ l \notin Pending(asset')
        BY <3>1, <4>1 DEF Pending, NoLoad
      <4>3. asset.listed[asset.load[l].unit] = l /\ l # 0
        BY <3>1, <3>5, LoadTypes DEF Lists, Listed
      <4>4. asset.load[l].waiters # {}
        BY <3>1, <3>2, <4>3 DEF Lists
      <4> QED BY <3>5, <4>1, <4>2, <4>4
    <3> QED BY <2>3, <3>4, <3>5 DEF Verified
  <2>4. CASE ~\E l \in Loads, ok \in BOOLEAN : Verified(l, ok)
    BY <1>1, <2>2, <2>4, OthersKeepNothing
  <2> QED BY <2>3, <2>4
<1>2. Inv /\ [TransportNext]_transportVars => [Kept]_asset
  BY <1>1 DEF transportVars
<1> QED BY <1>2, TransportInvariant, PTL DEF TransportSpec, KeptForSomeone
=============================================================================
