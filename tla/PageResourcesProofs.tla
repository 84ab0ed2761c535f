------------------------ MODULE PageResourcesProofs ------------------------
(***************************************************************************)
(* Theorems about the permit of a page, for any set of elements, any       *)
(* realms and any bounds.                                                  *)
(***************************************************************************)
EXTENDS PageResourcesProperties, TLAPS, SequenceTheorems, FiniteSetTheorems

----------------------------------------------------------------------------
(* Those who wait in a queue, each once.                                   *)
Els(q) == {q[i] : i \in DOMAIN q}
Distinct(q) == \A i, j \in DOMAIN q : q[i] = q[j] => i = j

(* A list and one more at its end.                                         *)
LEMMA AppendEls ==
  ASSUME NEW S, NEW q \in Seq(S), Distinct(q), NEW e \in S, e \notin Els(q)
  PROVE  /\ Append(q, e) \in Seq(S)
         /\ Distinct(Append(q, e))
         /\ \A f : f \in Els(Append(q, e)) <=> f \in Els(q) \/ f = e
<1>1. /\ Append(q, e) \in Seq(S) /\ Len(Append(q, e)) = Len(q) + 1
      /\ \A i \in 1 .. Len(q) : Append(q, e)[i] = q[i]
      /\ Append(q, e)[Len(q) + 1] = e
  BY AppendProperties
<1>2. DOMAIN q = 1 .. Len(q) /\ DOMAIN Append(q, e) = 1 .. Len(q) + 1 /\ Len(q) \in Nat
  BY <1>1, LenProperties
<1> QED BY <1>1, <1>2 DEF Els, Distinct

(* An entry is taken out of a list of distinct ones.                       *)
LEMMA RemovalEls ==
  ASSUME NEW n \in Nat, NEW at \in 1 .. n, NEW q, DOMAIN q = 1 .. n, Distinct(q),
         NEW t, DOMAIN t = 1 .. n - 1,
         \A i \in 1 .. n - 1 : t[i] = IF i < at THEN q[i] ELSE q[i + 1]
  PROVE  /\ Distinct(t)
         /\ \A f : f \in Els(t) <=> f \in Els(q) /\ f # q[at]
<1>1. \A i, j \in 1 .. n : q[i] = q[j] => i = j
  BY DEF Distinct
<1>2. Distinct(t)
  BY <1>1 DEF Distinct
<1>3. \A i \in 1 .. n - 1 : \E j \in 1 .. n : j # at /\ t[i] = q[j]
  BY <1>1
<1>4. ASSUME NEW j \in 1 .. n, j # at PROVE \E i \in 1 .. n - 1 : t[i] = q[j]
  <2>1. j < at => j \in 1 .. n - 1 /\ t[j] = q[j]
    OBVIOUS
  <2>2. j > at => j - 1 \in 1 .. n - 1 /\ t[j - 1] = q[j]
    OBVIOUS
  <2> QED BY <1>4, <2>1, <2>2
<1>5. ASSUME NEW i \in 1 .. n - 1 PROVE t[i] \in Els(q) /\ t[i] # q[at]
  <2>1. PICK j \in 1 .. n : j # at /\ t[i] = q[j]
    BY <1>3
  <2> QED BY <1>1, <2>1 DEF Els
<1>6. ASSUME NEW j \in 1 .. n, q[j] # q[at] PROVE q[j] \in Els(t)
  BY <1>4, <1>6 DEF Els
<1>7. \A f : f \in Els(t) => f \in Els(q) /\ f # q[at]
  BY <1>5 DEF Els
<1>8. \A f : f \in Els(q) /\ f # q[at] => f \in Els(t)
  BY <1>6 DEF Els
<1> QED BY <1>2, <1>7, <1>8

(* The head of a queue leaves it, and nothing else does.                   *)
LEMMA TailEls ==
  ASSUME NEW S, NEW q \in Seq(S), Distinct(q), q # <<>>
  PROVE  /\ Head(q) \in S /\ Head(q) \in Els(q)
         /\ Tail(q) \in Seq(S)
         /\ Distinct(Tail(q))
         /\ \A f : f \in Els(Tail(q)) <=> f \in Els(q) /\ f # Head(q)
<1>1. /\ Head(q) \in S /\ Tail(q) \in Seq(S) /\ Len(Tail(q)) = Len(q) - 1
      /\ \A i \in 1 .. Len(q) - 1 : Tail(q)[i] = q[i + 1]
  BY HeadTailProperties
<1>2. /\ Len(q) \in Nat /\ DOMAIN q = 1 .. Len(q) /\ DOMAIN Tail(q) = 1 .. Len(q) - 1
      /\ 1 \in 1 .. Len(q) /\ Head(q) = q[1]
  BY <1>1, LenProperties, EmptySeq
<1> DEFINE n == Len(q)
           t == Tail(q)
<1>3. /\ n \in Nat /\ 1 \in 1 .. n /\ DOMAIN q = 1 .. n /\ DOMAIN t = 1 .. n - 1
      /\ \A i \in 1 .. n - 1 : t[i] = IF i < 1 THEN q[i] ELSE q[i + 1]
  BY <1>1, <1>2
<1> HIDE DEF n, t
<1>4. Distinct(t) /\ \A f : f \in Els(t) <=> f \in Els(q) /\ f # q[1]
  BY <1>3, RemovalEls
<1>5. Head(q) \in Els(q)
  BY <1>2 DEF Els
<1> QED BY <1>1, <1>2, <1>4, <1>5 DEF t

(* Without() takes one entry out of a queue of distinct ones.              *)
LEMMA WithoutEls ==
  ASSUME NEW S, NEW q \in Seq(S), Distinct(q), NEW e \in S
  PROVE  /\ Without(q, e) \in Seq(S)
         /\ Distinct(Without(q, e))
         /\ \A f : f \in Els(Without(q, e)) <=> f \in Els(q) /\ f # e
<1>1. CASE \A i \in DOMAIN q : q[i] # e
  BY <1>1 DEF Without, Els
<1>2. CASE \E i \in DOMAIN q : q[i] = e
  <2> DEFINE at == CHOOSE i \in DOMAIN q : q[i] = e
             n == Len(q)
             a == SubSeq(q, 1, at - 1)
             b == SubSeq(q, at + 1, n)
  <2>1. /\ DOMAIN q = 1 .. n /\ n \in Nat /\ \A i \in 1 .. n : q[i] \in S
        /\ at \in 1 .. n /\ q[at] = e /\ Without(q, e) = a \o b
    BY <1>2, LenProperties DEF Without
  <2> HIDE DEF at, n
  <2>2. a \in Seq(S) /\ Len(a) = at - 1 /\ \A i \in 1 .. at - 1 : a[i] = q[i]
    BY <2>1, SubSeqProperties
  <2>3. b \in Seq(S) /\ Len(b) = n - at /\ \A i \in 1 .. n - at : b[i] = q[at + i]
    BY <2>1, SubSeqProperties
  <2> HIDE DEF a, b
  <2>4. /\ a \o b \in Seq(S) /\ Len(a \o b) = n - 1 /\ DOMAIN (a \o b) = 1 .. n - 1
        /\ \A i \in 1 .. n - 1 : (a \o b)[i] = IF i < at THEN q[i] ELSE q[i + 1]
    BY <2>1, <2>2, <2>3, ConcatProperties, LenProperties
  <2>5. Distinct(a \o b) /\ \A f : f \in Els(a \o b) <=> f \in Els(q) /\ f # q[at]
    BY <2>1, <2>4, RemovalEls
  <2> QED BY <2>1, <2>4, <2>5
<1> QED BY <1>1, <1>2

----------------------------------------------------------------------------
(* Who comes before whom in a queue.                                       *)
Before(q, e, f) == \E i, j \in DOMAIN q : i < j /\ q[i] = e /\ q[j] = f

(* f is behind e, or not there.                                            *)
Leads(q, e, f) == f \in Els(q) => Before(q, e, f)

(* From q to p only e may come, at the end, and whoever stays is overtaken *)
(* by nobody.                                                              *)
Kept(q, p, e) ==
  \A f : f # e /\ f \in Els(p) =>
    f \in Els(q) /\ \A k : k # f /\ Leads(q, f, k) => Leads(p, f, k)

(* An entry that is taken out leaves the others in order.                  *)
LEMMA RemovalOrder ==
  ASSUME NEW n \in Nat, NEW at \in 1 .. n, NEW q, DOMAIN q = 1 .. n, Distinct(q),
         NEW t, DOMAIN t = 1 .. n - 1,
         \A i \in 1 .. n - 1 : t[i] = IF i < at THEN q[i] ELSE q[i + 1]
  PROVE  Kept(q, t, q[at])
<1>1. \A f : f \in Els(t) <=> f \in Els(q) /\ f # q[at]
  BY RemovalEls
<1>2. ASSUME NEW f, NEW k, f # q[at], k # q[at], Before(q, f, k) PROVE Before(t, f, k)
  <2>1. PICK i \in 1 .. n, j \in 1 .. n : i < j /\ q[i] = f /\ q[j] = k
    BY <1>2 DEF Before
  <2> DEFINE u == IF i < at THEN i ELSE i - 1
             v == IF j < at THEN j ELSE j - 1
  <2>2. i # at /\ j # at
    BY <1>2, <2>1
  <2>3. u \in 1 .. n - 1 /\ v \in 1 .. n - 1 /\ u < v
    BY <2>1, <2>2
  <2>4. t[u] = q[i] /\ t[v] = q[j]
    BY <2>2, <2>3
  <2> QED BY <2>1, <2>3, <2>4 DEF Before
<1> QED BY <1>1, <1>2 DEF Kept, Leads

(* A queue that does not change.                                           *)
LEMMA KeptSelf == \A q, e : Kept(q, q, e)
BY DEF Kept

(* The head leaves the queue: nobody was before it.                        *)
LEMMA TailOrder ==
  ASSUME NEW S, NEW q \in Seq(S), Distinct(q), q # <<>>
  PROVE  \A f : f \in Els(Tail(q)) =>
           /\ ~Leads(q, f, Head(q))
           /\ \A k : k # f /\ Leads(q, f, k) => Leads(Tail(q), f, k)
<1> DEFINE n == Len(q)
           t == Tail(q)
<1>1. /\ Len(t) = n - 1 /\ n \in Nat /\ DOMAIN q = 1 .. n /\ DOMAIN t = 1 .. n - 1
      /\ 1 \in 1 .. n /\ Head(q) = q[1] /\ \A i \in 1 .. n - 1 : t[i] = q[i + 1]
  BY HeadTailProperties, LenProperties, EmptySeq
<1>2. \A f : f \in Els(t) => f \in Els(q) /\ f # q[1]
  BY <1>1, TailEls
<1> HIDE DEF n, t
<1>3. \A i \in 1 .. n - 1 : t[i] = IF i < 1 THEN q[i] ELSE q[i + 1]
  BY <1>1
<1>4. Kept(q, t, q[1])
  BY <1>1, <1>3, RemovalOrder
<1>5. \A f : ~Before(q, f, q[1])
  BY <1>1 DEF Before, Distinct
<1>6. q[1] \in Els(q)
  BY <1>1 DEF Els
<1> QED BY <1>1, <1>2, <1>4, <1>5, <1>6 DEF Kept, Leads, t

(* One entry is taken out, wherever it is.                                 *)
LEMMA WithoutOrder ==
  ASSUME NEW S, NEW q \in Seq(S), Distinct(q), NEW e \in S
  PROVE  Kept(q, Without(q, e), e)
<1>1. CASE \A i \in DOMAIN q : q[i] # e
  BY <1>1, KeptSelf DEF Without
<1>2. CASE \E i \in DOMAIN q : q[i] = e
  <2> DEFINE at == CHOOSE i \in DOMAIN q : q[i] = e
             n == Len(q)
             a == SubSeq(q, 1, at - 1)
             b == SubSeq(q, at + 1, n)
  <2>1. /\ DOMAIN q = 1 .. n /\ n \in Nat /\ \A i \in 1 .. n : q[i] \in S
        /\ at \in 1 .. n /\ q[at] = e /\ Without(q, e) = a \o b
    BY <1>2, LenProperties DEF Without
  <2> HIDE DEF at, n
  <2>2. a \in Seq(S) /\ Len(a) = at - 1 /\ \A i \in 1 .. at - 1 : a[i] = q[i]
    BY <2>1, SubSeqProperties
  <2>3. b \in Seq(S) /\ Len(b) = n - at /\ \A i \in 1 .. n - at : b[i] = q[at + i]
    BY <2>1, SubSeqProperties
  <2> HIDE DEF a, b
  <2>4. /\ a \o b \in Seq(S) /\ Len(a \o b) = n - 1 /\ DOMAIN (a \o b) = 1 .. n - 1
        /\ \A i \in 1 .. n - 1 : (a \o b)[i] = IF i < at THEN q[i] ELSE q[i + 1]
    BY <2>1, <2>2, <2>3, ConcatProperties, LenProperties
  <2>5. Kept(q, a \o b, q[at])
    BY <2>1, <2>4, RemovalOrder
  <2> QED BY <2>1, <2>5
<1> QED BY <1>1, <1>2

(* One more comes, at the end.                                             *)
LEMMA AppendOrder ==
  ASSUME NEW S, NEW q \in Seq(S), NEW e \in S, e \notin Els(q)
  PROVE  Kept(q, Append(q, e), e)
<1> DEFINE n == Len(q)
           p == Append(q, e)
<1>1. /\ n \in Nat /\ DOMAIN q = 1 .. n /\ DOMAIN p = 1 .. n + 1
      /\ \A i \in 1 .. n : p[i] = q[i]
      /\ p[n + 1] = e
  BY AppendProperties, LenProperties
<1> HIDE DEF n, p
<1>2. \A f : f \in Els(p) <=> f \in Els(q) \/ f = e
  BY <1>1 DEF Els
<1>3. ASSUME NEW f, NEW k, Before(q, f, k) PROVE Before(p, f, k)
  BY <1>1, <1>3 DEF Before
<1>4. ASSUME NEW f, f \in Els(q) PROVE Before(p, f, e)
  <2>1. PICK i \in 1 .. n : q[i] = f
    BY <1>1, <1>4 DEF Els
  <2>2. i < n + 1 /\ i \in 1 .. n + 1 /\ n + 1 \in 1 .. n + 1 /\ p[i] = f
    BY <1>1, <2>1
  <2> QED BY <1>1, <2>2 DEF Before
<1> QED BY <1>2, <1>3, <1>4 DEF Kept, Leads, p

----------------------------------------------------------------------------
(* The inductive invariant: first of the page alone.                       *)
State(w, e) == w.seat[e].state

(* The queues are those of the tickets that are queued.                    *)
Queues(w) ==
  \A r \in Realms :
    /\ Distinct(w.queue[r])
    /\ \A e \in Elements :
         e \in Els(w.queue[r]) <=> (w.seat[e].realm = r /\ State(w, e) = "queued")

(* A permit that is taken has one holder.                                  *)
Permits(w) ==
  /\ \A e, f \in Elements :
       State(w, e) = "active" /\ State(w, f) = "active" /\ w.seat[e].realm = w.seat[f].realm
         => e = f
  /\ \A e \in Elements : State(w, e) = "active" => w.active[w.seat[e].realm] # 0
  /\ \A r \in Realms : w.active[r] # 0 =>
       \E e \in Elements : w.seat[e].realm = r /\ State(w, e) = "active"

(* A ticket is on a page, and waits in its queue while it is seen.         *)
Tickets(w) ==
  \A e \in Elements :
    /\ State(w, e) # "none" => w.seat[e].realm \in Realms
    /\ State(w, e) = "none" <=> w.seat[e].request = 0
    /\ State(w, e) = "queued" => w.seat[e].visible
    /\ State(w, e) = "parked" => ~w.seat[e].visible

Core(w) == w \in Resources /\ Queues(w) /\ Permits(w) /\ Tickets(w)

Idle(w, r) == w.active[r] = 0 => w.queue[r] = <<>>

Sound(w) == Core(w) /\ \A r \in Realms : Idle(w, r)

(* The owner of an element has its ticket or its lease, never both.        *)
Owned(w, e) ==
  /\ w.ticket[e] # 0 => w.seat[e].request = w.ticket[e] /\ w.lease[e] = 0
  /\ w.lease[e] # 0 => w.seat[e].request = w.lease[e] /\ State(w, e) = "active"
  /\ State(w, e) # "none" =>
       w.ticket[e] = w.seat[e].request \/ w.lease[e] = w.seat[e].request

(* A grant that is not observed yet is not held, and stands while the      *)
(* owner has its ticket; the owner of an active ticket will hear of it.    *)
Told(w, e) ==
  \A g \in Generations : <<e, g>> \in w.granted =>
    /\ g # 0 /\ w.lease[e] # g
    /\ w.ticket[e] = g => State(w, e) = "active"

Heard(w, e) ==
  w.ticket[e] # 0 /\ State(w, e) = "active" => <<e, w.ticket[e]>> \in w.granted

Good(w) == Sound(w) /\ \A f \in Elements : Owned(w, f) /\ Told(w, f) /\ Heard(w, f)

----------------------------------------------------------------------------
(* Then of the sessions that share it.                                     *)
Superseded(e) == reload[e] \in {"replace", "retire"}
Restarts(e) == Superseded(e) \/ (reload[e] = "restart" /\ visible[e])

(* The page knows where an element is and whether it is seen.              *)
Placed(e) ==
  /\ res.seat[e].realm # "none" => res.seat[e].visible = visible[e]
  /\ res.seat[e].realm \notin {"none", realm[e]} => Superseded(e)
  /\ ~connected[e] => reload[e] = "retire" \/ (reload[e] = "none" /\ phase[e] = "absent")

(* Tickets and leases are of the generation that plays, which asked once.  *)
Numbered(e) ==
  /\ phase[e] # "absent" => generation[e] # 0
  /\ res.ticket[e] # 0 => connected[e] /\ res.ticket[e] = generation[e]
  /\ res.lease[e] # 0 => res.lease[e] = generation[e]
  /\ \A g \in Generations : <<e, g>> \in res.granted =>
       g <= generation[e] /\ (res.ticket[e] = g => visible[e])

(* What the phase of the player says of its ticket and its lease.          *)
Fits(e) ==
  /\ phase[e] = "starting" =>
       /\ res.ticket[e] = 0 /\ res.lease[e] = 0
       /\ <<e, generation[e]>> \notin res.granted
  /\ phase[e] = "animated" => res.lease[e] = generation[e]
  /\ phase[e] \in {"queuing", "queued"} => res.ticket[e] = generation[e] \/ Restarts(e)
  /\ phase[e] \in {"absent", "queued", "suspended", "reduced"} =>
       res.lease[e] = 0 \/ Restarts(e)

SessionTypes ==
  /\ generation \in [Elements -> Generations]
  /\ phase \in [Elements -> Phases]
  /\ reload \in [Elements -> {"none", "restart", "replace", "retire"}]
  /\ connected \in [Elements -> BOOLEAN] /\ visible \in [Elements -> BOOLEAN]
  /\ realm \in [Elements -> Realms]

Inv ==
  /\ SessionTypes /\ Good(res)
  /\ \A e \in Elements : Placed(e) /\ Numbered(e) /\ Fits(e)

----------------------------------------------------------------------------
(* The page.  Whoever waits, and waits on, is overtaken by nobody.         *)
Holds(w, f, r) == w.seat[f].realm = r /\ State(w, f) = "active"

Precedes(w, e, f, r) == ~Holds(w, f, r) /\ Leads(w.queue[r], e, f)

InPlace(w, d, e) ==
  \A r \in Realms : e \in Els(d.queue[r]) =>
    /\ e \in Els(w.queue[r])
    /\ \A f \in Elements : f # e /\ Precedes(w, e, f, r) => Precedes(d, e, f, r)

(* What an operation for one element does to another: at most it is        *)
(* granted the permit it is queued for, and it keeps its place.            *)
Same(w, d, f) ==
  /\ InPlace(w, d, f)
  /\ d.seat[f].realm = w.seat[f].realm /\ d.seat[f].visible = w.seat[f].visible
  /\ d.seat[f].request = w.seat[f].request
  /\ State(d, f) = State(w, f) \/ (State(w, f) = "queued" /\ State(d, f) = "active")
  /\ d.ticket[f] = w.ticket[f] /\ d.lease[f] = w.lease[f]
  /\ \A g \in Generations : <<f, g>> \in d.granted =>
       \/ <<f, g>> \in w.granted
       \/ State(w, f) = "queued" /\ State(d, f) = "active" /\ g = w.ticket[f] /\ g # 0
  /\ \A g \in Generations : <<f, g>> \in w.granted => <<f, g>> \in d.granted
  /\ State(w, f) = "queued" /\ State(d, f) = "active" /\ w.ticket[f] = w.seat[f].request
       => <<f, w.ticket[f]>> \in d.granted

Others(w, d, e) == \A f \in Elements : f # e => Same(w, d, f)

(* What remains of an element whose ticket is withdrawn.                   *)
Stays(w, d, e) ==
  /\ d.seat[e].realm = w.seat[e].realm /\ d.seat[e].visible = w.seat[e].visible
  /\ d.ticket[e] = w.ticket[e] /\ d.lease[e] = w.lease[e]
  /\ \A g \in Generations : <<e, g>> \in d.granted => <<e, g>> \in w.granted

(* What another element notices leaves its ticket and lease in order.      *)
LEMMA SameKeeps ==
  ASSUME NEW w, NEW d, NEW f \in Elements, w \in Resources, Same(w, d, f),
         Owned(w, f), Told(w, f), Heard(w, f)
  PROVE  Owned(d, f) /\ Told(d, f) /\ Heard(d, f)
<1>1. w.ticket[f] \in Generations /\ w.lease[f] \in Generations
  BY DEF Resources
<1> QED BY <1>1 DEF Same, Owned, Told, Heard, State

(* Two steps that keep the place of an element are one.                    *)
LEMMA InPlaceTwice ==
  ASSUME NEW w, NEW x, NEW d, NEW e, InPlace(w, x, e), InPlace(x, d, e)
  PROVE  InPlace(w, d, e)
BY DEF InPlace

(* What e does in the queues leaves the others in their places.            *)
LEMMA AsideKeeps ==
  ASSUME NEW w, NEW d, NEW e \in Elements, NEW f \in Elements, f # e,
         \A k \in Elements : k # e => d.seat[k] = w.seat[k],
         State(d, e) = "active" => State(w, e) = "active" /\ d.seat[e].realm = w.seat[e].realm,
         \A r \in Realms : Kept(w.queue[r], d.queue[r], e)
  PROVE  InPlace(w, d, f)
<1>1. \A k \in Elements, r \in Realms : Holds(d, k, r) => Holds(w, k, r)
  BY DEF Holds, State
<1> QED BY <1>1 DEF InPlace, Precedes, Kept

(* A page with a free permit whose queue is drained is sound.              *)
LEMMA DrainKeeps ==
  ASSUME NEW w, Core(w), NEW r \in Realms, \A t \in Realms : t # r => Idle(w, t)
  PROVE  Sound(Drain(w, r)) /\ \A f \in Elements : Same(w, Drain(w, r), f)
<1> USE DEF State
<1>1. CASE w.active[r] # 0 \/ w.queue[r] = <<>>
  <2>1. Drain(w, r) = w
    BY <1>1 DEF Drain
  <2>2. \A f \in Elements : InPlace(w, w, f)
    BY DEF InPlace
  <2> QED BY <1>1, <2>1, <2>2 DEF Sound, Idle, Same
<1>2. CASE w.active[r] = 0 /\ w.queue[r] # <<>>
  <2> DEFINE h == Head(w.queue[r])
             d == Drain(w, r)
  <2>1. /\ w \in Resources /\ w.queue[r] \in Seq(Elements) /\ Distinct(w.queue[r])
        /\ w.active[r] = 0 /\ w.queue[r] # <<>>
    BY <1>2 DEF Core, Queues, Resources
  <2>2. /\ h \in Elements /\ h \in Els(w.queue[r])
        /\ Tail(w.queue[r]) \in Seq(Elements) /\ Distinct(Tail(w.queue[r]))
        /\ \A f : f \in Els(Tail(w.queue[r])) <=> f \in Els(w.queue[r]) /\ f # h
    BY <2>1, TailEls
  <2>3. /\ w.seat[h].realm = r /\ w.seat[h].state = "queued"
        /\ w.seat[h].request \in Generations /\ w.seat[h].request # 0
    BY <2>1, <2>2 DEF Core, Queues, Tickets, Resources, Seats
  <2>4. d = [w EXCEPT !.queue[r] = Tail(@), !.active[r] = Workers,
                      !.seat[h].state = "active",
                      !.granted = IF w.ticket[h] = w.seat[h].request
                                  THEN @ \cup {<<h, w.seat[h].request>>} ELSE @]
    BY <1>2 DEF Drain
  <2> HIDE DEF h, d
  <2>5. /\ d.queue = [w.queue EXCEPT ![r] = Tail(w.queue[r])]
        /\ d.active = [w.active EXCEPT ![r] = Workers]
        /\ d.seat = [w.seat EXCEPT ![h].state = "active"]
        /\ d.ticket = w.ticket /\ d.lease = w.lease
        /\ d.granted \subseteq w.granted \cup {<<h, w.seat[h].request>>}
        /\ w.ticket[h] # w.seat[h].request => d.granted = w.granted
        /\ w.ticket[h] = w.seat[h].request => <<h, w.ticket[h]>> \in d.granted
        /\ w.granted \subseteq d.granted
    BY <2>1, <2>4 DEF Resources
  <2>6. d \in Resources
    <3>1. d.queue \in [Realms -> Seq(Elements)] /\ d.active \in [Realms -> {0, Workers}]
      BY <2>1, <2>2, <2>5 DEF Resources
    <3>2. [w.seat[h] EXCEPT !.state = "active"] \in Seats
      <4>1. w.seat[h] \in Seats
        BY <2>1, <2>2 DEF Resources
      <4> QED BY <4>1 DEF Seats
    <3>3. d.seat \in [Elements -> Seats]
      BY <2>1, <2>2, <2>5, <3>2 DEF Resources
    <3>4. d.granted \subseteq Elements \X Generations
      BY <2>1, <2>2, <2>3, <2>5 DEF Resources
    <3>5. d = [seat |-> d.seat, queue |-> d.queue, active |-> d.active, total |-> w.total,
               granted |-> d.granted, ticket |-> d.ticket, lease |-> d.lease]
      BY <2>1, <2>4 DEF Resources
    <3>6. /\ w.total \in [Realms -> Int] /\ d.ticket \in [Elements -> Generations]
          /\ d.lease \in [Elements -> Generations]
      BY <2>1, <2>5 DEF Resources
    <3> QED BY <3>1, <3>3, <3>4, <3>5, <3>6 DEF Resources
  <2>7. /\ d.seat[h].realm = r /\ d.seat[h].state = "active"
        /\ d.seat[h].request = w.seat[h].request /\ d.seat[h].visible = w.seat[h].visible
        /\ \A f \in Elements : f # h => d.seat[f] = w.seat[f]
        /\ d.active[r] = Workers /\ Workers # 0
        /\ \A t \in Realms : t # r => d.active[t] = w.active[t] /\ d.queue[t] = w.queue[t]
        /\ d.queue[r] = Tail(w.queue[r])
    BY <2>1, <2>2, <2>3, <2>5 DEF Resources, Seats, Workers
  <2>8. Queues(d)
    <3> SUFFICES ASSUME NEW t \in Realms
                 PROVE  /\ Distinct(d.queue[t])
                        /\ \A e \in Elements : e \in Els(d.queue[t]) <=>
                             (d.seat[e].realm = t /\ d.seat[e].state = "queued")
      BY DEF Queues
    <3>1. /\ Distinct(w.queue[t])
          /\ \A e \in Elements : e \in Els(w.queue[t]) <=>
               (w.seat[e].realm = t /\ w.seat[e].state = "queued")
      BY DEF Core, Queues
    <3>2. CASE t = r
      BY <3>1, <3>2, <2>2, <2>3, <2>7
    <3>3. CASE t # r
      BY <3>1, <3>3, <2>2, <2>3, <2>7
    <3> QED BY <3>2, <3>3
  <2>9. \A e \in Elements : ~(w.seat[e].state = "active" /\ w.seat[e].realm = r)
    BY <1>2 DEF Core, Permits
  <2>10. Permits(d)
    <3>1. \A e, f \in Elements :
            d.seat[e].state = "active" /\ d.seat[f].state = "active"
              /\ d.seat[e].realm = d.seat[f].realm => e = f
      BY <2>7, <2>9 DEF Core, Permits
    <3>2. \A e \in Elements : d.seat[e].state = "active" => d.active[d.seat[e].realm] # 0
      BY <2>7, <2>9 DEF Core, Permits, Tickets
    <3>3. ASSUME NEW t \in Realms, d.active[t] # 0
          PROVE  \E e \in Elements : d.seat[e].realm = t /\ d.seat[e].state = "active"
      BY <3>3, <2>2, <2>3, <2>7 DEF Core, Permits
    <3> QED BY <3>1, <3>2, <3>3 DEF Permits
  <2>11. Tickets(d)
    BY <2>2, <2>3, <2>7 DEF Core, Tickets
  <2>12. \A t \in Realms : Idle(d, t)
    BY <2>7 DEF Idle
  <2>13. ASSUME NEW f \in Elements PROVE InPlace(w, d, f)
    <3> SUFFICES ASSUME NEW t \in Realms, f \in Els(d.queue[t])
                 PROVE  /\ f \in Els(w.queue[t])
                        /\ \A k \in Elements : k # f /\ Precedes(w, f, k, t) => Precedes(d, f, k, t)
      BY DEF InPlace
    <3>1. \A k \in Elements : Holds(d, k, t) => Holds(w, k, t) \/ (t = r /\ k = h)
      BY <2>7 DEF Holds
    <3>2. CASE t = r
      <4>1. /\ ~Leads(w.queue[r], f, h)
            /\ \A k : k # f /\ Leads(w.queue[r], f, k) => Leads(d.queue[r], f, k)
        BY <2>1, <2>7, <3>2, TailOrder DEF h
      <4> QED BY <2>2, <2>7, <3>1, <3>2, <4>1 DEF Precedes
    <3>3. CASE t # r
      BY <2>7, <3>1, <3>3 DEF Precedes
    <3> QED BY <3>2, <3>3
  <2>14. ASSUME NEW f \in Elements PROVE Same(w, d, f)
    BY <2>3, <2>5, <2>7, <2>13 DEF Same
  <2> QED BY <2>6, <2>8, <2>10, <2>11, <2>12, <2>14 DEF Sound, Core, d
<1> QED BY <1>1, <1>2

(* The seat of an element whose ticket is withdrawn.                       *)
Vacated(w, e) == [w.seat EXCEPT ![e] = [@ EXCEPT !.request = 0, !.state = "none"]]

(* A vacated seat has no ticket and stays on its page.                     *)
LEMMA SeatVacated ==
  ASSUME NEW w \in Resources, NEW e \in Elements
  PROVE  /\ Vacated(w, e) \in [Elements -> Seats]
         /\ Vacated(w, e)[e].request = 0 /\ Vacated(w, e)[e].state = "none"
         /\ Vacated(w, e)[e].realm = w.seat[e].realm
         /\ Vacated(w, e)[e].visible = w.seat[e].visible
         /\ \A f \in Elements : f # e => Vacated(w, e)[f] = w.seat[f]
<1>1. w.seat \in [Elements -> Seats] /\ w.seat[e] \in Seats
  BY DEF Resources
<1>2. 0 \in Generations
  BY PageAssumption DEF Generations
<1>3. [w.seat[e] EXCEPT !.request = 0, !.state = "none"] \in Seats
  BY <1>1, <1>2 DEF Seats
<1> QED BY <1>1, <1>3 DEF Seats, Vacated

(* An element whose ticket is withdrawn, and its queue with it.            *)
Vacates(w, x, e, q, n) ==
  LET r == w.seat[e].realm
  IN /\ x \in Resources
     /\ x.seat[e].request = 0 /\ x.seat[e].state = "none"
     /\ x.seat[e].realm = r /\ x.seat[e].visible = w.seat[e].visible
     /\ \A f \in Elements : f # e => x.seat[f] = w.seat[f]
     /\ x.queue[r] = q /\ x.active[r] = n
     /\ \A t \in Realms : t # r => x.active[t] = w.active[t] /\ x.queue[t] = w.queue[t]
     /\ x.granted = w.granted /\ x.ticket = w.ticket /\ x.lease = w.lease

(* A page that a ticket leaves is sound but for the permit it may free.    *)
LEMMA VacateKeeps ==
  ASSUME NEW w, NEW x, Sound(w), NEW e \in Elements, w.seat[e].realm \in Realms,
         NEW q, NEW n, Vacates(w, x, e, q, n),
         Distinct(q), \A f \in Elements : f \in Els(q) <=> f \in Els(w.queue[w.seat[e].realm]) /\ f # e,
         Kept(w.queue[w.seat[e].realm], q, e),
         n = IF State(w, e) = "active" THEN 0 ELSE w.active[w.seat[e].realm]
  PROVE  /\ Core(x) /\ \A t \in Realms : t # w.seat[e].realm => Idle(x, t)
         /\ Others(w, x, e) /\ Stays(w, x, e)
         /\ State(x, e) = "none" /\ x.seat[e].request = 0
<1> USE DEF State
<1> DEFINE r == w.seat[e].realm
<1>3. /\ x \in Resources
      /\ x.seat[e].request = 0 /\ x.seat[e].state = "none"
      /\ x.seat[e].realm = r /\ x.seat[e].visible = w.seat[e].visible
      /\ \A f \in Elements : f # e => x.seat[f] = w.seat[f]
      /\ x.queue[r] = q /\ x.active[r] = n
      /\ \A t \in Realms : t # r => x.active[t] = w.active[t] /\ x.queue[t] = w.queue[t]
      /\ x.granted = w.granted /\ x.ticket = w.ticket /\ x.lease = w.lease
  BY DEF Vacates
<1> HIDE DEF r
<1>5. Queues(x)
  <2> SUFFICES ASSUME NEW t \in Realms
               PROVE  /\ Distinct(x.queue[t])
                      /\ \A f \in Elements : f \in Els(x.queue[t]) <=>
                           (x.seat[f].realm = t /\ x.seat[f].state = "queued")
    BY DEF Queues
  <2>1. /\ Distinct(w.queue[t])
        /\ \A f \in Elements : f \in Els(w.queue[t]) <=>
             (w.seat[f].realm = t /\ w.seat[f].state = "queued")
    BY DEF Sound, Core, Queues
  <2>2. CASE t = r
    BY <2>1, <2>2, <1>3, ZenonT(40) DEF r
  <2>3. CASE t # r
    BY <2>1, <2>3, <1>3 DEF r
  <2> QED BY <2>2, <2>3
<1>6. Permits(x)
  <2>1. \A f, k \in Elements :
          x.seat[f].state = "active" /\ x.seat[k].state = "active"
            /\ x.seat[f].realm = x.seat[k].realm => f = k
    BY <1>3, SMTT(30) DEF Sound, Core, Permits
  <2>2. ASSUME NEW f \in Elements, x.seat[f].state = "active"
        PROVE  x.active[x.seat[f].realm] # 0
    BY <2>2, <1>3, SMTT(30) DEF Sound, Core, Permits, Tickets, r
  <2>3. ASSUME NEW t \in Realms, x.active[t] # 0
        PROVE  \E f \in Elements : x.seat[f].realm = t /\ x.seat[f].state = "active"
    BY <2>3, <1>3, SMTT(30) DEF Sound, Core, Permits, r
  <2> QED BY <2>1, <2>2, <2>3 DEF Permits
<1>7. Tickets(x)
  BY <1>3 DEF Sound, Core, Tickets
<1>8. \A t \in Realms : t # r => Idle(x, t)
  BY <1>3, SMTT(30) DEF Sound, Idle
<1>4. ASSUME NEW f \in Elements, f # e PROVE InPlace(w, x, f)
  <2>1. \A t \in Realms : Kept(w.queue[t], x.queue[t], e)
    BY <1>3, KeptSelf DEF r
  <2> QED BY <1>3, <1>4, <2>1, AsideKeeps
<1>9. Others(w, x, e) /\ Stays(w, x, e)
  BY <1>3, <1>4 DEF Others, Same, Stays, r
<1> QED BY <1>3, <1>5, <1>6, <1>7, <1>8, <1>9 DEF Core, r

(* Two changes that others hardly notice are one.                          *)
LEMMA SameTwice ==
  ASSUME NEW w, NEW x \in Resources, NEW d, NEW f \in Elements, Same(w, x, f), Same(x, d, f)
  PROVE  Same(w, d, f)
<1>1. x.ticket[f] \in Generations
  BY DEF Resources
<1>2. InPlace(w, d, f)
  BY InPlaceTwice DEF Same
<1> QED BY <1>1, <1>2 DEF Same

(* What is drained after it was changed for one element.                   *)
LEMMA ChangeAndDrain ==
  ASSUME NEW w, NEW x, NEW d, NEW e \in Elements, Others(w, x, e), Stays(w, x, e),
         State(x, e) = "none", x.seat[e].request = 0,
         \A f \in Elements : Same(x, d, f), x \in Resources
  PROVE  /\ Others(w, d, e) /\ Stays(w, d, e)
         /\ State(d, e) = "none" /\ d.seat[e].request = 0
<1>1. ASSUME NEW f \in Elements, f # e PROVE Same(w, d, f)
  <2>1. Same(w, x, f) /\ Same(x, d, f)
    BY <1>1 DEF Others
  <2> QED BY <2>1, SameTwice
<1>2. Same(x, d, e)
  OBVIOUS
<1> QED BY <1>1, <1>2 DEF Others, Stays, Same

Left(w, d, e) ==
  /\ Sound(d) /\ Others(w, d, e) /\ Stays(w, d, e)
  /\ State(d, e) = "none" /\ d.seat[e].request = 0

(* A lease that is held is released, and any other release does nothing.   *)
LEMMA ReleaseKeeps ==
  ASSUME NEW w, Sound(w), NEW e \in Elements, NEW g \in Generations
  PROVE  IF w.seat[e].request = g /\ State(w, e) = "active"
         THEN Left(w, Release(w, e, g), e) ELSE Release(w, e, g) = w
<1>1. CASE w.seat[e].request = g /\ State(w, e) = "active"
  <2> DEFINE r == w.seat[e].realm
             x == [w EXCEPT !.active[r] = 0, !.seat = Vacated(w, e)]
  <2>1. w \in Resources /\ r \in Realms /\ w.queue[r] \in Seq(Elements) /\ Distinct(w.queue[r])
    BY <1>1 DEF Sound, Core, Queues, Tickets, Resources
  <2>2. Release(w, e, g) = Drain(x, r)
    <3>1. x = [w EXCEPT !.active[r] = 0, !.seat[e] = [@ EXCEPT !.request = 0, !.state = "none"]]
      BY <2>1 DEF Vacated, Resources
    <3> QED BY <3>1, <1>1 DEF Release, State
  <2>7. Vacates(w, x, e, w.queue[r], 0)
    <3>0. x = [seat |-> Vacated(w, e), queue |-> w.queue, active |-> [w.active EXCEPT ![r] = 0],
               total |-> w.total, granted |-> w.granted, ticket |-> w.ticket, lease |-> w.lease]
      <4>1. w = [seat |-> w.seat, queue |-> w.queue, active |-> w.active, total |-> w.total,
                 granted |-> w.granted, ticket |-> w.ticket, lease |-> w.lease]
        BY <2>1 DEF Resources
      <4>2. x.seat = Vacated(w, e)
        BY <4>1 DEF Vacated
      <4>3. x.queue = w.queue /\ x.active = [w.active EXCEPT ![r] = 0]
        BY <4>1
      <4>4. /\ x.total = w.total /\ x.granted = w.granted
            /\ x.ticket = w.ticket /\ x.lease = w.lease
        BY <4>1
      <4>6. x = [w EXCEPT !.active[r] = 0, !.seat = Vacated(w, e)]
        OBVIOUS
      <4> HIDE DEF x
      <4>5. x = [seat |-> x.seat, queue |-> x.queue, active |-> x.active, total |-> x.total,
                 granted |-> x.granted, ticket |-> x.ticket, lease |-> x.lease]
        BY <2>1, <4>6 DEF Resources
      <4> QED BY <4>2, <4>3, <4>4, <4>5
    <3> HIDE DEF x
    <3>1. /\ x.active = [w.active EXCEPT ![r] = 0] /\ x.queue = w.queue
          /\ x.seat = Vacated(w, e) /\ x.total = w.total /\ x.granted = w.granted
          /\ x.ticket = w.ticket /\ x.lease = w.lease
          /\ x = [seat |-> x.seat, queue |-> x.queue, active |-> x.active, total |-> x.total,
                  granted |-> x.granted, ticket |-> x.ticket, lease |-> x.lease]
      BY <3>0
    <3>2. x.active \in [Realms -> {0, Workers}] /\ x.queue \in [Realms -> Seq(Elements)]
      BY <2>1, <3>1 DEF Resources
    <3>3. /\ x.seat \in [Elements -> Seats]
          /\ x.seat[e].request = 0 /\ x.seat[e].state = "none"
          /\ x.seat[e].realm = r /\ x.seat[e].visible = w.seat[e].visible
          /\ \A f \in Elements : f # e => x.seat[f] = w.seat[f]
      BY <2>1, <3>1, SeatVacated
    <3>4. x \in Resources
      BY <2>1, <3>1, <3>2, <3>3 DEF Resources
    <3>5. x.active[r] = 0 /\ \A t \in Realms : t # r => x.active[t] = w.active[t]
      BY <2>1, <3>1 DEF Resources
    <3> QED BY <3>1, <3>3, <3>4, <3>5 DEF Vacates
  <2>3. \A f \in Elements : f \in Els(w.queue[r]) <=> f \in Els(w.queue[r]) /\ f # e
    BY <1>1, <2>1 DEF Sound, Core, Queues, State
  <2>4. /\ Core(x) /\ \A t \in Realms : t # r => Idle(x, t)
        /\ Others(w, x, e) /\ Stays(w, x, e)
        /\ State(x, e) = "none" /\ x.seat[e].request = 0
    <3>1. 0 = IF State(w, e) = "active" THEN 0 ELSE w.active[r]
      BY <1>1
    <3> HIDE DEF x
    <3> QED BY <2>1, <2>3, <2>7, <3>1, KeptSelf, VacateKeeps
  <2> HIDE DEF x
  <2>5. Sound(Drain(x, r)) /\ \A f \in Elements : Same(x, Drain(x, r), f)
    BY <2>1, <2>4, DrainKeeps
  <2>6. Left(w, Drain(x, r), e)
    BY <2>4, <2>5, ChangeAndDrain DEF Left, Core
  <2> QED BY <1>1, <2>2, <2>6
<1>2. CASE ~(w.seat[e].request = g /\ State(w, e) = "active")
  BY <1>2 DEF Release, State
<1> QED BY <1>1, <1>2

(* A ticket is cancelled wherever it is, and nothing else is.               *)
LEMMA CancelKeeps ==
  ASSUME NEW w, Sound(w), NEW e \in Elements, NEW g \in Generations
  PROVE  IF w.seat[e].request = g /\ g # 0
         THEN Left(w, Cancel(w, e, g), e) ELSE Cancel(w, e, g) = w
<1>1. CASE w.seat[e].request # g \/ g = 0
  BY <1>1 DEF Cancel
<1>2. CASE w.seat[e].request = g /\ g # 0 /\ State(w, e) = "active"
  <2>1. Cancel(w, e, g) = Release(w, e, g)
    BY <1>2 DEF Cancel, State
  <2> QED BY <1>2, <2>1, ReleaseKeeps
<1>3. CASE w.seat[e].request = g /\ g # 0 /\ State(w, e) # "active"
  <2> DEFINE r == w.seat[e].realm
             q == Without(w.queue[r], e)
             x == [w EXCEPT !.queue[r] = q, !.seat = Vacated(w, e)]
  <2>1. /\ w \in Resources /\ r \in Realms /\ w.queue[r] \in Seq(Elements)
        /\ Distinct(w.queue[r]) /\ w.active[r] \in {0, Workers}
    BY <1>3 DEF Sound, Core, Queues, Tickets, Resources
  <2>2. Cancel(w, e, g) = Drain(x, r)
    <3>1. x = [w EXCEPT !.queue[r] = q, !.seat[e] = [@ EXCEPT !.request = 0, !.state = "none"]]
      BY <2>1 DEF Vacated, Resources
    <3> QED BY <3>1, <1>3 DEF Cancel, State
  <2>3. /\ q \in Seq(Elements) /\ Distinct(q) /\ Kept(w.queue[r], q, e)
        /\ \A f : f \in Els(q) <=> f \in Els(w.queue[r]) /\ f # e
    BY <2>1, WithoutEls, WithoutOrder
  <2> HIDE DEF q
  <2>7. Vacates(w, x, e, q, w.active[r])
    <3>0. x = [seat |-> Vacated(w, e), queue |-> [w.queue EXCEPT ![r] = q], active |-> w.active,
               total |-> w.total, granted |-> w.granted, ticket |-> w.ticket, lease |-> w.lease]
      <4>1. w = [seat |-> w.seat, queue |-> w.queue, active |-> w.active, total |-> w.total,
                 granted |-> w.granted, ticket |-> w.ticket, lease |-> w.lease]
        BY <2>1 DEF Resources
      <4>2. x.seat = Vacated(w, e)
        BY <4>1 DEF Vacated
      <4>3. x.queue = [w.queue EXCEPT ![r] = q] /\ x.active = w.active
        BY <4>1
      <4>4. /\ x.total = w.total /\ x.granted = w.granted
            /\ x.ticket = w.ticket /\ x.lease = w.lease
        BY <4>1
      <4>6. x = [w EXCEPT !.queue[r] = q, !.seat = Vacated(w, e)]
        OBVIOUS
      <4> HIDE DEF x
      <4>5. x = [seat |-> x.seat, queue |-> x.queue, active |-> x.active, total |-> x.total,
                 granted |-> x.granted, ticket |-> x.ticket, lease |-> x.lease]
        BY <2>1, <4>6 DEF Resources
      <4> QED BY <4>2, <4>3, <4>4, <4>5
    <3> HIDE DEF x
    <3>1. /\ x.queue = [w.queue EXCEPT ![r] = q] /\ x.active = w.active
          /\ x.seat = Vacated(w, e) /\ x.total = w.total /\ x.granted = w.granted
          /\ x.ticket = w.ticket /\ x.lease = w.lease
          /\ x = [seat |-> x.seat, queue |-> x.queue, active |-> x.active, total |-> x.total,
                  granted |-> x.granted, ticket |-> x.ticket, lease |-> x.lease]
      BY <3>0
    <3>2. x.active \in [Realms -> {0, Workers}] /\ x.queue \in [Realms -> Seq(Elements)]
      BY <2>1, <2>3, <3>1 DEF Resources
    <3>3. /\ x.seat \in [Elements -> Seats]
          /\ x.seat[e].request = 0 /\ x.seat[e].state = "none"
          /\ x.seat[e].realm = r /\ x.seat[e].visible = w.seat[e].visible
          /\ \A f \in Elements : f # e => x.seat[f] = w.seat[f]
      BY <2>1, <3>1, SeatVacated
    <3>4. x \in Resources
      BY <2>1, <3>1, <3>2, <3>3 DEF Resources
    <3>5. x.queue[r] = q /\ \A t \in Realms : t # r => x.queue[t] = w.queue[t]
      BY <2>1, <3>1 DEF Resources
    <3> QED BY <3>1, <3>3, <3>4, <3>5 DEF Vacates
  <2>4. /\ Core(x) /\ \A t \in Realms : t # r => Idle(x, t)
        /\ Others(w, x, e) /\ Stays(w, x, e)
        /\ State(x, e) = "none" /\ x.seat[e].request = 0
    <3>1. w.active[r] = IF State(w, e) = "active" THEN 0 ELSE w.active[r]
      BY <1>3
    <3> HIDE DEF x
    <3>2. /\ Distinct(q) /\ Kept(w.queue[w.seat[e].realm], q, e)
          /\ \A f \in Elements : f \in Els(q) <=> f \in Els(w.queue[w.seat[e].realm]) /\ f # e
      BY <2>3
    <3>3. w.seat[e].realm \in Realms
      BY <2>1
    <3> QED BY <2>7, <3>1, <3>2, <3>3, VacateKeeps
  <2> HIDE DEF x
  <2>5. Sound(Drain(x, r)) /\ \A f \in Elements : Same(x, Drain(x, r), f)
    BY <2>1, <2>4, DrainKeeps
  <2>6. Left(w, Drain(x, r), e)
    BY <2>4, <2>5, ChangeAndDrain DEF Left, Core
  <2> QED BY <1>3, <2>2, <2>6
<1> QED BY <1>1, <1>2, <1>3
----------------------------------------------------------------------------
(* The owner.                                                              *)
NoMoreTold(w, d, e) ==
  \A g \in Generations : <<e, g>> \in d.granted => <<e, g>> \in w.granted

(* What another element notices of it at most is that it comes or goes.    *)
LEMMA BesideKeeps ==
  ASSUME NEW w, NEW d, NEW e \in Elements, w \in Resources,
         \A r \in Realms : Kept(w.queue[r], d.queue[r], e),
         State(d, e) = "active" => State(w, e) = "active" /\ d.seat[e].realm = w.seat[e].realm,
         \A f \in Elements : f # e => d.seat[f] = w.seat[f] /\ d.ticket[f] = w.ticket[f]
                                        /\ d.lease[f] = w.lease[f],
         \A f \in Elements : \A g \in Generations :
           f # e => (<<f, g>> \in d.granted <=> <<f, g>> \in w.granted)
  PROVE  Others(w, d, e)
<1>1. ASSUME NEW f \in Elements, f # e PROVE Same(w, d, f)
  <2>1. w.seat[f].state \in {"none", "queued", "parked", "active"}
    BY DEF Resources, Seats
  <2>2. InPlace(w, d, f)
    BY <1>1, AsideKeeps
  <2> QED BY <1>1, <2>1, <2>2 DEF Same, State
<1> QED BY <1>1 DEF Others

(* What no other element notices at all.                                   *)
LEMMA AloneKeeps ==
  ASSUME NEW w, NEW d, NEW e \in Elements, w \in Resources, d.queue = w.queue,
         d.seat[e].state = "active" =>
           w.seat[e].state = "active" /\ d.seat[e].realm = w.seat[e].realm,
         \A f \in Elements : f # e => d.seat[f] = w.seat[f] /\ d.ticket[f] = w.ticket[f]
                                        /\ d.lease[f] = w.lease[f],
         \A f \in Elements : \A g \in Generations :
           f # e => (<<f, g>> \in d.granted <=> <<f, g>> \in w.granted)
  PROVE  Others(w, d, e)
<1>1. \A r \in Realms : Kept(w.queue[r], d.queue[r], e)
  BY KeptSelf
<1> QED BY <1>1, BesideKeeps DEF State

(* The others notice as little of two operations as of one.                *)
LEMMA OthersTwice ==
  ASSUME NEW w, NEW x \in Resources, NEW d, NEW e \in Elements, Others(w, x, e), Others(x, d, e)
  PROVE  Others(w, d, e)
BY SameTwice DEF Others

(* An operation need only be looked at for its own element.                *)
LEMMA GoodKeeps ==
  ASSUME NEW w, NEW d, NEW e \in Elements, Good(w), Sound(d), Others(w, d, e),
         Owned(d, e), Told(d, e), Heard(d, e)
  PROVE  Good(d)
<1>1. ASSUME NEW f \in Elements, f # e PROVE Owned(d, f) /\ Told(d, f) /\ Heard(d, f)
  <2>1. w \in Resources /\ Same(w, d, f) /\ Owned(w, f) /\ Told(w, f) /\ Heard(w, f)
    BY <1>1 DEF Good, Sound, Core, Others
  <2> QED BY <2>1, SameKeeps
<1> QED BY <1>1 DEF Good

(* A seat that changes in nothing its ticket depends on.                   *)
LEMMA DressedKeeps ==
  ASSUME NEW w, NEW x \in Resources, NEW e \in Elements, Sound(w),
         x.queue = w.queue, x.active = w.active,
         \A f \in Elements : f # e => x.seat[f] = w.seat[f],
         State(x, e) = State(w, e), x.seat[e].request = w.seat[e].request,
         State(w, e) # "none" => x.seat[e].realm = w.seat[e].realm,
         State(w, e) \in {"queued", "parked"} => x.seat[e].visible = w.seat[e].visible
  PROVE  Sound(x)
<1> USE DEF State
<1>1. Queues(x)
  <2> SUFFICES ASSUME NEW t \in Realms
               PROVE  /\ Distinct(x.queue[t])
                      /\ \A f \in Elements : f \in Els(x.queue[t]) <=>
                           (x.seat[f].realm = t /\ x.seat[f].state = "queued")
    BY DEF Queues
  <2>1. /\ Distinct(w.queue[t])
        /\ \A f \in Elements : f \in Els(w.queue[t]) <=>
             (w.seat[f].realm = t /\ w.seat[f].state = "queued")
    BY DEF Sound, Core, Queues
  <2> QED BY <2>1
<1>2. Permits(x)
  <2>1. Permits(w)
    BY DEF Sound, Core
  <2>2. \A f, k \in Elements :
          x.seat[f].state = "active" /\ x.seat[k].state = "active"
            /\ x.seat[f].realm = x.seat[k].realm => f = k
    BY <2>1 DEF Permits
  <2>3. \A f \in Elements : x.seat[f].state = "active" => x.active[x.seat[f].realm] # 0
    BY <2>1 DEF Permits
  <2>4. ASSUME NEW t \in Realms, x.active[t] # 0
        PROVE  \E f \in Elements : x.seat[f].realm = t /\ x.seat[f].state = "active"
    BY <2>1, <2>4 DEF Permits
  <2> QED BY <2>2, <2>3, <2>4 DEF Permits
<1>3. Tickets(x)
  BY DEF Sound, Core, Tickets
<1>4. \A t \in Realms : Idle(x, t)
  BY DEF Sound, Idle
<1> QED BY <1>1, <1>2, <1>3, <1>4 DEF Sound, Core

(* The owner names its ticket, or its lease, by a generation.              *)
Name(w, e, g) == [w EXCEPT !.ticket[e] = g]
Lend(w, e, g) == [w EXCEPT !.lease[e] = g]

(* The ticket of one owner changes, and nothing else.                      *)
LEMMA Reticketed ==
  ASSUME NEW w \in Resources, NEW e \in Elements, NEW g \in Generations,
         NEW x, x = Name(w, e, g)
  PROVE  /\ x \in Resources /\ x.ticket[e] = g
         /\ \A f \in Elements : f # e => x.ticket[f] = w.ticket[f]
         /\ x.seat = w.seat /\ x.queue = w.queue /\ x.active = w.active
         /\ x.granted = w.granted /\ x.lease = w.lease
<1>1. /\ x = [seat |-> x.seat, queue |-> x.queue, active |-> x.active, total |-> x.total,
              granted |-> x.granted, ticket |-> x.ticket, lease |-> x.lease]
      /\ x.ticket = [w.ticket EXCEPT ![e] = g] /\ x.total = w.total
      /\ x.seat = w.seat /\ x.queue = w.queue /\ x.active = w.active
      /\ x.granted = w.granted /\ x.lease = w.lease
  BY DEF Resources, Name
<1>2. w.ticket \in [Elements -> Generations]
  BY DEF Resources
<1>3. x \in Resources
  BY <1>1, <1>2 DEF Resources
<1> QED BY <1>1, <1>2, <1>3

(* The lease of one owner changes, and nothing else.                       *)
LEMMA Leased ==
  ASSUME NEW w \in Resources, NEW e \in Elements, NEW g \in Generations,
         NEW x, x = Lend(w, e, g)
  PROVE  /\ x \in Resources /\ x.lease[e] = g
         /\ \A f \in Elements : f # e => x.lease[f] = w.lease[f]
         /\ x.seat = w.seat /\ x.queue = w.queue /\ x.active = w.active
         /\ x.granted = w.granted /\ x.ticket = w.ticket
<1>1. /\ x = [seat |-> x.seat, queue |-> x.queue, active |-> x.active, total |-> x.total,
              granted |-> x.granted, ticket |-> x.ticket, lease |-> x.lease]
      /\ x.lease = [w.lease EXCEPT ![e] = g] /\ x.total = w.total
      /\ x.seat = w.seat /\ x.queue = w.queue /\ x.active = w.active
      /\ x.granted = w.granted /\ x.ticket = w.ticket
  BY DEF Resources, Lend
<1>2. w.lease \in [Elements -> Generations]
  BY DEF Resources
<1>3. x \in Resources
  BY <1>1, <1>2 DEF Resources
<1> QED BY <1>1, <1>2, <1>3

(* An element whose seat stays where it is.                                *)
Sits(w, d, e) ==
  d.seat[e].realm = w.seat[e].realm /\ d.seat[e].visible = w.seat[e].visible

(* invalidateRequest() of the owner.                                       *)
LEMMA InvalidateKeeps ==
  ASSUME NEW w, Good(w), NEW e \in Elements, NEW d, d = InvalidateRequest(w, e)
  PROVE  /\ Good(d) /\ Others(w, d, e) /\ NoMoreTold(w, d, e) /\ Sits(w, d, e)
         /\ d.ticket[e] = 0 /\ d.lease[e] = w.lease[e]
         /\ w.ticket[e] = 0 => State(d, e) = State(w, e) /\ d.seat[e].request = w.seat[e].request
         /\ w.ticket[e] # 0 => State(d, e) = "none"
<1> DEFINE x == [w EXCEPT !.ticket[e] = 0]
           g == w.ticket[e]
<1>1. w \in Resources /\ Sound(w) /\ g \in Generations /\ 0 \in Generations
  BY PageAssumption DEF Good, Sound, Core, Resources, Generations
<1>2. d = Cancel(x, e, g)
  BY DEF InvalidateRequest
<1>3. x = Name(w, e, 0)
  BY DEF Name
<1> HIDE DEF x
<1>4. /\ x \in Resources /\ x.ticket[e] = 0
      /\ \A f \in Elements : f # e => x.ticket[f] = w.ticket[f]
      /\ x.seat = w.seat /\ x.queue = w.queue /\ x.active = w.active
      /\ x.granted = w.granted /\ x.lease = w.lease
  BY <1>1, <1>3, Reticketed
<1>5. Sound(x)
  BY <1>1, <1>4, DressedKeeps DEF State
<1>6. Others(w, x, e)
  BY <1>1, <1>4, AloneKeeps
<1>7. Owned(w, e) /\ Told(w, e)
  BY DEF Good
<1>8. CASE g = 0
  <2>1. d = x
    BY <1>2, <1>8 DEF Cancel
  <2>2. Owned(x, e) /\ Told(x, e) /\ Heard(x, e)
    BY <1>4, <1>7, <1>8 DEF Owned, Told, Heard, State
  <2>3. Good(x)
    BY <1>5, <1>6, <2>2, GoodKeeps
  <2> QED BY <1>4, <1>6, <1>8, <2>1, <2>3 DEF NoMoreTold, Sits, State
<1>9. CASE g # 0
  <2>1. x.seat[e].request = g /\ w.lease[e] = 0
    BY <1>4, <1>7, <1>9 DEF Owned
  <2>2. Left(x, d, e)
    BY <1>1, <1>2, <1>5, <1>9, <2>1, CancelKeeps
  <2>3. Others(w, d, e)
    BY <1>4, <1>6, <2>2, OthersTwice DEF Left
  <2>4. d.ticket[e] = 0 /\ d.lease[e] = 0
    BY <1>4, <2>1, <2>2 DEF Left, Stays
  <2>5. NoMoreTold(w, d, e) /\ Sits(w, d, e)
    BY <1>4, <2>2 DEF Left, Stays, NoMoreTold, Sits
  <2>6. Owned(d, e) /\ Told(d, e) /\ Heard(d, e)
    BY <1>7, <2>2, <2>4, <2>5 DEF Owned, Told, Heard, Left, NoMoreTold
  <2>7. Good(d)
    BY <2>2, <2>3, <2>6, GoodKeeps DEF Left
  <2> QED BY <1>9, <2>1, <2>2, <2>3, <2>4, <2>5, <2>7 DEF Left
<1> QED BY <1>8, <1>9

(* releaseDecoderLease() of the owner.                                     *)
LEMMA ReleaseLeaseKeeps ==
  ASSUME NEW w, Good(w), NEW e \in Elements, NEW d, d = ReleaseDecoderLease(w, e)
  PROVE  /\ Good(d) /\ Others(w, d, e) /\ NoMoreTold(w, d, e) /\ Sits(w, d, e)
         /\ d.lease[e] = 0 /\ d.ticket[e] = w.ticket[e]
<1> DEFINE x == [w EXCEPT !.lease[e] = 0]
           g == w.lease[e]
<1>1. w \in Resources /\ Sound(w) /\ g \in Generations /\ 0 \in Generations
  BY PageAssumption, SMTT(30) DEF Good, Sound, Core, Resources, Generations
<1>2. d = Release(x, e, g)
  BY DEF ReleaseDecoderLease
<1>3. x = Lend(w, e, 0)
  BY DEF Lend
<1> HIDE DEF x
<1>4. /\ x \in Resources /\ x.lease[e] = 0
      /\ \A f \in Elements : f # e => x.lease[f] = w.lease[f]
      /\ x.seat = w.seat /\ x.queue = w.queue /\ x.active = w.active
      /\ x.granted = w.granted /\ x.ticket = w.ticket
  BY <1>1, <1>3, Leased
<1>5. Sound(x)
  BY <1>1, <1>4, DressedKeeps DEF State
<1>6. Others(w, x, e)
  BY <1>1, <1>4, AloneKeeps
<1>7. Owned(w, e) /\ Told(w, e) /\ Heard(w, e)
  BY DEF Good
<1>8. CASE g = 0
  <2>1. ~(x.seat[e].request = 0 /\ State(x, e) = "active")
    BY <1>5 DEF Sound, Core, Tickets
  <2>2. d = x
    BY <1>2, <1>8, <2>1 DEF Release, State
  <2>3. Owned(x, e) /\ Told(x, e) /\ Heard(x, e)
    BY <1>4, <1>7, <1>8 DEF Owned, Told, Heard, State
  <2>4. Good(x)
    BY <1>5, <1>6, <2>3, GoodKeeps
  <2> QED BY <1>4, <1>6, <2>2, <2>4 DEF NoMoreTold, Sits
<1>9. CASE g # 0
  <2>1. x.seat[e].request = g /\ State(x, e) = "active" /\ w.ticket[e] = 0
    BY <1>4, <1>7, <1>9 DEF Owned, State
  <2>2. Left(x, d, e)
    BY <1>1, <1>2, <1>5, <2>1, ReleaseKeeps
  <2>3. Others(w, d, e)
    BY <1>4, <1>6, <2>2, OthersTwice DEF Left
  <2>4. d.ticket[e] = 0 /\ d.lease[e] = 0
    BY <1>4, <2>1, <2>2 DEF Left, Stays
  <2>5. NoMoreTold(w, d, e) /\ Sits(w, d, e)
    BY <1>4, <2>2 DEF Left, Stays, NoMoreTold, Sits
  <2>6. Owned(d, e) /\ Told(d, e) /\ Heard(d, e)
    BY <1>7, <2>2, <2>4, <2>5 DEF Owned, Told, Heard, Left, NoMoreTold
  <2>7. Good(d)
    BY <2>2, <2>3, <2>6, GoodKeeps DEF Left
  <2> QED BY <2>1, <2>3, <2>4, <2>5, <2>7
<1> QED BY <1>8, <1>9
(* Records that change in a field of one element.                          *)
Put(w, e, s) == [w EXCEPT !.seat[e] = s]
Weigh(w, e, r, n, b) == [w EXCEPT !.total[r] = n, !.seat[e].bytes = b]

(* The seat of one element changes, and nothing else.                      *)
LEMMA Seated ==
  ASSUME NEW w \in Resources, NEW e \in Elements, NEW s \in Seats,
         NEW x, x = Put(w, e, s)
  PROVE  /\ x \in Resources /\ x.seat[e] = s
         /\ \A f \in Elements : f # e => x.seat[f] = w.seat[f]
         /\ x.queue = w.queue /\ x.active = w.active /\ x.granted = w.granted
         /\ x.ticket = w.ticket /\ x.lease = w.lease
<1>1. /\ x = [seat |-> x.seat, queue |-> x.queue, active |-> x.active, total |-> x.total,
              granted |-> x.granted, ticket |-> x.ticket, lease |-> x.lease]
      /\ x.seat = [w.seat EXCEPT ![e] = s] /\ x.total = w.total
      /\ x.queue = w.queue /\ x.active = w.active /\ x.granted = w.granted
      /\ x.ticket = w.ticket /\ x.lease = w.lease
  BY DEF Resources, Put
<1>2. w.seat \in [Elements -> Seats]
  BY DEF Resources
<1>3. x \in Resources
  BY <1>1, <1>2 DEF Resources
<1> QED BY <1>1, <1>2, <1>3

(* The bytes of a participant change with those of its page.               *)
LEMMA Weighed ==
  ASSUME NEW w \in Resources, NEW e \in Elements, NEW r \in Realms,
         NEW n \in Int, NEW b \in 0 .. MaxBytes,
         NEW x, x = Weigh(w, e, r, n, b)
  PROVE  /\ x \in Resources
         /\ x.seat[e].realm = w.seat[e].realm /\ x.seat[e].visible = w.seat[e].visible
         /\ x.seat[e].request = w.seat[e].request /\ x.seat[e].state = w.seat[e].state
         /\ \A f \in Elements : f # e => x.seat[f] = w.seat[f]
         /\ x.queue = w.queue /\ x.active = w.active /\ x.granted = w.granted
         /\ x.ticket = w.ticket /\ x.lease = w.lease
<1>1. /\ x = [seat |-> x.seat, queue |-> x.queue, active |-> x.active, total |-> x.total,
              granted |-> x.granted, ticket |-> x.ticket, lease |-> x.lease]
      /\ x.seat = [w.seat EXCEPT ![e].bytes = b] /\ x.total = [w.total EXCEPT ![r] = n]
      /\ x.queue = w.queue /\ x.active = w.active /\ x.granted = w.granted
      /\ x.ticket = w.ticket /\ x.lease = w.lease
  BY DEF Resources, Weigh
<1>2. /\ w.seat \in [Elements -> Seats] /\ w.total \in [Realms -> Int]
      /\ w.seat[e] \in Seats
  BY DEF Resources
<1>3. [w.seat[e] EXCEPT !.bytes = b] \in Seats
  BY <1>2 DEF Seats
<1>4. x.seat \in [Elements -> Seats] /\ x.total \in [Realms -> Int]
  BY <1>1, <1>2, <1>3
<1>5. x \in Resources
  BY <1>1, <1>4 DEF Resources
<1>6. /\ x.seat[e] = [w.seat[e] EXCEPT !.bytes = b]
      /\ \A f \in Elements : f # e => x.seat[f] = w.seat[f]
  BY <1>1, <1>2
<1>7. /\ x.seat[e].realm = w.seat[e].realm /\ x.seat[e].visible = w.seat[e].visible
      /\ x.seat[e].request = w.seat[e].request /\ x.seat[e].state = w.seat[e].state
  BY <1>2, <1>6 DEF Seats
<1> QED BY <1>1, <1>5, <1>6, <1>7

(* ensureParticipant() of the owner.                                       *)
LEMMA EnsureKeeps ==
  ASSUME NEW w, Good(w), NEW e \in Elements, NEW d, d = EnsureParticipant(w, e),
         realm[e] \in Realms, visible[e] \in BOOLEAN
  PROVE  /\ Good(d) /\ Others(w, d, e) /\ NoMoreTold(w, d, e)
         /\ d.seat[e].realm \in Realms
         /\ w.seat[e].realm # "none" => d = w
         /\ w.seat[e].realm = "none" =>
              d.seat[e].realm = realm[e] /\ d.seat[e].visible = visible[e]
         /\ d.ticket = w.ticket /\ d.lease = w.lease
         /\ State(d, e) = State(w, e) /\ d.seat[e].request = w.seat[e].request
<1>1. w \in Resources /\ Sound(w) /\ w.seat[e] \in Seats
  BY DEF Good, Sound, Core, Resources
<1>2. CASE w.seat[e].realm # "none"
  <2>1. d = w
    BY <1>2 DEF EnsureParticipant
  <2>2. Others(w, w, e)
    BY <1>1, AloneKeeps
  <2> QED BY <1>1, <1>2, <2>1, <2>2 DEF NoMoreTold, Seats
<1>3. CASE w.seat[e].realm = "none"
  <2> DEFINE s == [w.seat[e] EXCEPT !.realm = realm[e], !.visible = visible[e]]
  <2>1. d = Put(w, e, s)
    BY <1>1, <1>3 DEF EnsureParticipant, Resources, Put
  <2>2. /\ s \in Seats /\ s.realm = realm[e] /\ s.visible = visible[e]
        /\ s.request = w.seat[e].request /\ s.state = w.seat[e].state
    BY <1>1 DEF Seats
  <2> HIDE DEF s
  <2>3. /\ d \in Resources /\ d.seat[e] = s
        /\ \A f \in Elements : f # e => d.seat[f] = w.seat[f]
        /\ d.queue = w.queue /\ d.active = w.active /\ d.granted = w.granted
        /\ d.ticket = w.ticket /\ d.lease = w.lease
    BY <1>1, <2>1, <2>2, Seated, SMTT(30)
  <2>4. State(w, e) = "none"
    BY <1>1, <1>3, PageAssumption DEF Sound, Core, Tickets
  <2>5. Sound(d)
    BY <1>1, <2>2, <2>3, <2>4, DressedKeeps DEF State
  <2>6. Others(w, d, e)
    BY <1>1, <2>2, <2>3, <2>4, AloneKeeps DEF State
  <2>7. Owned(w, e) /\ Told(w, e) /\ Heard(w, e)
    BY DEF Good
  <2>8. Owned(d, e) /\ Told(d, e) /\ Heard(d, e)
    BY <2>2, <2>3, <2>7 DEF Owned, Told, Heard, State
  <2>9. Good(d)
    BY <2>5, <2>6, <2>8, GoodKeeps
  <2> QED BY <1>3, <2>2, <2>3, <2>6, <2>9 DEF NoMoreTold, State
<1> QED BY <1>2, <1>3

(* dispose() of a participant without a ticket.                            *)
LEMMA DisposeKeeps ==
  ASSUME NEW w, Good(w), NEW e \in Elements, w.ticket[e] = 0, w.lease[e] = 0,
         NEW d, d = DisposeParticipant(w, e)
  PROVE  /\ Good(d) /\ Others(w, d, e) /\ NoMoreTold(w, d, e)
         /\ d.seat[e].realm = "none" /\ d.ticket = w.ticket /\ d.lease = w.lease
<1> DEFINE r == w.seat[e].realm
           x == [w EXCEPT !.total[r] = @ - w.seat[e].bytes, !.seat[e].bytes = 0]
<1>1. w \in Resources /\ Sound(w) /\ w.seat[e] \in Seats
  BY DEF Good, Sound, Core, Resources
<1>2. State(w, e) = "none" /\ w.seat[e].request = 0
  BY <1>1 DEF Good, Owned, Sound, Core, Tickets
<1>3. CASE r = "none"
  <2>1. d = w
    BY <1>3 DEF DisposeParticipant
  <2>2. Others(w, w, e)
    BY <1>1, AloneKeeps
  <2> QED BY <1>3, <2>1, <2>2 DEF NoMoreTold
<1>4. CASE r # "none"
  <2>1. r \in Realms /\ w.total[r] - w.seat[e].bytes \in Int /\ 0 \in 0 .. MaxBytes
    BY <1>1, <1>4, PageAssumption DEF Resources, Seats
  <2>2. Cancel(x, e, w.seat[e].request) = x
    BY <1>2 DEF Cancel
  <2>3. d = Put(x, e, Away)
    BY <1>4, <2>2 DEF DisposeParticipant, Put
  <2>4. x = Weigh(w, e, r, w.total[r] - w.seat[e].bytes, 0)
    BY DEF Weigh
  <2> HIDE DEF x, r
  <2>5. /\ x \in Resources
        /\ \A f \in Elements : f # e => x.seat[f] = w.seat[f]
        /\ x.queue = w.queue /\ x.active = w.active /\ x.granted = w.granted
        /\ x.ticket = w.ticket /\ x.lease = w.lease
    BY <1>1, <2>1, <2>4, Weighed
  <2>6. Away \in Seats
    BY PageAssumption DEF Away, Seats, Generations
  <2>7. /\ d \in Resources /\ d.seat[e] = Away
        /\ \A f \in Elements : f # e => d.seat[f] = x.seat[f]
        /\ d.queue = x.queue /\ d.active = x.active /\ d.granted = x.granted
        /\ d.ticket = x.ticket /\ d.lease = x.lease
    BY <2>3, <2>5, <2>6, Seated
  <2>8. State(d, e) = "none" /\ d.seat[e].request = 0 /\ d.seat[e].realm = "none"
    BY <2>7 DEF State, Away
  <2>9. Sound(d)
    BY <1>1, <1>2, <2>5, <2>7, <2>8, DressedKeeps
  <2>10. Others(w, d, e)
    BY <1>1, <2>5, <2>7, <2>8, AloneKeeps DEF State
  <2>11. Owned(w, e) /\ Told(w, e) /\ Heard(w, e)
    BY DEF Good
  <2>12. Owned(d, e) /\ Told(d, e) /\ Heard(d, e)
    BY <2>5, <2>7, <2>8, <2>11 DEF Owned, Told, Heard
  <2>13. Good(d)
    BY <2>9, <2>10, <2>12, GoodKeeps
  <2> QED BY <2>5, <2>7, <2>8, <2>10, <2>13 DEF NoMoreTold
<1> QED BY <1>3, <1>4

(* releaseAll() of the owner, in its three parts.                          *)
LEMMA ReleaseAllKeeps ==
  ASSUME NEW w, Good(w), NEW e \in Elements, NEW d, d = ReleaseAll(w, e)
  PROVE  /\ Good(d) /\ Others(w, d, e) /\ NoMoreTold(w, d, e)
         /\ d.seat[e].realm = "none" /\ d.ticket[e] = 0 /\ d.lease[e] = 0
<1> DEFINE x == InvalidateRequest(w, e)
           y == ReleaseDecoderLease(x, e)
<1>1. d = DisposeParticipant(y, e)
  BY DEF ReleaseAll
<1>2. Good(x) /\ Others(w, x, e) /\ NoMoreTold(w, x, e) /\ x.ticket[e] = 0
  BY InvalidateKeeps
<1> HIDE DEF x
<1>3. /\ Good(y) /\ Others(x, y, e) /\ NoMoreTold(x, y, e)
      /\ y.lease[e] = 0 /\ y.ticket[e] = 0
  BY <1>2, ReleaseLeaseKeeps
<1> HIDE DEF y
<1>4. /\ Good(d) /\ Others(y, d, e) /\ NoMoreTold(y, d, e)
      /\ d.seat[e].realm = "none" /\ d.ticket[e] = 0 /\ d.lease[e] = 0
  BY <1>1, <1>3, DisposeKeeps
<1>5. x \in Resources /\ y \in Resources
  BY <1>2, <1>3 DEF Good, Sound, Core
<1> QED BY <1>2, <1>3, <1>4, <1>5, OthersTwice DEF NoMoreTold
Line(w, e, s, r, q) == [w EXCEPT !.seat[e] = s, !.queue[r] = q]

(* A seat and a queue change, and nothing else.                            *)
LEMMA Lined ==
  ASSUME NEW w \in Resources, NEW e \in Elements, NEW s \in Seats, NEW r \in Realms,
         NEW q \in Seq(Elements), NEW x, x = Line(w, e, s, r, q)
  PROVE  /\ x \in Resources /\ x.seat[e] = s /\ x.queue[r] = q
         /\ \A f \in Elements : f # e => x.seat[f] = w.seat[f]
         /\ \A t \in Realms : t # r => x.queue[t] = w.queue[t]
         /\ x.active = w.active /\ x.granted = w.granted
         /\ x.ticket = w.ticket /\ x.lease = w.lease
<1>1. /\ x = [seat |-> x.seat, queue |-> x.queue, active |-> x.active, total |-> x.total,
              granted |-> x.granted, ticket |-> x.ticket, lease |-> x.lease]
      /\ x.seat = [w.seat EXCEPT ![e] = s] /\ x.queue = [w.queue EXCEPT ![r] = q]
      /\ x.total = w.total
      /\ x.active = w.active /\ x.granted = w.granted
      /\ x.ticket = w.ticket /\ x.lease = w.lease
  BY DEF Resources, Line
<1>2. w.seat \in [Elements -> Seats] /\ w.queue \in [Realms -> Seq(Elements)]
  BY DEF Resources
<1>3. x \in Resources
  BY <1>1, <1>2, ZenonT(40) DEF Resources
<1> QED BY <1>1, <1>2, <1>3

(* A ticket begins to wait, in the queue or outside of it.                 *)
Settles(w, x, e, s) ==
  LET r == w.seat[e].realm
  IN /\ x \in Resources
     /\ x.seat[e].realm = r /\ x.seat[e].state = s /\ x.seat[e].request # 0
     /\ s = "queued" => x.seat[e].visible
     /\ s = "parked" => ~x.seat[e].visible
     /\ \A f \in Elements : f # e => x.seat[f] = w.seat[f]
     /\ \A t \in Realms : t # r => x.queue[t] = w.queue[t]
     /\ Distinct(x.queue[r]) /\ Kept(w.queue[r], x.queue[r], e)
     /\ \A f \in Elements : f \in Els(x.queue[r]) <=>
          (f \in Els(w.queue[r]) /\ f # e) \/ (f = e /\ s = "queued")
     /\ x.active = w.active /\ x.granted = w.granted
     /\ x.ticket = w.ticket /\ x.lease = w.lease

(* A ticket that begins to wait is granted at once or waits in its place.  *)
LEMMA SettleKeeps ==
  ASSUME NEW w, NEW x, NEW d, Sound(w), NEW e \in Elements, w.seat[e].realm \in Realms,
         State(w, e) # "active", NEW s \in {"queued", "parked"}, Settles(w, x, e, s),
         d = Drain(x, w.seat[e].realm)
  PROVE  /\ Sound(d) /\ Others(w, d, e) /\ Same(x, d, e)
<1> DEFINE r == w.seat[e].realm
<1>1. /\ x \in Resources
      /\ x.seat[e].realm = r /\ x.seat[e].state = s /\ x.seat[e].request # 0
      /\ s = "queued" => x.seat[e].visible
      /\ s = "parked" => ~x.seat[e].visible
      /\ \A f \in Elements : f # e => x.seat[f] = w.seat[f]
      /\ \A t \in Realms : t # r => x.queue[t] = w.queue[t]
      /\ Distinct(x.queue[r]) /\ Kept(w.queue[r], x.queue[r], e)
      /\ \A f \in Elements : f \in Els(x.queue[r]) <=>
           (f \in Els(w.queue[r]) /\ f # e) \/ (f = e /\ s = "queued")
      /\ x.active = w.active /\ x.granted = w.granted
      /\ x.ticket = w.ticket /\ x.lease = w.lease
  BY DEF Settles
<1>2. w \in Resources /\ Queues(w) /\ Permits(w) /\ Tickets(w) /\ w.seat[e].state # "active"
      /\ r \in Realms
  BY DEF Sound, Core, State
<1> HIDE DEF r
<1>3. Queues(x)
  <2> SUFFICES ASSUME NEW t \in Realms
               PROVE  /\ Distinct(x.queue[t])
                      /\ \A f \in Elements : f \in Els(x.queue[t]) <=>
                           (x.seat[f].realm = t /\ x.seat[f].state = "queued")
    BY DEF Queues, State
  <2>1. /\ Distinct(w.queue[t])
        /\ \A f \in Elements : f \in Els(w.queue[t]) <=>
             (w.seat[f].realm = t /\ w.seat[f].state = "queued")
    BY <1>2 DEF Queues, State
  <2>2. CASE t = r
    BY <2>1, <2>2, <1>1, <1>2
  <2>3. CASE t # r
    <3>1. w.seat[e].realm = r
      BY DEF r
    <3> QED BY <2>1, <2>3, <1>1, <1>2, <3>1
  <2> QED BY <2>2, <2>3
<1>4. Permits(x)
  <2>1. \A f, k \in Elements :
          x.seat[f].state = "active" /\ x.seat[k].state = "active"
            /\ x.seat[f].realm = x.seat[k].realm => f = k
    BY <1>1, <1>2 DEF Permits, State
  <2>2. \A f \in Elements : x.seat[f].state = "active" => x.active[x.seat[f].realm] # 0
    BY <1>1, <1>2 DEF Permits, State
  <2>3. ASSUME NEW t \in Realms, x.active[t] # 0
        PROVE  \E f \in Elements : x.seat[f].realm = t /\ x.seat[f].state = "active"
    BY <1>1, <1>2, <2>3 DEF Permits, State
  <2> QED BY <2>1, <2>2, <2>3 DEF Permits, State
<1>5. Tickets(x)
  BY <1>1, <1>2 DEF Tickets, State
<1>6. \A t \in Realms : t # r => Idle(x, t)
  BY <1>1 DEF Sound, Idle
<1>7. Core(x)
  BY <1>1, <1>3, <1>4, <1>5 DEF Core
<1>8. Sound(d) /\ \A f \in Elements : Same(x, d, f)
  BY <1>2, <1>6, <1>7, DrainKeeps DEF r
<1>9. Others(w, x, e)
  <2>1. \A t \in Realms : Kept(w.queue[t], x.queue[t], e)
    BY <1>1, KeptSelf
  <2>2. State(x, e) # "active"
    BY <1>1 DEF State
  <2> QED BY <1>1, <1>2, <2>1, <2>2, BesideKeeps
<1>10. Others(x, d, e)
  BY <1>8 DEF Others
<1> QED BY <1>1, <1>8, <1>9, <1>10, OthersTwice

(* A new ticket of an element that has none.                               *)
LEMMA RequestKeeps ==
  ASSUME NEW w, Sound(w), NEW e \in Elements, NEW g \in Generations, g # 0,
         w.seat[e].realm \in Realms, State(w, e) = "none", w.ticket[e] = 0,
         NEW d, d = Request(w, e, g)
  PROVE  /\ Sound(d) /\ Others(w, d, e) /\ NoMoreTold(w, d, e) /\ Sits(w, d, e)
         /\ d.ticket[e] = w.ticket[e] /\ d.lease[e] = w.lease[e]
         /\ d.seat[e].request = g /\ State(d, e) # "none"
<1> DEFINE r == w.seat[e].realm
<1>1. /\ w \in Resources /\ w.seat[e] \in Seats /\ r \in Realms
      /\ w.queue[r] \in Seq(Elements) /\ Distinct(w.queue[r]) /\ e \notin Els(w.queue[r])
  BY SMTT(30) DEF Sound, Core, Queues, Resources
<1>2. ASSUME NEW x, NEW s \in {"queued", "parked"}, Settles(w, x, e, s), d = Drain(x, r),
             x.seat[e].request = g, x.seat[e].visible = w.seat[e].visible
      PROVE  /\ Sound(d) /\ Others(w, d, e) /\ NoMoreTold(w, d, e) /\ Sits(w, d, e)
             /\ d.ticket[e] = w.ticket[e] /\ d.lease[e] = w.lease[e]
             /\ d.seat[e].request = g /\ State(d, e) # "none"
  <2>1. Sound(d) /\ Others(w, d, e) /\ Same(x, d, e)
    BY <1>1, <1>2, SettleKeeps
  <2>2. /\ x.seat[e].realm = r /\ x.seat[e].state = s /\ x.granted = w.granted
        /\ x.ticket = w.ticket /\ x.lease = w.lease
    BY <1>2 DEF Settles
  <2>3. NoMoreTold(w, d, e)
    BY <2>1, <2>2 DEF NoMoreTold, Same
  <2> QED BY <2>1, <2>2, <2>3, <1>2 DEF Same, Sits, State
<1>3. CASE w.seat[e].visible
  <2> DEFINE s == [w.seat[e] EXCEPT !.request = g, !.state = "queued"]
             q == Append(w.queue[r], e)
             x == Line(w, e, s, r, q)
  <2>1. /\ s \in Seats /\ s.realm = r /\ s.state = "queued" /\ s.request = g
        /\ s.visible = w.seat[e].visible
    BY <1>1 DEF Seats
  <2>2. /\ q \in Seq(Elements) /\ Distinct(q) /\ Kept(w.queue[r], q, e)
        /\ \A f : f \in Els(q) <=> f \in Els(w.queue[r]) \/ f = e
    BY <1>1, AppendEls, AppendOrder
  <2>3. d = Drain(x, r)
    BY <1>1, <1>3, ZenonT(40) DEF Request, Line, Resources
  <2> HIDE DEF s, q, r, x
  <2>4. x = Line(w, e, s, r, q)
    BY DEF x
  <2>5. /\ x \in Resources /\ x.seat[e] = s /\ x.queue[r] = q
        /\ \A f \in Elements : f # e => x.seat[f] = w.seat[f]
        /\ \A t \in Realms : t # r => x.queue[t] = w.queue[t]
        /\ x.active = w.active /\ x.granted = w.granted
        /\ x.ticket = w.ticket /\ x.lease = w.lease
    BY <1>1, <2>1, <2>2, <2>4, Lined, SMTT(30)
  <2>6. Settles(w, x, e, "queued")
    BY <1>1, <1>3, <2>1, <2>2, <2>5 DEF Settles, r
  <2>7. x.seat[e].request = g /\ x.seat[e].visible = w.seat[e].visible
    BY <2>1, <2>5
  <2> QED BY <1>2, <2>3, <2>6, <2>7
<1>4. CASE ~w.seat[e].visible
  <2> DEFINE s == [w.seat[e] EXCEPT !.request = g, !.state = "parked"]
             x == Put(w, e, s)
  <2>1. /\ s \in Seats /\ s.realm = r /\ s.state = "parked" /\ s.request = g
        /\ s.visible = w.seat[e].visible
    BY <1>1 DEF Seats
  <2>2. d = Drain(x, r)
    BY <1>1, <1>4, ZenonT(40) DEF Request, Put, Resources
  <2> HIDE DEF s, r, x
  <2>3. x = Put(w, e, s)
    BY DEF x
  <2>4. /\ x \in Resources /\ x.seat[e] = s
        /\ \A f \in Elements : f # e => x.seat[f] = w.seat[f]
        /\ x.queue = w.queue
        /\ x.active = w.active /\ x.granted = w.granted
        /\ x.ticket = w.ticket /\ x.lease = w.lease
    BY <1>1, <2>1, <2>3, Seated, SMTT(30)
  <2>5. Settles(w, x, e, "parked")
    BY <1>1, <1>4, <2>1, <2>4, KeptSelf DEF Settles, r
  <2>6. x.seat[e].request = g /\ x.seat[e].visible = w.seat[e].visible
    BY <2>1, <2>4
  <2> QED BY <1>2, <2>2, <2>5, <2>6
<1> QED BY <1>3, <1>4

(* setVisible() of a participant, with or without a ticket.                *)
LEMMA VisibilityKeeps ==
  ASSUME NEW w, Good(w), NEW e \in Elements, NEW v \in BOOLEAN, NEW d, d = Visibility(w, e, v)
  PROVE  /\ Good(d) /\ Others(w, d, e)
         /\ \A g \in Generations : <<e, g>> \in d.granted =>
              <<e, g>> \in w.granted \/ (v /\ g = w.ticket[e])
         /\ d.seat[e].realm = w.seat[e].realm
         /\ d.seat[e].realm # "none" => d.seat[e].visible = v
         /\ d.ticket[e] = w.ticket[e] /\ d.lease[e] = w.lease[e]
<1> DEFINE r == w.seat[e].realm
<1>1. /\ w \in Resources /\ Sound(w) /\ w.seat[e] \in Seats
      /\ Owned(w, e) /\ Told(w, e) /\ Heard(w, e) /\ w.ticket[e] \in Generations
  BY DEF Good, Sound, Core, Resources
<1>2. CASE r = "none"
  <2>1. d = w
    BY <1>2 DEF Visibility
  <2>2. Others(w, w, e)
    BY <1>1, AloneKeeps, SMTT(30)
  <2> QED BY <1>2, <2>1, <2>2
<1>3. ASSUME r # "none", NEW x, NEW s \in {"queued", "parked"}, Settles(w, x, e, s),
             d = Drain(x, r), x.seat[e].request = w.seat[e].request,
             x.seat[e].visible = v, State(w, e) \in {"queued", "parked"}, s = "queued" => v
      PROVE  /\ Good(d) /\ Others(w, d, e)
             /\ \A g \in Generations : <<e, g>> \in d.granted =>
                  <<e, g>> \in w.granted \/ (v /\ g = w.ticket[e])
             /\ d.seat[e].realm = w.seat[e].realm
             /\ d.seat[e].realm # "none" => d.seat[e].visible = v
             /\ d.ticket[e] = w.ticket[e] /\ d.lease[e] = w.lease[e]
  <2>1. r \in Realms /\ State(w, e) # "active"
    BY <1>1, <1>3 DEF Seats
  <2>2. Sound(d) /\ Others(w, d, e) /\ Same(x, d, e)
    BY <1>1, <1>3, <2>1, SettleKeeps
  <2>3. /\ x.seat[e].realm = r /\ State(x, e) = s /\ x.granted = w.granted
        /\ x.ticket = w.ticket /\ x.lease = w.lease
    BY <1>3 DEF Settles, State
  <2>4. Owned(x, e) /\ Told(x, e) /\ Heard(x, e)
    BY <1>1, <1>3, <2>1, <2>3 DEF Owned, Told, Heard
  <2>5. Owned(d, e) /\ Told(d, e) /\ Heard(d, e)
    BY <1>3, <2>2, <2>4, SameKeeps DEF Settles
  <2>6. Good(d)
    BY <2>2, <2>5, GoodKeeps
  <2>7. \A g \in Generations : <<e, g>> \in d.granted =>
          <<e, g>> \in w.granted \/ (v /\ g = w.ticket[e])
    BY <1>3, <2>2, <2>3, SMTT(30) DEF Same
  <2> QED BY <1>3, <2>2, <2>3, <2>6, <2>7 DEF Same
<1>4. CASE r # "none" /\ ~v /\ w.seat[e].state = "queued"
  <2> DEFINE s == [w.seat[e] EXCEPT !.visible = v, !.state = "parked"]
             q == Without(w.queue[r], e)
             x == Line(w, e, s, r, q)
  <2>1. /\ s \in Seats /\ s.realm = r /\ s.state = "parked" /\ s.visible = v
        /\ s.request = w.seat[e].request
    BY <1>1 DEF Seats
  <2>2. /\ r \in Realms /\ w.queue[r] \in Seq(Elements) /\ Distinct(w.queue[r])
        /\ w.seat[e].request # 0
    BY <1>1, <1>4 DEF Sound, Core, Queues, Tickets, Resources, Seats, State
  <2>3. /\ q \in Seq(Elements) /\ Distinct(q) /\ Kept(w.queue[r], q, e)
        /\ \A f : f \in Els(q) <=> f \in Els(w.queue[r]) /\ f # e
    BY <2>2, WithoutEls, WithoutOrder
  <2>4. d = Drain(x, r)
    BY <1>1, <1>4, ZenonT(40) DEF Visibility, Line, Resources
  <2> HIDE DEF s, q, x
  <2>5. x = Line(w, e, s, r, q)
    BY DEF x
  <2>6. /\ x \in Resources /\ x.seat[e] = s /\ x.queue[r] = q
        /\ \A f \in Elements : f # e => x.seat[f] = w.seat[f]
        /\ \A t \in Realms : t # r => x.queue[t] = w.queue[t]
        /\ x.active = w.active /\ x.granted = w.granted
        /\ x.ticket = w.ticket /\ x.lease = w.lease
    <3> HIDE DEF r
    <3> QED BY <1>1, <2>1, <2>2, <2>3, <2>5, Lined
  <2>7. Settles(w, x, e, "parked")
    <3>1. "parked" # "queued"
      OBVIOUS
    <3> QED BY <1>4, <2>1, <2>2, <2>3, <2>6, <3>1 DEF Settles
  <2>8. State(w, e) \in {"queued", "parked"} /\ x.seat[e].request = w.seat[e].request
        /\ x.seat[e].visible = v
    BY <1>4, <2>1, <2>6 DEF State
  <2> QED BY <1>3, <1>4, <2>4, <2>7, <2>8
<1>5. CASE r # "none" /\ v /\ w.seat[e].state = "parked"
  <2> DEFINE s == [w.seat[e] EXCEPT !.visible = v, !.state = "queued"]
             q == Append(w.queue[r], e)
             x == Line(w, e, s, r, q)
  <2>1. /\ s \in Seats /\ s.realm = r /\ s.state = "queued" /\ s.visible = v
        /\ s.request = w.seat[e].request
    BY <1>1 DEF Seats
  <2>2. /\ r \in Realms /\ w.queue[r] \in Seq(Elements) /\ Distinct(w.queue[r])
        /\ w.seat[e].request # 0 /\ e \notin Els(w.queue[r])
    BY <1>1, <1>5 DEF Sound, Core, Queues, Tickets, Resources, Seats, State
  <2>3. /\ q \in Seq(Elements) /\ Distinct(q) /\ Kept(w.queue[r], q, e)
        /\ \A f : f \in Els(q) <=> f \in Els(w.queue[r]) \/ f = e
    BY <2>2, AppendEls, AppendOrder
  <2>4. d = Drain(x, r)
    BY <1>1, <1>5, ZenonT(40) DEF Visibility, Line, Resources
  <2> HIDE DEF s, q, x
  <2>5. x = Line(w, e, s, r, q)
    BY DEF x
  <2>6. /\ x \in Resources /\ x.seat[e] = s /\ x.queue[r] = q
        /\ \A f \in Elements : f # e => x.seat[f] = w.seat[f]
        /\ \A t \in Realms : t # r => x.queue[t] = w.queue[t]
        /\ x.active = w.active /\ x.granted = w.granted
        /\ x.ticket = w.ticket /\ x.lease = w.lease
    <3> HIDE DEF r
    <3> QED BY <1>1, <2>1, <2>2, <2>3, <2>5, Lined
  <2>7. Settles(w, x, e, "queued")
    BY <1>5, <2>1, <2>2, <2>3, <2>6 DEF Settles
  <2>8. State(w, e) \in {"queued", "parked"} /\ x.seat[e].request = w.seat[e].request
        /\ x.seat[e].visible = v /\ v
    BY <1>5, <2>1, <2>6 DEF State
  <2> QED BY <1>3, <1>5, <2>4, <2>7, <2>8
<1>6. CASE r # "none" /\ ~(~v /\ w.seat[e].state = "queued") /\ ~(v /\ w.seat[e].state = "parked")
  <2> DEFINE s == [w.seat[e] EXCEPT !.visible = v]
  <2>1. /\ s \in Seats /\ s.realm = r /\ s.state = w.seat[e].state /\ s.visible = v
        /\ s.request = w.seat[e].request
    BY <1>1 DEF Seats
  <2>2. d = Put(w, e, s)
    BY <1>1, <1>6 DEF Visibility, Put, Resources
  <2> HIDE DEF s
  <2>3. /\ d \in Resources /\ d.seat[e] = s
        /\ \A f \in Elements : f # e => d.seat[f] = w.seat[f]
        /\ d.queue = w.queue /\ d.active = w.active /\ d.granted = w.granted
        /\ d.ticket = w.ticket /\ d.lease = w.lease
    BY <1>1, <2>1, <2>2, Seated
  <2>4. /\ State(w, e) = "queued" => w.seat[e].visible
        /\ State(w, e) = "parked" => ~w.seat[e].visible
        /\ w.seat[e].visible \in BOOLEAN
    BY <1>1 DEF Sound, Core, Tickets, Seats
  <2>5. State(w, e) \in {"queued", "parked"} => d.seat[e].visible = w.seat[e].visible
    BY <1>6, <2>1, <2>3, <2>4 DEF State
  <2>6. Sound(d)
    BY <1>1, <2>1, <2>3, <2>5, DressedKeeps DEF State
  <2>7. Others(w, d, e)
    BY <1>1, <2>1, <2>3, AloneKeeps
  <2>8. Owned(d, e) /\ Told(d, e) /\ Heard(d, e)
    BY <1>1, <2>1, <2>3 DEF Owned, Told, Heard, State
  <2>9. Good(d)
    BY <2>6, <2>7, <2>8, GoodKeeps
  <2> QED BY <2>1, <2>3, <2>7, <2>9
<1> QED BY <1>2, <1>4, <1>5, <1>6

(* animationResourcesRetired() of the owner.                               *)
LEMMA RetiredKeeps ==
  ASSUME NEW w, Good(w), NEW e \in Elements, NEW d, NEW retain \in BOOLEAN,
         d = AnimationResourcesRetired(w, e, retain)
  PROVE  /\ Good(d) /\ Others(w, d, e) /\ NoMoreTold(w, d, e)
         /\ d.lease[e] = 0
         /\ d.ticket[e] = 0 \/ (retain /\ d.ticket[e] = w.ticket[e])
         /\ d.seat[e].realm = "none" \/ Sits(w, d, e)
<1> DEFINE x == ReleaseDecoderLease(w, e)
           y == InvalidateRequest(x, e)
<1>1. /\ Good(x) /\ Others(w, x, e) /\ NoMoreTold(w, x, e) /\ Sits(w, x, e)
      /\ x.lease[e] = 0 /\ x.ticket[e] = w.ticket[e]
  BY ReleaseLeaseKeeps
<1>2. d = IF retain THEN x
          ELSE IF y.seat[e].bytes = 0 THEN DisposeParticipant(y, e) ELSE y
  BY DEF AnimationResourcesRetired
<1> HIDE DEF x
<1>3. /\ Good(y) /\ Others(x, y, e) /\ NoMoreTold(x, y, e) /\ Sits(x, y, e)
      /\ y.ticket[e] = 0 /\ y.lease[e] = 0
  BY <1>1, InvalidateKeeps
<1> HIDE DEF y
<1>4. /\ Others(w, y, e) /\ NoMoreTold(w, y, e) /\ Sits(w, y, e)
      /\ x \in Resources /\ y \in Resources
  BY <1>1, <1>3, OthersTwice DEF Good, Sound, Core, NoMoreTold, Sits
<1>5. CASE retain
  BY <1>1, <1>2, <1>5
<1>6. CASE ~retain /\ y.seat[e].bytes # 0
  BY <1>2, <1>3, <1>4, <1>6
<1>7. CASE ~retain /\ y.seat[e].bytes = 0
  <2>1. d = DisposeParticipant(y, e)
    BY <1>2, <1>7
  <2>2. /\ Good(d) /\ Others(y, d, e) /\ NoMoreTold(y, d, e)
        /\ d.seat[e].realm = "none" /\ d.ticket = y.ticket /\ d.lease = y.lease
    BY <1>3, <2>1, DisposeKeeps
  <2> QED BY <1>3, <1>4, <2>2, OthersTwice DEF NoMoreTold
<1> QED BY <1>5, <1>6, <1>7

(* Nobody moves.                                                           *)
Still(w, d) ==
  /\ d.queue = w.queue
  /\ \A f \in Elements : d.seat[f].realm = w.seat[f].realm /\ State(d, f) = State(w, f)

(* setResourceBytes() of the owner.                                        *)
LEMMA BytesKeep ==
  ASSUME NEW w, Good(w), NEW e \in Elements, NEW b \in 0 .. MaxBytes, NEW d,
         d = SetResourceBytes(w, e, b), w.seat[e].realm \in {"none", realm[e]},
         realm[e] \in Realms, visible[e] \in BOOLEAN
  PROVE  /\ Good(d) /\ Others(w, d, e) /\ NoMoreTold(w, d, e)
         /\ d.ticket[e] = w.ticket[e] /\ d.lease[e] = w.lease[e]
         /\ Sits(w, d, e) \/ (d.seat[e].realm = realm[e] /\ d.seat[e].visible = visible[e])
         /\ w.seat[e].realm # "none" => Still(w, d)
<1>1. w \in Resources
  BY DEF Good, Sound, Core
<1>2. RetireAdoptedRealm(w, e) = w
  BY DEF RetireAdoptedRealm
<1> DEFINE x == EnsureParticipant(w, e)
           r == x.seat[e].realm
<1>3. CASE b = 0 /\ w.seat[e].realm = "none"
  <2>1. d = w
    BY <1>3 DEF SetResourceBytes
  <2>2. Others(w, w, e)
    BY <1>1, AloneKeeps
  <2> QED BY <2>1, <2>2 DEF NoMoreTold, Sits, Still
<1>4. CASE ~(b = 0 /\ w.seat[e].realm = "none")
  <2> DEFINE n == x.total[r] - x.seat[e].bytes + b
  <2>1. d = Weigh(x, e, r, n, b)
    BY <1>2, <1>4 DEF SetResourceBytes, Weigh
  <2>2. /\ Good(x) /\ Others(w, x, e) /\ NoMoreTold(w, x, e) /\ r \in Realms
        /\ w.seat[e].realm # "none" => x = w
        /\ w.seat[e].realm = "none" => r = realm[e] /\ x.seat[e].visible = visible[e]
        /\ x.ticket = w.ticket /\ x.lease = w.lease
    BY EnsureKeeps
  <2> HIDE DEF x, r
  <2>3. x \in Resources /\ Sound(x) /\ x.seat[e].bytes \in Int /\ x.total[r] \in Int
    <3>1. x \in Resources /\ Sound(x)
      BY <2>2 DEF Good, Sound, Core
    <3>2. x.total[r] \in Int /\ x.seat[e] \in Seats
      BY <2>2, <3>1 DEF Resources
    <3>3. x.seat[e].bytes \in 0 .. MaxBytes
      BY <3>2 DEF Seats
    <3> QED BY <3>1, <3>2, <3>3, PageAssumption
  <2>4. n \in Int
    BY <2>3, PageAssumption
  <2> HIDE DEF n
  <2>5. /\ d \in Resources
        /\ d.seat[e].realm = x.seat[e].realm /\ d.seat[e].visible = x.seat[e].visible
        /\ d.seat[e].request = x.seat[e].request /\ d.seat[e].state = x.seat[e].state
        /\ \A f \in Elements : f # e => d.seat[f] = x.seat[f]
        /\ d.queue = x.queue /\ d.active = x.active /\ d.granted = x.granted
        /\ d.ticket = x.ticket /\ d.lease = x.lease
    BY <2>1, <2>2, <2>3, <2>4, Weighed
  <2>6. Sound(d)
    BY <2>3, <2>5, DressedKeeps DEF State
  <2>7. Others(x, d, e)
    BY <2>3, <2>5, AloneKeeps
  <2>8. Owned(x, e) /\ Told(x, e) /\ Heard(x, e)
    BY <2>2 DEF Good
  <2>9. Owned(d, e) /\ Told(d, e) /\ Heard(d, e)
    BY <2>5, <2>8 DEF Owned, Told, Heard, State
  <2>10. Good(d) /\ Others(w, d, e)
    BY <2>2, <2>3, <2>6, <2>7, <2>9, GoodKeeps, OthersTwice
  <2>11. w.seat[e].realm # "none" => Still(w, d)
    BY <2>2, <2>5 DEF Still, State
  <2> QED BY <2>2, <2>5, <2>10, <2>11 DEF NoMoreTold, Sits, r
<1> QED BY <1>3, <1>4

(* claimDecoder() of an owner without a ticket and without a lease.        *)
LEMMA ClaimKeeps ==
  ASSUME NEW w, Good(w), NEW e \in Elements, NEW g \in Generations, g # 0,
         w.ticket[e] = 0, w.lease[e] = 0, <<e, g>> \notin w.granted,
         w.seat[e].realm \in {"none", realm[e]}, realm[e] \in Realms, visible[e] \in BOOLEAN,
         NEW d, d = ClaimDecoder(w, e, g)
  PROVE  /\ Good(d) /\ Others(w, d, e) /\ NoMoreTold(w, d, e)
         /\ Sits(w, d, e) \/ (d.seat[e].realm = realm[e] /\ d.seat[e].visible = visible[e])
         /\ \/ d.lease[e] = g /\ d.ticket[e] = 0
            \/ d.lease[e] = 0 /\ d.ticket[e] = g
<1> DEFINE x == InvalidateRequest(w, e)
           y == EnsureParticipant(x, e)
           z == Request(y, e, g)
<1>1. RetireAdoptedRealm(w, e) = w
  BY DEF RetireAdoptedRealm
<1>2. d = IF z.seat[e].state = "active" THEN [z EXCEPT !.lease[e] = g]
          ELSE [z EXCEPT !.ticket[e] = g]
  BY <1>1 DEF ClaimDecoder
<1>3. /\ Good(x) /\ Others(w, x, e) /\ NoMoreTold(w, x, e) /\ Sits(w, x, e)
      /\ x.ticket[e] = 0 /\ x.lease[e] = 0
  BY InvalidateKeeps
<1> HIDE DEF x
<1>4. /\ Good(y) /\ Others(x, y, e) /\ NoMoreTold(x, y, e) /\ y.seat[e].realm \in Realms
      /\ x.seat[e].realm # "none" => y = x
      /\ x.seat[e].realm = "none" => y.seat[e].realm = realm[e] /\ y.seat[e].visible = visible[e]
      /\ y.ticket[e] = 0 /\ y.lease[e] = 0
  BY <1>3, EnsureKeeps
<1> HIDE DEF y
<1>5. State(y, e) = "none" /\ Sound(y)
  BY <1>4 DEF Good, Owned, Sound, Core, Tickets
<1>6. /\ Sound(z) /\ Others(y, z, e) /\ NoMoreTold(y, z, e) /\ Sits(y, z, e)
      /\ z.ticket[e] = 0 /\ z.lease[e] = 0
      /\ z.seat[e].request = g /\ State(z, e) # "none"
  BY <1>4, <1>5, RequestKeeps
<1> HIDE DEF z
<1>7. x \in Resources /\ y \in Resources /\ z \in Resources
  BY <1>3, <1>4, <1>6 DEF Good, Sound, Core
<1>8. Others(w, z, e) /\ NoMoreTold(w, z, e)
  BY <1>3, <1>4, <1>6, <1>7, OthersTwice DEF NoMoreTold
<1>9. Sits(w, z, e) \/ (z.seat[e].realm = realm[e] /\ z.seat[e].visible = visible[e])
  BY <1>3, <1>4, <1>6 DEF Sits
<1>10. \A k \in Generations : <<e, k>> \in z.granted => k # 0 /\ k # g
  BY <1>8 DEF NoMoreTold, Good, Told
<1>11. CASE State(z, e) = "active"
  <2>1. d = Lend(z, e, g)
    BY <1>2, <1>11 DEF State, Lend
  <2>2. /\ d \in Resources /\ d.lease[e] = g
        /\ \A f \in Elements : f # e => d.lease[f] = z.lease[f]
        /\ d.seat = z.seat /\ d.queue = z.queue /\ d.active = z.active
        /\ d.granted = z.granted /\ d.ticket = z.ticket
    BY <1>7, <2>1, Leased
  <2>3. Sound(d)
    BY <1>6, <2>2, DressedKeeps DEF State
  <2>4. Others(z, d, e)
    BY <1>7, <2>2, AloneKeeps
  <2>5. Others(w, d, e)
    BY <1>7, <1>8, <2>4, OthersTwice
  <2>6. Owned(d, e) /\ Told(d, e) /\ Heard(d, e)
    BY <1>6, <1>10, <1>11, <2>2 DEF Owned, Told, Heard, State
  <2>7. Good(d)
    BY <2>3, <2>5, <2>6, GoodKeeps
  <2> QED BY <1>6, <1>8, <1>9, <2>2, <2>5, <2>7 DEF NoMoreTold, Sits
<1>12. CASE State(z, e) # "active"
  <2>1. d = Name(z, e, g)
    BY <1>2, <1>12 DEF State, Name
  <2>2. /\ d \in Resources /\ d.ticket[e] = g
        /\ \A f \in Elements : f # e => d.ticket[f] = z.ticket[f]
        /\ d.seat = z.seat /\ d.queue = z.queue /\ d.active = z.active
        /\ d.granted = z.granted /\ d.lease = z.lease
    BY <1>7, <2>1, Reticketed
  <2>3. Sound(d)
    BY <1>6, <2>2, DressedKeeps DEF State
  <2>4. Others(z, d, e)
    BY <1>7, <2>2, AloneKeeps
  <2>5. Others(w, d, e)
    BY <1>7, <1>8, <2>4, OthersTwice
  <2>6. Owned(d, e) /\ Told(d, e) /\ Heard(d, e)
    BY <1>6, <1>10, <1>12, <2>2 DEF Owned, Told, Heard, State
  <2>7. Good(d)
    BY <2>3, <2>5, <2>6, GoodKeeps
  <2> QED BY <1>6, <1>8, <1>9, <2>2, <2>5, <2>7 DEF NoMoreTold, Sits
<1> QED BY <1>11, <1>12

----------------------------------------------------------------------------
(* The runtime sessions.                                                   *)
Elsewhere(e) ==
  \A f \in Elements : f # e =>
    /\ generation'[f] = generation[f] /\ phase'[f] = phase[f] /\ reload'[f] = reload[f]
    /\ connected'[f] = connected[f] /\ visible'[f] = visible[f] /\ realm'[f] = realm[f]

(* A step of one element leaves what is known of the others.               *)
LEMMA StepKeeps ==
  ASSUME Inv, NEW e \in Elements, SessionTypes', Good(res'), Others(res, res', e),
         Elsewhere(e), Placed(e)', Numbered(e)', Fits(e)'
  PROVE  Inv'
<1>1. ASSUME NEW f \in Elements, f # e PROVE Placed(f)' /\ Numbered(f)' /\ Fits(f)'
  <2>1. /\ Placed(f) /\ Numbered(f) /\ Fits(f) /\ Same(res, res', f)
        /\ SessionTypes /\ res \in Resources /\ Tickets(res)
    BY <1>1 DEF Inv, Others, Good, Sound, Core
  <2>2. /\ generation'[f] = generation[f] /\ phase'[f] = phase[f] /\ reload'[f] = reload[f]
        /\ connected'[f] = connected[f] /\ visible'[f] = visible[f] /\ realm'[f] = realm[f]
    BY <1>1 DEF Elsewhere
  <2>3. Placed(f)'
    BY <2>1, <2>2 DEF Placed, Same, Superseded
  <2>4. Numbered(f)'
    <3>1. State(res, f) = "queued" => visible[f]
      BY <2>1, PageAssumption DEF Tickets, Placed
    <3>2. generation[f] \in Generations
      BY <2>1 DEF SessionTypes
    <3>3. \A g \in Generations : g <= g
      BY PageAssumption DEF Generations
    <3> QED BY <2>1, <2>2, <3>1, <3>2, <3>3 DEF Numbered, Same
  <2>5. Fits(f)'
    <3>1. generation[f] \in Generations
      BY <2>1 DEF SessionTypes
    <3> QED BY <2>1, <2>2, <3>1 DEF Fits, Restarts, Superseded, Same
  <2> QED BY <2>3, <2>4, <2>5
<1> QED BY <1>1 DEF Inv

(* Steps of a session that call nothing of its owner.                      *)
LEMMA ResourcesUnmoved ==
  ASSUME Inv, NEW e \in Elements, res' = res
  PROVE  Good(res') /\ Others(res, res', e) /\ NoMoreTold(res, res', e) /\ Sits(res, res', e)
<1>1. res \in Resources /\ Good(res)
  BY DEF Inv, Good, Sound, Core
<1>2. Others(res, res, e)
  BY <1>1, AloneKeeps
<1> QED BY <1>1, <1>2 DEF NoMoreTold, Sits

(* What is known of one element.                                           *)
LEMMA Known ==
  ASSUME Inv, NEW e \in Elements
  PROVE  /\ SessionTypes /\ Good(res) /\ res \in Resources
         /\ Placed(e) /\ Numbered(e) /\ Fits(e) /\ Owned(res, e) /\ Told(res, e)
         /\ generation[e] \in Generations /\ realm[e] \in Realms /\ visible[e] \in BOOLEAN
         /\ reload[e] \in {"none", "restart", "replace", "retire"}
         /\ connected[e] \in BOOLEAN
         /\ res.ticket[e] \in Generations /\ res.lease[e] \in Generations
         /\ State(res, e) = "none" <=> res.seat[e].request = 0
<1>1. SessionTypes /\ Good(res) /\ Placed(e) /\ Numbered(e) /\ Fits(e)
  BY DEF Inv
<1>2. res \in Resources /\ Owned(res, e) /\ Told(res, e) /\ Tickets(res)
  BY <1>1 DEF Good, Sound, Core
<1>3. /\ generation[e] \in Generations /\ realm[e] \in Realms /\ visible[e] \in BOOLEAN
      /\ reload[e] \in {"none", "restart", "replace", "retire"}
      /\ connected[e] \in BOOLEAN
  BY <1>1 DEF SessionTypes
<1>4. res.ticket[e] \in Generations /\ res.lease[e] \in Generations
  BY <1>2 DEF Resources
<1> QED BY <1>1, <1>2, <1>3, <1>4 DEF Tickets

(* connected(), which starts a generation.                                 *)
LEMMA ConnectKeeps ==
  ASSUME Inv, NEW e \in Elements, Connect(e)
  PROVE  Inv' /\ Others(res, res', e)
<1> USE Known
<1>1. /\ Good(res') /\ Others(res, res', e) /\ NoMoreTold(res, res', e) /\ Sits(res, res', e)
      /\ res' = res
  BY ResourcesUnmoved DEF Connect
<1>2. SessionTypes' /\ Elsewhere(e)
  BY DEF Connect, SessionTypes, Elsewhere
<1>3. Placed(e)'
  BY <1>1 DEF Connect, Placed, Sits, Superseded, SessionTypes
<1>4. Numbered(e)'
  BY <1>1 DEF Connect, Numbered, NoMoreTold, Told, SessionTypes
<1>5. Fits(e)'
  BY <1>1 DEF Connect, Fits, Numbered, NoMoreTold, Restarts, Superseded, SessionTypes
<1> QED BY <1>1, <1>2, <1>3, <1>4, <1>5, StepKeeps

(* disconnected(), which withdraws the ticket.                             *)
LEMMA DisconnectKeeps ==
  ASSUME Inv, NEW e \in Elements, Disconnect(e)
  PROVE  Inv' /\ Others(res, res', e)
<1> USE Known
<1>1. /\ Good(res') /\ Others(res, res', e) /\ NoMoreTold(res, res', e) /\ Sits(res, res', e)
      /\ res'.ticket[e] = 0 /\ res'.lease[e] = res.lease[e]
  BY InvalidateKeeps DEF Disconnect
<1>2. SessionTypes' /\ Elsewhere(e)
  BY DEF Disconnect, SessionTypes, Elsewhere
<1>3. Placed(e)'
  BY <1>1 DEF Disconnect, Placed, Sits, Superseded, SessionTypes
<1>4. Numbered(e)'
  BY <1>1 DEF Disconnect, Numbered, NoMoreTold, Told, SessionTypes
<1>5. Fits(e)'
  BY <1>1 DEF Disconnect, Fits, Numbered, NoMoreTold, Restarts, Superseded,
          SessionTypes
<1> QED BY <1>1, <1>2, <1>3, <1>4, <1>5, StepKeeps

(* adopted(), which withdraws the ticket too.                              *)
LEMMA AdoptKeeps ==
  ASSUME Inv, NEW e \in Elements, NEW r \in Realms, Adopt(e, r)
  PROVE  Inv' /\ Others(res, res', e)
<1> USE Known
<1>1. /\ Good(res') /\ Others(res, res', e) /\ NoMoreTold(res, res', e) /\ Sits(res, res', e)
      /\ res'.ticket[e] = 0 /\ res'.lease[e] = res.lease[e]
  BY InvalidateKeeps DEF Adopt
<1>2. SessionTypes' /\ Elsewhere(e)
  BY DEF Adopt, SessionTypes, Elsewhere
<1>3. Placed(e)'
  BY <1>1 DEF Adopt, Placed, Sits, Superseded, SessionTypes
<1>4. Numbered(e)'
  BY <1>1 DEF Adopt, Numbered, NoMoreTold, Told, SessionTypes
<1>5. Fits(e)'
  BY <1>1 DEF Adopt, Fits, Numbered, NoMoreTold, Restarts, Superseded, SessionTypes
<1> QED BY <1>1, <1>2, <1>3, <1>4, <1>5, StepKeeps

(* sourceChanged(), which replaces the generation.                         *)
LEMMA SourceChangedKeeps ==
  ASSUME Inv, NEW e \in Elements, SourceChanged(e)
  PROVE  Inv' /\ Others(res, res', e)
<1> USE Known
<1>1. /\ Good(res') /\ Others(res, res', e) /\ NoMoreTold(res, res', e) /\ Sits(res, res', e)
      /\ res'.ticket[e] = 0 /\ res'.lease[e] = res.lease[e]
  BY InvalidateKeeps DEF SourceChanged
<1>2. SessionTypes' /\ Elsewhere(e)
  BY DEF SourceChanged, SessionTypes, Elsewhere
<1>3. Placed(e)'
  BY <1>1 DEF SourceChanged, Placed, Sits, Superseded, SessionTypes
<1>4. Numbered(e)'
  BY <1>1 DEF SourceChanged, Numbered, NoMoreTold, Told, SessionTypes
<1>5. Fits(e)'
  BY <1>1 DEF SourceChanged, Fits, Numbered, NoMoreTold, Restarts, Superseded,
          SessionTypes
<1> QED BY <1>1, <1>2, <1>3, <1>4, <1>5, StepKeeps

(* The microtask of a restart.                                             *)
LEMMA BeginReloadKeeps ==
  ASSUME Inv, NEW e \in Elements, BeginReload(e)
  PROVE  Inv' /\ Others(res, res', e)
<1> USE Known
<1>1. /\ Good(res') /\ Others(res, res', e) /\ NoMoreTold(res, res', e) /\ Sits(res, res', e)
      /\ res' = res
  BY ResourcesUnmoved DEF BeginReload
<1>2. SessionTypes' /\ Elsewhere(e)
  BY DEF BeginReload, SessionTypes, Elsewhere
<1>3. Placed(e)'
  BY <1>1 DEF BeginReload, Placed, Sits, Superseded, SessionTypes
<1>4. Numbered(e)'
  BY <1>1 DEF BeginReload, Numbered, NoMoreTold, Told, SessionTypes
<1>5. Fits(e)'
  BY <1>1 DEF BeginReload, Fits, Numbered, NoMoreTold, Restarts, Superseded,
          SessionTypes
<1> QED BY <1>1, <1>2, <1>3, <1>4, <1>5, StepKeeps

(* A generation starts once everything of the last one is released.        *)
LEMMA StartGenerationKeeps ==
  ASSUME Inv, NEW e \in Elements, StartGeneration(e)
  PROVE  Inv' /\ Others(res, res', e)
<1> USE Known
<1>6. /\ generation'[e] = generation[e] + 1 /\ generation'[e] \in Generations
      /\ generation'[e] # 0
      /\ \A g \in Generations : g <= generation[e] => g <= generation'[e] /\ g # generation'[e]
  BY PageAssumption DEF StartGeneration, SessionTypes, Generations
<1>1. /\ Good(res') /\ Others(res, res', e) /\ NoMoreTold(res, res', e)
      /\ res'.seat[e].realm = "none" /\ res'.ticket[e] = 0 /\ res'.lease[e] = 0
  BY ReleaseAllKeeps DEF StartGeneration
<1>2. SessionTypes' /\ Elsewhere(e)
  BY <1>6 DEF StartGeneration, SessionTypes, Elsewhere, Phases
<1>3. Placed(e)'
  BY <1>1 DEF StartGeneration, Placed, Sits, Superseded, SessionTypes
<1>4. Numbered(e)'
  BY <1>1, <1>6 DEF StartGeneration, Numbered, NoMoreTold, Told, SessionTypes
<1>5. Fits(e)'
  BY <1>1, <1>6 DEF StartGeneration, Fits, Numbered, NoMoreTold, Restarts, Superseded,
                SessionTypes
<1> QED BY <1>1, <1>2, <1>3, <1>4, <1>5, StepKeeps

(* A retired element keeps nothing of the page.                            *)
LEMMA RetireKeeps ==
  ASSUME Inv, NEW e \in Elements, Retire(e)
  PROVE  Inv' /\ Others(res, res', e)
<1> USE Known
<1>1. /\ Good(res') /\ Others(res, res', e) /\ NoMoreTold(res, res', e)
      /\ res'.seat[e].realm = "none" /\ res'.ticket[e] = 0 /\ res'.lease[e] = 0
  BY ReleaseAllKeeps DEF Retire
<1>2. SessionTypes' /\ Elsewhere(e)
  BY DEF Retire, SessionTypes, Elsewhere, Phases
<1>3. Placed(e)'
  BY <1>1 DEF Retire, Placed, Sits, Superseded, SessionTypes
<1>4. Numbered(e)'
  BY <1>1 DEF Retire, Numbered, NoMoreTold, Told, SessionTypes
<1>5. Fits(e)'
  BY <1>1 DEF Retire, Fits, Numbered, NoMoreTold, Restarts, Superseded, SessionTypes
<1> QED BY <1>1, <1>2, <1>3, <1>4, <1>5, StepKeeps

(* A player that starts hidden or reduced.                                 *)
LEMMA StartStaticKeeps ==
  ASSUME Inv, NEW e \in Elements, StartStatic(e)
  PROVE  Inv' /\ Others(res, res', e)
<1> USE Known
<1>1. /\ Good(res') /\ Others(res, res', e) /\ NoMoreTold(res, res', e) /\ Sits(res, res', e)
      /\ res' = res
  BY ResourcesUnmoved DEF StartStatic
<1>2. SessionTypes' /\ Elsewhere(e)
  BY DEF StartStatic, SessionTypes, Elsewhere, Phases
<1>3. Placed(e)'
  BY <1>1 DEF StartStatic, Placed, Sits, Superseded, SessionTypes, Current
<1>4. Numbered(e)'
  BY <1>1 DEF StartStatic, Numbered, NoMoreTold, Told, SessionTypes
<1>5. Fits(e)'
  BY <1>1 DEF StartStatic, Fits, Numbered, NoMoreTold, Restarts, Superseded,
          SessionTypes, Current
<1> QED BY <1>1, <1>2, <1>3, <1>4, <1>5, StepKeeps

(* A static player keeps neither lease nor ticket.                         *)
LEMMA StaticRetiredKeeps ==
  ASSUME Inv, NEW e \in Elements, StaticRetired(e)
  PROVE  Inv' /\ Others(res, res', e)
<1> USE Known
<1>1. /\ Good(res') /\ Others(res, res', e) /\ NoMoreTold(res, res', e)
      /\ res'.lease[e] = 0 /\ res'.ticket[e] = 0
      /\ res'.seat[e].realm = "none" \/ Sits(res, res', e)
  BY RetiredKeeps DEF StaticRetired
<1>2. SessionTypes' /\ Elsewhere(e)
  BY DEF StaticRetired, SessionTypes, Elsewhere, Phases, Restarting
<1>3. Placed(e)'
  BY <1>1 DEF StaticRetired, Placed, Sits, Superseded, SessionTypes, Restarting,
          Current
<1>4. Numbered(e)'
  BY <1>1 DEF StaticRetired, Numbered, NoMoreTold, Told, SessionTypes
<1>5. Fits(e)'
  BY <1>1 DEF StaticRetired, Fits, Numbered, NoMoreTold, Restarts, Superseded,
          SessionTypes, Restarting, Current
<1> QED BY <1>1, <1>2, <1>3, <1>4, <1>5, StepKeeps

(* Reduced motion withdraws the ticket.                                    *)
LEMMA ReduceKeeps ==
  ASSUME Inv, NEW e \in Elements, Reduce(e)
  PROVE  Inv' /\ Others(res, res', e)
<1> USE Known
<1>1. /\ Good(res') /\ Others(res, res', e) /\ NoMoreTold(res, res', e) /\ Sits(res, res', e)
      /\ res'.ticket[e] = 0 /\ res'.lease[e] = res.lease[e]
  BY InvalidateKeeps DEF Reduce
<1>2. SessionTypes' /\ Elsewhere(e)
  BY DEF Reduce, SessionTypes, Elsewhere, Phases
<1>3. Placed(e)'
  BY <1>1 DEF Reduce, Placed, Sits, Superseded, SessionTypes
<1>4. Numbered(e)'
  BY <1>1 DEF Reduce, Numbered, NoMoreTold, Told, SessionTypes
<1>5. Fits(e)'
  BY <1>1 DEF Reduce, Fits, Numbered, NoMoreTold, Restarts, Superseded, SessionTypes
<1> QED BY <1>1, <1>2, <1>3, <1>4, <1>5, StepKeeps

(* Full motion asks for a restart.                                         *)
LEMMA RestoreMotionKeeps ==
  ASSUME Inv, NEW e \in Elements, RestoreMotion(e)
  PROVE  Inv' /\ Others(res, res', e)
<1> USE Known
<1>1. /\ Good(res') /\ Others(res, res', e) /\ NoMoreTold(res, res', e) /\ Sits(res, res', e)
      /\ res' = res
  BY ResourcesUnmoved DEF RestoreMotion
<1>2. SessionTypes' /\ Elsewhere(e)
  BY DEF RestoreMotion, SessionTypes, Elsewhere, Phases, Restarting
<1>3. Placed(e)'
  BY <1>1 DEF RestoreMotion, Placed, Sits, Superseded, SessionTypes, Restarting
<1>4. Numbered(e)'
  BY <1>1 DEF RestoreMotion, Numbered, NoMoreTold, Told, SessionTypes
<1>5. Fits(e)'
  BY <1>1 DEF RestoreMotion, Fits, Numbered, NoMoreTold, Restarts, Superseded,
          SessionTypes, Restarting
<1> QED BY <1>1, <1>2, <1>3, <1>4, <1>5, StepKeeps

(* A player reports its bytes.                                             *)
LEMMA ReportBytesKeeps ==
  ASSUME Inv, NEW e \in Elements, NEW b \in 0 .. MaxBytes, ReportBytes(e, b)
  PROVE  Inv' /\ Others(res, res', e)
<1> USE Known
<1>1. /\ Good(res') /\ Others(res, res', e) /\ NoMoreTold(res, res', e)
      /\ res'.ticket[e] = res.ticket[e] /\ res'.lease[e] = res.lease[e]
      /\ Sits(res, res', e) \/ (res'.seat[e].realm = realm[e] /\ res'.seat[e].visible = visible[e])
  <2>1. res.seat[e].realm \in {"none", realm[e]}
    BY DEF ReportBytes, Placed, Superseded, Current
  <2> QED BY <2>1, BytesKeep DEF ReportBytes
<1>2. SessionTypes' /\ Elsewhere(e)
  BY DEF ReportBytes, SessionTypes, Elsewhere, session
<1>3. Placed(e)'
  BY <1>1 DEF ReportBytes, Placed, Sits, Superseded, SessionTypes, session, Current
<1>4. Numbered(e)'
  BY <1>1 DEF ReportBytes, Numbered, NoMoreTold, Told, SessionTypes, session
<1>5. Fits(e)'
  BY <1>1 DEF ReportBytes, Fits, Numbered, NoMoreTold, Restarts, Superseded,
          SessionTypes, session, Current
<1> QED BY <1>1, <1>2, <1>3, <1>4, <1>5, StepKeeps

(* A starting player claims a decoder, or an animated one claims it again. *)
LEMMA AskDecoderKeeps ==
  ASSUME Inv, NEW e \in Elements, AskDecoder(e)
  PROVE  Inv' /\ Others(res, res', e)
<1> USE Known
<1> DEFINE g == generation[e]
<1>1. g # 0 /\ res.seat[e].realm \in {"none", realm[e]}
  BY DEF AskDecoder, Numbered, Placed, Superseded, Current
<1>2. CASE phase[e] = "animated"
  <2>1. res.lease[e] = g /\ RetireAdoptedRealm(res, e) = res
    BY <1>1, <1>2 DEF Fits, RetireAdoptedRealm
  <2>2. res' = res
    BY <1>1, <2>1 DEF AskDecoder, ClaimDecoder
  <2>3. /\ Good(res') /\ Others(res, res', e) /\ NoMoreTold(res, res', e) /\ Sits(res, res', e)
    BY <2>2, ResourcesUnmoved
  <2>4. phase' = phase
    BY <1>2, <2>1, <2>2 DEF AskDecoder, SessionTypes
  <2>5. SessionTypes' /\ Elsewhere(e)
    BY <2>4 DEF AskDecoder, SessionTypes, Elsewhere
  <2>6. Placed(e)' /\ Numbered(e)' /\ Fits(e)'
    BY <2>2, <2>4 DEF AskDecoder, Placed, Numbered, Fits, Superseded, Restarts
  <2> QED BY <2>3, <2>5, <2>6, StepKeeps
<1>3. CASE phase[e] = "starting"
  <2>1. res.ticket[e] = 0 /\ res.lease[e] = 0 /\ <<e, g>> \notin res.granted
    BY <1>3 DEF Fits
  <2>2. /\ Good(res') /\ Others(res, res', e) /\ NoMoreTold(res, res', e)
        /\ Sits(res, res', e) \/ (res'.seat[e].realm = realm[e] /\ res'.seat[e].visible = visible[e])
        /\ \/ res'.lease[e] = g /\ res'.ticket[e] = 0
           \/ res'.lease[e] = 0 /\ res'.ticket[e] = g
    BY <1>1, <2>1, ClaimKeeps DEF AskDecoder
  <2>3. phase'[e] = IF res'.lease[e] = g THEN "animated" ELSE "queuing"
    BY DEF AskDecoder, SessionTypes
  <2>4. SessionTypes' /\ Elsewhere(e)
    BY DEF AskDecoder, SessionTypes, Elsewhere, Phases
  <2>5. Placed(e)'
    BY <2>2, <1>3 DEF AskDecoder, Placed, Sits, Superseded, Current
  <2>6. connected[e]
    BY <1>3 DEF AskDecoder, Placed, Current
  <2>7. Numbered(e)'
    BY <2>1, <2>2, <2>6, <1>1 DEF AskDecoder, Numbered, NoMoreTold, Told
  <2>8. Fits(e)'
    BY <2>2, <2>3, <1>1 DEF AskDecoder, Fits, Restarts, Superseded
  <2> QED BY <2>2, <2>4, <2>5, <2>7, <2>8, StepKeeps
<1> QED BY <1>2, <1>3 DEF AskDecoder

(* A player that waits retires its media and keeps its ticket.             *)
LEMMA QueuedRetiredKeeps ==
  ASSUME Inv, NEW e \in Elements, QueuedRetired(e)
  PROVE  Inv' /\ Others(res, res', e)
<1> USE Known
<1>1. /\ Good(res') /\ Others(res, res', e) /\ NoMoreTold(res, res', e) /\ Sits(res, res', e)
      /\ res'.lease[e] = 0 /\ res'.ticket[e] = res.ticket[e]
  BY ReleaseLeaseKeeps DEF QueuedRetired, AnimationResourcesRetired
<1>2. SessionTypes' /\ Elsewhere(e)
  BY DEF QueuedRetired, SessionTypes, Elsewhere, Phases
<1>3. Placed(e)'
  BY <1>1 DEF QueuedRetired, Placed, Sits, Superseded, SessionTypes
<1>4. Numbered(e)'
  BY <1>1 DEF QueuedRetired, Numbered, NoMoreTold, SessionTypes
<1>5. Fits(e)'
  BY <1>1 DEF QueuedRetired, Fits, Restarts, Superseded, SessionTypes
<1> QED BY <1>1, <1>2, <1>3, <1>4, <1>5, StepKeeps

(* An element is hidden: its ticket is parked.                             *)
LEMMA HideKeeps ==
  ASSUME Inv, NEW e \in Elements, Hide(e)
  PROVE  Inv' /\ Others(res, res', e)
<1> USE Known
<1>1. /\ Good(res') /\ Others(res, res', e)
      /\ \A g \in Generations : <<e, g>> \notin res'.granted
      /\ res'.seat[e].realm = res.seat[e].realm
      /\ res'.seat[e].realm # "none" => res'.seat[e].visible = FALSE
      /\ res'.ticket[e] = res.ticket[e] /\ res'.lease[e] = res.lease[e]
  <2> DEFINE v == FALSE
  <2>1. res' = Visibility(res, e, v) /\ res.granted = {} /\ v \in BOOLEAN /\ v = FALSE
    BY DEF Hide, Checkpoint
  <2>2. Good(res)
    OBVIOUS
  <2> HIDE DEF v
  <2>3. /\ Good(res') /\ Others(res, res', e)
        /\ \A g \in Generations : <<e, g>> \in res'.granted =>
             <<e, g>> \in res.granted \/ (v /\ g = res.ticket[e])
        /\ res'.seat[e].realm = res.seat[e].realm
        /\ res'.seat[e].realm # "none" => res'.seat[e].visible = v
        /\ res'.ticket[e] = res.ticket[e] /\ res'.lease[e] = res.lease[e]
    <3>1. v \in BOOLEAN /\ res' = Visibility(res, e, v)
      BY <2>1
    <3> HIDE Known
    <3> QED BY <2>2, <3>1, VisibilityKeeps
  <2> QED BY <2>1, <2>3
<1>2. /\ connected[e] /\ connected' = connected /\ reload' = reload /\ reload[e] # "restart"
      /\ generation' = generation /\ realm' = realm /\ visible'[e] = FALSE
  BY DEF Hide, Checkpoint, SessionTypes
<1>3. /\ phase'[e] = "starting" => phase[e] = "starting"
      /\ phase'[e] # "animated"
      /\ phase'[e] \in {"queuing", "queued"} => phase[e] \in {"queuing", "queued"}
      /\ phase'[e] \in {"absent", "queued", "suspended", "reduced"} =>
           phase[e] \in {"absent", "queued", "suspended", "reduced"}
      /\ phase'[e] # "absent" => phase[e] # "absent"
  BY DEF Hide, SessionTypes
<1>4. SessionTypes' /\ Elsewhere(e)
  BY DEF Hide, SessionTypes, Elsewhere, Phases
<1>5. Placed(e)'
  BY <1>1, <1>2 DEF Placed, Superseded
<1>6. Numbered(e)'
  BY <1>1, <1>2, <1>3 DEF Numbered
<1>7. Fits(e)'
  BY <1>1, <1>2, <1>3 DEF Fits, Restarts, Superseded
<1> QED BY <1>1, <1>4, <1>5, <1>6, <1>7, StepKeeps

(* An element is shown: its ticket joins the queue, and may be granted.    *)
LEMMA ShowKeeps ==
  ASSUME Inv, NEW e \in Elements, Show(e)
  PROVE  Inv' /\ Others(res, res', e)
<1> USE Known
<1>1. /\ Good(res') /\ Others(res, res', e)
      /\ \A g \in Generations : <<e, g>> \in res'.granted => g = res.ticket[e] /\ g # 0
      /\ res'.seat[e].realm = res.seat[e].realm
      /\ res'.seat[e].realm # "none" => res'.seat[e].visible = TRUE
      /\ res'.ticket[e] = res.ticket[e] /\ res'.lease[e] = res.lease[e]
  <2> DEFINE v == TRUE
  <2>1. res' = Visibility(res, e, v) /\ res.granted = {} /\ v \in BOOLEAN /\ v = TRUE
    BY DEF Show, Checkpoint
  <2>4. Good(res)
    OBVIOUS
  <2> HIDE DEF v
  <2>5. /\ Good(res') /\ Others(res, res', e)
        /\ \A g \in Generations : <<e, g>> \in res'.granted =>
             <<e, g>> \in res.granted \/ (v /\ g = res.ticket[e])
        /\ res'.seat[e].realm = res.seat[e].realm
        /\ res'.seat[e].realm # "none" => res'.seat[e].visible = v
        /\ res'.ticket[e] = res.ticket[e] /\ res'.lease[e] = res.lease[e]
    <3>1. v \in BOOLEAN /\ res' = Visibility(res, e, v)
      BY <2>1
    <3> HIDE Known
    <3> QED BY <2>4, <3>1, VisibilityKeeps
  <2>2. /\ Good(res') /\ Others(res, res', e)
        /\ \A g \in Generations : <<e, g>> \in res'.granted => g = res.ticket[e]
        /\ res'.seat[e].realm = res.seat[e].realm
        /\ res'.seat[e].realm # "none" => res'.seat[e].visible = TRUE
        /\ res'.ticket[e] = res.ticket[e] /\ res'.lease[e] = res.lease[e]
    BY <2>1, <2>5
  <2>3. Told(res', e)
    BY <2>2 DEF Good
  <2> QED BY <2>2, <2>3 DEF Told
<1>2. /\ connected[e] /\ connected' = connected /\ phase' = phase /\ reload[e] # "restart"
      /\ generation' = generation /\ realm' = realm /\ visible'[e] = TRUE
      /\ reload'[e] = reload[e] \/ (reload[e] = "none" /\ reload'[e] = "restart")
  BY DEF Show, Checkpoint, SessionTypes, Restarting
<1>3. SessionTypes' /\ Elsewhere(e)
  BY DEF Show, SessionTypes, Elsewhere, Restarting
<1>4. Placed(e)'
  BY <1>1, <1>2 DEF Placed, Superseded
<1>5. Numbered(e)'
  <2>1. generation[e] <= generation[e]
    BY PageAssumption DEF Generations
  <2> QED BY <1>1, <1>2, <2>1 DEF Numbered
<1>6. Fits(e)'
  BY <1>1, <1>2 DEF Fits, Restarts, Superseded
<1> QED BY <1>1, <1>3, <1>4, <1>5, <1>6, StepKeeps

(* A grant is taken over by the owner, or was withdrawn before.            *)
Takes(w, e, g) ==
  [w EXCEPT !.granted = @ \ {<<e, g>>}, !.ticket[e] = 0, !.lease[e] = g]
Hears(w, e, g) == [w EXCEPT !.granted = @ \ {<<e, g>>}]

(* What the owner that takes a grant changes.                              *)
LEMMA TakesAll ==
  ASSUME NEW w \in Resources, NEW e \in Elements, NEW g \in Generations,
         NEW x, x = Takes(w, e, g)
  PROVE  /\ x \in Resources /\ x.ticket[e] = 0 /\ x.lease[e] = g
         /\ x.granted = w.granted \ {<<e, g>>}
         /\ \A f \in Elements : f # e => x.ticket[f] = w.ticket[f] /\ x.lease[f] = w.lease[f]
         /\ x.seat = w.seat /\ x.queue = w.queue /\ x.active = w.active
<1>1. /\ x = [seat |-> x.seat, queue |-> x.queue, active |-> x.active, total |-> x.total,
              granted |-> x.granted, ticket |-> x.ticket, lease |-> x.lease]
      /\ x.ticket = [w.ticket EXCEPT ![e] = 0] /\ x.lease = [w.lease EXCEPT ![e] = g]
      /\ x.granted = w.granted \ {<<e, g>>} /\ x.total = w.total
      /\ x.seat = w.seat /\ x.queue = w.queue /\ x.active = w.active
  BY DEF Resources, Takes
<1>2. /\ w.ticket \in [Elements -> Generations] /\ w.lease \in [Elements -> Generations]
      /\ 0 \in Generations /\ w.granted \in SUBSET (Elements \X Generations)
  BY PageAssumption DEF Resources, Generations
<1>3. x \in Resources
  BY <1>1, <1>2, ZenonT(40) DEF Resources
<1> QED BY <1>1, <1>2, <1>3

(* What is changed by a grant that comes too late.                         *)
LEMMA HearsAll ==
  ASSUME NEW w \in Resources, NEW e \in Elements, NEW g \in Generations,
         NEW x, x = Hears(w, e, g)
  PROVE  /\ x \in Resources /\ x.granted = w.granted \ {<<e, g>>}
         /\ x.seat = w.seat /\ x.queue = w.queue /\ x.active = w.active
         /\ x.ticket = w.ticket /\ x.lease = w.lease
<1>1. /\ x = [seat |-> x.seat, queue |-> x.queue, active |-> x.active, total |-> x.total,
              granted |-> x.granted, ticket |-> x.ticket, lease |-> x.lease]
      /\ x.granted = w.granted \ {<<e, g>>} /\ x.total = w.total
      /\ x.seat = w.seat /\ x.queue = w.queue /\ x.active = w.active
      /\ x.ticket = w.ticket /\ x.lease = w.lease
  BY DEF Resources, Hears
<1>2. w.granted \in SUBSET (Elements \X Generations)
  BY DEF Resources
<1>3. x \in Resources
  BY <1>1, <1>2 DEF Resources
<1> QED BY <1>1, <1>3

(* The continuation of a grant finds it wanted or already withdrawn.       *)
LEMMA DeliverKeeps ==
  ASSUME Inv, NEW e \in Elements, NEW g \in Generations, Deliver(e, g)
  PROVE  Inv' /\ Others(res, res', e)
<1> USE Known
<1>1. /\ <<e, g>> \in res.granted /\ g # 0 /\ res.lease[e] # g /\ Sound(res)
      /\ res.ticket[e] = g => State(res, e) = "active"
  BY DEF Deliver, Told, Good
<1>2. CASE res.ticket[e] = g
  <2>1. /\ res' = Takes(res, e, g)
        /\ reload' = [reload EXCEPT ![e] =
             IF connected[e] /\ g = generation[e] THEN Restarting(e) ELSE @]
    BY <1>2 DEF Deliver, Takes, Resources
  <2>2. /\ res' \in Resources /\ res'.ticket[e] = 0 /\ res'.lease[e] = g
        /\ res'.granted = res.granted \ {<<e, g>>}
        /\ \A f \in Elements : f # e =>
             res'.ticket[f] = res.ticket[f] /\ res'.lease[f] = res.lease[f]
        /\ res'.seat = res.seat /\ res'.queue = res.queue /\ res'.active = res.active
    <3>1. res \in Resources /\ res' = Takes(res, e, g)
      BY <2>1
    <3> HIDE Known
    <3> QED BY <3>1, TakesAll
  <2>3. Sound(res')
    BY <1>1, <2>2, DressedKeeps DEF State
  <2>4. Others(res, res', e)
    BY <2>2, AloneKeeps
  <2>5. Owned(res', e) /\ Told(res', e) /\ Heard(res', e)
    BY <1>1, <1>2, <2>2 DEF Owned, Told, Heard, State
  <2>6. Good(res')
    BY <2>3, <2>4, <2>5, GoodKeeps
  <2>7. connected[e] /\ g = generation[e] /\ visible[e]
    BY <1>1, <1>2 DEF Numbered
  <2>8. /\ reload'[e] = Restarting(e)
        /\ generation' = generation /\ phase' = phase /\ connected' = connected
        /\ visible' = visible /\ realm' = realm
    BY <2>1, <2>7 DEF Deliver, SessionTypes
  <2>9. SessionTypes' /\ Elsewhere(e)
    BY <2>1, <2>8 DEF SessionTypes, Elsewhere, Restarting
  <2>10. Placed(e)'
    BY <2>2, <2>7, <2>8 DEF Placed, Superseded, Restarting
  <2>11. Numbered(e)'
    BY <1>1, <2>2, <2>7, <2>8 DEF Numbered
  <2>12. Fits(e)'
    BY <1>1, <1>2, <2>2, <2>7, <2>8 DEF Fits, Restarts, Superseded, Restarting
  <2> QED BY <2>4, <2>6, <2>9, <2>10, <2>11, <2>12, StepKeeps
<1>3. CASE res.ticket[e] # g
  <2> DEFINE x == Hears(res, e, g)
  <2>1. /\ res' = Release(x, e, g) /\ reload' = reload
    BY <1>3 DEF Deliver, Hears, Resources
  <2> HIDE DEF x
  <2>2. /\ x \in Resources /\ x.granted = res.granted \ {<<e, g>>}
        /\ x.seat = res.seat /\ x.queue = res.queue /\ x.active = res.active
        /\ x.ticket = res.ticket /\ x.lease = res.lease
    BY HearsAll DEF x
  <2>3. ~(x.seat[e].request = g /\ x.seat[e].state = "active")
    BY <1>1, <1>3, <2>2 DEF Owned, State
  <2>4. res' = x
    BY <2>1, <2>3 DEF Release
  <2>5. Sound(x)
    BY <1>1, <2>2, DressedKeeps DEF State
  <2>6. Others(res, x, e)
    BY <2>2, AloneKeeps
  <2>7. Heard(res, e)
    BY DEF Good
  <2>8. Owned(x, e) /\ Told(x, e) /\ Heard(x, e)
    BY <1>1, <1>3, <2>2, <2>7 DEF Owned, Told, Heard, State
  <2>9. Good(res') /\ Others(res, res', e)
    BY <2>4, <2>5, <2>6, <2>8, GoodKeeps
  <2>10. /\ generation' = generation /\ phase' = phase /\ connected' = connected
         /\ visible' = visible /\ realm' = realm /\ reload' = reload
    BY <2>1 DEF Deliver
  <2>11. SessionTypes' /\ Elsewhere(e)
    BY <2>10 DEF SessionTypes, Elsewhere
  <2>12. Placed(e)' /\ Numbered(e)' /\ Fits(e)'
    BY <2>2, <2>4, <2>10 DEF Placed, Numbered, Fits, Superseded, Restarts
  <2> QED BY <2>9, <2>11, <2>12, StepKeeps
<1> QED BY <1>2, <1>3
----------------------------------------------------------------------------
(* The invariant holds at first, and every step keeps it.                  *)
LEMMA InitSound ==
  ASSUME Init
  PROVE  Inv
<1>1. Away \in Seats /\ 0 \in Generations /\ <<>> \in Seq(Elements)
  BY PageAssumption DEF Away, Seats, Generations
<1>2. res = [seat |-> [e \in Elements |-> Away],
             queue |-> [r \in Realms |-> <<>>],
             active |-> [r \in Realms |-> 0],
             total |-> [r \in Realms |-> 0],
             granted |-> {},
             ticket |-> [e \in Elements |-> 0],
             lease |-> [e \in Elements |-> 0]]
  BY DEF Init
<1>3. res \in Resources
  BY <1>1, <1>2 DEF Resources
<1>4. /\ \A e \in Elements : /\ res.seat[e].state = "none" /\ res.seat[e].request = 0
                             /\ res.seat[e].realm = "none"
                             /\ res.ticket[e] = 0 /\ res.lease[e] = 0
      /\ \A r \in Realms : res.queue[r] = <<>> /\ res.active[r] = 0
      /\ res.granted = {}
  BY <1>2 DEF Away
<1>5. Distinct(<<>>) /\ \A e : e \notin Els(<<>>)
  BY DEF Distinct, Els
<1>6. Queues(res)
  BY <1>4, <1>5 DEF Queues, State
<1>7. Permits(res) /\ Tickets(res) /\ \A r \in Realms : Idle(res, r)
  BY <1>4 DEF Permits, Tickets, Idle, State
<1>8. Good(res)
  BY <1>3, <1>4, <1>6, <1>7 DEF Good, Sound, Core, Owned, Told, Heard, State
<1>9. SessionTypes
  BY <1>1 DEF Init, SessionTypes, Phases
<1>10. ASSUME NEW e \in Elements PROVE Placed(e) /\ Numbered(e) /\ Fits(e)
  <2>1. phase[e] = "absent" /\ reload[e] = "none"
    BY DEF Init
  <2> QED BY <1>4, <2>1 DEF Placed, Numbered, Fits
<1> QED BY <1>8, <1>9, <1>10 DEF Inv

(* Nothing changes.                                                        *)
LEMMA StutterKeeps ==
  ASSUME Inv, UNCHANGED vars
  PROVE  Inv'
<1>1. /\ res' = res /\ generation' = generation /\ phase' = phase /\ reload' = reload
      /\ connected' = connected /\ visible' = visible /\ realm' = realm
  BY DEF vars, session
<1>2. SessionTypes' /\ Good(res')
  BY <1>1 DEF Inv, SessionTypes
<1>3. ASSUME NEW e \in Elements PROVE Placed(e)' /\ Numbered(e)' /\ Fits(e)'
  BY <1>1 DEF Inv, Placed, Numbered, Fits, Superseded, Restarts
<1> QED BY <1>2, <1>3 DEF Inv

(* What one element does.                                                  *)
Steps(e) ==
  \/ Connect(e) \/ Disconnect(e) \/ (\E r \in Realms : Adopt(e, r))
  \/ SourceChanged(e) \/ BeginReload(e) \/ StartGeneration(e) \/ Retire(e)
  \/ AskDecoder(e) \/ StartStatic(e) \/ QueuedRetired(e) \/ StaticRetired(e)
  \/ Hide(e) \/ Show(e) \/ Reduce(e) \/ RestoreMotion(e)
  \/ (\E b \in 0 .. MaxBytes : ReportBytes(e, b))
  \/ (\E g \in Generations : Deliver(e, g))

(* Every action keeps the invariant, and the places of the others.         *)
LEMMA StepsKeep ==
  ASSUME Inv, NEW e \in Elements, Steps(e)
  PROVE  Inv' /\ Others(res, res', e)
<1>1. CASE Connect(e)
  BY <1>1, ConnectKeeps
<1>2. CASE Disconnect(e)
  BY <1>2, DisconnectKeeps
<1>3. CASE \E r \in Realms : Adopt(e, r)
  BY <1>3, AdoptKeeps
<1>4. CASE SourceChanged(e)
  BY <1>4, SourceChangedKeeps
<1>5. CASE BeginReload(e)
  BY <1>5, BeginReloadKeeps
<1>6. CASE StartGeneration(e)
  BY <1>6, StartGenerationKeeps
<1>7. CASE Retire(e)
  BY <1>7, RetireKeeps
<1>8. CASE AskDecoder(e)
  BY <1>8, AskDecoderKeeps
<1>9. CASE StartStatic(e)
  BY <1>9, StartStaticKeeps
<1>10. CASE QueuedRetired(e)
  BY <1>10, QueuedRetiredKeeps
<1>11. CASE StaticRetired(e)
  BY <1>11, StaticRetiredKeeps
<1>12. CASE Hide(e)
  BY <1>12, HideKeeps
<1>13. CASE Show(e)
  BY <1>13, ShowKeeps
<1>14. CASE Reduce(e)
  BY <1>14, ReduceKeeps
<1>15. CASE RestoreMotion(e)
  BY <1>15, RestoreMotionKeeps
<1>16. CASE \E b \in 0 .. MaxBytes : ReportBytes(e, b)
  BY <1>16, ReportBytesKeeps
<1>17. CASE \E g \in Generations : Deliver(e, g)
  BY <1>17, DeliverKeeps
<1> QED BY <1>1, <1>2, <1>3, <1>4, <1>5, <1>6, <1>7, <1>8, <1>9, <1>10,
           <1>11, <1>12, <1>13, <1>14, <1>15, <1>16, <1>17 DEF Steps

(* Every step is of one element, or of none.                               *)
LEMMA NextSteps == Next => \E e \in Elements : Steps(e)
BY DEF Next, Steps

(* Every step keeps the invariant.                                         *)
LEMMA NextKeeps ==
  ASSUME Inv, [Next]_vars
  PROVE  Inv'
BY StepsKeep, NextSteps, StutterKeeps

(* The inductive invariant of the page and of the sessions that share it   *)
(* (page-resources.ts, element-page-resource-owner.ts).                    *)
THEOREM PageInvariant == Spec => []Inv
<1>1. Init => Inv
  BY InitSound
<1>2. Inv /\ [Next]_vars => Inv'
  BY NextKeeps
<1> QED BY <1>1, <1>2, PTL DEF Spec

(* One holder, no permit that idles while someone waits, and queues that   *)
(* hold the tickets that wait (page-resources.ts, drain() and release()).  *)
THEOREM PermitSoundHolds == Spec => []PermitSound
<1>1. Inv => PermitSound
  <2> SUFFICES ASSUME Inv PROVE PermitSound
    OBVIOUS
  <2>1. /\ res \in Resources /\ Queues(res) /\ Permits(res) /\ Tickets(res)
        /\ \A r \in Realms : Idle(res, r)
    BY DEF Inv, Good, Sound, Core
  <2>2. ASSUME NEW r \in Realms
        PROVE  Cardinality(Holders(r)) <= 1 /\ (res.active[r] # 0 <=> Holders(r) # {})
    <3>1. \A e, f \in Holders(r) : e = f
      BY <2>1 DEF Holders, Permits, State
    <3>2. CASE Holders(r) = {}
      <4>1. Cardinality(Holders(r)) = 0
        BY <3>2, FS_EmptySet
      <4>2. res.active[r] = 0
        BY <2>1, <3>2 DEF Permits, Holders, State
      <4> QED BY <3>2, <4>1, <4>2
    <3>3. CASE Holders(r) # {}
      <4>1. PICK e \in Holders(r) : TRUE
        BY <3>3
      <4>2. Holders(r) = {e}
        BY <3>1, <4>1
      <4>3. Cardinality(Holders(r)) = 1
        BY <4>2, FS_Singleton
      <4>4. res.active[r] # 0
        BY <2>1, <4>1 DEF Permits, Holders, State
      <4> QED BY <3>3, <4>3, <4>4
    <3> QED BY <3>2, <3>3
  <2>3. OneHolder
    BY <2>2 DEF OneHolder
  <2>4. NoIdlePermit
    BY <2>1 DEF NoIdlePermit, Idle
  <2>5. QueueSound
    <3>1. ASSUME NEW r \in Realms
          PROVE  /\ \A i, j \in DOMAIN res.queue[r] : res.queue[r][i] = res.queue[r][j] => i = j
                 /\ Els(res.queue[r]) =
                      {e \in Elements : res.seat[e].realm = r /\ res.seat[e].state = "queued"}
      <4>1. res.queue[r] \in Seq(Elements) /\ Els(res.queue[r]) \subseteq Elements
        <5>1. res.queue[r] \in Seq(Elements)
          BY <2>1 DEF Resources
        <5> QED BY <5>1, LenProperties DEF Els
      <4>2. \A e \in Elements : e \in Els(res.queue[r]) <=>
              (res.seat[e].realm = r /\ res.seat[e].state = "queued")
        BY <2>1 DEF Queues, State
      <4> QED BY <2>1, <4>1, <4>2 DEF Queues, Distinct
    <3>2. ASSUME NEW e \in Elements
          PROVE  /\ res.seat[e].state = "queued" => visible[e]
                 /\ res.seat[e].state = "parked" => ~visible[e]
      <4>1. res.seat[e].state \in {"queued", "parked"} => res.seat[e].realm \in Realms
        BY <2>1 DEF Tickets, State
      <4>2. res.seat[e].realm # "none" => res.seat[e].visible = visible[e]
        BY DEF Inv, Placed
      <4> QED BY <2>1, <4>1, <4>2, PageAssumption DEF Tickets, State
    <3> QED BY <3>1, <3>2 DEF QueueSound, Els
  <2> QED BY <2>3, <2>4, <2>5 DEF PermitSound
<1> QED BY <1>1, PageInvariant, PTL

(* The permit follows the player, and none is lost on the way to its owner *)
(* (element-page-resource-owner.ts, #observeDecoderGrant).                 *)
THEOREM LeaseFitsHolds == Spec => []LeaseFitsPlayer
<1>1. Inv => LeaseFitsPlayer
  <2> SUFFICES ASSUME Inv, NEW e \in Elements
               PROVE  /\ res.seat[e].state = "active" =>
                           \/ res.lease[e] = res.seat[e].request
                           \/ <<e, res.seat[e].request>> \in res.granted
                      /\ res.lease[e] # 0 =>
                           res.seat[e].state = "active" /\ res.seat[e].request = res.lease[e]
                      /\ phase[e] = "animated" => res.lease[e] = generation[e]
                      /\ phase[e] \in {"absent", "queued", "suspended", "reduced"}
                           /\ reload[e] = "none" => res.lease[e] = 0
    BY DEF LeaseFitsPlayer, NoLeakedPermit
  <2>1. /\ Owned(res, e) /\ Heard(res, e) /\ Fits(e)
        /\ State(res, e) = "none" <=> res.seat[e].request = 0
    BY DEF Inv, Good, Sound, Core, Tickets
  <2> QED BY <2>1 DEF Owned, Heard, Fits, Restarts, Superseded, State
<1> QED BY <1>1, PageInvariant, PTL

(* A visible player that waits has its ticket or is about to be restarted  *)
(* (element-runtime-session.ts, #restart).                                 *)
THEOREM WaitersRemembered == Spec => []NoForgottenWaiter
<1>1. Inv => NoForgottenWaiter
  <2> SUFFICES ASSUME Inv, NEW e \in Elements,
                      phase[e] = "queued", visible[e], reload[e] = "none"
               PROVE  res.ticket[e] = generation[e] /\ res.seat[e].request = generation[e]
    BY DEF NoForgottenWaiter
  <2>1. Owned(res, e) /\ Fits(e) /\ Numbered(e)
    BY DEF Inv, Good
  <2> QED BY <2>1 DEF Owned, Fits, Numbered, Restarts, Superseded
<1> QED BY <1>1, PageInvariant, PTL

----------------------------------------------------------------------------
(* First come, first served.                                               *)

(* Who stands where everyone stood is in its place.                        *)
LEMMA StillInPlace ==
  ASSUME NEW w, NEW d, NEW e \in Elements, Still(w, d)
  PROVE  InPlace(w, d, e)
BY DEF Still, InPlace, Precedes, Holds

(* A grant that nobody waits for is given back, and nobody moves.          *)
LEMMA DeliverStill ==
  ASSUME Inv, NEW e \in Elements, NEW g \in Generations, Deliver(e, g),
         State(res, e) = "queued"
  PROVE  Still(res, res')
<1>1. /\ res \in Resources /\ <<e, g>> \in res.granted /\ res.ticket[e] # g
  BY Known DEF Deliver, Told
<1> DEFINE x == Hears(res, e, g)
<1>2. res' = Release(x, e, g)
  BY <1>1 DEF Deliver, Hears, Resources
<1> HIDE DEF x
<1>3. x.seat = res.seat /\ x.queue = res.queue
  BY <1>1, HearsAll DEF x
<1>4. res' = x
  BY <1>2, <1>3 DEF Release, State
<1> QED BY <1>3, <1>4 DEF Still, State

(* An element that waits before a step of its own and after it has left    *)
(* its place in none: what it does withdraws its ticket, or moves nobody.  *)
LEMMA OwnPlace ==
  ASSUME Inv, NEW e \in Elements, Steps(e), Inv',
         State(res, e) = "queued", State(res', e) = "queued"
  PROVE  InPlace(res, res', e)
<1>1. /\ Good(res) /\ Good(res') /\ Placed(e) /\ Placed(e)' /\ Numbered(e) /\ Fits(e)
      /\ res.ticket[e] # 0 /\ res.lease[e] = 0
      /\ res.seat[e].realm \in Realms /\ res'.seat[e].realm \in Realms
      /\ res.seat[e].visible /\ res'.seat[e].visible
      /\ res'.ticket[e] # 0
  BY DEF Inv, Good, Sound, Core, Tickets, Owned
<1>2. res.seat[e].realm # "none" /\ res'.seat[e].realm # "none"
  BY <1>1, PageAssumption
<1>3. visible[e] /\ visible'[e]
  BY <1>1, <1>2 DEF Placed
<1>4. CASE res' = res
  BY <1>4, StillInPlace DEF Still
<1>5. CASE res' = InvalidateRequest(res, e)
  BY <1>1, <1>5, InvalidateKeeps
<1>6. CASE res' = ReleaseAll(res, e)
  BY <1>1, <1>2, <1>6, ReleaseAllKeeps
<1>7. CASE AskDecoder(e)
  <2>1. RetireAdoptedRealm(res, e) = res
    BY <1>1, <1>7 DEF AskDecoder, Current, Placed, Superseded, RetireAdoptedRealm
  <2>2. res' = res
    BY <1>1, <1>7, <2>1 DEF AskDecoder, ClaimDecoder, Numbered
  <2> QED BY <1>4, <2>2
<1>8. CASE QueuedRetired(e)
  <2>1. res' = ReleaseDecoderLease(res, e)
    BY <1>8 DEF QueuedRetired, AnimationResourcesRetired
  <2> DEFINE x == Lend(res, e, 0)
  <2>2. res' = Release(x, e, 0)
    BY <1>1, <2>1 DEF ReleaseDecoderLease, Lend
  <2> HIDE DEF x
  <2>3. x.seat = res.seat /\ x.queue = res.queue
    BY <1>1, PageAssumption, Leased DEF x, Good, Sound, Core, Generations
  <2>4. res' = x
    BY <2>2, <2>3 DEF Release, State
  <2> QED BY <2>3, <2>4, StillInPlace DEF Still, State
<1>9. CASE StaticRetired(e)
  <2>1. res'.ticket[e] = 0
    BY <1>1, <1>9, RetiredKeeps DEF StaticRetired
  <2> QED BY <1>1, <2>1
<1>10. ~Hide(e) /\ ~Show(e)
  BY <1>3, Known DEF Hide, Show, SessionTypes
<1>11. ASSUME NEW b \in 0 .. MaxBytes, ReportBytes(e, b) PROVE InPlace(res, res', e)
  <2>1. res.seat[e].realm = realm[e]
    BY <1>1, <1>2, <1>11 DEF ReportBytes, Placed, Superseded, Current
  <2>2. Still(res, res')
    BY <1>1, <1>2, <1>3, <1>11, <2>1, Known, BytesKeep DEF ReportBytes
  <2> QED BY <2>2, StillInPlace
<1>12. ASSUME NEW g \in Generations, Deliver(e, g) PROVE InPlace(res, res', e)
  BY <1>12, DeliverStill, StillInPlace
<1>13. CASE Connect(e) \/ BeginReload(e) \/ StartStatic(e) \/ RestoreMotion(e)
  BY <1>4, <1>13 DEF Connect, BeginReload, StartStatic, RestoreMotion
<1>14. CASE Disconnect(e) \/ (\E r \in Realms : Adopt(e, r)) \/ SourceChanged(e) \/ Reduce(e)
  BY <1>5, <1>14 DEF Disconnect, Adopt, SourceChanged, Reduce
<1>15. CASE StartGeneration(e) \/ Retire(e)
  BY <1>6, <1>15 DEF StartGeneration, Retire
<1> QED BY <1>7, <1>8, <1>9, <1>10, <1>11, <1>12, <1>13, <1>14, <1>15 DEF Steps

(* To be in place is not to be overtaken, while one waits.                 *)
LEMMA InPlaceIsAhead ==
  ASSUME Inv, Inv', NEW r \in Realms, NEW e \in Elements, NEW f \in Elements, e # f,
         Ahead(e, f, r), Queued(e, r)', InPlace(res, res', e)
  PROVE  Ahead(e, f, r)'
<1>1. /\ \A k \in Elements : Queued(k, r) <=> k \in Els(res.queue[r])
      /\ \A k \in Elements : Queued(k, r)' <=> k \in Els(res'.queue[r])
  BY DEF Inv, Good, Sound, Core, Queues, Queued, State
<1>2. /\ \A k \in Elements : k \in Holders(r) <=> Holds(res, k, r)
      /\ \A k \in Elements : k \in Holders(r)' <=> Holds(res', k, r)
  BY DEF Holders, Holds, State
<1>3. Precedes(res, e, f, r)
  BY <1>1, <1>2 DEF Ahead, Precedes, Leads, Before
<1>4. Precedes(res', e, f, r)
  BY <1>1, <1>3 DEF InPlace
<1> QED BY <1>1, <1>2, <1>4 DEF Ahead, Precedes, Leads, Before

(* Whoever waits for the permit of a page stays ahead of all who come      *)
(* later until it is granted or withdrawn, whatever the others do          *)
(* (page-resources.ts, drain() and the queue of a page).                   *)
THEOREM ServedInOrder == Spec => InOrder
<1> DEFINE Served == \A r \in Realms : \A e, f \in Elements :
                       e # f /\ Ahead(e, f, r) /\ Queued(e, r)' => Ahead(e, f, r)'
<1>1. ASSUME Inv, Inv', Next PROVE Served
  <2>1. PICK a \in Elements : Steps(a)
    BY <1>1, NextSteps
  <2>2. Others(res, res', a)
    BY <1>1, <2>1, StepsKeep
  <2> SUFFICES ASSUME NEW r \in Realms, NEW e \in Elements, NEW f \in Elements,
                      e # f, Ahead(e, f, r), Queued(e, r)'
               PROVE  Ahead(e, f, r)'
    OBVIOUS
  <2>3. CASE e # a
    BY <1>1, <2>2, <2>3, InPlaceIsAhead DEF Others, Same
  <2>4. CASE e = a
    <3>1. State(res, e) = "queued" /\ State(res', e) = "queued"
      BY DEF Ahead, Queued, State
    <3>2. InPlace(res, res', e)
      BY <1>1, <2>1, <2>4, <3>1, OwnPlace
    <3> QED BY <1>1, <3>2, InPlaceIsAhead
  <2> QED BY <2>3, <2>4
<1>2. Inv /\ Inv' /\ [Next]_vars => [Served]_vars
  BY <1>1
<1> QED BY <1>2, PageInvariant, PTL DEF Spec, InOrder

----------------------------------------------------------------------------
(* The bytes of a page.  Only an element that takes its seat, reports bytes*)
(* or leaves moves any; what becomes of its ticket does not.               *)
Fields == {"seat", "queue", "active", "total", "granted", "ticket", "lease"}
SeatFields == {"realm", "visible", "request", "state", "bytes"}

Formed(w) ==
  /\ DOMAIN w = Fields /\ DOMAIN w.seat = Elements /\ DOMAIN w.total = Realms
  /\ \A e \in Elements : DOMAIN w.seat[e] = SeatFields

(* As many bytes as there are, and none of who is on no page.              *)
Balanced(w) ==
  /\ Formed(w)
  /\ \A e \in Elements :
       /\ w.seat[e].bytes \in 0 .. MaxBytes /\ w.seat[e].realm \in Realms \cup {"none"}
       /\ w.seat[e].realm = "none" => w.seat[e].bytes = 0
  /\ \A r \in Realms :
       IsFiniteSet(Bytes(w, r)) /\ w.total[r] = Cardinality(Bytes(w, r))

SameWeight(w, v) ==
  /\ Formed(v) /\ v.total = w.total
  /\ \A e \in Elements : /\ v.seat[e].realm = w.seat[e].realm
                         /\ v.seat[e].bytes = w.seat[e].bytes

(* A page whose bytes nobody moved is in balance still.                    *)
LEMMA WeightKeeps ==
  ASSUME NEW w, NEW v, Balanced(w), SameWeight(w, v) PROVE Balanced(v)
<1>1. \A r \in Realms : Bytes(v, r) = Bytes(w, r) BY DEF SameWeight, Bytes
<1> QED BY <1>1 DEF Balanced, SameWeight

LEMMA WeightTwice ==
  ASSUME NEW w, NEW v, NEW u, SameWeight(w, v), SameWeight(v, u) PROVE SameWeight(w, u)
BY DEF SameWeight

LEMMA WeightSelf == ASSUME NEW w, Formed(w) PROVE SameWeight(w, w)
BY DEF SameWeight

(* Nothing that is done with a ticket moves bytes.                         *)
LEMMA DrainWeight == ASSUME NEW w, Formed(w), NEW r PROVE SameWeight(w, Drain(w, r))
<1> DEFINE e == Head(w.queue[r])
           g == w.seat[e].request
           G == IF w.ticket[e] = g THEN w.granted \cup {<<e, g>>} ELSE w.granted
           v == [w EXCEPT !.queue[r] = Tail(@), !.active[r] = Workers,
                          !.seat[e].state = "active", !.granted = G]
<1>1. Drain(w, r) = w \/ Drain(w, r) = v BY DEF Drain
<1> HIDE DEF e, G
<1>2. SameWeight(w, v) BY DEF SameWeight, Formed, Fields, SeatFields
<1> QED BY <1>1, <1>2, WeightSelf

LEMMA ReleaseWeight ==
  ASSUME NEW w, Formed(w), NEW e \in Elements, NEW g PROVE SameWeight(w, Release(w, e, g))
<1> DEFINE s == w.seat[e]
           v == [w EXCEPT !.active[s.realm] = 0,
                          !.seat[e] = [@ EXCEPT !.request = 0, !.state = "none"]]
<1>1. Release(w, e, g) \in {w, Drain(v, s.realm)} BY DEF Release
<1>2. SameWeight(w, v) BY DEF SameWeight, Formed, Fields, SeatFields
<1> HIDE DEF v, s
<1> QED BY <1>1, <1>2, DrainWeight, WeightTwice, WeightSelf DEF SameWeight

LEMMA CancelWeight ==
  ASSUME NEW w, Formed(w), NEW e \in Elements, NEW g PROVE SameWeight(w, Cancel(w, e, g))
<1> DEFINE s == w.seat[e]
           v == [w EXCEPT !.queue[s.realm] = Without(@, e),
                          !.seat[e] = [@ EXCEPT !.request = 0, !.state = "none"]]
<1>1. Cancel(w, e, g) \in {w, Release(w, e, g), Drain(v, s.realm)} BY DEF Cancel
<1>2. SameWeight(w, v) BY DEF SameWeight, Formed, Fields, SeatFields
<1> HIDE DEF v, s
<1> QED BY <1>1, <1>2, DrainWeight, ReleaseWeight, WeightTwice, WeightSelf DEF SameWeight

LEMMA InvalidateWeight ==
  ASSUME NEW w, Formed(w), NEW e \in Elements PROVE SameWeight(w, InvalidateRequest(w, e))
<1> DEFINE v == [w EXCEPT !.ticket[e] = 0]
<1>1. SameWeight(w, v) BY DEF SameWeight, Formed, Fields
<1> HIDE DEF v
<1>2. InvalidateRequest(w, e) = Cancel(v, e, w.ticket[e]) BY DEF InvalidateRequest, v
<1> QED BY <1>1, <1>2, CancelWeight, WeightTwice DEF SameWeight

LEMMA ReleaseLeaseWeight ==
  ASSUME NEW w, Formed(w), NEW e \in Elements PROVE SameWeight(w, ReleaseDecoderLease(w, e))
<1> DEFINE v == [w EXCEPT !.lease[e] = 0]
<1>1. SameWeight(w, v) BY DEF SameWeight, Formed, Fields
<1> HIDE DEF v
<1>2. ReleaseDecoderLease(w, e) = Release(v, e, w.lease[e]) BY DEF ReleaseDecoderLease, v
<1> QED BY <1>1, <1>2, ReleaseWeight, WeightTwice DEF SameWeight

LEMMA RequestWeight ==
  ASSUME NEW w, Formed(w), NEW e \in Elements, NEW g PROVE SameWeight(w, Request(w, e, g))
<1> DEFINE r == w.seat[e].realm
           a == [w EXCEPT !.seat[e].request = g]
           q == [a EXCEPT !.seat[e].state = "queued", !.queue[r] = Append(@, e)]
           p == [a EXCEPT !.seat[e].state = "parked"]
<1>1. Request(w, e, g) \in {Drain(q, r), Drain(p, r)} BY DEF Request
<1>2. SameWeight(w, q) /\ SameWeight(w, p) BY DEF SameWeight, Formed, Fields, SeatFields
<1> HIDE DEF q, p, r
<1> QED BY <1>1, <1>2, DrainWeight, WeightTwice DEF SameWeight

LEMMA VisibilityWeight ==
  ASSUME NEW w, Formed(w), NEW e \in Elements, NEW v PROVE SameWeight(w, Visibility(w, e, v))
<1> DEFINE r == w.seat[e].realm
           seen == [w EXCEPT !.seat[e].visible = v]
           p == [seen EXCEPT !.queue[r] = Without(@, e), !.seat[e].state = "parked"]
           q == [seen EXCEPT !.queue[r] = Append(@, e), !.seat[e].state = "queued"]
<1>1. Visibility(w, e, v) \in {w, seen, Drain(q, r), Drain(p, r)} BY DEF Visibility
<1>2. SameWeight(w, q) /\ SameWeight(w, p) /\ SameWeight(w, seen)
  BY DEF SameWeight, Formed, Fields, SeatFields
<1> HIDE DEF q, p, r, seen
<1> QED BY <1>1, <1>2, DrainWeight, WeightTwice, WeightSelf DEF SameWeight

(* The bytes of one element are as many as it reports.                     *)
LEMMA OwnBytes ==
  ASSUME NEW e, NEW n \in Nat
  PROVE  IsFiniteSet({e} \X (1 .. n)) /\ Cardinality({e} \X (1 .. n)) = n
<1> DEFINE f == [i \in 1 .. n |-> <<e, i>>]
<1>1. IsFiniteSet(1 .. n) /\ Cardinality(1 .. n) = n
  BY FS_Interval
<1>2. f \in Bijection(1 .. n, {e} \X (1 .. n))
  <2>1. f \in [1 .. n -> {e} \X (1 .. n)]
    OBVIOUS
  <2>2. \A i, j \in 1 .. n : f[i] = f[j] => i = j
    OBVIOUS
  <2>3. \A p \in {e} \X (1 .. n) : \E i \in 1 .. n : f[i] = p
    OBVIOUS
  <2> QED BY <2>1, <2>2, <2>3 DEF Bijection, Injection, Surjection, IsInjective
<1>3. ExistsBijection(1 .. n, {e} \X (1 .. n))
  BY <1>2 DEF ExistsBijection
<1> QED BY <1>1, <1>3, FS_Bijection

(* What one participant reports moves the total by as much.                *)
LEMMA ReportedWeight ==
  ASSUME NEW w, NEW v, NEW e \in Elements, NEW b \in 0 .. MaxBytes, NEW R \in Realms,
         Balanced(w), Formed(v), w.seat[e].realm = R, v.seat[e].realm = R,
         v.seat[e].bytes = b,
         v.total[R] = w.total[R] - w.seat[e].bytes + b,
         \A r \in Realms : r # R => v.total[r] = w.total[r],
         \A f \in Elements : f # e => /\ v.seat[f].realm = w.seat[f].realm
                                      /\ v.seat[f].bytes = w.seat[f].bytes
  PROVE  Balanced(v)
<1> DEFINE Rest == {c \in Bytes(w, R) : c[1] # e}
           Part(n) == {e} \X (1 .. n)
           a == w.seat[e].bytes
<1>0. R # "none"
  BY PageAssumption
<1>1. a \in 0 .. MaxBytes /\ MaxBytes \in Nat
  BY PageAssumption DEF Balanced
<1>2. Bytes(w, R) = Rest \cup Part(a)
  <2>1. \A c : c \in Bytes(w, R) /\ c[1] = e => c \in Part(a)
    BY <1>1 DEF Bytes
  <2>2. \A c : c \in Part(a) => c \in Bytes(w, R)
    BY <1>1 DEF Bytes
  <2> QED BY <2>1, <2>2
<1>3. Bytes(v, R) = Rest \cup Part(b)
  <2>1. \A c : c \in Bytes(v, R) /\ c[1] = e => c \in Part(b)
    BY <1>1 DEF Bytes
  <2>2. \A c : c \in Part(b) => c \in Bytes(v, R)
    BY <1>1 DEF Bytes
  <2>3. \A c : c[1] # e => (c \in Bytes(w, R) <=> c \in Bytes(v, R))
    BY DEF Bytes
  <2>4. \A c \in Part(b) : c[1] = e
    OBVIOUS
  <2> QED BY <2>1, <2>2, <2>3, <2>4
<1>4. IsFiniteSet(Bytes(w, R)) /\ w.total[R] = Cardinality(Bytes(w, R))
  BY DEF Balanced
<1>5. IsFiniteSet(Rest) /\ Cardinality(Rest) \in Nat
  <2>1. Rest \subseteq Bytes(w, R)
    OBVIOUS
  <2> QED BY <1>4, <2>1, FS_Subset, FS_CardinalityType
<1>6. /\ IsFiniteSet(Part(a)) /\ Cardinality(Part(a)) = a
      /\ IsFiniteSet(Part(b)) /\ Cardinality(Part(b)) = b
  <2>1. a \in Nat /\ b \in Nat
    BY <1>1
  <2> HIDE DEF a
  <2> QED BY <2>1, OwnBytes
<1>7. Rest \cap Part(a) = {} /\ Rest \cap Part(b) = {}
  OBVIOUS
<1>8. /\ Cardinality(Bytes(w, R)) = Cardinality(Rest) + a
      /\ IsFiniteSet(Bytes(v, R)) /\ Cardinality(Bytes(v, R)) = Cardinality(Rest) + b
  <2> HIDE DEF Rest, Part, a
  <2>0. Cardinality({}) = 0 /\ a \in Nat /\ b \in Nat
    BY <1>1, FS_EmptySet DEF a
  <2>1. /\ Cardinality(Rest \cup Part(a)) = Cardinality(Rest) + a
        /\ Cardinality(Rest \cup Part(b)) = Cardinality(Rest) + b
        /\ IsFiniteSet(Rest \cup Part(b))
    <3> DEFINE A == Part(a)
               B == Part(b)
    <3>1. /\ IsFiniteSet(A) /\ Cardinality(A) = a /\ Rest \cap A = {}
          /\ IsFiniteSet(B) /\ Cardinality(B) = b /\ Rest \cap B = {}
      BY <1>6, <1>7
    <3> HIDE DEF A, B
    <3>2. /\ Cardinality(Rest \cup A) = Cardinality(Rest) + a - 0
          /\ Cardinality(Rest \cup B) = Cardinality(Rest) + b - 0
          /\ IsFiniteSet(Rest \cup B)
      <4>1. IsFiniteSet(Rest)
        BY <1>5
      <4> HIDE DEF Rest
      <4>2. Cardinality(Rest \cup A) = Cardinality(Rest) + Cardinality(A) - Cardinality(Rest \cap A)
        BY <3>1, <4>1, FS_Union
      <4>3. /\ IsFiniteSet(Rest \cup B)
            /\ Cardinality(Rest \cup B)
                 = Cardinality(Rest) + Cardinality(B) - Cardinality(Rest \cap B)
        BY <3>1, <4>1, FS_Union
      <4> QED BY <2>0, <3>1, <4>2, <4>3
    <3>3. Cardinality(Rest) + a - 0 = Cardinality(Rest) + a
          /\ Cardinality(Rest) + b - 0 = Cardinality(Rest) + b
      BY <1>5, <2>0
    <3> QED BY <3>2, <3>3 DEF A, B
  <2> QED BY <1>2, <1>3, <2>1
<1>9. v.total[R] = Cardinality(Bytes(v, R))
  BY <1>1, <1>4, <1>5, <1>8
<1>10. ASSUME NEW r \in Realms, r # R PROVE Bytes(v, r) = Bytes(w, r)
  <2>1. \A f \in Elements : \A n :
          v.seat[f].realm = r /\ n <= v.seat[f].bytes <=>
          w.seat[f].realm = r /\ n <= w.seat[f].bytes
    BY <1>10
  <2> QED BY <2>1 DEF Bytes
<1>11. \A r \in Realms :
         IsFiniteSet(Bytes(v, r)) /\ v.total[r] = Cardinality(Bytes(v, r))
  BY <1>8, <1>9, <1>10 DEF Balanced
<1>12. \A f \in Elements :
         /\ v.seat[f].bytes \in 0 .. MaxBytes /\ v.seat[f].realm \in Realms \cup {"none"}
         /\ v.seat[f].realm = "none" => v.seat[f].bytes = 0
  BY <1>0 DEF Balanced
<1> QED BY <1>11, <1>12 DEF Balanced

(* Whoever comes, or leaves, brings and takes none.                        *)
LEMMA SeatedWeight ==
  ASSUME NEW w, NEW v, NEW e \in Elements, Balanced(w), Formed(v), v.total = w.total,
         w.seat[e].bytes = 0, v.seat[e].bytes = 0, v.seat[e].realm \in Realms \cup {"none"},
         \A f \in Elements : f # e => /\ v.seat[f].realm = w.seat[f].realm
                                      /\ v.seat[f].bytes = w.seat[f].bytes
  PROVE  Balanced(v)
<1>1. \A r \in Realms : Bytes(v, r) = Bytes(w, r)
  <2> SUFFICES ASSUME NEW r \in Realms PROVE Bytes(v, r) = Bytes(w, r)
    OBVIOUS
  <2>1. \A f \in Elements : \A n \in 1 .. MaxBytes :
          v.seat[f].realm = r /\ n <= v.seat[f].bytes <=>
          w.seat[f].realm = r /\ n <= w.seat[f].bytes
    <3>1. \A n \in 1 .. MaxBytes : ~(n <= 0)
      BY PageAssumption
    <3> QED BY <3>1
  <2> QED BY <2>1 DEF Bytes
<1>2. \A f \in Elements :
        /\ v.seat[f].bytes \in 0 .. MaxBytes /\ v.seat[f].realm \in Realms \cup {"none"}
        /\ v.seat[f].realm = "none" => v.seat[f].bytes = 0
  BY DEF Balanced
<1> QED BY <1>1, <1>2 DEF Balanced

(* Whoever takes a seat reports nothing yet; who leaves takes its own along. *)
LEMMA EnsureWeight ==
  ASSUME Inv, NEW w, Balanced(w), NEW e \in Elements
  PROVE  /\ Balanced(EnsureParticipant(w, e))
         /\ EnsureParticipant(w, e).seat[e].realm \in Realms
<1> DEFINE v == [w EXCEPT !.seat[e].realm = realm[e], !.seat[e].visible = visible[e]]
<1>1. realm[e] \in Realms /\ Formed(w)
  BY DEF Inv, SessionTypes, Balanced
<1>2. CASE w.seat[e].realm # "none"
  BY <1>2 DEF EnsureParticipant, Balanced
<1>3. CASE w.seat[e].realm = "none"
  <2>1. EnsureParticipant(w, e) = v
    BY <1>3 DEF EnsureParticipant
  <2>2. /\ Formed(v) /\ v.total = w.total /\ v.seat[e].realm = realm[e]
        /\ v.seat[e].bytes = w.seat[e].bytes
        /\ \A f \in Elements : f # e => v.seat[f] = w.seat[f]
    BY <1>1 DEF Formed, Fields, SeatFields
  <2>3. w.seat[e].bytes = 0
    BY <1>3 DEF Balanced
  <2> HIDE DEF v
  <2>4. Balanced(v)
    BY <1>1, <2>2, <2>3, SeatedWeight
  <2> QED BY <1>1, <2>1, <2>2, <2>4
<1> QED BY <1>2, <1>3

LEMMA DisposeWeight ==
  ASSUME NEW w, Balanced(w), NEW e \in Elements
  PROVE  Balanced(DisposeParticipant(w, e))
<1> DEFINE r == w.seat[e].realm
           freed == [w EXCEPT !.total[r] = @ - w.seat[e].bytes, !.seat[e].bytes = 0]
           d == Cancel(freed, e, w.seat[e].request)
           v == [d EXCEPT !.seat[e] = Away]
<1>1. Formed(w) /\ r \in Realms \cup {"none"} /\ MaxBytes \in Nat
      /\ w.seat[e].bytes \in 0 .. MaxBytes
  BY PageAssumption DEF Balanced
<1>2. CASE r = "none"
  BY <1>2 DEF DisposeParticipant
<1>3. CASE r # "none"
  <2>1. DisposeParticipant(w, e) = v
    BY <1>3 DEF DisposeParticipant
  <2>2. /\ Formed(freed) /\ freed.seat[e].bytes = 0 /\ freed.seat[e].realm = r
        /\ freed.total[r] = w.total[r] - w.seat[e].bytes
        /\ \A s \in Realms : s # r => freed.total[s] = w.total[s]
        /\ \A f \in Elements : f # e => freed.seat[f] = w.seat[f]
    BY <1>1, <1>3 DEF Formed, Fields, SeatFields
  <2>3. w.total[r] \in Nat
    BY <1>1, <1>3, FS_CardinalityType DEF Balanced
  <2> HIDE DEF r, freed
  <2>4. Balanced(freed)
    <3>1. 0 \in 0 .. MaxBytes /\ r \in Realms /\ w.seat[e].realm = r
          /\ freed.total[r] = w.total[r] - w.seat[e].bytes + 0
      BY <1>1, <1>3, <2>2, <2>3 DEF r
    <3> QED BY <3>1, <2>2, ReportedWeight
  <2>5. SameWeight(freed, d)
    BY <2>2, CancelWeight
  <2> HIDE DEF d
  <2>6. Balanced(d) /\ Formed(d) /\ d.seat[e].bytes = 0
    BY <2>2, <2>4, <2>5, WeightKeeps DEF SameWeight
  <2>7. /\ Formed(v) /\ v.total = d.total /\ v.seat[e] = Away
        /\ \A f \in Elements : f # e => v.seat[f] = d.seat[f]
    BY <2>6 DEF Formed, Fields, SeatFields, Away
  <2> HIDE DEF v
  <2>8. v.seat[e].bytes = 0 /\ v.seat[e].realm \in Realms \cup {"none"}
    BY <2>7 DEF Away
  <2> QED BY <2>1, <2>6, <2>7, <2>8, SeatedWeight
<1> QED BY <1>2, <1>3

(* Every call of an owner leaves the pages in balance.                     *)
LEMMA ReleaseAllWeight ==
  ASSUME NEW w, Balanced(w), NEW e \in Elements
  PROVE  Balanced(ReleaseAll(w, e))
<1>1. Balanced(InvalidateRequest(w, e))
  BY InvalidateWeight, WeightKeeps DEF Balanced
<1>2. Balanced(ReleaseDecoderLease(InvalidateRequest(w, e), e))
  BY <1>1, ReleaseLeaseWeight, WeightKeeps DEF Balanced
<1> QED BY <1>2, DisposeWeight DEF ReleaseAll

LEMMA RetireWeight ==
  ASSUME NEW w, Balanced(w), NEW e \in Elements
  PROVE  Balanced(RetireAdoptedRealm(w, e))
BY ReleaseAllWeight DEF RetireAdoptedRealm

LEMMA ClaimWeight ==
  ASSUME Inv, NEW w, Balanced(w), NEW e \in Elements, NEW g
  PROVE  Balanced(ClaimDecoder(w, e, g))
<1> DEFINE here == RetireAdoptedRealm(w, e)
           seated == EnsureParticipant(InvalidateRequest(here, e), e)
           asked == Request(seated, e, g)
<1>1. ClaimDecoder(w, e, g) \in
        {here, [asked EXCEPT !.lease[e] = g], [asked EXCEPT !.ticket[e] = g]}
  BY DEF ClaimDecoder
<1>2. Balanced(here)
  BY RetireWeight
<1>3. Balanced(InvalidateRequest(here, e))
  BY <1>2, InvalidateWeight, WeightKeeps DEF Balanced
<1>4. Balanced(seated)
  BY <1>3, EnsureWeight
<1> HIDE DEF here, seated
<1>5. Balanced(asked)
  BY <1>4, RequestWeight, WeightKeeps DEF Balanced
<1> HIDE DEF asked
<1>6. /\ SameWeight(asked, [asked EXCEPT !.lease[e] = g])
      /\ SameWeight(asked, [asked EXCEPT !.ticket[e] = g])
  BY <1>5 DEF Balanced, SameWeight, Formed, Fields
<1> QED BY <1>1, <1>2, <1>5, <1>6, WeightKeeps

LEMMA SetBytesWeight ==
  ASSUME Inv, NEW w, Balanced(w), NEW e \in Elements, NEW b \in 0 .. MaxBytes
  PROVE  Balanced(SetResourceBytes(w, e, b))
<1> DEFINE here == EnsureParticipant(RetireAdoptedRealm(w, e), e)
           R == here.seat[e].realm
           v == [here EXCEPT !.total[here.seat[e].realm] = @ - here.seat[e].bytes + b,
                             !.seat[e].bytes = b]
<1>1. SetResourceBytes(w, e, b) \in {w, v}
  BY DEF SetResourceBytes
<1>2. Balanced(here) /\ R \in Realms
  BY RetireWeight, EnsureWeight
<1> HIDE DEF here
<1>3. /\ Formed(v) /\ v.seat[e].bytes = b /\ v.seat[e].realm = R
      /\ v.total[R] = here.total[R] - here.seat[e].bytes + b
      /\ \A r \in Realms : r # R => v.total[r] = here.total[r]
      /\ \A f \in Elements : f # e => v.seat[f] = here.seat[f]
  BY <1>2 DEF Balanced, Formed, Fields, SeatFields
<1> HIDE DEF v
<1>4. Balanced(v)
  <2>1. here.seat[e].realm = R
    OBVIOUS
  <2> HIDE DEF R
  <2> QED BY <1>2, <1>3, <2>1, ReportedWeight
<1> QED BY <1>1, <1>4

LEMMA RetiredWeight ==
  ASSUME NEW w, Balanced(w), NEW e \in Elements, NEW kept \in BOOLEAN
  PROVE  Balanced(AnimationResourcesRetired(w, e, kept))
<1> DEFINE released == ReleaseDecoderLease(w, e)
           cancelled == InvalidateRequest(released, e)
<1>1. AnimationResourcesRetired(w, e, kept) \in
        {released, cancelled, DisposeParticipant(cancelled, e)}
  BY DEF AnimationResourcesRetired
<1>2. Balanced(released)
  BY ReleaseLeaseWeight, WeightKeeps DEF Balanced
<1> HIDE DEF released
<1>3. Balanced(cancelled)
  BY <1>2, InvalidateWeight, WeightKeeps DEF Balanced
<1> HIDE DEF cancelled
<1> QED BY <1>1, <1>2, <1>3, DisposeWeight

LEMMA DeliverWeight ==
  ASSUME Balanced(res), NEW e \in Elements, NEW g, Deliver(e, g)
  PROVE  Balanced(res')
<1> DEFINE heard == [res EXCEPT !.granted = @ \ {<<e, g>>}]
           taken == [heard EXCEPT !.ticket[e] = 0, !.lease[e] = g]
<1>1. Formed(res)
  BY DEF Balanced
<1>2. res' \in {taken, Release(heard, e, g)}
  BY DEF Deliver
<1>3. SameWeight(res, heard)
  BY <1>1 DEF SameWeight, Formed, Fields
<1>4. SameWeight(res, taken)
  BY <1>1 DEF SameWeight, Formed, Fields
<1> HIDE DEF heard
<1>5. SameWeight(heard, Release(heard, e, g))
  BY <1>3, ReleaseWeight DEF SameWeight
<1> HIDE DEF taken
<1> QED BY <1>2, <1>3, <1>4, <1>5, WeightKeeps

InBalance == Balanced(res)

(* Nobody is on a page yet.                                                *)
LEMMA InitBalanced ==
  ASSUME Init
  PROVE  InBalance
<1>1. /\ DOMAIN res = Fields /\ res.seat = [e \in Elements |-> Away]
      /\ res.total = [r \in Realms |-> 0]
  BY DEF Init, Fields
<1>2. Formed(res)
  BY <1>1 DEF Formed, Away, SeatFields
<1>3. \A e \in Elements : res.seat[e].bytes = 0 /\ res.seat[e].realm = "none"
  BY <1>1 DEF Away
<1>4. \A r \in Realms : Bytes(res, r) = {} /\ res.total[r] = 0
  BY <1>1, <1>3, PageAssumption DEF Bytes
<1>5. 0 \in 0 .. MaxBytes
  BY PageAssumption
<1> QED BY <1>2, <1>3, <1>4, <1>5, FS_EmptySet DEF Balanced, InBalance

(* Every call of a runtime session balances the page.                      *)
LEMMA NextBalanced ==
  ASSUME Inv, InBalance, [Next]_vars
  PROVE  InBalance'
<1> USE DEF InBalance
<1>1. CASE res' = res
  BY <1>1
<1>2. ASSUME NEW e \in Elements, Steps(e), res' # res
      PROVE  Balanced(res')
  <2>1. Formed(res)
    BY DEF Balanced
  <2>2. CASE Disconnect(e) \/ (\E r \in Realms : Adopt(e, r)) \/ SourceChanged(e) \/ Reduce(e)
    BY <2>1, <2>2, InvalidateWeight, WeightKeeps DEF Disconnect, Adopt, SourceChanged, Reduce
  <2>3. CASE StartGeneration(e) \/ Retire(e)
    BY <2>3, ReleaseAllWeight DEF StartGeneration, Retire
  <2>4. CASE AskDecoder(e)
    BY <2>4, ClaimWeight DEF AskDecoder
  <2>5. CASE QueuedRetired(e) \/ StaticRetired(e)
    <3>1. /\ Balanced(AnimationResourcesRetired(res, e, TRUE))
          /\ Balanced(AnimationResourcesRetired(res, e, FALSE))
      BY RetiredWeight
    <3> QED BY <2>5, <3>1 DEF QueuedRetired, StaticRetired
  <2>6. CASE Hide(e) \/ Show(e)
    BY <2>1, <2>6, VisibilityWeight, WeightKeeps DEF Hide, Show
  <2>7. CASE \E b \in 0 .. MaxBytes : ReportBytes(e, b)
    BY <2>7, SetBytesWeight DEF ReportBytes
  <2>8. CASE \E g \in Generations : Deliver(e, g)
    BY <2>8, DeliverWeight
  <2>9. CASE Connect(e) \/ BeginReload(e) \/ StartStatic(e) \/ RestoreMotion(e)
    BY <1>2, <2>9 DEF Connect, BeginReload, StartStatic, RestoreMotion
  <2> QED BY <1>2, <2>2, <2>3, <2>4, <2>5, <2>6, <2>7, <2>8, <2>9 DEF Steps
<1>3. UNCHANGED vars => res' = res
  BY DEF vars
<1> QED BY <1>1, <1>2, <1>3, NextSteps

(* The total of a page is what the participants that are on it report,     *)
(* whoever was disposed, adopted or replaced (page-resources.ts,           *)
(* setResourceBytes() and dispose()).                                      *)
THEOREM BytesAccountedHolds == Spec => []BytesAccounted
<1>1. Init => Inv /\ InBalance
  BY InitSound, InitBalanced
<1>2. Inv /\ InBalance /\ [Next]_vars => Inv' /\ InBalance'
  BY NextKeeps, NextBalanced
<1>3. InBalance => BytesAccounted
  BY DEF InBalance, Balanced, BytesAccounted
<1> QED BY <1>1, <1>2, <1>3, PTL DEF Spec
=============================================================================
