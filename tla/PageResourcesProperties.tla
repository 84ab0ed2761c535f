---------------------- MODULE PageResourcesProperties ----------------------
(***************************************************************************)
(* What the permit of a page promises the elements that share it.          *)
(***************************************************************************)
EXTENDS PageResources

Holders(r) == {e \in Elements : res.seat[e].realm = r /\ res.seat[e].state = "active"}

\* The permit of a realm is taken exactly while one ticket is active: a lease
\* that is released late or twice frees nobody else's permit
\* (page-resources.ts, the released flag).
OneHolder ==
  \A r \in Realms :
    /\ Cardinality(Holders(r)) <= 1
    /\ (res.active[r] # 0) <=> (Holders(r) # {})

\* A free permit waits for no one: whoever releases, cancels, hides or leaves
\* also drains the queue.
NoIdlePermit == \A r \in Realms : res.active[r] = 0 => res.queue[r] = <<>>

\* The queue of a realm holds, once each, the tickets that are queued there,
\* and those are of visible elements; so the entries drain() would skip never occur.
QueueSound ==
  \A r \in Realms :
    LET q == res.queue[r]
    IN /\ \A i, j \in DOMAIN q : q[i] = q[j] => i = j
       /\ {q[i] : i \in DOMAIN q} =
            {e \in Elements : res.seat[e].realm = r /\ res.seat[e].state = "queued"}
       /\ \A e \in Elements :
            /\ res.seat[e].state = "queued" => visible[e]
            /\ res.seat[e].state = "parked" => ~visible[e]

\* The permit and the queue of a realm agree with the tickets: one holder,
\* nobody waits for a free permit, and everyone who waits is in the queue.
PermitSound == OneHolder /\ NoIdlePermit /\ QueueSound

\* An active ticket is in somebody's hands: its owner's, or those of the
\* continuation that will take it or give it back.
NoLeakedPermit ==
  \A e \in Elements :
    res.seat[e].state = "active" =>
      LET g == res.seat[e].request
      IN res.lease[e] = g \/ <<e, g>> \in res.granted

\* A visible element whose player waits for the permit still has its ticket,
\* or is about to be restarted.
NoForgottenWaiter ==
  \A e \in Elements :
    phase[e] = "queued" /\ visible[e] /\ reload[e] = "none" =>
      res.ticket[e] = generation[e] /\ res.seat[e].request = generation[e]

\* The permit follows the player: an animated one holds it under its own
\* generation, never one retained from another source, and one that has become
\* static and is not about to be replaced keeps none from the others.  Neither
\* does a continuation that came too late.
LeaseFitsPlayer ==
  NoLeakedPermit /\ \A e \in Elements :
    /\ res.lease[e] # 0 =>
         res.seat[e].state = "active" /\ res.seat[e].request = res.lease[e]
    /\ phase[e] = "animated" => res.lease[e] = generation[e]
    /\ phase[e] \in {"absent", "queued", "suspended", "reduced"} /\ reload[e] = "none"
         => res.lease[e] = 0

\* Each byte that a participant of the realm reports.
Bytes(w, r) ==
  {c \in Elements \X (1 .. MaxBytes) : w.seat[c[1]].realm = r /\ c[2] <= w.seat[c[1]].bytes}

\* The bytes of a page are those of the participants that are on it, each
\* counted once, whatever was disposed, adopted or replaced
\* (page-resources.ts, setResourceBytes() and dispose()).
BytesAccounted == \A r \in Realms : res.total[r] = Cardinality(Bytes(res, r))

\* First come, first served: whoever waits in a realm stays ahead of everyone
\* who comes later until it is granted or stops waiting itself.
Queued(e, r) == res.seat[e].realm = r /\ res.seat[e].state = "queued"

Ahead(e, f, r) ==
  /\ Queued(e, r) /\ f \notin Holders(r)
  /\ Queued(f, r) => \E i, j \in DOMAIN res.queue[r] :
                        i < j /\ res.queue[r][i] = e /\ res.queue[r][j] = f

InOrder ==
  [][\A r \in Realms : \A e, f \in Elements :
       e # f /\ Ahead(e, f, r) /\ Queued(e, r)' => Ahead(e, f, r)']_vars
=============================================================================
