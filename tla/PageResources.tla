--------------------------- MODULE PageResources ---------------------------
(***************************************************************************)
(* The decoder permit of a page: page-resources.ts, which grants it to one *)
(* player at a time and to visible elements in the order they asked, and   *)
(* element-page-resource-owner.ts, which asks for an element.  The runtime *)
(* session of an element is here the caller that makes the calls           *)
(* element-runtime-session.ts makes: it starts generations, is shown,      *)
(* hidden, reduced, disconnected and adopted, and is called back.          *)
(*                                                                         *)
(* A generation asks for at most one ticket, so a ticket and its lease are *)
(* named by the generation; "none" is 0.  The owner compares the ticket,   *)
(* the participant, the generation and a claim sequence before it takes a  *)
(* grant: the last three change only where the ticket does.                *)
(***************************************************************************)
EXTENDS WaitingList, FiniteSets

CONSTANTS Elements,         \* the AVAL elements of one agent
          Realms,           \* the realms a page state is kept for
          MaxGenerations,   \* how many generations an element starts (bound)
          MaxBytes          \* the most bytes a player reports (bound)

ASSUME PageAssumption ==
  /\ Elements # {} /\ Realms # {} /\ "none" \notin Realms
  /\ MaxGenerations \in Nat /\ MaxBytes \in Nat

VARIABLES
  res,          \* the pages, the participants and the owners
  generation,   \* the source generation of an element's runtime session
  phase,        \* what its player is
  reload,       \* what its runtime session is about to do
  connected,
  visible,      \* effectivelyVisible
  realm         \* the realm of the element's document

session == <<generation, phase, reload, connected, visible, realm>>
vars == <<res, session>>

Workers == 2
Generations == 0 .. MaxGenerations

(***************************************************************************)
(* A seat is a participant with its ticket.                                *)
(***************************************************************************)
Away == [realm |-> "none", visible |-> FALSE, request |-> 0,
         state |-> "none", bytes |-> 0]
Seats == [realm: Realms \cup {"none"}, visible: BOOLEAN,
          request: Generations, state: {"none", "queued", "parked", "active"},
          bytes: 0 .. MaxBytes]

Resources ==
  [seat: [Elements -> Seats],
   queue: [Realms -> Seq(Elements)],
   active: [Realms -> {0, Workers}],
   total: [Realms -> Int],
   granted: SUBSET (Elements \X Generations),  \* resolved, not yet observed
   ticket: [Elements -> Generations],
   lease: [Elements -> Generations]]

Phases == {"absent", "starting", "queuing", "queued", "animated",
           "suspending", "suspended", "reducing", "reduced"}

(***************************************************************************)
(* The page.                                                               *)
(***************************************************************************)
\* Grant the head of the queue when the permit is free.  Only the owner that
\* already waits learns of it later; the one that asks right now takes it.
Drain(w, r) ==
  IF w.active[r] # 0 \/ w.queue[r] = <<>> THEN w
  ELSE LET e == Head(w.queue[r])
           g == w.seat[e].request
       IN [w EXCEPT !.queue[r] = Tail(@), !.active[r] = Workers,
                    !.seat[e].state = "active",
                    !.granted = IF w.ticket[e] = g THEN @ \cup {<<e, g>>} ELSE @]

\* Mutant: a new ticket is put in front of those that wait.
Request_Front(w, e, g) ==
  LET r == w.seat[e].realm
      asks == [w EXCEPT !.seat[e].request = g]
  IN IF w.seat[e].visible
     THEN Drain([asks EXCEPT !.seat[e].state = "queued",
                             !.queue[r] = <<e>> \o @], r)
     ELSE Drain([asks EXCEPT !.seat[e].state = "parked"], r)

Request(w, e, g) ==
  LET r == w.seat[e].realm
      asks == [w EXCEPT !.seat[e].request = g]
  IN IF w.seat[e].visible
     THEN Drain([asks EXCEPT !.seat[e].state = "queued",
                             !.queue[r] = Append(@, e)], r)
     ELSE Drain([asks EXCEPT !.seat[e].state = "parked"], r)

\* Mutant: the permit is freed again by a lease that was released before.
Release_Again(w, e, g) ==
  LET s == w.seat[e]
  IN CASE s.request = g /\ s.state = "active" ->
            Drain([w EXCEPT !.active[s.realm] = 0,
                          !.seat[e] = [@ EXCEPT !.request = 0, !.state = "none"]], s.realm)
       [] g # 0 /\ s.realm # "none" /\ ~(s.request = g /\ s.state = "active") ->
            Drain([w EXCEPT !.active[s.realm] = 0], s.realm)
       [] OTHER -> w

\* lease.release(): once, whoever still holds a reference to the lease.
Release(w, e, g) ==
  LET s == w.seat[e]
  IN IF s.request = g /\ s.state = "active"
     THEN Drain([w EXCEPT !.active[s.realm] = 0,
                          !.seat[e] = [@ EXCEPT !.request = 0, !.state = "none"]], s.realm)
     ELSE w

Cancel(w, e, g) ==
  LET s == w.seat[e]
  IN IF s.request # g \/ g = 0 THEN w
     ELSE IF s.state = "active" THEN Release(w, e, g)
     ELSE Drain([w EXCEPT !.queue[s.realm] = Without(@, e),
                          !.seat[e] = [@ EXCEPT !.request = 0, !.state = "none"]],
                s.realm)

Visibility(w, e, v) ==
  LET r == w.seat[e].realm
      seen == [w EXCEPT !.seat[e].visible = v]
  IN CASE r = "none" -> w
       [] r # "none" /\ ~v /\ w.seat[e].state = "queued" ->
            Drain([seen EXCEPT !.queue[r] = Without(@, e),
                               !.seat[e].state = "parked"], r)
       [] r # "none" /\ v /\ w.seat[e].state = "parked" ->
            Drain([seen EXCEPT !.queue[r] = Append(@, e),
                               !.seat[e].state = "queued"], r)
       [] OTHER -> seen

\* Mutant: the bytes of a participant that leaves stay on the page.
DisposeParticipant_KeepsBytes(w, e) ==
  IF w.seat[e].realm = "none" THEN w
  ELSE [Cancel(w, e, w.seat[e].request) EXCEPT !.seat[e] = Away]

DisposeParticipant(w, e) ==
  LET r == w.seat[e].realm
      freed == [w EXCEPT !.total[r] = @ - w.seat[e].bytes,
                         !.seat[e].bytes = 0]
  IN IF r = "none" THEN w
     ELSE [Cancel(freed, e, w.seat[e].request) EXCEPT !.seat[e] = Away]

(***************************************************************************)
(* The owner.                                                              *)
(***************************************************************************)
InvalidateRequest(w, e) ==
  Cancel([w EXCEPT !.ticket[e] = 0], e, w.ticket[e])

ReleaseDecoderLease(w, e) ==
  Release([w EXCEPT !.lease[e] = 0], e, w.lease[e])

\* Mutant: a new generation inherits the lease of the last one.
ReleaseAll_KeepsLease(w, e) == DisposeParticipant(InvalidateRequest(w, e), e)

ReleaseAll(w, e) ==
  DisposeParticipant(ReleaseDecoderLease(InvalidateRequest(w, e), e), e)

RetireAdoptedRealm(w, e) ==
  IF w.seat[e].realm \notin {"none", realm[e]} THEN ReleaseAll(w, e) ELSE w

EnsureParticipant(w, e) ==
  IF w.seat[e].realm # "none" THEN w
  ELSE [w EXCEPT !.seat[e].realm = realm[e], !.seat[e].visible = visible[e]]

\* The claim succeeded when the lease of the result is the generation's.
ClaimDecoder(w, e, g) ==
  LET here == RetireAdoptedRealm(w, e)
      asked == Request(EnsureParticipant(InvalidateRequest(here, e), e), e, g)
  IN IF here.lease[e] # 0 \/ here.ticket[e] = g THEN here
     ELSE IF asked.seat[e].state = "active" THEN [asked EXCEPT !.lease[e] = g]
     ELSE [asked EXCEPT !.ticket[e] = g]

SetResourceBytes(w, e, b) ==
  LET here == EnsureParticipant(RetireAdoptedRealm(w, e), e)
  IN IF b = 0 /\ w.seat[e].realm = "none" THEN w
     ELSE [here EXCEPT !.total[here.seat[e].realm] = @ - here.seat[e].bytes + b,
                       !.seat[e].bytes = b]

\* Mutant: the ticket of a player that waits is cancelled as well.
AnimationResourcesRetired_Cancels(w, e, retainQueuedRequest) ==
  LET cancelled == InvalidateRequest(ReleaseDecoderLease(w, e), e)
  IN IF cancelled.seat[e].bytes = 0 THEN DisposeParticipant(cancelled, e)
     ELSE cancelled

AnimationResourcesRetired(w, e, retainQueuedRequest) ==
  LET released == ReleaseDecoderLease(w, e)
      cancelled == InvalidateRequest(released, e)
  IN IF retainQueuedRequest THEN released
     ELSE IF cancelled.seat[e].bytes = 0 THEN DisposeParticipant(cancelled, e)
     ELSE cancelled

(***************************************************************************)
(* The runtime session of an element, as far as it calls the owner.        *)
(***************************************************************************)
Init ==
  /\ res = [seat |-> [e \in Elements |-> Away],
            queue |-> [r \in Realms |-> <<>>],
            active |-> [r \in Realms |-> 0],
            total |-> [r \in Realms |-> 0],
            granted |-> {},
            ticket |-> [e \in Elements |-> 0],
            lease |-> [e \in Elements |-> 0]]
  /\ generation = [e \in Elements |-> 0]
  /\ phase = [e \in Elements |-> "absent"]
  /\ reload = [e \in Elements |-> "none"]
  /\ connected = [e \in Elements |-> FALSE]
  /\ visible \in [Elements -> BOOLEAN]
  /\ realm \in [Elements -> Realms]

\* The generation of the player is the lifecycle lane's: nothing superseded it.
Current(e) == reload[e] \notin {"replace", "retire"}

\* A restart joins the reload that is already under way.
Restarting(e) == IF reload[e] = "none" THEN "restart" ELSE reload[e]

Connect(e) ==
  /\ ~connected[e]
  /\ connected' = [connected EXCEPT ![e] = TRUE]
  /\ reload' = [reload EXCEPT ![e] = "replace"]
  /\ UNCHANGED <<res, generation, phase, visible, realm>>

Disconnect(e) ==
  /\ connected[e]
  /\ connected' = [connected EXCEPT ![e] = FALSE]
  /\ reload' = [reload EXCEPT ![e] = "retire"]
  /\ res' = InvalidateRequest(res, e)
  /\ UNCHANGED <<generation, phase, visible, realm>>

Adopt(e, r) ==
  /\ ~connected[e] /\ realm[e] # r
  /\ realm' = [realm EXCEPT ![e] = r]
  /\ reload' = [reload EXCEPT ![e] = "retire"]
  /\ res' = InvalidateRequest(res, e)
  /\ UNCHANGED <<generation, phase, connected, visible>>

SourceChanged(e) ==
  /\ connected[e]
  /\ reload' = [reload EXCEPT ![e] = "replace"]
  /\ res' = InvalidateRequest(res, e)
  /\ UNCHANGED <<generation, phase, connected, visible, realm>>

\* The microtask of a restart, which a hidden element drops.
BeginReload(e) ==
  /\ reload[e] = "restart"
  /\ reload' = [reload EXCEPT ![e] = IF visible[e] THEN "replace" ELSE "none"]
  /\ UNCHANGED <<res, generation, phase, connected, visible, realm>>

\* The lane retires the old player before the next generation starts.
StartGeneration(e) ==
  /\ reload[e] = "replace"
  /\ generation[e] < MaxGenerations
  /\ generation' = [generation EXCEPT ![e] = @ + 1]
  /\ phase' = [phase EXCEPT ![e] = "starting"]
  /\ reload' = [reload EXCEPT ![e] = "none"]
  /\ res' = ReleaseAll(res, e)
  /\ UNCHANGED <<connected, visible, realm>>

Retire(e) ==
  /\ reload[e] = "retire"
  /\ phase' = [phase EXCEPT ![e] = "absent"]
  /\ reload' = [reload EXCEPT ![e] = "none"]
  /\ res' = ReleaseAll(res, e)
  /\ UNCHANGED <<generation, connected, visible, realm>>

\* decoderReady(), asked again by the next candidate when one was rejected.
AskDecoder(e) ==
  /\ phase[e] \in {"starting", "animated"} /\ Current(e)
  /\ res' = ClaimDecoder(res, e, generation[e])
  /\ phase' = [phase EXCEPT ![e] =
       IF res'.lease[e] = generation[e] THEN "animated" ELSE "queuing"]
  /\ UNCHANGED <<generation, reload, connected, visible, realm>>

\* A player that was created hidden or reduced never asks.
StartStatic(e) ==
  /\ phase[e] = "starting" /\ Current(e)
  /\ \/ ~visible[e] /\ phase' = [phase EXCEPT ![e] = "suspending"]
     \/ phase' = [phase EXCEPT ![e] = "reducing"]
  /\ UNCHANGED <<res, generation, reload, connected, visible, realm>>

\* onAnimationResourcesRetired of a player that waits for the permit ...
QueuedRetired(e) ==
  /\ phase[e] = "queuing" /\ Current(e)
  /\ res' = AnimationResourcesRetired(res, e, TRUE)
  /\ phase' = [phase EXCEPT ![e] = "queued"]
  /\ UNCHANGED <<generation, reload, connected, visible, realm>>

\* ... and of one that was suspended or reduced; a suspension that completes
\* when the element is shown again asks for a restart.
StaticRetired(e) ==
  /\ phase[e] \in {"suspending", "reducing"} /\ Current(e)
  /\ res' = AnimationResourcesRetired(res, e, FALSE)
  /\ phase' = [phase EXCEPT ![e] =
       IF phase[e] = "suspending" THEN "suspended" ELSE "reduced"]
  /\ reload' = [reload EXCEPT ![e] =
       IF phase[e] = "suspending" /\ visible[e] THEN Restarting(e) ELSE @]
  /\ UNCHANGED <<generation, connected, visible, realm>>

\* Visibility is observed by a task, which finds no microtask pending.
Checkpoint == res.granted = {} /\ \A e \in Elements : reload[e] # "restart"

\* A player whose wait was not announced yet may come to be suspended first.
Hide(e) ==
  /\ connected[e] /\ visible[e] /\ Checkpoint
  /\ visible' = [visible EXCEPT ![e] = FALSE]
  /\ res' = Visibility(res, e, FALSE)
  /\ \/ phase[e] \in {"animated", "queuing", "reducing"}
        /\ phase' = [phase EXCEPT ![e] = "suspending"]
     \/ phase[e] = "reduced" /\ phase' = [phase EXCEPT ![e] = "suspended"]
     \/ phase[e] \notin {"animated", "reducing", "reduced"} /\ UNCHANGED phase
  /\ UNCHANGED <<generation, reload, connected, realm>>

\* A suspended player is restarted; one that waits was suspended, or was not yet.
Show(e) ==
  /\ connected[e] /\ ~visible[e] /\ Checkpoint
  /\ visible' = [visible EXCEPT ![e] = TRUE]
  /\ res' = Visibility(res, e, TRUE)
  /\ \/ phase[e] \in {"suspended", "queuing", "queued"}
        /\ reload' = [reload EXCEPT ![e] = Restarting(e)]
     \/ phase[e] # "suspended" /\ UNCHANGED reload
  /\ UNCHANGED <<generation, phase, connected, realm>>

Reduce(e) ==
  /\ phase[e] \in {"queuing", "queued", "animated"} /\ connected[e]
  /\ res' = InvalidateRequest(res, e)
  /\ phase' = [phase EXCEPT ![e] =
       IF phase[e] = "queued" THEN "reduced" ELSE "reducing"]
  /\ UNCHANGED <<generation, reload, connected, visible, realm>>

RestoreMotion(e) ==
  /\ phase[e] \in {"reducing", "reduced"} /\ connected[e]
  /\ reload' = [reload EXCEPT ![e] = Restarting(e)]
  /\ UNCHANGED <<res, generation, phase, connected, visible, realm>>

ReportBytes(e, b) ==
  /\ phase[e] # "absent" /\ Current(e) /\ b # res.seat[e].bytes
  /\ res' = SetResourceBytes(res, e, b)
  /\ UNCHANGED session

\* The continuation of wait(): a grant the owner no longer waits for is given
\* back; the others restart the player that waited, on a connected element.
Deliver(e, g) ==
  LET heard == [res EXCEPT !.granted = @ \ {<<e, g>>}]
  IN /\ <<e, g>> \in res.granted
     /\ \/ /\ res.ticket[e] = g
           /\ res' = [heard EXCEPT !.ticket[e] = 0, !.lease[e] = g]
           /\ reload' = [reload EXCEPT ![e] =
                IF connected[e] /\ g = generation[e] THEN Restarting(e) ELSE @]
        \/ /\ res.ticket[e] # g
           /\ res' = Release(heard, e, g)
           /\ UNCHANGED reload
     /\ UNCHANGED <<generation, phase, connected, visible, realm>>

Next ==
  \E e \in Elements :
    \/ Connect(e) \/ Disconnect(e) \/ (\E r \in Realms : Adopt(e, r))
    \/ SourceChanged(e) \/ BeginReload(e) \/ StartGeneration(e) \/ Retire(e)
    \/ AskDecoder(e) \/ StartStatic(e) \/ QueuedRetired(e) \/ StaticRetired(e)
    \/ Hide(e) \/ Show(e) \/ Reduce(e) \/ RestoreMotion(e)
    \/ (\E b \in 0 .. MaxBytes : ReportBytes(e, b))
    \/ (\E g \in Generations : Deliver(e, g))

Spec == Init /\ [][Next]_vars
=============================================================================
