---------------------------- MODULE DecoderLane ----------------------------
(***************************************************************************)
(* One decoder lane: the host side (decoder.ts, the Decoder and the        *)
(* DecodeRun it created last) and its worker (decoder-worker.ts), over two *)
(* ordered message channels.  The host may close a run while its commands  *)
(* and its frames are still on their way, and starts the next run as soon  *)
(* as the lane is idle again.                                              *)
(*                                                                         *)
(* A frame is its index in presentation order, a sample the set of frames  *)
(* it displays.  The VideoDecoder of the browser is external: it decodes   *)
(* samples in order, gives frames out in presentation order, and may hold  *)
(* back up to Lag of them until it is flushed.                             *)
(***************************************************************************)
EXTENDS Integers, Sequences, FiniteSets, SequencesExt, FiniteSetsExt

CONSTANTS Samples,       \* the samples of a run in decode order
          Ring,          \* DECODER_RING_SIZE
          ReadyFrames,   \* candidateReadyFrames
          Lag,           \* how many frames the VideoDecoder may hold back
          MaxRuns        \* how many runs a lane is given (bound)

Frames == UNION Range(Samples)
Displayed(from, to) ==
  Cardinality(UNION {Samples[k] : k \in from + 1 .. to})
SampleOf(i) == CHOOSE k \in DOMAIN Samples : i \in Samples[k]

\* A sample displays no more than the ring holds (validateSample); the rest is
\* what the lane expects of the encoder and of the VideoDecoder: a frame that
\* is waited for fits the ring with the frames that are decoded before it.
ASSUME LaneAssumption ==
  /\ Ring \in Nat \ {0} /\ Lag \in Nat /\ ReadyFrames \in Nat \ {0} /\ MaxRuns \in Nat
  /\ Samples \in Seq(SUBSET Nat) /\ \A k \in DOMAIN Samples : IsFiniteSet(Samples[k])
  /\ Frames = 0 .. Cardinality(Frames) - 1
  /\ \A j, k \in DOMAIN Samples : j # k => Samples[j] \cap Samples[k] = {}
  /\ \A k \in DOMAIN Samples : Cardinality(Samples[k]) <= Ring
  /\ \A k \in DOMAIN Samples : ReadyFrames + Lag + Cardinality(Samples[k]) <= Ring + 1
  /\ \A i \in Frames : Displayed(0, SampleOf(i)) <= Ring + IF i < ReadyFrames THEN 0 ELSE i

VARIABLES host, worker, toWorker, toHost

vars == <<host, worker, toWorker, toHost>>

(***************************************************************************)
(* The host side: a run, its pump, and how a run and a lane end.           *)
(***************************************************************************)
NewRun ==
  [next |-> 0, outstanding |-> 0, seen |-> {}, buffered |-> {}, leased |-> {},
   taken |-> {}, started |-> FALSE, batch |-> FALSE, flushSent |-> FALSE,
   flushed |-> FALSE, closed |-> FALSE, awaits |-> "nothing"]

\* close() and fail(): the frames go back and whoever awaits is rejected.
Closed(r) ==
  [r EXCEPT !.closed = TRUE, !.buffered = {}, !.leased = {},
            !.outstanding = 0, !.awaits = "nothing"]

\* Mutant: the samples of one batch do not count against each other.
BatchEnd_Unreserved(r) ==
  Max({r.next} \cup
      {k \in r.next + 1 .. Len(Samples) :
         /\ k - r.next <= Ring
         /\ \A j \in r.next + 1 .. k :
              Displayed(j - 1, j) <= Ring - r.outstanding})

\* The samples that the credit of the lane has room for.
BatchEnd(r) ==
  Max({r.next} \cup
      {k \in r.next + 1 .. Len(Samples) :
         /\ k - r.next <= Ring
         /\ Displayed(r.next, k) <= Ring - r.outstanding})

Pumped(r) ==
  IF ~r.started \/ r.closed \/ r.batch \/ r.flushSent THEN r
  ELSE [r EXCEPT !.next = BatchEnd(r), !.batch = BatchEnd(r) > r.next,
                 !.outstanding = @ + Displayed(r.next, BatchEnd(r)),
                 !.flushSent = r.next = Len(Samples)]

Failed(h, why) == [h EXCEPT !.fault = why, !.phase = "terminal", !.run = Closed(@)]

Command(t, g) == [t |-> t, run |-> g, chunks |-> <<>>]
Event(t, g) == [t |-> t, run |-> g, frame |-> 0, why |-> "none"]

\* What pump() posts when it takes a run from r to p.
Posts(g, r, p) ==
  IF p.next > r.next
  THEN <<[t |-> "decode", run |-> g,
          chunks |-> [k \in 1 .. p.next - r.next |-> r.next + k]]>>
  ELSE IF p.flushSent /\ ~r.flushSent THEN <<Command("flush", g)>> ELSE <<>>

\* The host goes to h and posts; a lane that ends terminates its worker.
HostGoes(h, posts) ==
  /\ host' = h
  /\ IF h.phase = "terminal"
     THEN worker' = [worker EXCEPT !.phase = "terminal"] /\ toWorker' = <<>>
     ELSE UNCHANGED worker /\ toWorker' = toWorker \o posts

Live == host.phase # "terminal"
Open == host.phase \in {"running", "retained"}

(***************************************************************************)
(* The owner of the lane and of its runs.                                  *)
(***************************************************************************)
Available == host.configured /\ host.phase = "idle"

CreateRun ==
  /\ Available /\ host.gen < MaxRuns
  /\ HostGoes([host EXCEPT !.phase = "running", !.gen = @ + 1, !.run = NewRun],
              <<Command("start", host.gen + 1)>>)
  /\ UNCHANGED toHost

Cursor(r) == Cardinality(r.taken)

Satisfied(r) ==
  CASE r.awaits = "ready" ->
         {i \in Frames : i < ReadyFrames} \subseteq r.buffered \cup r.taken
    [] r.awaits = "frame" -> Cursor(r) \in r.buffered
    [] r.awaits = "complete" -> r.flushed
    [] OTHER -> FALSE

\* ready(), take() of the next frame and complete(), as the media runtime and
\* the stream owner call them: one frame at a time.
Await(what) ==
  /\ Open /\ host.run.awaits = "nothing" /\ host.run.leased = {}
  /\ CASE what = "ready" -> host.run.taken = {}
       [] what = "frame" -> host.run.taken # Frames
       [] what = "complete" -> host.run.taken = Frames
  /\ HostGoes([host EXCEPT !.run.awaits = what], <<>>)
  /\ UNCHANGED toHost

Resume ==
  /\ Open /\ Satisfied(host.run)
  /\ LET r == host.run
         i == Cursor(r)
     IN HostGoes(
          [host EXCEPT !.run =
             IF r.awaits = "frame"
             THEN [r EXCEPT !.awaits = "nothing", !.buffered = @ \ {i},
                            !.taken = @ \cup {i}, !.leased = {i}]
             ELSE [r EXCEPT !.awaits = "nothing"]], <<>>)
  /\ UNCHANGED toHost

\* release() and the creditChanged() it calls.
Released(h) ==
  LET r == [h.run EXCEPT !.leased = {}, !.outstanding = @ - 1]
  IN IF h.phase = "running" THEN Pumped(r) ELSE r

Release ==
  /\ Open /\ host.run.leased # {}
  /\ HostGoes([host EXCEPT !.run = Released(host)],
              Posts(host.gen, host.run, Released(host)))
  /\ UNCHANGED toHost

\* Mutant: a run that is closed leaves its lane idle.
CloseLeaves_Idle(p) == "idle"

CloseLeaves(p) == IF p = "retained" THEN "idle" ELSE "closing"

Close ==
  /\ Open
  /\ HostGoes([host EXCEPT !.run = Closed(@), !.phase = CloseLeaves(@)],
              IF host.phase = "running"
              THEN <<Command("close", host.gen)>> ELSE <<>>)
  /\ UNCHANGED toHost

Dispose == Live /\ HostGoes(Failed(host, "disposed"), <<>>) /\ UNCHANGED toHost

\* Mutant: the watchdog watches whether or not somebody waits.
Watched_Parked(h) ==
  \/ ~h.configured
  \/ /\ h.phase = "running"
     /\ \/ ~h.run.started \/ h.run.batch \/ h.run.flushSent
        \/ h.run.outstanding > Cardinality(h.run.buffered \cup h.run.leased)

\* The support watchdog, and the one of a run: it is armed while a caller
\* waits for progress that the worker owes.
Watched(h) ==
  \/ ~h.configured
  \/ /\ h.phase = "running" /\ h.run.awaits # "nothing" /\ ~Satisfied(h.run)
     /\ \/ ~h.run.started \/ h.run.batch \/ h.run.flushSent
        \/ h.run.outstanding > Cardinality(h.run.buffered \cup h.run.leased)

Watchdog ==
  Live /\ Watched(host) /\ HostGoes(Failed(host, "timeout"), <<>>) /\ UNCHANGED toHost

\* An error or messageerror event of the worker, or a post that throws.
TransportBreaks ==
  Live /\ HostGoes(Failed(host, "transport"), <<>>) /\ UNCHANGED toHost

(***************************************************************************)
(* What the host receives.                                                 *)
(***************************************************************************)
Ends(e) == e.t \in {"flushed", "closed"}

\* The events for which #receiveRun and DecodeRun.receive fail the lane.
OutOfTurn(h, e) ==
  \/ e.run > h.gen
  \/ (e.run < h.gen \/ h.phase = "idle") /\ ~Ends(e)
  \/ e.run = h.gen /\ h.phase = "retained"
  \/ /\ e.run = h.gen /\ h.phase = "running"
     /\ CASE e.t = "started" -> h.run.started
          [] e.t = "accepted" -> ~h.run.batch
          [] e.t = "closed" -> TRUE
          [] e.t = "flushed" -> \/ ~h.run.flushSent \/ h.run.batch
                                \/ h.run.next # Len(Samples)
                                \/ h.run.seen # Frames
          [] e.t = "frame" -> \/ e.frame \in h.run.seen
                              \/ SampleOf(e.frame) > h.run.next
                              \/ h.run.outstanding < 1

\* A run that is not closed receives an event.
Told(h, e) ==
  CASE e.t = "frame" -> [h EXCEPT !.run.seen = @ \cup {e.frame},
                                  !.run.buffered = @ \cup {e.frame}]
    [] e.t = "started" -> [h EXCEPT !.run = Pumped([@ EXCEPT !.started = TRUE])]
    [] e.t = "accepted" -> [h EXCEPT !.run = Pumped([@ EXCEPT !.batch = FALSE])]
    [] e.t = "flushed" -> [h EXCEPT !.run.flushed = TRUE, !.phase = "retained"]

\* Mutant: only the answer to a close ends a closing run.
Heard_ClosedOnly(h, e) ==
  IF OutOfTurn(h, e) THEN Failed(h, "protocol")
  ELSE IF h.phase = "running" THEN Told(h, e)
  ELSE IF h.phase = "closing" /\ e.run = h.gen /\ e.t = "closed"
  THEN [h EXCEPT !.phase = "idle"] ELSE h

Heard(h, e) ==
  IF OutOfTurn(h, e) THEN Failed(h, "protocol")
  ELSE IF h.phase = "running" /\ e.run = h.gen THEN Told(h, e)
  ELSE IF h.phase = "closing" /\ e.run = h.gen /\ Ends(e)
  THEN [h EXCEPT !.phase = "idle"] ELSE h

ReceiveTerminal ==
  ~Live /\ toHost # <<>> /\ toHost' = Tail(toHost) /\ UNCHANGED <<host, worker, toWorker>>

ReceiveConfigured ==
  /\ Live /\ toHost # <<>> /\ Head(toHost).t = "configured"
  /\ toHost' = Tail(toHost)
  /\ HostGoes([host EXCEPT !.configured = TRUE], <<>>)

ReceiveError ==
  /\ Live /\ toHost # <<>> /\ Head(toHost).t = "error"
  /\ toHost' = Tail(toHost)
  /\ HostGoes(Failed(host, Head(toHost).why), <<>>)

ReceiveRun ==
  /\ Live /\ toHost # <<>> /\ Head(toHost).t \notin {"configured", "error"}
  /\ toHost' = Tail(toHost)
  /\ LET h == Heard(host, Head(toHost))
     IN HostGoes(h, Posts(host.gen, host.run, h.run))

\* A frame that fails its validation, or does not fit the decoded byte ceiling.
RejectFrame ==
  /\ host.phase = "running" /\ toHost # <<>> /\ Head(toHost).t = "frame"
  /\ toHost' = Tail(toHost)
  /\ HostGoes(Failed(host, "output"), <<>>)

(***************************************************************************)
(* The worker and its VideoDecoder.                                        *)
(***************************************************************************)
Owns(w) == w.phase \in {"ready", "accepting", "flushing", "closing"}

WorkerGoes(w, events) ==
  worker' = w /\ toHost' = toHost \o events /\ UNCHANGED host

\* The commands for which handle() throws.
Misuse(w, c) ==
  CASE c.t = "configure" -> w.phase # "unconfigured"
    [] c.t = "start" -> w.phase # "idle" \/ c.run <= w.run
    [] c.t \in {"decode", "flush"} -> w.phase # "ready" \/ c.run # w.run
    [] c.t = "close" -> c.run > w.run \/ (w.phase # "idle" /\ ~Owns(w))

\* pump(): samples go to the decoder while its queue has room.
Fed(w) ==
  LET k == Min({Len(w.pending), Ring - Len(w.queue)})
  IN [w EXCEPT !.queue = @ \o SubSeq(w.pending, 1, k),
               !.pending = SubSeq(@, k + 1, Len(@)),
               !.phase = IF k = Len(w.pending) THEN "ready" ELSE "accepting"]

Handled(w, c) ==
  CASE c.t = "configure" -> [w EXCEPT !.phase = "configuring"]
    [] c.t = "start" -> [phase |-> "ready", run |-> c.run, pending |-> <<>>,
                         queue |-> <<>>, held |-> {}, given |-> 0]
    [] c.t = "decode" -> Fed([w EXCEPT !.pending = c.chunks])
    [] c.t = "flush" -> [w EXCEPT !.phase = "flushing"]
    [] c.t = "close" ->
         IF Owns(w) /\ c.run = w.run THEN [w EXCEPT !.phase = "closing"] ELSE w

Accepted(w) == IF w.phase = "ready" THEN <<Event("accepted", w.run)>> ELSE <<>>

ErrorEvent(why) == [Event("error", 0) EXCEPT !.why = why]

WorkerReceive ==
  /\ worker.phase # "terminal" /\ toWorker # <<>>
  /\ toWorker' = Tail(toWorker)
  /\ LET c == Head(toWorker)
         w == Handled(worker, c)
     IN IF Misuse(worker, c)
        THEN WorkerGoes([worker EXCEPT !.phase = "terminal"],
                        <<ErrorEvent("protocol")>>)
        ELSE WorkerGoes(w, IF c.t = "start" THEN <<Event("started", c.run)>>
                           ELSE IF c.t = "decode" THEN Accepted(w) ELSE <<>>)

\* isConfigSupported answers.
Supported ==
  /\ worker.phase = "configuring"
  /\ WorkerGoes([worker EXCEPT !.phase = "idle"], <<Event("configured", 0)>>)
  /\ UNCHANGED toWorker

Unsupported ==
  /\ worker.phase = "configuring"
  /\ WorkerGoes([worker EXCEPT !.phase = "terminal"], <<ErrorEvent("unsupported")>>)
  /\ UNCHANGED toWorker

\* A dequeue event of the decoder.
Dequeued ==
  /\ worker.phase = "accepting" /\ Len(worker.queue) < Ring
  /\ WorkerGoes(Fed(worker), Accepted(Fed(worker)))
  /\ UNCHANGED toWorker

Decode ==
  /\ Owns(worker) /\ worker.queue # <<>>
  /\ WorkerGoes([worker EXCEPT !.queue = Tail(@),
                               !.held = @ \cup Samples[Head(worker.queue)]], <<>>)
  /\ UNCHANGED toWorker

\* output(): the frames of a run that closes are closed in the worker.
Gives(w) ==
  IF w.phase = "closing" THEN <<>>
  ELSE <<[Event("frame", w.run) EXCEPT !.frame = w.given]>>

Output ==
  /\ Owns(worker) /\ worker.given \in worker.held
  /\ WorkerGoes([worker EXCEPT !.given = @ + 1, !.held = @ \ {worker.given}],
                Gives(worker))
  /\ UNCHANGED toWorker

FlushDone(w) == w.phase = "flushing" /\ w.queue = <<>> /\ w.held = {}

Retired(w) == [w EXCEPT !.phase = "idle", !.pending = <<>>, !.queue = <<>>, !.held = {}]

FinishFlush ==
  /\ FlushDone(worker)
  /\ WorkerGoes(Retired(worker), <<Event("flushed", worker.run)>>)
  /\ UNCHANGED toWorker

\* A close ends with its flush or, CLOSE_MS later, without it.
FinishClose ==
  /\ worker.phase = "closing"
  /\ WorkerGoes(Retired(worker), <<Event("closed", worker.run)>>)
  /\ UNCHANGED toWorker

\* decoderError, a decode() that throws, a flush that is rejected.
DecoderFails ==
  /\ Owns(worker)
  /\ WorkerGoes([worker EXCEPT !.phase = "terminal"], <<ErrorEvent("decoder")>>)
  /\ UNCHANGED toWorker

-----------------------------------------------------------------------------
Init ==
  /\ host = [configured |-> FALSE, phase |-> "idle", gen |-> 0, fault |-> "none",
             run |-> Closed(NewRun)]
  /\ worker = [phase |-> "unconfigured", run |-> 0, pending |-> <<>>,
               queue |-> <<>>, held |-> {}, given |-> 0]
  /\ toWorker = <<Command("configure", 0)>>
  /\ toHost = <<>>

OwnerNext ==
  \/ CreateRun \/ Resume \/ Release \/ Close \/ Dispose
  \/ \E what \in {"ready", "frame", "complete"} : Await(what)

HostNext ==
  \/ ReceiveTerminal \/ ReceiveConfigured \/ ReceiveError \/ ReceiveRun
  \/ RejectFrame \/ Watchdog \/ TransportBreaks

WorkerNext ==
  \/ WorkerReceive \/ Supported \/ Unsupported \/ Dequeued \/ Decode \/ Output
  \/ FinishFlush \/ FinishClose \/ DecoderFails

Next == OwnerNext \/ HostNext \/ WorkerNext

Spec == Init /\ [][Next]_vars

\* The decoder gives a frame out when it holds more than Lag, or is flushed.
MustOutput == Cardinality(worker.held) > Lag \/ worker.phase = "flushing"

Fairness ==
  /\ WF_vars(ReceiveConfigured) /\ WF_vars(ReceiveError) /\ WF_vars(ReceiveRun)
  /\ WF_vars(Resume)
  /\ WF_vars(WorkerReceive) /\ WF_vars(Supported) /\ WF_vars(Dequeued)
  /\ WF_vars(Decode) /\ WF_vars(MustOutput /\ Output)
  /\ WF_vars(FinishFlush) /\ WF_vars(FinishClose)

FairSpec == Spec /\ Fairness
=============================================================================
