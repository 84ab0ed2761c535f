------------------------ MODULE DecoderLaneProperties ------------------------
(***************************************************************************)
(* What a decoder lane promises to the pool that owns it.                  *)
(***************************************************************************)
EXTENDS DecoderLane

\* A lane that is offered for a new run has nothing left of the last one: its
\* worker is idle, no event is on its way, and no command but a late close.
AvailableIsQuiet ==
  Available => /\ worker.phase = "idle" /\ worker.run = host.gen
               /\ toHost = <<>>
               /\ \A k \in DOMAIN toWorker :
                    toWorker[k].t = "close" /\ toWorker[k].run <= host.gen

\* Host and worker never break their protocol: whatever is still on its way
\* when a run is closed, flushed or replaced, no side receives a message it
\* fails on (#receiveRun, DecodeRun.receive, handle of the worker), and the next
\* run starts on a lane that is quiet.
ProtocolHolds == host.fault # "protocol" /\ AvailableIsQuiet

\* The frames of a lane, wherever they are: held by the decoder, on their way
\* to the host, buffered or leased.  Those of a closed run count until they
\* are closed: the next run does not add its own to them.
Surfaces ==
  (IF Owns(worker) THEN Cardinality(worker.held) ELSE 0)
    + Cardinality({k \in DOMAIN toHost : toHost[k].t = "frame"})
    + Cardinality(host.run.buffered \cup host.run.leased)

\* The surfaces of a lane never exceed its ring, and the credit of an open run
\* covers every one of its own.
SurfacesBounded ==
  /\ Surfaces <= Ring
  /\ Open => Surfaces <= host.run.outstanding /\ host.run.outstanding <= Ring

\* The worker has something to do that it was asked for.
Owed ==
  \/ toWorker # <<>> \/ toHost # <<>>
  \/ worker.phase \in {"configuring", "accepting", "flushing"}
  \/ worker.queue # <<>> \/ Cardinality(worker.held) > Lag

\* The progress watchdog never runs against a worker that has done all it was
\* asked for, so a run that is parked with its ring full is never failed.
WatchdogJust == Live /\ Watched(host) => Owed

\* Whoever waits for a frame, for readiness or for the end of a run hears of
\* it, or of its failure, with no help of the watchdog; and a lane that closes
\* is idle in the end.
LaneProgresses ==
  /\ host.run.awaits # "nothing" ~> host.run.awaits = "nothing"
  /\ host.phase = "closing" ~> host.phase \in {"idle", "terminal"}
=============================================================================
