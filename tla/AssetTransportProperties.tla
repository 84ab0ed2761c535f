---------------------- MODULE AssetTransportProperties ----------------------
(***************************************************************************)
(* What the transport of an asset promises the media: no body is lost, no  *)
(* load runs for nobody, and everyone is answered.                         *)
(***************************************************************************)
EXTENDS AssetTransport

InStep(steps) == {l \in Loads : asset.load[l].step \in steps}

(* The bodies that are counted are those that are read, whoever aborts,    *)
(* fails or is handed a body meanwhile; nobody waits for one that is free, *)
(* and the queue is of those who wait (#acquireBody and #releaseBody); the *)
(* requests that are counted are those under way, and none of them is left *)
(* once the disposal is done.                                              *)
BodiesCounted ==
  /\ asset.bodies = Cardinality(InStep({"admitted", "requested", "reading"}))
  /\ asset.bodies <= Bodies
  /\ asset.queue # <<>> => asset.bodies = Bodies
  /\ {asset.queue[k] : k \in DOMAIN asset.queue} = InStep({"queued"})
  /\ Len(asset.queue) = Cardinality(InStep({"queued"}))
  /\ asset.active = Cardinality(InStep({"requested", "reading"}))
                      + (IF opening.step \in {"requested", "reading"} THEN 1 ELSE 0)
  /\ asset.disposal = "done" => Pending(asset) = {} /\ asset.cache = {} /\ ~asset.file

(* A load that goes on is listed and somebody waits for it; one that       *)
(* nobody waits for is aborted and not listed, so that no unit is read     *)
(* twice for people who wait, and a load that was left does not end the    *)
(* one that was started after it (#attach and unitBytes).                  *)
LoadsWanted ==
  /\ \A l \in Pending(asset) : ~asset.load[l].aborted => Listed(asset, l)
  /\ \A u \in Units : asset.listed[u] # 0 =>
       /\ asset.listed[u] \in Pending(asset)
       /\ asset.load[asset.listed[u]].waiters # {}
  /\ \A l, k \in Pending(asset) : l # k =>
       asset.load[l].waiters \cap asset.load[k].waiters = {}

(* Bytes are kept for those who get them, and not once the disposal has    *)
(* begun or their load was aborted, while the digest was worked out too.   *)
KeptForSomeone ==
  [][\A u \in asset'.cache \ asset.cache :
       /\ asset.disposal = "none"
       /\ \E l \in Pending(asset) \ Pending(asset') :
            asset.load[l].unit = u /\ asset.load[l].waiters # {} /\ ~asset.load[l].aborted]_asset

----------------------------------------------------------------------------
(* What is due runs, a digest ends, and time passes: a load that is not    *)
(* aborted comes to its timer.  No server has to answer.                   *)
Due(l) == Turn(l) \/ TimesOut(l) \/ \E ok \in BOOLEAN : Verified(l, ok)

Fairness ==
  /\ WF_transportVars(UNCHANGED opening /\ Disposed)
  /\ \A l \in Loads : WF_transportVars(UNCHANGED opening /\ Due(l))

FairTransport == TransportSpec /\ Fairness

(* Whoever asks for a unit is answered within the timers, and the disposal *)
(* ends.  The interests are alike, so that it is said of the first one.    *)
Answered ==
  /\ Waiting(asset, 1) ~> ~Waiting(asset, 1)
  /\ asset.disposal = "pending" ~> asset.disposal = "done"
=============================================================================
