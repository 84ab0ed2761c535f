--------------------------- MODULE AssetTransport ---------------------------
(***************************************************************************)
(* The transport of one asset: asset.ts.  An asset is opened by at most    *)
(* three requests, of which any may be answered with the whole file; then  *)
(* units are loaded in ranges, by as many requests at once as there are    *)
(* bodies, and shared by whoever is interested in them.                    *)
(*                                                                         *)
(* `opening` is Asset.open(), from request to request.  `asset` is what    *)
(* the object and its metrics keep, and the loads and the interests that   *)
(* refer to it.  A load runs from await to await; an action is one such    *)
(* stretch, or a call, a timer, or an answer of the network; microtasks of *)
(* one stretch are not interleaved with those of another.  The timers of a *)
(* request are an answer that does not come: they end the request alone,   *)
(* as an error of the network does.                                        *)
(***************************************************************************)
EXTENDS WaitingList, FiniteSets

CONSTANTS Units,         \* the units of the asset
          Ranges,        \* how many ranges the bytes of a unit take
          Bodies,        \* how many bodies are read at once (4 in the code)
          MaxLoads,      \* how many loads are pending at once (bound)
          MaxInterests   \* how many calls of unitBytes() wait at once (bound)

ASSUME TransportAssumption ==
  /\ Units # {} /\ Ranges \in [Units -> Nat \ {0}]
  /\ Bodies \in Nat \ {0} /\ MaxLoads \in Nat /\ MaxInterests \in Nat

VARIABLES opening, asset

transportVars == <<opening, asset>>

Loads == 1 .. MaxLoads
Interests == 1 .. MaxInterests

(***************************************************************************)
(* Asset.open().                                                           *)
(***************************************************************************)
\* With an integrity the file is asked for as a whole, else by its header.
Requested(stage) == [step |-> "requested", stage |-> stage, whole |-> FALSE, aborted |-> FALSE]

OpenInit == opening \in {Requested("header"), Requested("whole")}

NextStage(stage) == IF stage = "header" THEN "manifest" ELSE "index"

EndOpening(step) ==
  /\ opening' = [Requested("none") EXCEPT !.step = step]
  /\ asset' = [asset EXCEPT !.active = @ - 1,
                            !.mode = IF step = "open" /\ opening.whole THEN "full" ELSE @,
                            !.file = step = "open" /\ opening.whole]

(* The answer is the range that was asked for, the whole file, neither, or *)
(* a header without a strong tag, after which the file is asked for whole. *)
OpenResponds(answer) ==
  /\ opening.step = "requested" /\ ~opening.aborted
  /\ CASE answer = "whole" ->
            /\ opening' = [opening EXCEPT !.step = "reading", !.whole = TRUE]
            /\ UNCHANGED asset
       [] answer = "range" /\ opening.stage # "whole" ->
            /\ opening' = [opening EXCEPT !.step = "reading"]
            /\ UNCHANGED asset
       [] answer = "untagged" /\ opening.stage = "header" ->
            /\ opening' = Requested("whole")
            /\ UNCHANGED asset
       [] OTHER -> EndOpening("failed")

OpenBodyEnds(ok) ==
  /\ opening.step = "reading" /\ ~opening.aborted
  /\ IF ~ok THEN EndOpening("failed")
     ELSE IF opening.whole \/ opening.stage = "index" THEN EndOpening("open")
     ELSE /\ opening' = Requested(NextStage(opening.stage))
          /\ UNCHANGED asset

OpenInterrupted ==
  /\ opening.step \in {"requested", "reading"} /\ opening.aborted
  /\ EndOpening("failed")

(***************************************************************************)
(* Loads.  A load is                                                       *)
(*   "new"        until the microtask that begins it                       *)
(*   "queued"     for a body, "admitted" when it has one                   *)
(*   "requested"  and "reading" a range, or the whole file that answers it *)
(*   "rejected"   when it was aborted in the queue                         *)
(*   "verifying"  the digest of its bytes                                  *)
(* and nothing refers to one that has settled, so that its name is free    *)
(* again.  Whoever waits is told by the load: with its bytes or an error.  *)
(***************************************************************************)
NoLoad == [unit |-> CHOOSE u \in Units : TRUE, step |-> "none", ranges |-> 0,
           whole |-> FALSE, aborted |-> FALSE, waiters |-> {}]

Pending(a) == {l \in Loads : a.load[l].step # "none"}

Waiting(a, i) == \E l \in Loads : i \in a.load[l].waiters

Listed(a, l) == a.listed[a.load[l].unit] = l

\* The load settles with all who still wait for it, and leaves the list if
\* it is the one that is listed.
\* Mutant: whichever load of the unit is listed leaves with it.
Settle_Any(a, l) == [a EXCEPT !.load[l] = NoLoad, !.listed[a.load[l].unit] = 0]

Settle(a, l) ==
  [a EXCEPT !.load[l] = NoLoad, !.listed[a.load[l].unit] = IF @ = l THEN 0 ELSE @]

\* A body that is free goes to the first in the queue.
\* Mutant: the body is counted free although it was handed over.
Release_Uncounted(a) ==
  [a EXCEPT !.bodies = @ - 1,
            !.queue = IF @ = <<>> THEN @ ELSE Tail(@),
            !.load = IF a.queue = <<>> THEN @ ELSE [@ EXCEPT ![Head(a.queue)].step = "admitted"]]

Release(a) ==
  IF a.queue = <<>> THEN [a EXCEPT !.bodies = @ - 1]
  ELSE [a EXCEPT !.queue = Tail(@), !.load[Head(a.queue)].step = "admitted"]

Acquire(a, l) ==
  IF a.bodies < Bodies
  THEN [a EXCEPT !.bodies = @ + 1, !.load[l].step = "admitted"]
  ELSE [a EXCEPT !.queue = Append(@, l), !.load[l].step = "queued"]

Verify(a, l) == [a EXCEPT !.load[l].step = "verifying", !.load[l].ranges = 0, !.load[l].whole = FALSE]

\* The next range, unless the file has come meanwhile.
Proceed(a, l) ==
  IF a.load[l].aborted THEN Settle(a, l)
  ELSE IF a.file THEN Verify(a, l)
  ELSE Acquire(a, l)

\* An aborted load leaves the queue at once; the request of one that has a
\* body is interrupted.
Aborted(load) == [load EXCEPT !.aborted = TRUE, !.step = IF @ = "queued" THEN "rejected" ELSE @]

Abort(a, l) == [a EXCEPT !.queue = Without(@, l), !.load[l] = Aborted(@)]

Step(l, step) == opening.step = "open" /\ l \in Loads /\ asset.load[l].step = step

LoadStarts(l) ==
  /\ Step(l, "new")
  /\ asset' = IF asset.file THEN Verify(asset, l) ELSE Proceed(asset, l)

Admitted(l) ==
  /\ Step(l, "admitted")
  /\ asset' = IF asset.load[l].aborted THEN Settle(Release(asset), l)
              ELSE [asset EXCEPT !.load[l].step = "requested", !.active = @ + 1]

RequestEnds(a, l) == Release([a EXCEPT !.active = @ - 1])

Responds(l, answer) ==
  /\ Step(l, "requested") /\ ~asset.load[l].aborted
  /\ asset' = IF answer \in {"range", "whole"}
              THEN [asset EXCEPT !.load[l].step = "reading", !.load[l].whole = answer = "whole"]
              ELSE Settle(RequestEnds(asset, l), l)

\* The first whole file that comes is kept, and what was read in ranges is
\* dropped for it.
Install(a) == IF a.file THEN a ELSE [a EXCEPT !.mode = "full", !.file = TRUE, !.cache = {}]

BodyEnds(l, ok) ==
  /\ Step(l, "reading") /\ ~asset.load[l].aborted
  /\ LET a == RequestEnds(asset, l)
         read == [a EXCEPT !.load[l].ranges = @ + 1]
     IN  asset' = IF ~ok THEN Settle(a, l)
                  ELSE IF a.load[l].whole THEN Verify(Install(a), l)
                  ELSE IF a.file \/ read.load[l].ranges = Ranges[a.load[l].unit]
                  THEN Verify(read, l)
                  ELSE Proceed(read, l)

\* Mutant: an abort reaches a body that is read, but no request that has
\* not been answered.
Interrupted_ReadingOnly(l) ==
  /\ Step(l, "reading")
  /\ asset.load[l].aborted
  /\ asset' = Settle(RequestEnds(asset, l), l)

Interrupted(l) ==
  /\ Step(l, "requested") \/ Step(l, "reading")
  /\ asset.load[l].aborted
  /\ asset' = Settle(RequestEnds(asset, l), l)

Rejected(l) ==
  /\ Step(l, "rejected")
  /\ asset' = Settle(asset, l)

\* Mutant: bytes that arrive for nobody are kept all the same.
Verified_Always(l, ok) ==
  /\ Step(l, "verifying")
  /\ asset' = IF ~ok THEN Settle(asset, l)
              ELSE Settle([asset EXCEPT !.cache = @ \cup {asset.load[l].unit}], l)

Verified(l, ok) ==
  /\ Step(l, "verifying")
  /\ asset' = IF ~ok \/ asset.load[l].aborted \/ asset.disposal # "none" THEN Settle(asset, l)
              ELSE Settle([asset EXCEPT !.cache = @ \cup {asset.load[l].unit}], l)

\* One timer for all the ranges of a unit.
TimesOut(l) ==
  /\ opening.step = "open" /\ l \in Pending(asset) /\ ~asset.load[l].aborted
  /\ asset' = Abort(asset, l)

(***************************************************************************)
(* Calls.                                                                  *)
(***************************************************************************)
\* unitBytes() of a unit that is not there yet.
UnitBytes(i, u, l) ==
  /\ opening.step = "open" /\ asset.disposal = "none"
  /\ ~Waiting(asset, i) /\ u \notin asset.cache
  /\ IF asset.listed[u] # 0
     THEN l = asset.listed[u] /\ asset' = [asset EXCEPT !.load[l].waiters = @ \cup {i}]
     ELSE /\ l \notin Pending(asset) /\ 1 .. l - 1 \subseteq Pending(asset)
          /\ asset' = [asset EXCEPT !.listed[u] = l,
                        !.load[l] = [NoLoad EXCEPT !.unit = u, !.step = "new", !.waiters = {i}]]

\* The signal of an interest: the last to leave stops the load.
LoseInterest(i, l) ==
  /\ i \in asset.load[l].waiters
  /\ LET a == [asset EXCEPT !.load[l].waiters = @ \ {i}]
     IN  asset' = IF a.load[l].waiters = {} /\ Listed(a, l)
                  THEN Abort([a EXCEPT !.listed[a.load[l].unit] = 0], l)
                  ELSE a

\* Every load that is listed is aborted, and with it all that are queued.
Dispose(a) ==
  IF a.disposal # "none" THEN a
  ELSE [a EXCEPT !.disposal = "pending", !.queue = <<>>,
                 !.load = [l \in Loads |-> IF l \in Pending(a) /\ Listed(a, l)
                                            THEN Aborted(@[l]) ELSE @[l]]]

\* Every load that was pending has settled.
Disposed ==
  /\ asset.disposal = "pending" /\ Pending(asset) = {}
  /\ asset' = [asset EXCEPT !.disposal = "done", !.cache = {}, !.file = FALSE]

\* The signal of the caller, and dispose().
CallerAborts ==
  IF opening.step = "open" THEN asset' = Dispose(asset) /\ UNCHANGED opening
  ELSE /\ opening.step # "failed"
       /\ opening' = [opening EXCEPT !.aborted = TRUE]
       /\ UNCHANGED asset

(***************************************************************************)
(* The specification.                                                      *)
(***************************************************************************)
TransportInit ==
  /\ OpenInit
  /\ asset = [mode |-> "range", file |-> FALSE, cache |-> {}, active |-> 1, bodies |-> 0,
              queue |-> <<>>, listed |-> [u \in Units |-> 0], disposal |-> "none",
              load |-> [l \in Loads |-> NoLoad]]

\* What runs by itself once it is due.
Turn(l) == LoadStarts(l) \/ Admitted(l) \/ Interrupted(l) \/ Rejected(l)

\* What the network, the digest and the timers bring.
Answer(l) ==
  \/ \E answer \in {"range", "whole", "bad"} : Responds(l, answer)
  \/ \E ok \in BOOLEAN : BodyEnds(l, ok) \/ Verified(l, ok)
  \/ TimesOut(l)

Call(l) == \E i \in Interests : LoseInterest(i, l) \/ \E u \in Units : UnitBytes(i, u, l)

TransportNext ==
  \/ \E answer \in {"range", "untagged", "whole", "bad"} : OpenResponds(answer)
  \/ \E ok \in BOOLEAN : OpenBodyEnds(ok)
  \/ OpenInterrupted
  \/ UNCHANGED opening /\ (Disposed \/ \E l \in Loads : Turn(l) \/ Answer(l) \/ Call(l))
  \/ CallerAborts

TransportSpec == TransportInit /\ [][TransportNext]_transportVars
=============================================================================
