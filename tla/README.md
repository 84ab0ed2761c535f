# A formal model of AVAL

AVAL plays interactive video: an authored *motion graph* of states, joined by
edges, each with its own frames.  A custom element downloads a container, decodes
it frame by frame, and moves between states as the page asks.  These modules model
the parts of the repository in which order matters - who may do what while
something else is in flight - and check them with TLC; for the engine at the core
and for the session that publishes it the invariants are proved with TLAPS for every
graph, and so are those of the page and its one decoder permit, of the transport of
an asset, of a decoder with its worker and of the players of an element, for any
number of those that take part, and of the media of a player, for every graph.

Contents: [the system](#the-system), [plan](#plan), [modules](#modules),
[runs](#runs), [bounds](#bounds), [fairness](#fairness), [proofs](#proofs),
[divergences](#divergences-from-the-documents), [limits](#what-is-not-modelled).

## The system

One thread runs one callback at a time; a step of a model is what runs between two
awaits.  Concurrency is what happens at the awaits: a command, an animation frame,
a decoder message, a timer or a lost context finds state that a suspended
continuation has already read.

| component | state | operations | hard behaviour | what makes it correct |
|---|---|---|---|---|
| **Motion graph engine** (`graph/src/engine.ts`) | phase, readiness, visual and requested state, presentation, four route slots, the pending request group, input window | install, begin, request, send, tick, recover, fail, dispose | long legal call sequences; inputs in the middle of a transition; recovery anywhere | every request is settled once and at its target; the requested state is where the routes lead; nothing throws |
| **Graph validation** (`validate.ts`, `portal-search.ts`) | none | validate, searches over frames | off-by-one at the seam of a loop, cycles of completions | what is accepted can be played within its authored wait |
| **Player session** (`player-session*.ts`) | preparation, frame callback, draw in flight, promises, recovery, retirement, terminal work | prepare, setState, send, pause, resume, suspend, motion, context loss, dispose | every await is a place where it may be overtaken | promises kept, no lost wakeup, no stale publication |
| **Page decoder permit** (`page-resources.ts`, `element-page-resource-owner.ts`) | queue of tickets and one permit per document, bytes | ask, grant, release, hide, adopt, dispose | grants arrive a microtask late; releases run other elements' code | one holder, never idle while somebody visible waits |
| **Route prefetch** (`route-prefetch.ts`) | ordered entries, each loading, loaded, preparing, ready or canceled | reconcile, claim, wake, retire | loads and runs finish in any order, while the plan changes | only the head owns a decoder run; a plan is met in the end |
| **Decoder pool** (`decoder-pool.ts`) | two lanes, foreground and candidate run, bytes | create, ready, commit, cancel, dispose | a candidate that is committed after it was closed | lanes never share a run, none is left open |
| **Presentation streams** (`player-media-stream.ts`, `player-media-runtime.ts`) | active stream, leases, finalizations, drains | acquire, draw, finalize, cancel, retire | retirement between acquisition and draw | every run that was taken is closed once |
| **Decoder and worker** (`decoder.ts`, `decoder-worker.ts`) | credits, generations of runs, frames held | create, feed, take, release, flush, reset | messages of an old generation | frames in order, each closed once |
| **Element runtime session** (`element-runtime-session.ts`, `lifecycle-lane.ts`) | lane of generations, current, suspended and retiring players, play sequence | connect, reload, resume, hide, dispose | a superseded generation runs on until its next check | one player at a time, disposal completes |
| **Candidate selection** (`provisional-startup.ts`, `player-media-candidate.ts`, `player-media-admission-authority.ts`) | candidate cursor, admitted resources | next, qualify, select, retire | failure of the retirement of what failed | never two candidates at once |
| **Publication gate** (`player-publication-gate.ts`) | queue of callbacks | publish, activate, discard | callbacks that publish while the queue is flushed | order kept, nothing after a discard |
| **Asset transport** (`asset.ts`) | ranges, retained bytes, requests | open, read, retire | abort races a response | bytes accounted, requests end |
| **Renderers** (`webgl2-*`, `canvas2d-*`, `renderer-operation-coordinator.ts`) | textures, operations under way | draw, store, dispose | lost contexts | operations are serialized |
| **Element host** (`aval-element.ts`, bindings, event gate) | snapshot, attributes, deferred mutations | attributes, events, input | listeners that mutate the element | mutations are neither lost nor early |
| **Container format** (`format/src`) | none | parse, validate, write | offsets at the limits of integers | accepted ranges do not overlap |
| **Compiler** (`compiler/src`) | files, child processes | compile, publish, serve | a crash between two renames; a child that does not die | a bundle is whole or absent |
| **Certification, adapters, playground, scripts** | - | - | sequential, or demonstrations | - |

How they interact: the element owns one runtime session; each of its generations
asks the page for the decoder permit, selects a candidate, and gets a player.  The
player's session owns the engine: it previews a tick, acquires the media of the
presentation that the tick will show, commits the tick, draws, and publishes the
effects of the tick around the draw.  The media runtime asks the route prefetch for
runs, the prefetch asks the pool, the pool the decoders, the decoders their worker.
Failure and suspension go the other way: media to session, session to engine
(`recoverStatic`) and element (`onAnimationResourcesRetired`), element to page.

`PROJECT.json` lists every component with its sources and its hazards with their
lines.

## Plan

1. *Done.* The engine and its validation: `MotionGraph`, proved.
2. *Done.* The session that publishes it: `PlayerSession`, proved.
3. *Done.* The permit between elements: `PageResources`, proved.
4. *Done.* A decoder and its worker: `DecoderLane`, its safety proved.
5. *Done.* Who owns a decoder run, from the plan to the draw: `RoutePrefetch` and
   `PlayerMedia`, composed with the engine that says what is to be shown; its safety
   proved.
6. *Done.* Generations of players on the lifecycle lane, with resumption, disposal
   that is retried, and the order in which candidates are tried: `ElementRuntime`,
   its safety proved.
7. *Done.* The loads of an asset: `AssetTransport`, its safety proved.
8. The publication gate of a player that is not yet the current one, and the gate of
   the element host that defers what a listener mutates: two queues whose callbacks
   add to them while they are flushed.
9. The compiler's publication of a bundle (a crash between two renames) and its
   runner of child processes (a child that does not die); the range checks of the
   format as pure operators.
10. The operation coordinator of the renderers.

## Modules

**`GraphDefinition`** is the authored graph: states with bodies and ports, edges
with start policies and transitions, as records; and the arithmetic of frames
(`portal-search.ts`): the next portal, the finish, the greatest wait.  A body's
search is about frames only, so `BodyCursor` checks it alone, and the validator's walk
over completions about edges only, so `CompletionGraph` checks it on graphs that are
authored edge by edge.

**`GraphValidation`** is `validateMotionGraph`: `Valid(d)` conjoins its rules.
`NoImmediateCompletionCycle` is the walk the code takes, and not a closure.

**`MotionGraph`** is `MotionGraphEngine` with the objects it owns.  Every public
operation is one step; an operation whose plan has several outcomes (`request`,
`send`) has an action for each outcome of the intent router, and `Tick` one for each
handler of a phase.  `effects` is what the operation returns.  An operation that
throws changes nothing in the code and is no action, apart from those whose refusal
is an answer: `RequestRefused` settles a new id at once.  A preview is a tick that is
not taken.

**`MotionGraphProperties`** adds what was settled so far and states the properties.
**`LatestWins`** is the abstract specification: a group of requests waits for one
target; another target supersedes the group, and it is fulfilled or rejected as one.
The engine implements it, the waiting group and the two sets of ids being the
mapping; a run shows it for two graphs, `MotionGraphProofs` proves it for all.

**`PlayerSession`** extends the engine with the session: a step of it makes at most
one engine call and publishes (`told`) what `PlayerSessionEffects` would.
`tickDraw` is a draw in flight and carries the effects that follow it; commands that
make it stale keep it in flight but not `current`.  `raf` is the scheduler's frame
request.  Media, draws and retirement are environment actions that take any time and
may fail.  The session is used the way `ElementRuntimeSession` uses it: activated
before it is prepared, published after.

**`PageResources`** has the pages, with their queues, and the owner of each element,
called in the orders in which `element-runtime-session.ts` calls them.  A ticket and
a lease are named by the generation that asked: a generation asks once, and the
comparisons of claim sequence, participant and generation change with the ticket
only.  The operations of a page, which may nest (a release drains the queue), are
functions of the record `res`; an action of an element composes them.  A grant is
delivered by `Deliver`, a microtask after the release that granted it.  A player is
a `phase`: it starts, waits for the permit in static mode, is animated, is
suspended or reduced.  Whether a player that waited had been suspended is left open
where the code depends on the player.

**`DecoderLane`** is one `Decoder` with the run it created last (`host`), its worker
(`worker`) and the two message channels between them, which keep order.  A step
handles one message, one timer or one call of the owner, with all that it posts; the
pump of a run is part of the step that gives it credit.  The `VideoDecoder` in the
worker is external: `Decode` takes a sample, `Output` gives the next frame in display
order, and up to `Lag` frames may be held back until a flush.  The owner awaits one
thing at a time, as the media runtime does: readiness, then each frame, which it
releases before it takes the next, then completion.  It may close the run at any
moment.

**`RoutePrefetch`** extends the engine with what is to be decoded next.
`Plan(s, streamed, ready)` is `planRoutePrefetch` for a snapshot `s`: units, the most
urgent first, from the routes the engine holds or, without one, from what the body
will do by itself.  `queue` is `RoutePrefetchQueue`: the entries load at the same
time, and the head alone gets a run.  `lanes` and `foreground` are the pool; a run is
named by the lane it is on, since a lane has one at a time.  The operators take the
record `m = [queue, lanes, foreground]`, as one stretch of code may apply several.

**`PlayerMedia`** is `PlayerMediaRuntime` with `PlayerMediaStreamOwner`, under the
frame loop of the session.  `stage` is how far the player has come, `work` the
foreground run of the preparation, `stored` the units that stay decoded, `playing`
what is on the screen, `drawing` a draw with the lease it holds.  `Advance` takes the
next tick of the engine with the run it needs, `Drawn` commits the lease, swaps the
lanes and closes the old run; `Retire` may come at any time and closes what has an
owner, `WorkAborts` and `DrawAborts` are the continuations that find out.

**`ElementRuntime`** is `ElementRuntimeSession` with its lifecycle lane and the
startup of a player (`player.ts`, `provisional-startup.ts`).  `el` is what
synchronous code reads and writes, and `op` where the operation at the head of the
lane stands; an operation runs from one await to the next.  Players are numbered in
the order they are made.  A player is what the session sees of it: why it is static,
whether it is prepared, recovering, paused, published, disposed, retired.  The page
answers a claim either way.  A load is named by what it awaits (a generation, a
suspension), because `resume` compares loads to find out that it was overtaken.
Microtasks come first: `MicrotaskDue` says when one is, and events and what is awaited
from outside wait until none is left; a call of the application waits for nothing.

**`WaitingList`** is a list that entries may leave from anywhere: the queue of a page
and the one for a body.

**`AssetTransport`** is `Asset`: `opening` is `open()`, `asset` the object and its
metrics, with the loads that are under way.  A load runs from await to await; it is
named by a number that is free again when it has settled.  The timer of one request
is an answer that does not come; the timer of a unit (`TimesOut`), the signal of a
caller (`LoseInterest`) and the disposal are actions of their own.  Checks of an
answer are its choice among a range, the whole file, and neither.

The properties of each are in a module of its name with `Properties`; proofs in one
with `Proofs`; instances, small graphs and scenes in one with `MC`.

A definition with a suffix (`QueueReversal_KeepsFollowOn`) is a mutant: the
definition it is named after with a plausible mistake in it.  `PROJECT.json` names
the property each mutant breaks; the specification never uses one.

## Runs

| run | question | what it shows |
|---|---|---|
| `graph` | Does any order of inputs, ticks, recoveries and failures on two authored graphs make the engine contradict itself, or leave a request unanswered? | No: routes fit phases, the requested state is where they lead, transition events nest, settlements are latest-wins, and every request of an engine that goes on animating is settled. |
| `validation` | Can the engine play whatever validation accepts? Do the searches agree with playing frame by frame? Does the validator's walk find each cycle of completions? | Yes, for every valid graph of two small bodies: no call throws and the authored `maxWait` is honoured; every search of bodies of up to seven frames agrees with the playback, and the walk rejects exactly the graphs in which some states complete into one another for ever. |
| `session` | Two inputs against frames, draws, pauses, hiding, context loss, suspension, failure, disposal. | Promises are kept, wakeups not lost, frames not stray, nothing stale published; a failure reaches everyone, and a session that goes on animating answers its request. |
| `page` | Three elements on one page; restarts; bytes and adoption by another document. | One holder; never idle while somebody visible waits; granted in order; no permit leaked to an old generation; the bytes of a page are those of who is on it. |
| `decoder_lane` | Three runs of a lane, closed at any moment. | Neither side receives a message it fails on, a free lane is quiet, surfaces fit the ring, the watchdog runs against work that is owed only, and a wait ends without its help. |
| `media` | A player of a loop, a finite and a held body, with media that load, decode and retire in any order. | Every run that is open has one owner on the lane that the pool means, the queue fits, what the next frame needs is in the plan, the preparation never finds its lane taken, and the next frame comes. |
| `runtime` | An element that is shown, hidden, paused, reduced, reloaded, adopted, frozen and disposed of, while its players start, fail and retire. | One player has resources at a time; at rest the player is as it was last asked to be; the element is served or told why not; `resume` and `dispose` settle. |
| `transport` | Two callers that come, join and leave, two units, one body, and a disposal. | No body is lost, no load runs for nobody, bytes are kept for those who get them, everyone is answered. |
| `session_settlements`, `media_starved`, `media_wakeup`, `runtime_shown` | Four sentences of the documents and tests. | Violated: see [below](#divergences-from-the-documents). |

## Bounds

*Graphs.* `Hover` has an intro, two loops joined by a reversible pair, a locked unit,
a cut and a finish; `Once` has completions into and out of a held body.  Together
every start policy, transition kind and body kind occurs, with units of two frames so
that a reversal may come in either.  `MaxSequence` bounds the inputs to four, which
is what the longest route takes (pending, active, follow-on, reversal).
`MaxInputsPerTick` is 2 (32 in the code), so that the window overflows.  `Pairs` of
the run `validation` trades inputs for graphs: all valid graphs of two bodies of up
to three frames.  The run has three scenes, the engine on `Pairs`, one body of up to
`MaxFrames`, and all completions among three `Names`.

*Session.* Two inputs are a request in flight and one that overtakes it; bodies of
one frame keep ticks few.  What is unbounded in the code and matters here (draws,
recoveries, pauses) is not bounded in the model.  The scene `orders` has every order
on both graphs, `fair` one request on the first of them, for the liveness.

*Permit.* With three elements there is a holder and two that wait, enough for an
order to be wrong; a second generation and a second document need only two elements,
one to hold what the other is waiting for.  These are the scenes `crowd`, `restarts`
and `moves`, kept by a state constraint.  Elements are symmetric.

*Decoder lane.* The stream has samples that show nothing, one that shows two frames,
and one that is decoded ahead of a frame shown before it; with a ring of four the credit
runs out in the middle of it, in a batch and at its end.  Three runs let a late close
of one meet the start of the next and a third follow both.  `LaneAssumption` is what
the lane relies on and only partly checks: a frame that is waited for fits the ring
with those decoded before it.  The code bounds the frames of one sample by the ring;
that a stream reorders no deeper is left to the encoder.

*Media.* `Lookahead` (12 in the code) is 2 and `CandidateReady` (6) is 1, so that a
loop of four frames is longer than both and one of two frames is not; `MaxIntents` is
the code's 4.  Up to three inputs change the route while a draw or a preparation is
under way.

*Runtime.* Two players are one that retires and one that starts; who must wait for
whom does not need a third.  Three calls or events (`MaxCalls`) are something that is
under way, something that overtakes it and something that comes after; connections
and the first visibility sample are not counted.  When all players are used up
a candidate can only fail to be probed, which the properties allow for.  The scene
`any` has fewer calls of every kind, `played` more of those that concern playing.

*Transport.* One body (4 in the code), so that there is a queue; a unit of two ranges
and one of one; three loads, one of which was left while another follows it; two
callers.  `Answered` is stated of the first caller, as callers are alike.

## Fairness

The engine is passive: its host ticks it, so `WF` of a tick is the clock of an
animated page, and `SF` of `TickDepart(TRUE)` says that at a boundary where the route
may depart the media are ready again and again.  Without the latter a request may wait
for ever, and rightly so.  Inputs are not fair: nobody must ask.

In the session `WF` of `Frame` is the browser's animation frames, of `Drawn` and
`FirstDrawn` that a draw ends, of the recovery and terminal steps that promises whose
time has come run, of `Retired \/ RetirementFails` that a retirement ends one way or
the other; `SF` of `Frame(TRUE)` is that media come.  Pausing, hiding and losing the
context are never fair, and a request of a session that is interrupted is excused.

In the lane messages are delivered, the worker handles them, its decoder decodes what
it was given and outputs what exceeds its lag or is flushed.  The owner is not fair,
apart from noticing that what it awaits is there; the watchdog is never fair, so it
helps nobody.

In the media `WF` of `Frame` is the scheduler, of `Drawn` that draws end, of
`Loaded(1)` that the bytes of the head come, of `RunReady` and `LaneRetires` that the
decoder of a lane, which `DecoderLane` has, answers.  Retirement is not fair.
`FastSpec` adds that the head which a pending route waits for is not for ever slower
than the frames; the starved route starves all the same.

In the runtime `WF(Advance)` covers microtasks, and completions once no microtask is
left: preparations, probes and retirements end, well or not.  Calls and events of the
page are not fair, and an element that is frozen into the page cache is excused.

In the transport what is due runs: a load whose turn it is, a digest, the timer of a
load (`Due`), the end of a disposal.  No server has to answer anything.

## Proofs

### The engine

`MotionGraphProofs` proves eight theorems of `HSpec`, for every set of definitions
that have the fields of a definition, every limit, and every input.

The properties are not inductive.  `Inv` conjoins the types, the shape of routes, presentation and
readiness, the requested state, the group and the intro, which hold each other up: a
phase decides which slots are held, a route leaves the state that is displayed or the
one the transition leads to, the follow-on continues the active or reversed edge.
Without the shape of routes, that the requested state is where they lead does not
survive a tick; without the types none of them mentions an edge that exists.  The
proof has a lemma for each operation (`LifecycleKeeps`, `RequestKeeps`, `SendKeeps`,
`TickKeeps`), a step for each of its actions, and lemmas about what is shared between
them: admitting a request, starting an edge, landing in a state, the static commit,
and the step to the next frame of a body.

The refinement, `HSpec => ImplementsLatestWins`, follows from `Inv` before and after each step: the mapping needs that the group waits for the requested
state, and that the displayed state is one of the graph.  What an operation answers
is read off its effects, so `Says(es, ok, bad)` says which ids a sequence of effects
resolves and rejects, and lemmas give it for each helper and for effects that follow
each other.  Six lemmas then name the ways of a step (`QuietStep`, `AbortStep`,
`ArriveStep`, `RefuseStep`, `QueueStep`, `ServeStep`), one for each action of the
abstract specification, and every operation is one of them.

That transition events nest (`EventsNest`) is read off the effects too.
`Recounts(es, was, is)` says that these effects, in order, take a host that knew the
requested state, the displayed one and the open edge as they `was` to what they `is`,
and that each end in them is of the edge that was started last.  It holds of effects
that follow each other if it holds of both, so that each helper needs a lemma of its
own only for what it adds.  Every operation then `Follows` the engine: a host that knew
the engine before it knows the engine after it.  The session needs the same of its
engine.

`BoundaryProofs` has the lemmas about the searches of `portal-search.ts` for a body of
any length with any portals: where the next portal is (`NextPortalFound`), that a
frame takes one off the wait (`FrameTakesOneOff`), and that the greatest gap between
portals, which is all that validation computes, covers the wait from every frame
(`GreatestWaitBounds`).  They rest on the least number of a set, which a well-founded
order gives, and on the greatest of a bounded one; both lemmas are with those about
the engine, whose history takes the last event of a kind.  From them it proves what the run of
a body shows of seven frames (`SearchesForetell`), and, with the invariant of the
engine, that a request that waits for a boundary waits no longer than was authored
(`WaitBoundedHolds`): `Inv`
says that the waiting route leaves the displayed state from a frame of its body, and
`Valid` that the authored wait is no less than the greatest.

The same module proves that the validator's walk over completions, which gives up after
as many steps as there are states, finds every cycle of a graph of any size
(`CyclesAreFound`).  On a cycle there is always a completion to follow (`CycleGoesOn`).
Without one, any set of states has a member that completes into none of them; so fewer
states begin a walk of k + 1 completions than one of k (`FewerBegin`), and none begins
one that is as long as there are states (`WalkEnds`).  The walk is a recursive function:
that there is one (`WalkExists`) and what holds at each of its steps are proved by a
least counterexample.

Last, `EveryCallHandled`: whatever a host requests, sends or ticks, one of the cases of
the engine takes it, for every valid graph.  `Handled` lists the guards of the actions
in their order; that they are those of the actions, and that nothing else in an action
can fail, is what `NeverThrows` checks on small graphs.

From the source the proofs assume what `install` checks (`Valid`), that the fields
of a definition have their types (`DefinitionsAssumption`), that null is no value
(`NoneAssumption`), and for the walk that a graph has finitely many states
(`NamesAssumption`; the code allows 32).

### The session

`PlayerSessionProofs` proves five theorems of `SessionSpec`, for every set of
definitions, states and events and every bound, from the assumptions of the engine and
that null is neither a reason nor a recovery (`SessionAssumption`).

A step calls the engine at most once (`OneCall`), so the engine's `Inv` holds of the
session too.  On top of it `Shape` is inductive: the types, what comes before what
(`Order`), what a draw in flight may belong to (`DrawsFit`), and `FramesFit` itself.
`Order` is what the frames need: a session that is published is prepared, one that
has no recovery under way and began to retire its animation has a static engine, one
that stopped a disposed one.  `FramesFit` and `StaticAtRest` follow.

For `HostKnows` the invariant must say what the host will know.  `Known` says that the
effects that wait for the draw in flight, told to a host with the present `shown` and
`open`, make these what the engine has; with no draw there are none.  A step of the
engine splits its effects into those published at once and those that wait, and
`Recounts` of the whole gives both halves, as only the latter tell of what is
displayed.  `NothingStale` is an action property and follows from `Shape`, by looking
at who publishes.

`PromisesKept` needs `Deferred`: the ids that waiting effects will settle are still
held, each with one outcome, and no longer the engine's.  The refinement of `LatestWins` says
which ids an operation settles (`AccountedConserves`), and that they are those the
engine held or the one just asked for; dropping a draw loses a settlement but breaks
none of this, which is why the [first divergence](#divergences-from-the-documents) is
a promise that is never answered and not one that is answered twice.

### The page

`PageResourcesProofs` proves six theorems of `Spec`, for any number of elements,
realms and generations; it assumes `PageAssumption` only.

`PermitSound` speaks of the page, and is not inductive: what an owner does with its
page depends on what it believes it has.  `Inv` has two halves.  `Good(w)` is about
the record `res` and is kept by every operation of a page and of an owner: the page
by itself (`Queues`, `Permits`, `Tickets`, `Idle`), and for each element that its
owner and its page agree - an owner has a ticket or a lease, never both, and it is
the one the page has for its seat (`Owned`); every grant that the page decided is on
its way to the owner of the ticket it was decided for, and no other is (`Told`,
`Heard`).  The other half relates the element: the page knows where it is and whether
it is visible (`Placed`), its ticket and lease are those of the generation that runs
(`Numbered`), and they fit what its player does (`Fits`).

The actions of one element change the record through operations of a page that may
hand the permit to another one.  The proof of an action therefore looks at the
element itself, conjunct by conjunct, and the lemmas of the operations say what may
happen to the others: at most, the permit they are queued for is granted to them,
and nobody overtakes them in the queue (`Same`).  That is what makes it work for any
number of elements.

The theorem `ServedInOrder` (`InOrder`) comes of the same lemmas.  `InPlace`, that whoever waits on has
everybody behind it whom it was ahead of, is part of `Same` and so composes over
the operations of an action; `Kept` says it of each operation of a queue - an entry
that is taken out or added leaves the others in order.  Of the element that acts,
`OwnPlace`: what it does withdraws its ticket, parks it in the other realm or leaves
the queues alone.

`BytesAccounted` counts the bytes of a realm as pairs of an element and a number, so
that there may be any number of elements as long as those on a page report finitely
many bytes.  Its invariant is `InBalance`: it adds that who is on no page has no bytes,
without which coming to a page would not balance.  Drains, releases, cancellations and
changes of visibility move no bytes (`SameWeight`); a report and a departure move those of
one element and the total by as much (`ReportedWeight`).

### The transport

`AssetTransportProofs` proves four theorems of `TransportSpec`, for any units, ranges
and bodies, and any number of loads and callers; it assumes `TransportAssumption` only:
`TransportInvariant`, and from it `BodiesCounted`, `LoadsWanted` and the action
property `KeptForSomeone`.

`Inv` says that there are no loads before the asset is open (`Blank`), and that it is
`Good` after.  `Good` has the counters - the bodies are those that loads hold
(`BodyCount`), the requests those under way (`ActiveCount`) - the list (`Lists`) and
the end of the disposal (`Ended`).  Two things are needed that the properties do not
say: entries of the queue are distinct, and no load in the queue was aborted; the
disposal empties the queue and relies on it that each load there is listed.

One action composes several operations: a request ends, its body goes to another
load, and its own load goes on to the next range or settles.  Between them the
counters are right but for that one load, which is what `GoodBut(a, l)` says; the
lemmas of the operations lead from `Good` to `GoodBut` (`RequestEndsKeeps`,
`OffBodies`) and back (`SettleKeeps`, `VerifyKeeps`, `AcquireKeeps`), and the lemma of
an action chains them.  These proofs and those of the page begin with the same lemmas
about their queues: adding to a list of distinct entries, and taking out of it.

### The decoder lane

`DecoderLaneProofs` proves `ProtocolHolds`, `SurfacesBounded` and `WatchdogJust`, for
any samples, any ring and any number of runs.  From `LaneAssumption` it uses that the
frames of the samples are numbered from zero and displayed once, that there are frames
to be ready (`CANDIDATE_READY_FRAMES` is six), and that the ring has room for a sample
beside the ready frames and those that the decoder may hold back: without it a caller
may wait for a frame that fits only when it has released another.

`Inv` says that the run is `Sound` and that the lane is in one of six situations, each a
relation between the two sides and the two channels.

* `Sound` is about the record of a run: its credit is the number of frames that were
  asked for and not released (`Room`), it takes frames in order, and it has asked for
  all that the ring has room for (`Full`), which every way to give credit restores by
  calling the pump.
* `Setup`, `Quiet`, `Starting`, `Active`, `Parked`, `Ended`.  The four but `Active` and
  `Ended` say exactly what may be on its way: `Quiet`, that a late close is all.  For
  a run that the worker has begun there are four conditions: what is on its way to the
  host is what the run waits for (`Answers`), each frame that was given out is seen or
  arrives once (`Flow`), the worker is ready for the command that comes (`Orders`), and
  the samples asked for are, in order, on their way, in the worker's list, in the
  decoder's queue or decoded (`Feeding`).

No message out of turn then follows from `Answers` and `Flow` for the host, and from
`Orders` for the worker.  The surfaces are bounded because the frames the decoder
holds, those on their way and those buffered or leased are disjoint parts of `Room`.
The watchdog needs all of it: a worker that owes nothing has decoded all it was sent
and holds back at most `Lag` frames, the ring is full for the next sample, so
`ReadyFrames` frames at least are buffered and whoever waits has what it waits for.

### The media

`PlayerMediaProofs` proves `RunsOwned`, `QueueFits`, `NextPlanned` and the action
property `ForegroundFree`, for every set of definitions, any lookahead and any
capacity of the queue that has room for four units (`CapacityAssumption`; the code has
exactly four).  Beside the assumptions of the engine it needs that null is no unit,
lane or record (`MediaAssumption`).

`MediaInv` is the `Inv` of the engine and three parts that hold each other up.

* `RunsHeld` says whose run is on which lane.  The foreground lane is busy when a run
  plays, prepares, or is leased for the first frame, and these exclude each other; the
  candidate lane, when the head of the queue has a run, or when the head's run was
  leased for a draw or opened to qualify the output.  The queue is within its bounds.
* `Staged` says what exists at each stage of a player: a preparation that was
  overtaken by a retirement still holds its run until it finds out, a draw that was
  overtaken holds none.
* `Shown` relates what plays to what the engine displays: between draws they are the
  same frame, and during one the lease is for the unit of the frame that the engine
  went to.  Without it neither the run that a draw replaces nor the unit that the next
  frame needs is known.

The queue moves inside the steps of others, so its operations (`Reconciled`,
`AdmitHead`, `ClosedRuns`) have lemmas about the record `media`: the queue still
holds (`QueueHolds`) and runs that are somebody else's are spared (`Spares`).  That no
plan is too long is `PlanFits`: there is one unit each for the active target, the
pending route and the follow-on, and one for what the displayed body does by itself,
because an intro, a loop that goes on and the end of a body without a route exclude
each other.  That `Unique`, which keeps the first of equal units, loses none rests on the ranks of the
members of a set of indices (`RanksReach`).

`NextPlanned` compares two readings of a snapshot, the preview of the engine and the
plan of the routes (`NextIsPlanned`): for each phase, the unit that the frame after
this one opens with is that of the route, of the follow-on, of the completion, or of
the loop that starts over, and the plan has that one.  It needs of `Valid` that a
loop has no completion and what completes has one edge to do it by.

### The runtime

`ElementRuntimeProofs` proves `OnePlayer` and `StandsAsAsked`, for any number of players
and calls.  For `OnePlayer`, `Inv` is
`Held`, about the element - a player is shown or being retired and never both, nobody
else has resources, and a disposal that is done left nobody - and `At`, what each
operation relies on where it stands on the lane: the player it is about to dispose of is
still the one being retired, the candidate it starts is still the player of the element,
and nobody has resources when one is made.

A step of the runtime calls many operations, and few of them matter to who has
resources.  `Follows(w, v)` is what they have in common: they make and forget nobody,
take back nothing that was given back, and leave the head of the lane where it is.
One lemma says so of each of them, and `FollowsOn` chains them; `HeldFollows` and
`AtFollows` then give the invariant after all steps but those that make a player, take
one over, or prove one retired.

`StandsAsAsked` speaks of an element at rest, and nothing in it says how rest comes
about, so its invariant has to say of every moment what is still on its way.

* `Fits` is about the player of a live generation that is neither disposed of nor
  failed (`Standing`): it runs as it is told to unless a resume of it is under way or
  a `resume()` of the element is to be taken back (`Plays`); it is reduced, or not, or
  has asked for its restart (`Moves`, `Turns`); an outdated suspension does not hold
  it (`Hides`), a hidden one is parked (`Parks`), and a restart that came before the
  publication waits for it (`Waits`).
* `Serves`: a restart that is asked for has its reload, and no failure is published.
* `Roll`, `Basis`: players other than this one and the one being retired have nothing
  left to do, and what the fields of the element have to do with each other.
* `Where`: what the operation at the head of the lane has come to.  `Lane` says that a
  live generation is the last thing on the lane, and an aborted one is followed by what
  outdated it; `Left`, that an idle lane has left a player that is published or whose
  failure is about to be dealt with.

At rest there is no reload, so no restart; no call, so no resume to come; the lane is
empty, so the generation is live and its player published; and what remains of `Fits`
is `StandsAsAsked`.  Most operations keep this and leave the lane alone (`Stays`, which
chains as `Follows` does); inside a step the element is `Loose` - it fits but for what
is asked for later in the same step - and `ScheduleRestartSound` makes it fit again.

The proof found what the bounds of the run hid: a player whose suspension was rejected
may not be restarted (see [below](#divergences-from-the-documents)), and the property
now excepts it.

### What is left to TLC

Every invariant that a run checks is proved for every value of the constants, but for
`NeverThrows`: it speaks of `ENABLED`, which the provers do not handle, and
`EveryCallHandled` says it of the guards.  Liveness under fairness is left to TLC.

## Divergences from the documents

1. *A settlement may be dropped* (`session_settlements`).  A tick commits the engine,
   then its frame is drawn; the effects that follow the draw are dropped if the
   session was suspended meanwhile.  If the tick settled a request, nobody settles it
   again: the promise is pending until the session is disposed, although its state is
   displayed.  In the same window a `transitionstart` is dropped, while the recovery
   finds the edge active and publishes its `transitionend`.
2. *A pending route may starve* (`media_starved`).  In a loop that is no longer than
   the lookahead and whose last portal is near its end, the continuation of the loop
   is required in every frame and goes before the route; the head of the queue alone
   gets the candidate lane, so the route is never decoded and the loop never left.
3. *A loaded head may be forgotten* (`media_wakeup`).  A route that blocks the
   presentation returns before the queue is woken; if its unit was loaded while the
   candidate lane was closing, nobody asks again when the lane is free.
4. *A shown element may stay suspended* (`runtime_shown`).  Visibility is captured
   when a player is asked for.  If the element is shown while the asset loads, the
   player is published as suspended for being hidden, and stays so until the element
   is hidden and shown again.

Other things met while modelling, which no run states:

- `#restart` that was captured while there was no player
  (`element-runtime-session.ts:361`) survives until the next generation, and a
  `dispose()` before it is refused.
- A player that is suspended for being hidden, and whose motion is reduced meanwhile,
  ends up static for the latter, and completing the suspension throws
  (`element-runtime-session.ts:964`).  The handler that would clear `#suspendingPlayer`
  is that of the same `then` and is not called, so the session takes the player to be
  suspending from then on.  If motion is restored while the element is hidden, the
  restart it asks for is dropped because the element is hidden (line 159), and when it
  is shown again nothing restarts it, as it is not the suspended player (line 885): it
  stays reduced although `docs/element/fallback-and-reduced-motion.md:19` has
  `motion="auto"` follow the preference live.  It takes four events once the player is there, one
  more than the run has; `StandsAsAsked` excepts a player whose suspension was rejected.
- Hiding while a rejected candidate is still the current player replaces the load by
  a suspension that is rejected, so that `prepare()` and `resume()` reject although
  the element plays later.
- An answer with the whole file clears the cache of ranges (`asset.ts:842`), and
  `chunkBytes` reads the cache only: a unit that was loaded before and still waits in
  the prefetch queue for its run is no longer readable, and the player fails.  Bytes
  that are verified after the replacement are kept beside the file and not counted.

## What is not modelled

*Engine.* The trace ring and content ordinals, the identity of frozen results, and
the checkpoint of a preview: a copy field by field has no counterpart in a model
whose states are values.

*Session.* The clock (a frame comes at any time), telemetry, the buffer of
publications before activation.

*Permit.* That a byte total is a safe integer, and the rejection of a canceled
ticket, which finds its owner past it.

*Media.* Draining of stored frames, their bytes, diagnostics, and the events of the
renderer's context.

*Runtime.* Metadata, sizes, receipts of cleanup; the motion policy and the preference
are one flag; moves of the root within a document; the callback of a candidate that
goes on after its deadline; two calls of one task that share a recovery, of which the
first one's reason is set again when the recovery begins (`player-session.ts:572`):
here the last one's stays, as it does when they come in tasks of their own; `setState` and `send` beyond the load they await; the
choice of sources (`element-sources.ts`).

*Transport.* Bytes, headers, digests: what they decide is a choice of the answer.

*Not at all:* the items 8 to 10 of the plan; the drawing of the renderers, which is
calls of the browser; certification, adapters, playground, scripts and examples,
which are sequential or demonstrations; and most of the format and the compiler,
which parse, write and encode bytes in order.
