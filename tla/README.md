# raikiri in TLA+

A verification project for [raikiri](../src/README.md), the HTML/CSS paged
layout engine.  Layout and styling are large sequential computations over
floating-point data; what is hard to test in raikiri is around them: caches
that threads share, fetches that other parties delay or redirect, a script
runtime whose callbacks call back into it, and a document that scripts and a
garbage collector change together.  The modules here model that part
of the program, TLC checks them on small instances, and TLAPS proves the
safety of all of them, and that four implement their specifications, for all
values of their constants.

- [The system](#the-system): its components, their state, what can go wrong
- [Modules](#modules): what each one models and how it corresponds to the code
- [Runs](#runs): what TLC checks, with which bounds, and what it found
- [Fairness](#fairness)
- [Proofs](#proofs)
- [What is not modelled](#what-is-not-modelled)
- [Plan](#plan)

`tlc -config X.cfg MCModule` checks a run and `tlapm ModuleProofs.tla` the
proofs of a module.  `PROJECT.json` lists the components, runs, hazards and
theorems, the lines of code each definition stands for, and for every property
a plausible bug (a definition preceded by a comment `Mutant: ...`) that makes
its run fail.

## The system

A render goes from bytes to pages: `raikiri-html` parses a document into the
arena of `raikiri-dom`, `raikiri-js` (when the embedder asks for scripts) runs
its scripts over that arena, `raikiri-style` computes styles, `raikiri-dom`
lays out, `raikiri-html` paginates and delivers, and `raikiri-paint` and
`raikiri-svg` draw.  Everything that comes from outside (stylesheets, images,
fonts, scripts) is fetched through the traits of `raikiri-traits` with
`raikiri-net` or the embedder behind them.

| Component | State | Operations | Meets others through |
|---|---|---|---|
| image source cache (`raikiri-net/resource_loader.rs`) | `SourceCache`, `LoadState.loading`, `CacheBudget`, a condition variable, two mutexes | `load_source` | called by every thread that renders; calls a provider and a decoder |
| scene and raster caches of an SVG source (same file) | `SceneCache` with flights, `raster_cache`, `raster_only` | `scene`, `rasterize` | share `CacheBudget` with the source cache |
| policy-checked fetches and fonts (`raikiri-html/resources/network.rs`, `raikiri-traits/net.rs`) | aggregate budget, memo of fonts | `fetch`, `load` | wrap the embedder's provider; called by imports, images, fonts |
| deadline transport (`raikiri-net/deadline_transport.rs`) | anchored deadline, last value seen | `connect`, `await_input`, `transmit_output`, `is_open` | driven by the HTTP client ureq |
| script event loop (`raikiri-js/runtime/event_loop.rs`) | task heap, microtasks, timers, frame callbacks, counters, abort | timers, frames, jobs, `run_until_idle` | scripts call bindings, which queue; tasks call scripts |
| document script run (`runtime/scripts.rs`) | insertion point, written scripts, ready state, report | `run`, `execute_script` | event loop and dispatch |
| event targets and dispatch (`runtime/events.rs`, `dispatch.rs`) | listener lists, event flags, dispatch depth, `reporting_exception` | add, remove, set handler, dispatch, report | calls scripts, which call back |
| background image cache (`raikiri-html/resources.rs`, `resources/image_cache*`) | flights of background images, images, scenes and byte counters of a resource set; decode permits and bytes of the process | preload, paint, reserve, release | renders that share a set; all sets share the process budget |
| pictures of SVG documents (`resources/svg_images*`) | `State` under a mutex, flights of `data:` pictures, leases of inline bytes | `url`, `data` | the background image cache of its set |
| stylesheet imports (`raikiri-html/import.rs`, from `parse.rs`) | ancestor chain, import budget of a parse | expand inline, linked and live sheets | policy-checked fetches |
| streaming layout (`document_layout/streaming.rs`) | checkpoints, frontier, body cache | resume, deliver | layout, sink of the embedder |
| DOM arena (`raikiri-dom/document*`) | nodes, parents, child lists, template contents, noted changes | insert, remove, replace, clone, fill | scripts, layout |
| GC graph and tree bindings (`runtime/node_gc.rs`, `tree.rs`, `node.rs`) | weak table of node records, their traced edges | borrow and synchronise, restore, the mutations of script | the collector of the engine, the arena |
| wasm-sandboxed engine (`tools/raikiri-js-wasmtime`) | store, pending request | exports, host calls | host and guest |

`PROJECT.json` lists the rest of them (parsing, cascade, layout, painting, facade,
test tools), with the reason each is not modelled.

What is hard about them, and therefore what the properties are about:

- **Threads** share the image sources, the SVG caches, the background images,
  the decode permits, the font memo and the byte budgets.  A load that missed, waits or decodes must not be repeated, lose
  its wakeup, overwrite an entry or leave a key or a byte behind when it fails
  or panics.  *Correct* means one load per key, exact accounting, every caller
  answered, and with the same source.
- **Other parties** trickle bytes, redirect elsewhere and never answer.
  *Correct* means that no blocking call outlives the deadline of its operation,
  and that policy, credentials, and limits hold at the last hop as at the first.
- **Reentrancy**: a listener changes the list that is being walked, dispatches
  again, throws, writes a script into the document, cancels the task that is
  queued, or meets a limit five levels deep.  *Correct* means the order scripts
  are promised, no dangling slots, tokens or timers, and one outcome of a
  stopped runtime at every entry point.
- **Ownership on the side**: what a script stored on a node lives in a record
  that the collector owns, and whose edges follow the document only after each
  native call.  *Correct* means that a node script can reach keeps its record
  wherever a collection happens, and that the document stays a tree.
- **Limits and aborts** can strike in the middle of anything.  *Correct* means
  nothing half done is left that a later call would run.

The single hazards, each with its line and the properties that would catch it,
are in `PROJECT.json`.

## Modules

| Module | Models | Specification it implements |
|---|---|---|
| `ResourceLoader` | `load_source` | `LoadOnceCache` |
| `SourceCaches` | `ImageSource::scene`, `rasterize` | |
| `BackgroundImages` | flights, permits, image cache and process budget | |
| `SvgPictures` | the pictures of SVG documents (extends `BackgroundImages`) | |
| `ResourceFetch` | the redirect loops and the adapter of `network.rs` | |
| `StylesheetImports` | the expansion of `@import` (extends `ResourceFetch`) | `ResourceFetch` |
| `DeadlineTransport` | connector and transport under the HTTP client | |
| `EventLoop` | the virtual-time event loop and the entry points | `RuntimeCalls` |
| `DocumentRun` | `DomRuntime::run_document` (extends `RuntimeCalls`) | |
| `EventDispatch` | listener lists and dispatch | `EventTargets` |
| `Retain` | `Vec::retain`, by which flights, tombstones and children leave a list | |
| `DomTree` | the arena, as operators on a document | |
| `NodeGraph` | the records of nodes beside it, under the collector | |
| `ScriptDom` | the tree bindings of script, over both | |
| `MC*` | the instances for TLC | |
| `ResourceLoaderProofs`, `SourceCachesProofs`, `SvgPicturesProofs`, `ResourceFetchProofs` (with the imports and the deadline transport), `EventProofs` (the event loop and dispatch), `DomProofs`, `DocumentProofs` (the variadic calls and the run of a document) | theorems and proofs | |
| `FiniteSums` | no part of the program: lemmas about sums and `Retain`, for the other proofs | |

### ResourceLoader and LoadOnceCache

One thread per `load_source`; `pc` names the sections the code separates by
releasing its mutexes.  A section that holds the state mutex is one step.  The
budget mutex is held across a decode, so it is a variable (`holder`); a panic
of a rasterisation poisons it (`poisoned`).  The fast path of `admit`
(`CachedSource`) takes the state mutex alone.  `MustWait` has the code's order:
duplicates first, then slots, then entries.  `Publish` contains the whole
settlement (key given back, suffix refunded, source charged and stored);
`DropPending` is `PendingSource::drop`, which works on a poisoned mutex;
`NotifyAll` is a step of its own since it follows the release of both mutexes.
URLs, keys and responses are values; what counts of them is their size, which
URLs share a `raster_source_key`, and whether a response is SVG.  The bytes the
SVG caches hold are one number here (`pixels`), which any published SVG may
change within the limit; `SourceCaches` is the detail.

`LoadOnceCache` is what `ImageResolver` documents: a URL is filled once, with
all its aliases, every load that succeeds returns that source, and loads fail
only on a miss or when the cache broke.  The mapping presents `Lookup(u)` as
the view, and answers as given when `load_source` has settled.

### SourceCaches

Scenes are built by one thread per size, with no mutex held, while others wait
on its flight; a raster is made in one step, since `rasterize` holds both its
mutexes from end to end.  A flight is known by identity (`Arc::ptr_eq`), which
matters because a size with a NaN equals no size, itself included, and may be
under construction several times.  `Victims` and `Charge` are the eviction
loops; the two caches share the budget with each other and with the rest of
the loader (`ChargeOther`).

### BackgroundImages and SvgPictures

One thread per render.  `Preload` is one URL of `preload_background_urls` with
everything `fetch_background_image` does for it; `PaintPixels` and `PaintVector`
are `get_decoded_at_size` and `get_vector`, for the URLs of SVG documents (at
any other URL they only read).  A step is what lies between two releases of a
shared lock; the bytes of the process are reserved inside a section of the
set, so that is one step with it.  `room` is the limit a decode was given,
which was read before the decode and may be stale when its result is admitted
(`Admitted`, `CacheRaster`, `CacheScene`).  `inflight[s][u]` is a flight in the map:
pending, or over and not removed yet, in which case a late thread takes its
answer at once.  A waiter takes the owner's warning, also when it was the
owner's render that was aborted, and does not try again.  The set's copy of
an image is replaced with its scenes and what was learned of it
(`Invalidated`).  A drop of a permit wakes one thread that sleeps; a thread that
was not asleep may take the permit first.

`SvgPictures` adds `RenderSvgImages`: one source of pictures per set, whose `State`
is held while a URL is preloaded (`locked`), and a memo of `data:` pictures with
one owner per key.  The owner gives its permit back before it locks `State` to
publish (`PictureRelease`), which is what breaks the circle between a URL
request that holds `State` and waits for a permit, and an owner that has one.

A provider or a decoder may panic (`Panic`).  The permit goes back, for its guard is
dropped, and a poisoned `State` is taken over by the next thread that locks
it.  The flight of a URL stays in the map: `fetch_background_image` has no guard
for it, so every later request of that set for that URL waits, until the set
is reconfigured.  `orphaned` remembers these flights; the code has no such state.
`OneFlight` and `EveryCallReturns` say exactly who is held up (`HeldUp`): the calls that
wait for an orphaned flight and, when one of them holds `State`, those of its
source of pictures.  Everybody else still returns.  `PictureDecode` has the panics
of `data:` pictures, whose flight does have a guard.

Left out: two URLs that share one parsed document in
the source ledger; a policy callback that asks for the picture it is being
asked about, for which `DataFlight` compares thread ids; the paint of images
that are not SVG, which reads the cache once.

### ResourceFetch

`Redirected` and `Refused` are `Request::redirected`; `Denied`,
`TooManyHops`, `Charged` are the adapter's checks.  The three ways in are
`NetworkProvider::fetch` with any request of the embedder's, the adapter with the
renderer's own GETs, and `NetworkFontFaceLoader`, which keeps its mutex across
the fetch and remembers failures.  The provider performs one hop: it answers
with a body or a redirect of its choice, fails or panics.  `asked` is kept in
the state for the properties; the code forgets it.

### StylesheetImports

One thread (`Parser`) expands sheets while the others fetch what they like.
`frames` is the recursion of `ImportExpander::expand`, the innermost call first;
the import chain is read off it, since the code pushes and pops the chain with
the calls.  A sheet is a sequence of items, each text or an import with the
size of its media condition, and takes one step per item: `CopyItem` leaves an
import opaque that depth, chain or budget forbid, `RequestImport` sends one through
`FetchFrom`, and `ImportArrives`, `ImportRedirected`, `ImportFails` and `ImportPanics` are
the endings of that fetch, conjoined with the actions of `ResourceFetch` that
perform it.  `FinishImport` is `charge_expansion`: it adds up the child first (`Cost`)
and copies the condition into each part afterwards (`SpliceInto`), or leaves the
import as it was, with what its own imports were charged.  Of parts only
their number and bytes count.  `RenewBudget` is another document, or a
call for live `<style>` elements.

A sheet that an import brings is charged again by every import around it, so
`expansion_bytes` is an upper bound of the bytes introduced, which is what
`ImportsCharged` says, and not their sum.

### DeadlineTransport

Time is a clock in ticks that passes while a call blocks, between raw calls
and between operations.  The client (ureq) is external: it gives each
operation the time left to the earlier of its deadlines and repeats this value
unchanged on every raw call.  The model lets no tick pass between computing
the value and the first raw call that carries it (`fresh`).  The transport
(`Anchored`, `RawCall`, `Forget`) anchors the value when it first sees it, and
forgets it in `is_open`, which the pool calls on check-in and check-out.
The specification is called `TransportSpec`, since its proofs stand in one module
with those of the fetches.
`NextTimeout::NotHappening` does not occur: the provider configures both
timeouts of every request.

### EventLoop and RuntimeCalls

`loop` is the `EventLoop` struct; `pc`, `after` and the locals are the control
of the one thread.  A script is any sequence of binding calls (`Binding`) that
ends by returning or by an engine limit.  Operators on the struct carry the
names of the methods (`Reserve`, `PushTask`, `Skip`, `Take`, `Rearm`, `Abort`).
`EnqueueJob` is the engine's hook, which cannot report an error: it aborts,
the script runs on, and `settle` notices.  The focus fixup is a choice of the
environment: focus is still valid or it was moved, with listeners or without.
Microtasks have no identity, so the queue is its length.

`RuntimeCalls` is the runtime as its caller sees it: a call is under way or
not, the first limit stops the runtime for good, calls that return after it
name that limit, and every call returns.  `EventLoop` implements it;
`DocumentRun` is written over it, so that the run of a document need not look
inside the event loop.

### DocumentRun

`stage` is the position in `run`: handler attributes and images, scripts,
`DOMContentLoaded`, event loop, `load`, event loop.  `execute_script` works on the
explicit stack `pending`; `Write` inserts a script at the insertion point while
a script runs; `LeaveScript` closes the point and puts the written scripts on
the stack in reverse.  A runtime that is stopped refuses access to its state,
hence `IfActive` around every assignment the code makes through `with_state`.
Script elements are siblings that scripts do not move; a written script gets
the next number.  `DocumentInit`, `DocumentNext` and `DocumentSpec` are called so since
the proofs stand in one module with those of the DOM.

### EventDispatch and EventTargets

`stack` holds the dispatches under way; each knows its path, the visit it has
reached (the path in reverse for capture, then forward), the slots it still has
to visit and the listener it is calling.  `lists` is `ListenerList` with
tombstones, `depth` and `dirty`.  A script runs between dispatches or inside the
listener called last, and does anything the bindings allow, a dispatch
included.  `Throws` is `report_exception`: an `ErrorEvent` dispatched at the
window or, when one is under way, an entry in `uncaught_errors`.  `Unwinds` is the
way out of an aborted dispatch, where `list.finish()` still runs but the state
is out of reach.

Abstractions: ids of registrations belong to the model; the tree is fixed,
since a dispatch reads its path once; a list that does not exist yet is an
empty one, so that a list created during the visit of its own target keeps its
tombstones a little longer here than in the code; the return value of a
handler that cancels is a `PreventDefault`; stop flags are set only on events
under dispatch, for `dispatch` resets them when it begins; and scripts do not
dispatch the error event of a report again.

`EventTargets` is the set of registrations scripts are promised: no
duplicates, what is called is registered at that moment, `once` is gone before
it is called, a handler attribute keeps its place.

### DomTree, NodeGraph and ScriptDom

`DomTree` has no variables: a document is the arena and the set of nodes noted
as changed, and its operators are the mutations and their validity checks.
Slots are never freed, as in the code.  A deep clone allocates the copy of its
node first and the others in some order, where the code walks a stack; ids
matter to nothing but identity.

`NodeGraph` is `node_gc.rs`.  `records` is the set of records alive with their
traced edges, so that losing an element of its domain is losing a wrapper and
the listeners and expandos on it.  `StartSync` takes the notes, `SyncNode` handles
one changed node, in any order, as the code iterates over a hash set;
`Recorded` and `Refreshed` are `record`, `restore_subtree` and `refresh_edges`.
`Collect` is the collector.  It can run where something is allocated: while
script runs, when a node is wrapped, when a record is restored, and when rules
of a replaced style sheet are detached, which is inside a borrow, after the
arena changed and before the records follow.  Whether an element is a style
element with rules script still holds is left open, so every element may be.

`ScriptDom` is script.  A binding is one action for each time it borrows the
runtime state, since between two of them the records are synchronised: a
variadic call first gathers its arguments in a node (`Gathered`), then places it
(`PlaceNode`), and knows its nodes by index only in between.  Script may hold any
node it can reach (`Hold`) and let go of it (`Drop`), and passes only what it can
reach.  Calls that throw before they change anything are not steps; a call the
node budget refuses aborts the run, after which no binding does anything.
Getters, attributes, character data and the operations only a parser calls
are left out; so is `importNode`, which is a clone here.

## Runs

| Run | Instance | Question |
|---|---|---|
| `loader` | 3 threads, 3 calls, 3 URLs (two aliases and a `data:` URL), 2 slots, 2 entries, limit 5 | Do loads of one key, failing and panicking, keep one flight, exact bytes, the limits and every wakeup, answer all callers alike, and return? |
| `caches` | 3 threads, 3 calls, 3 sizes, one of them NaN, 1 kept, limit 5 | Is there one builder per size and no flight left behind, do evictions give back what was charged, and does every call return? |
| `images` | 2 renders, 3 calls, one of the renders may panic, 2 sets, an SVG and a `data:` image, one picture, 1 permit, set limit 3, process limit 4 | Are flights, permits and bytes exact over sets that share a budget, is every missing image explained, and does every call return, but for those a panic holds up? |
| `fetch_safety` | 2 threads, 3 fetches, 3 origins and a file, policies with 0 and 1 redirects and import depths 1 and 2, budget 3; sheets of one or two items | Are policy, origin, downgrade, budget and font memo kept along every chain, are imports charged for what they add, and is no sheet expanded inside itself? |
| `deadline_reads` | requests of 4 ticks, 2 of them to connect, 2 addresses, 10 ticks | Does a connect or read ever block past the deadline, or time out before it? |
| `events` | 3 registrations, 3 enqueued jobs, horizon 3 | Do tasks run in order, is nothing left when the page is idle or stopped, are timers and frames right under cancellation, and does every entry point return, saying what happened? |
| `document_run` | 3 scripts that write up to 4, two limits | Is the order that of the document, does load come last, does the report tell the limit? |
| `dispatch` | an element and the window, 2 registrations, depth 2, 2 exceptions | Do slots stay put, is no error lost, and is what is called registered? |
| `nodes` | 5 slots, 1 script variable, 2 arguments, elements, fragments and templates | Is the arena a forest, do the records follow it, is everything placed as asked, and does a node that can be reached keep its record? |
| `caches_asked_once` | *finding* | Is a document the scene builder gives up on asked once? |
| `deadline_writes` | *finding* | Does a write keep the deadline? |
| `nodes_unique` | *finding* | Does a node keep its record across variadic calls too? |

Why these bounds are enough to be interesting:

- *Loader*: two aliases share a key and differ in length, so the refund is not
  zero; a third thread is needed for a duplicate to wait behind a slot that is
  full; the limit of 5 lets one large or several small sources in and refuses
  the next.  With two entries, entries and loads together meet the limit.
  `Asked` says which thread may ask for which URL: one only for the image, one
  also for its alias, one also for the `data:` URL, so that every two of them
  can race.
- *SVG caches*: one kept size and three asked for force an eviction each time,
  scene bytes of 3 and raster bytes of 2 with a limit of 5 make a size fit only
  when another is dropped.
- *Images*: two renders on one set race for its flights, and the one permit is
  wanted by a background, a paint and a picture; the second set is there to
  take process bytes between another set's look and its reservation (3 + 3 is
  more than 4).  An SVG source of 2 bytes leaves room for one raster or scene,
  so the next evicts it.  Two attempts let a render meet the request limit.
  Rasters are dropped for bytes only, as two sizes are kept.
- *DOM*: three slots are the parsed page, and two more are enough for a
  fragment with a child beside it, a template with its contents, and a string
  with the fragment it is gathered in; with one script variable most nodes are
  held by edges alone, which is the hard case.
- *Event loop*: frames fall on every second millisecond and timers nest from
  the second level on, so that the few registrations reach the clamp, a frame
  that is rescheduled inside a frame, and every limit; a negative timeout is
  raised to zero and one lies past the horizon.
- *Document*: three scripts leave one before and one after the writer; four
  writes suffice for a written script that writes, in a script that wrote before.
- *Dispatch*: depth two is enough for a listener to be removed by a dispatch
  nested in the one that walks the same list, and for the depth limit to be
  met; two registrations are needed for one to remove the other; two
  exceptions for one to be thrown while the other is reported.
- *Deadline*: ten ticks hold two requests of four on one connection.
- *Fetch*: a chain of two redirects leaves an origin and comes back; the budget
  of 3 takes a small and a middle response or three small ones.  Three fetches
  are a linked sheet and an import within an import.  One import has a
  condition of 2 bytes and one stands behind text, so that a sheet with a
  condition can have two parts, one of them imported; the expansion limit of 7
  is what they cost together, and the next is refused.  Responses of 1 and 2 bytes
  exceed the response limit of 2, and those of 3 the adapter refuses.

Calls (`MaxCalls`, `Asked`), registrations, written scripts, exceptions, script
variables (`MaxHeld`, `MaxItems`) and the clock (`MaxClock`) are bounds of the model and are named so in the modules.
`CHECK_DEADLOCK FALSE` stands in the runs whose callers may simply stop calling
once `MaxCalls` is used up; the others state their end (`Over`, `Stop`, `Done`)
and are checked for deadlock.

### What the runs found

Three disagreements, each between a comment and what the code does:

- `caches_asked_once`: a comment of `ImageSource::scene` says that a document left
  to the raster path is remembered, "so it is asked once".  Two boxes of
  different sizes that miss together both ask: `raster_only` is read before the
  builder starts and not again (`AskedOnce`).
- `deadline_writes`: `deadline_transport.rs` says that the deadline is re-derived
  on every raw read and write.  It is on reads.  A write goes through
  `write_all`, which repeats the raw call under the timeout set before the
  first, so a peer that accepts a few bytes at a time holds the operation past
  its deadline (`WritesKeepDeadline`).
- `nodes_unique`: `interfaces.rs` speaks of "the unique wrapper" of a node, and
  `node_gc.rs` says that detached components are kept by script-visible objects.
  `style.append(fragment, x)` on a style element whose rules script holds moves the
  children of the fragment into another one that only an index names, and the
  second borrow detaches the rules, which allocates, after it has moved them
  on in the arena and before their records are linked to the new parent.  A
  collection there takes the record of a child that script set properties or
  listeners on; the child is in the document, with a new wrapper
  (`WrapperIsUnique`).  `IdentityKept`, which `nodes` checks and `DomProofs` proves, is
  the same property outside such calls.

## Fairness

Liveness is checked where the code's own scheduling gives it:

- `ResourceLoader`, `SourceCaches`: weak fairness of each thread's `Step`.  A
  thread of the operating system that can run does; fetches and decodes end,
  for a fetch has a timeout and a decode bounded input.  `std::sync::Mutex`
  guarantees no order, and none is assumed: a mutex is a guard that may be
  false at times, and what a thread waits for is held for finitely many steps
  since calls are bounded.  Not fair: `Call` (nobody has to call),
  `WakeSpuriously`, `RetainPixels`, `ChargeOther` and `RasterizePanics`; a call must
  return without their help.
- `SvgPictures` (with `BackgroundImages`): weak fairness of each thread's steps, for
  the same reasons; a condition variable wakes one sleeper per permit, and
  nothing says which.  Not fair: new calls, `Abort`, `Panic`, `NewRender`, `Reconfigure`
  and `DropPictures`.
- `EventLoop`: weak fairness of `Step`.  The one thread runs on, and a script
  ends, because the engine limits its loops and recursion; which binding it
  calls and whether the embedder calls at all is free.  That repeating timers
  cannot keep `run_until_idle` from returning is then due to the limits alone.
- `DocumentRun`: weak fairness of `Step`, which `RuntimeCalls` justifies: every call
  returns.
- `DeadlineTransport`, `ResourceFetch`, `StylesheetImports`, `EventDispatch`, `ScriptDom` state safety only.
  A script may stop anywhere, and a collection never has to happen.

## Proofs

Every theorem here is about the specification that TLC runs, under the named
assumptions on constants that its module states and TLC evaluates; nothing else
is assumed. Where a set has to be finite for a sum or a cardinality to mean
anything (`Threads`, `Sets`, `Urls`, `Pictures`, `Svgs`), the assumption says
so.

| Module | Theorems (the property each states, if its name differs) |
|---|---|
| `ResourceLoaderProofs` | `TypeCorrect`, `OneFlightPerKey` (`SingleFlight`), `NothingOverwritten` (`OwnerMisses`), `PoisonFailsClosed` (`FailsClosed`), `LimitsKept` (`WithinLimits`), `BudgetIsExact` (`BudgetExact`), `NoWakeupLost` (`NoLostWakeup`), `LoaderFillsOnce` (`LoadOnceCache`) |
| `SourceCachesProofs` | `OneBuilderAlways` (`OneBuilderPerSize`), `ChargedExactlyAlways` (`ChargedExactly`) |
| `SvgPicturesProofs` | `PermitsAlwaysCounted` (`PermitsCounted`), `OneFlightAlways` (`OneFlight`), `PictureAlwaysChargedOnce` (`PictureChargedOnce`), `AccountsAlwaysAgree` (`AccountsAgree`), `SkippedAlwaysExplained` (`SkippedIsExplained`) |
| `ResourceFetchProofs` | `FetchTypes`, `PolicyIsObeyed`, `OriginIsKept` (`StaysWithOrigin`), `BudgetIsCharged`, `FontsFetchedOnce`; of imports `ImportsAreFetches`, `ImportsObeyPolicy`, `NeverInsideItself` (`NoSheetInsideItself`), `ImportsAlwaysCharged` (`ImportsCharged`); of the transport `ConnectsAndReadsEnd` (`ReadsKeepDeadline`), `NeverBeforeDue` (`TimesOutWhenDue`) |
| `EventProofs` | of the loop `QueuesBounded`, `NothingLeftOver` (`NothingLeft`), `TimersAlwaysFollow` (`TimersFollowTasks`), `FramesAlwaysCome` (`FrameComes`), `StartsInOrder` (`TasksInOrder`), `KeepsPromise` (the steps of `RuntimeCalls`); of dispatch `SlotsAlwaysHeld` (`SlotsHeld`), `NoErrorIsLost` (`NoErrorLost`), `DispatchImplementsTargets` (`CallsWhatIsRegistered`) |
| `DomProofs` | `TreeIsAlwaysForest` (`TreeIsForest`), `RecordsAlwaysFollowTree` (`RecordsFollowTree`), `IdentityAlwaysKept` (`IdentityKept`) |
| `DocumentProofs` | of the variadic calls `PlacedAlwaysAsAsked` (`PlacedAsAsked`); of the run `ScriptsInOrder` (`RunsInDocumentOrder`), `ReportAlwaysTells` (`ReportTellsAbort`), `LoadIsLast` (`LoadComesLast`) |

Almost none of these properties is inductive by itself. What follows says, for
each module, what had to be added and why.

### The loader

From `LimitsAssumption`, `SizesAssumption`, `KeysAssumption` and
`NoneAssumption`, for any sets of threads, URLs and keys and any numbers of
slots, entries and bytes. The invariants build on one another:

1. `Typed` is `TypeOK` with the finiteness of `loading` and of the caches, which
   every cardinality needs.
2. `FlightInv`: `SingleFlight` says that `loading` is the keys of the owners,
   one owner per key. That an owner's publication overwrites nothing
   (`OwnerMisses`) needs it, because only the owner of a key can fill it; in
   turn `RastersShareable` ties an entry of the shared namespace to a URL that
   may answer with it, and `KeysAssumption` tells that a URL without a shared
   key has its key alone. `PoisonStopsDecoding` says that no thread decodes
   under a poisoned mutex, from which `FailsClosed` follows, a statement about
   steps.
3. `LimitsKept`: a publication removes a key from `loading` and adds one entry,
   which by `OwnerMisses` is new; so `Bounded` is kept step by step, and
   admission keeps it by its guard.
4. `BudgetIsExact`: `used` is the pixels and three sums, over the owners, the
   exact entries and the shared ones. A step moves one thread or adds one entry,
   so it changes each sum by one summand; that the summand was not there before
   is again `OwnerMisses`.
5. `NoWakeupLost`: every step that makes a waiter's reason false passes through
   "notify" afterwards. The lemma `ReasonKept` shows the steps that leave the
   reason alone.
6. `RefineInv` adds that the ids of published sources are below the size of the
   cache, so the source a publication stores is new to every URL. Then each step
   maps to `Begin`, `Hit`, `Fill`, `Fail` or `Break`, or to a stutter.

### The caches of an SVG source

`IInv` is `TypeOK`, what each thread has in hand where it is (`InHand`), that a
flight in the list of a source is held by one thread that builds
(`FlightsOfBuilders`), and that no two flights there are of the same size; a
size with a NaN is the same as none, so it may have several. `NotKeptYet` adds
that a size under construction is not kept, which is what makes it cached once.
`ChargedExactly` rests on two lemmas about the eviction loops: what `Victims`
gives back is the bytes of the entries it takes from the front, and an entry
that moves to the back of the order costs nothing. An eviction in one source
never touches another, so the total over all sources changes by what this one
gave back.

### The images

From `ImagesAssumption` and `PicturesAssumption`, under aborts, panics and sets
that are reconfigured:

- `PermitsAlwaysCounted` is inductive once `pc` is known to be a function: every
  step keeps each thread on its side of a permit, or takes or gives back one
  with the thread (`AcquireKept`, `PermitsBackKept`). That a drop never meets
  the cap on the permits follows.
- `OneFlightAlways`: `Formed` says what a call is for wherever it can be; no
  step on the way of a request depends on more. `Flight` says of one flight,
  thread by thread, who answers for it: its owner while it is pending, then the
  thread that takes it out of the map, and never two. A step that keeps the
  threads in their roles and writes no flight preserves it (`RolesKept`); the
  six others join one, write one (`WriteKept`), orphan one, or empty a set.
- `PictureAlwaysChargedOnce`: `Calls` is the finer form of `Formed`, with the
  pictures. `PicInv` says that the threads at work on a picture are the one
  owner its memo names, that a picture under work has no pixels in the memo yet,
  that a lease is in hand only between a decode and its publication, and that
  `inline` is the leases of the memo and of those hands. A key has at least one
  byte (`KeyBytes`, the key and the metadata), so a set without inline bytes
  keeps no picture.
- `AccountsAlwaysAgree`: `AccInv` makes the three counters of a set sums of what
  is kept, and `retained` the sum of them over the sets. Every step changes at
  most one set, and `SetKept` is the one place that says what such a change has
  to satisfy; what an eviction loop gives back is a sum over the places it
  drops. `room`, which may be stale, is not in it: the admission checks again,
  and that is why the limits hold. `Marks` are the types of everything else.
- `SkippedAlwaysExplained`: `Told` says that a call between the end of its
  decode and its return can say what became of its image, that a flight that
  ended as "cached" has its image in the set, and that a call that has not asked
  yet tried nothing. Images that are kept do not go (`Grows`) but when a set is
  reconfigured, which happens only when no call is on it.

### Fetches and imports

From `FetchAssumption`, for any number of threads, URLs, policies and sizes. The
invariant is `TypeOK`, `BudgetCharged`, `FontFetchedOnce` and `Sound` for each
fetch: what the properties say, strengthened by what a redirect needs to know of
the request it starts from. A body or credentials that are still there mean that
every hop so far stayed with the origin asked for; the lemma
`RedirectKeepsOrigin` is about `Redirected` alone and carries this over a hop.

`ImportsAreFetches` (from `ImportAssumption` too): every step of an expansion is
a step of `ResourceFetch` or leaves it alone, so `ImportsObeyPolicy` follows
from the theorems about fetches. It needs the types of the stack, for the URL of
an import is asked for when it stands in a sheet that came from an earlier
fetch. For `NeverInsideItself` the invariant adds `Waits`, that the import on
the wire is the next item of the innermost sheet and its URL is still off the
chain when the response comes, and `OuterWaits`, that every outer sheet has an
import left to replace. `ImportsAlwaysCharged` adds `ImportCharge`: what was
introduced and what the sheets on the stack still hold is no more than what was
charged, and a sheet with items left is within the import depth of the policy,
for otherwise its import would be copied and not charged.

### The deadline

`AnchoredAtDue` says that a value the transport has seen and not forgotten is
anchored at the deadline of the operation that carried it, and `EndsWhenDue`
that a blocked call wakes at that deadline when it connects or reads, and not
before. This needs `CallsInPhase`: the value a fresh operation is about to pass
is what is left until the deadline, which is true only until the clock moves.

### The event loop

The invariant has the types with the limits (`LoopOK`, `ThreadOK`); that an
aborted loop is empty and its thread on the way out (`Placed`); that what is
queued and what was run were registered (`Bounded`); that what is queued is due
after the task taken last, and no number is given twice (`Ordered`); that an
active timer has its one task, queued or running, with an id never given again
(`TimersHaveTasks`), that frame callbacks have the one frame task or are those
of the running frame (`FramesHaveTask`), and that a token has its task
(`TokensHaveTasks`). A cancelled task stays in the queue until it is taken, so
each part speaks of tasks and of what is active separately. The operators on the
struct have lemmas of their own, which say what they leave alone. `KeepsPromise`
is the safety of `KeepsCalls`: each step is a call, the first limit or a return
of `RuntimeCalls`, or leaves them alone. That each call returns is TLC's.

### The run of a document

The order of the scripts reached is not inductive: scripts are inserted in the
middle of a document. `Layout` says what the document is while nothing stopped
the run: the scripts reached, then those that the running one wrote, then those
on the stack of `execute_script`, then those left to the loop over the parsed
ones; and `Points` that the insertion point is behind what was written. A write
inserts between the second part and the third, the end of a script moves the
second part onto the third, and starting one moves the head of the third or
fourth behind the first. Once a limit is met only `InOrder` is left, which no
later step disturbs.

### Events and dispatch

From `DispatchAssumption`, for any targets, events, numbers of registrations and
depth of dispatch. The invariant has three parts:

- `Walking` is about lists and the dispatches that walk them. The `depth` of a
  list is the number of dispatches that are at its target (`At`), so it is zero
  exactly when nobody holds a slot of it; a removed entry is there only while
  the list is `dirty`, and that only while it is walked (`ListOK`). Then what
  `SlotsHeld` says of the pending slots (`Held`) is kept because no step moves an
  entry of a list whose depth is not zero: an addition appends, a removal puts
  a tombstone, and the compaction in `finish` waits for the last dispatch.
  `ListOK` also says that of the entries that count no two are alike, that handler
  attributes do not capture, and that the ids given are below the next one; the
  refinement needs these.
- `Marked` says that an event is flagged as dispatched while exactly one frame of
  the stack dispatches it.
- `Counted` is `NoErrorLost` with the types of the counters. A report is
  dispatched with the same steps as any other event, so `Marked` is what tells
  the frame of the error event from the others.

For the refinement, an edit of a list is one of `Registers`, `Unregisters` and
`Reassigns`, stated about the entries of it that are live; a compaction leaves
those alone. A step of the stack pushes, pops or
replaces the call on top (`Calls`). Each action of the dispatch then maps to one
action of `EventTargets` or to a stutter; the `once` listener that is taken out and
called in one step maps to the call, which unregisters too.

### The document and its records

From `MaxNodesAssumption`, `ScriptAssumption` and `PageAssumption` (the page
that is parsed has room), for any number of slots, of script variables and of
arguments, with collections wherever one can happen.

`TreeIsForest` says that no node is below itself, and what is below a node is
computed by a walk. Neither is of use in an induction over steps, so two things
stand in for them:

- A walk of as many rounds as there are slots is the least set that holds where it
  starts and is closed under its edges (`BelowIs`, `Spread`): after that many
  rounds nothing can be new, since a round that is not the last adds a node.
- A document is `Sound` when every link is there in both directions, every node
  has one owner, a parent or a template, and there is a `depth` that grows along
  every edge to what is owned (`Deepens`). A sound document has no cycle, through
  template contents neither (`SoundIsAcyclic`). That a change leaves one sound
  is shown by giving the new depth: detaching keeps the old; linking a node n
  below p adds what p is deep to all below n, and the check
  `MayInsert` is what says that p is not below n; a copy is as deep as its original.

Each operation of `DomTree` has a lemma that it leaves a sound document with the
nodes it had (`LinkedKeeps`, `PreInsertedKeeps`, `ReplacedKeeps`, `ClonedKeeps`, `EmptiedKeeps`,
`FilledKeeps` ...). Each binding of `ScriptDom` is then a borrow that is
`Lawful`: sound, with the old nodes of the old kinds, within the node limit, and
with a call that names nodes only. `DomInv` is that, of the document, the records and
the call under way; which nodes script holds matters to it only as far as they
are nodes.

`RecordsFollowTree` speaks of the moments when the records have been
synchronised. `FollowInv` says what holds in between: the record of every node
has the edges of the arena, but for nodes that are noted as changed, that the
synchronisation under way has still to look at, or that were added since
(`Pending`); the records list each other, and what a node outside `Pending` is
linked to has a record too. Its parts are what one step owes to the next:
`RefreshedFollows` is about a set of nodes that is looked at again, `PiecesFollow`
about the components `Recorded` adds, `SurvivorsFollow` about a collection, which
takes whole sets that no root leads to, so no edge of a survivor is lost.
A borrow changes links of nodes it notes and of no others, which is why each
lemma about an operation also says what it notes.

`IdentityKept` speaks of steps: none gives up the record of a node script can
reach, and with it the wrapper, unless the call gathers its arguments.  What
script reaches is a closure in the arena, what a collection spares a closure in the
records, and the two agree only when the records have been synchronised
(`ReachableCached`).  `KeepInv` says what holds of `Pending` in between, when a
collection may happen at each round:

- The borrow was `Calm`: a pending node with a record links, in the arena, only to
  records that are kept alive, and one without has no parent with a record.
  What script reaches then stays among the records kept (`CalmCovers`).
- Or one new node t is `Growing`: t is in a parent that is kept alive, and
  empty, or it took in nodes that had records and is not yet in one; whatever
  else is pending hangs from t or from nothing (`GrowingCovers`).  `textContent`, `innerHTML`,
  `splitText`, `replaceWith(text)` and a fragment left behind by a call that
  throws are of this kind.  The round that links t to a record makes it
  `Calm` (`GrowingGrows`).
- A node made for a call that has still to place it is `Lone`: it is
  linked to nothing.

A borrow keeps this because of what its operations move: `Moves` says that every node
noted is in `Base`, what the records of the document, the variables and the arguments
keep alive, and went to a parent there, to nothing, or into t; each operation
of `DomTree` adds to it only what its lemma names (`DetachedMoves`, `LinkedMoves`,
`PreInsertedMoves`, `ReplacedMoves` ...), so it composes over the steps of a
binding.  Neither kind describes a call that gathers several arguments and then
places the fragment: this is where `nodes_unique` finds its counterexample, and why
`IdentityKept` leaves these calls out.  A call that gathers and is refused half way
is in the proof (`GatheredGrows`).

`PlacedAsAsked` compares what a variadic call leaves, after up to two borrows with
collections and synchronisation between them, with what was asked for of the
children before the first one.  `PlaceInv` says of a call that waits to place its
node n that it `Asks` for the right thing of the document as it is now: `asked` is
the nodes that n brings, and `Around` them the children of the parent that are on
either side and not among them; and the sibling found before the arguments were
gathered (`viable`), if it is still there, parts these sides, arguments
apart (`LastOf`, `FirstOf`).  The argument has three parts, over a small theory of lists
without some of their elements (`Without`, whose theorems are proved by induction
on lists given as a set, `ListInduction`):

- Starting: `Opened`, what the standard asks for of several arguments, is computed step by
  step beside `Gathered`, what the code does; at each step the fragment has as children
  exactly the nodes opened so far, and every other node the children it
  had without these (`Taking`, `GatherTakes`).  A fragment that is opened brings
  nodes that are no arguments themselves, so a child of the parent can be among the
  nodes moved and not among the arguments only when the parent is itself an
  argument, and then nothing of it is left (`FindsAmong`) and the call throws.
  This is why the sibling found first may be used (`LastStays`, `FirstStays`).
- Waiting: nothing but the borrow that places the node changes the arena or the
  call, but for the sheets (`BearsAlike`).
- Placing: what each operation of `DomTree` makes of the children of the parent
  (`PlacedBefore`, `PlacedLast`, `PlacedFor`, `PlacedAlone`), with the reference node the
  code computes from the sibling at that moment, is what is asked for
  (`FinishedAsAsked`); where the node is its own reference or its next sibling is,
  the nodes skipped are among those moved.

### Sums

`FiniteSums` proves what the folds of the community modules are. A sum is a
`CHOOSE` of a recursive function, so first such a function exists, on the
subsets of a finite set (`SumsExist`), and any two agree (`SumsAgree`); then the
element taken out first does not matter (`SumsAnyElement`), and from there on a
sum is used through `SumElement`, `SumChange`, `SumUnion` and `SumPart` alone.
The induction theorems of the library take the property as an operator, which
the provers here cannot instantiate; the induction is a least counterexample
instead, found with the well-foundedness of the naturals (`LeastNatural`,
`Naturally`), where the property is a set of numbers.

### Model-checked only

- Liveness (`EveryCallReturns`, and that the calls of `KeepsCalls` return): the
  prover does not reach it.

## What is not modelled

- The provider of one hop, the address checks and the decoders: predicates over
  bytes, external to `ResourceFetch`, `ResourceLoader` and `DeadlineTransport`.
- Layout, styling, painting, SVG drawing: floating-point or text computations
  without state that outlives a call.  The pagination around them is planned.
- Parsing: driven by html5ever, whose tree builder is outside the repository.
- The bindings that only convert values, and event constructors and getters.
- `AbortSignal` in `ResourceFetch`: the loops modelled there do not read it.
- Test, benchmark and comparison tools.
- Attributes, character data, CSSOM values and the tree operations of the
  parsers (`reparent_children` and the `append` family).
- The scanner that finds the imports of a sheet, URL syntax, and the warnings of
  failed imports.
- Streaming, image requests of scripts and sandbox: see the plan.

## Plan

Built, in this order: `ResourceLoader` with its proofs, `SourceCaches`, `EventLoop` over
`RuntimeCalls`, `DocumentRun`, `DeadlineTransport`, `ResourceFetch` with its proofs,
`EventDispatch` over `EventTargets`, `BackgroundImages` with `SvgPictures`, `ScriptDom` over
`NodeGraph` and `DomTree`, `StylesheetImports` with its proofs; then `FiniteSums` and the proofs of the
images, the caches, the deadline, the event loop, the run of a document,
listeners and dispatch, and the arena with its records and its variadic calls.

To model next, the most important first:

1. `StreamingDelivery`: pages are delivered once and in order, and those delivered
   never change when a layout is resumed; the body cache that is unlocked
   during a fetch.  A case to look at: an absolutely positioned element that
   arrives late and is delivered at one checkpoint is late at the next one too,
   where `late_boxes_on_delivered_pages` finds its box on a delivered page.
2. `SandboxProtocol`: one request at a time between host and guest; a page whose
   export failed is not entered again.
3. Image requests of scripts over `EventLoop`, the target registry, the variable budget of the
   cascade as a bounded check of an operator.

To prove next: the safety of these modules, from the invariants their runs check.

New runs take the place of the narrower ones here, so that the whole project
can be checked beside a change of the code.
