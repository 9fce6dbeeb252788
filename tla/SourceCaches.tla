---------------------------- MODULE SourceCaches ----------------------------
(***************************************************************************)
(* What each published SVG source keeps per box size (ImageSource in       *)
(* resource_loader.rs): scenes, built with no mutex held by one thread per *)
(* size while the others wait on its flight, and rasters, made one at a    *)
(* time under the budget mutex.  Both are charged to the budget the whole  *)
(* source cache shares and evict their own least recently used sizes.      *)
(*                                                                         *)
(* rasterize holds raster_cache and the budget mutex from its first look   *)
(* at the budget to its end and is one step; a scene takes the steps the   *)
(* code separates by releasing scene_cache.                                *)
(***************************************************************************)
EXTENDS Naturals, FiniteSets, Sequences, SequencesExt

CONSTANTS
  Threads,
  Svgs,           \* the SVG sources in the cache
  Sizes,          \* the box sizes asked for
  NaNSizes,       \* the sizes with a NaN dimension: equal to no size
  SceneBytes,     \* the heap bytes a scene may have
  RasterBytes,    \* the bytes a raster may have
  OtherBytes,     \* the bytes the rest of the source cache may take
  Limit,          \* CacheBudget.limit
  MaxRasterSizes, \* MAX_RASTER_SIZES
  MaxCalls,       \* bound: how many calls are made
  None

ASSUME CachesAssumption ==
  /\ NaNSizes \subseteq Sizes /\ IsFiniteSet(Svgs)
  /\ SceneBytes \subseteq Nat /\ RasterBytes \subseteq Nat /\ OtherBytes \subseteq Nat
  /\ Limit \in Nat /\ MaxCalls \in Nat
  /\ MaxRasterSizes \in Nat \ {0}

Entries(Bytes) == [size : Sizes, bytes : Bytes]
Flights == [svg : Svgs, size : Sizes, owner : Threads,
            outcome : {"pending", "scene", "none"}]

VARIABLES
  pc,          \* where each thread is
  req,         \* the source and size each thread asks for
  mine,        \* the flight each thread owns or waits for
  built,       \* the bytes of the scene each thread built
  flights,     \* every SceneFlight made so far, by identity
  sceneLoading,\* SceneCache.loading of each source: its flights' identities
  scenes,      \* SceneCache.cached of each source, least recently used first
  rasters,     \* raster_cache of each source, least recently used first
  rasterOnly,  \* the sources whose raster_only flag is set
  rasterPoisoned, \* the sources whose raster_cache mutex is poisoned
  poisoned,    \* the budget mutex is poisoned
  used,        \* CacheBudget.used
  other,       \* the bytes of `used` that are not kept here
  calls

threadVars == <<pc, req, mine, built>>
flightVars == <<flights, sceneLoading>>
keptVars   == <<scenes, rasters, used, other>>
flagVars   == <<rasterOnly, rasterPoisoned, poisoned>>
vars == <<threadVars, flightVars, keptVars, flagVars, calls>>

-----------------------------------------------------------------------------
\* f32 equality of both dimensions.
SameSize(a, b) == a = b /\ a \notin NaNSizes

Monus(a, b) == IF a >= b THEN a - b ELSE 0
Remaining == Monus(Limit, used)

Bytes(kept) == FoldSeq(LAMBDA e, sum : sum + e.bytes, 0, kept)

Index(kept, size) == SelectInSeq(kept, LAMBDA e : SameSize(e.size, size))

Touch(kept, size) ==
  LET i == Index(kept, size) IN Append(RemoveAt(kept, i), kept[i])

\* Mutant of Victims: the number of sizes is not looked at.
VictimsForBytes(kept, excess) ==
  Min({k \in 0..Len(kept) : k = Len(kept) \/ Bytes(SubSeq(kept, 1, k)) >= excess})

\* How many of the least recently used entries are dropped, one by one, until
\* a slot is free and `excess` bytes are given back.
Victims(kept, excess) ==
  Min({k \in 0..Len(kept) :
        k = Len(kept) \/ (Len(kept) - k < MaxRasterSizes
                          /\ Bytes(SubSeq(kept, 1, k)) >= excess)})

Dropped(kept, bytes) == SubSeq(kept, 1, Victims(kept, Monus(bytes, Remaining)))
Kept(kept, bytes) ==
  SubSeq(kept, Victims(kept, Monus(bytes, Remaining)) + 1, Len(kept))

\* Mutant of Charge: an evicted entry stays charged.
ChargeKeepingVictims(kept, bytes) == used + bytes

Charge(kept, bytes) == Monus(used, Bytes(Dropped(kept, bytes))) + bytes

Goto(t, place) == pc' = [pc EXCEPT ![t] = place]

\* What a thread asks for and has in hand ends with its call.
Return(t) ==
  /\ pc' = [pc EXCEPT ![t] = "idle"]
  /\ req' = [req EXCEPT ![t] = None]
  /\ mine' = [mine EXCEPT ![t] = None]
  /\ built' = [built EXCEPT ![t] = None]

\* The flight of a size that is being built, if there is one.
Pending(svg, size) ==
  {f \in sceneLoading[svg] : SameSize(flights[f].size, size)}

-----------------------------------------------------------------------------
Init ==
  /\ pc = [t \in Threads |-> "idle"]
  /\ req = [t \in Threads |-> None]
  /\ mine = [t \in Threads |-> None]
  /\ built = [t \in Threads |-> None]
  /\ flights = <<>>
  /\ sceneLoading = [s \in Svgs |-> {}]
  /\ scenes = [s \in Svgs |-> <<>>]
  /\ rasters = [s \in Svgs |-> <<>>]
  /\ rasterOnly = {}
  /\ rasterPoisoned = {}
  /\ poisoned = FALSE
  /\ used = 0
  /\ other = 0
  /\ calls = 0

Call(t, svg, size, place) ==
  /\ pc[t] = "idle" /\ calls < MaxCalls
  /\ calls' = calls + 1
  /\ req' = [req EXCEPT ![t] = [svg |-> svg, size |-> size]]
  /\ Goto(t, place)
  /\ UNCHANGED <<mine, built, flightVars, keptVars, flagVars>>

\* scene_with under scene_cache: the raster path was chosen before, or a scene
\* of this size is kept.
SceneAnswered(t) ==
  LET svg == req[t].svg  size == req[t].size IN
  /\ pc[t] = "scene"
  /\ \/ svg \in rasterOnly /\ UNCHANGED scenes
     \/ /\ svg \notin rasterOnly
        /\ Index(scenes[svg], size) # 0
        /\ scenes' = [scenes EXCEPT ![svg] = Touch(scenes[svg], size)]
  /\ Return(t)
  /\ UNCHANGED <<flightVars, rasters, used, other, flagVars, calls>>

Misses(t) ==
  /\ pc[t] = "scene"
  /\ req[t].svg \notin rasterOnly
  /\ Index(scenes[req[t].svg], req[t].size) = 0

SceneJoins(t) ==
  /\ Misses(t)
  /\ \E f \in Pending(req[t].svg, req[t].size) : mine' = [mine EXCEPT ![t] = f]
  /\ Goto(t, "join")
  /\ UNCHANGED <<req, built, flightVars, keptVars, flagVars, calls>>

SceneOwns(t) ==
  LET svg == req[t].svg
      flight == [svg |-> svg, size |-> req[t].size, owner |-> t, outcome |-> "pending"]
  IN
  /\ Misses(t)
  /\ Pending(svg, req[t].size) = {}
  /\ flights' = Append(flights, flight)
  /\ sceneLoading' = [sceneLoading EXCEPT ![svg] = @ \cup {Len(flights) + 1}]
  /\ mine' = [mine EXCEPT ![t] = Len(flights) + 1]
  /\ Goto(t, "build")
  /\ UNCHANGED <<req, built, keptVars, flagVars, calls>>

\* SceneFlight::wait locks the outcome after scene_cache was released.
FlightWait(t) ==
  /\ pc[t] = "join"
  /\ IF flights[mine[t]].outcome = "pending"
       THEN Goto(t, "wait") /\ UNCHANGED <<req, mine, built>>
       ELSE Return(t)
  /\ UNCHANGED <<flightVars, keptVars, flagVars, calls>>

WakeSpuriously(t) ==
  /\ pc[t] = "wait"
  /\ Goto(t, "join")
  /\ UNCHANGED <<req, mine, built, flightVars, keptVars, flagVars, calls>>

BuildScene(t, bytes) ==
  /\ pc[t] = "build" /\ req[t].size \notin NaNSizes
  /\ built' = [built EXCEPT ![t] = bytes]
  /\ Goto(t, "retain")
  /\ UNCHANGED <<req, mine, flightVars, keptVars, flagVars, calls>>

\* The builder found no scene for this size, or panicked.
BuildFails(t) ==
  /\ pc[t] = "build"
  /\ Goto(t, "complete")
  /\ UNCHANGED <<req, mine, built, flightVars, keptVars, flagVars, calls>>

\* The document uses what a scene cannot express, at any size.
BuildFallsBack(t) ==
  /\ pc[t] = "build" /\ req[t].size \notin NaNSizes
  /\ rasterOnly' = rasterOnly \cup {req[t].svg}
  /\ Goto(t, "complete")
  /\ UNCHANGED <<req, mine, built, flightVars, keptVars, rasterPoisoned, poisoned, calls>>

\* retain_scene.  A scene that does not fit is returned all the same, but a
\* poisoned budget makes scene_with give up the scene it has built.
RetainScene(t) ==
  LET svg == req[t].svg
      kept == scenes[svg]
  IN
  /\ pc[t] = "retain"
  /\ IF poisoned \/ built[t] > Remaining + Bytes(kept)
       THEN UNCHANGED <<scenes, used>>
       ELSE /\ scenes' = [scenes EXCEPT ![svg] =
                            Append(Kept(kept, built[t]),
                                   [size |-> req[t].size, bytes |-> built[t]])]
            /\ used' = Charge(kept, built[t])
  /\ built' = [built EXCEPT ![t] = IF poisoned THEN None ELSE @]
  /\ Goto(t, "complete")
  /\ UNCHANGED <<req, mine, flightVars, rasters, other, flagVars, calls>>

\* Mutant of Completed: the flight is found by its size.
CompletedBySize(svg, f) ==
  {g \in sceneLoading[svg] : SameSize(flights[g].size, flights[f].size)}

\* Arc::ptr_eq: the flights `complete` takes out of the list.
Completed(svg, f) == {g \in sceneLoading[svg] : g = f}

\* PendingScene::complete, called on success and by the guard's drop.
Complete(t) ==
  LET svg == req[t].svg  f == mine[t] IN
  /\ pc[t] = "complete"
  /\ flights' = [flights EXCEPT ![f].outcome = IF built[t] = None THEN "none" ELSE "scene"]
  /\ sceneLoading' = [sceneLoading EXCEPT ![svg] = @ \ Completed(svg, f)]
  /\ Goto(t, "notify")
  /\ UNCHANGED <<req, mine, built, keptVars, flagVars, calls>>

\* Mutant of Woken: notify_one.
WokenFirst(t) ==
  LET waiting == {w \in Threads : pc[w] = "wait" /\ mine[w] = mine[t]} IN
  IF waiting = {} THEN {} ELSE {CHOOSE w \in waiting : TRUE}

Woken(t) == {w \in Threads : pc[w] = "wait" /\ mine[w] = mine[t]}

NotifyAll(t) ==
  /\ pc[t] = "notify"
  /\ pc' = [w \in Threads |-> IF w = t THEN "idle" ELSE IF w \in Woken(t) THEN "join" ELSE pc[w]]
  /\ req' = [req EXCEPT ![t] = None]
  /\ mine' = [mine EXCEPT ![t] = None]
  /\ built' = [built EXCEPT ![t] = None]
  /\ UNCHANGED <<flightVars, keptVars, flagVars, calls>>

\* rasterize: nothing to answer with, a raster of this size is kept, or the
\* budget is poisoned, the output too large or the document not drawable.
RasterAnswered(t) ==
  LET svg == req[t].svg  size == req[t].size IN
  /\ pc[t] = "raster"
  /\ IF svg \notin rasterPoisoned /\ Index(rasters[svg], size) # 0
       THEN rasters' = [rasters EXCEPT ![svg] = Touch(rasters[svg], size)]
       ELSE UNCHANGED rasters
  /\ Return(t)
  /\ UNCHANGED <<flightVars, scenes, used, other, flagVars, calls>>

\* The bytes a new raster of this source may have.
Available(svg) == Remaining + Bytes(rasters[svg])

Rasterize(t, bytes) ==
  LET svg == req[t].svg
      kept == rasters[svg]
  IN
  /\ pc[t] = "raster" /\ req[t].size \notin NaNSizes
  /\ svg \notin rasterPoisoned /\ ~poisoned
  /\ Index(kept, req[t].size) = 0
  /\ bytes <= Available(svg)
  /\ rasters' = [rasters EXCEPT ![svg] =
                   Append(Kept(kept, bytes), [size |-> req[t].size, bytes |-> bytes])]
  /\ used' = Charge(kept, bytes)
  /\ Return(t)
  /\ UNCHANGED <<flightVars, scenes, other, flagVars, calls>>

\* A panic of the rasterizer unwinds through both mutexes.
RasterizePanics(t) ==
  LET svg == req[t].svg IN
  /\ pc[t] = "raster"
  /\ svg \notin rasterPoisoned /\ ~poisoned
  /\ Index(rasters[svg], req[t].size) = 0
  /\ rasterPoisoned' = rasterPoisoned \cup {svg}
  /\ poisoned' = TRUE
  /\ Return(t)
  /\ UNCHANGED <<flightVars, keptVars, rasterOnly, calls>>

\* Loads reserve, publish and give back (ResourceLoader.tla).
ChargeOther(n) ==
  /\ n # other /\ other <= used
  /\ used - other + n <= Limit
  /\ used' = used - other + n
  /\ other' = n
  /\ UNCHANGED <<threadVars, flightVars, scenes, rasters, flagVars, calls>>

Step(t) ==
  \/ SceneAnswered(t) \/ SceneJoins(t) \/ SceneOwns(t) \/ FlightWait(t)
  \/ \E n \in SceneBytes : BuildScene(t, n)
  \/ BuildFails(t) \/ BuildFallsBack(t) \/ RetainScene(t)
  \/ Complete(t) \/ NotifyAll(t)
  \/ RasterAnswered(t) \/ RasterizePanics(t)
  \/ \E n \in RasterBytes : Rasterize(t, n)

Next ==
  \/ \E t \in Threads :
       \/ \E svg \in Svgs, size \in Sizes :
            Call(t, svg, size, "scene") \/ Call(t, svg, size, "raster")
       \/ Step(t)
       \/ WakeSpuriously(t)
  \/ \E n \in {0} \cup OtherBytes : ChargeOther(n)

Spec == Init /\ [][Next]_vars

\* Threads keep running and builds end.
FairSpec == Spec /\ \A t \in Threads : WF_vars(Step(t))
-----------------------------------------------------------------------------
TypeOK ==
  /\ pc \in [Threads -> {"idle", "scene", "join", "wait", "build", "retain",
                         "complete", "notify", "raster"}]
  /\ req \in [Threads -> [svg : Svgs, size : Sizes] \cup {None}]
  /\ mine \in [Threads -> (1..Len(flights)) \cup {None}]
  /\ built \in [Threads -> SceneBytes \cup {None}]
  /\ flights \in Seq(Flights)
  /\ sceneLoading \in [Svgs -> SUBSET (1..Len(flights))]
  /\ scenes \in [Svgs -> Seq(Entries(SceneBytes))]
  /\ rasters \in [Svgs -> Seq(Entries(RasterBytes))]
  /\ rasterOnly \subseteq Svgs /\ rasterPoisoned \subseteq Svgs
  /\ poisoned \in BOOLEAN
  /\ used \in Nat /\ other \in Nat /\ calls \in Nat

Building(t) == pc[t] \in {"build", "retain", "complete"}

\* The flights in the list are exactly those of the threads that build, and no
\* two of them are for the same size of a source: a scene is never built twice
\* at once, and an error or a panic leaves no flight that would hang a box.
OneBuilderPerSize ==
  /\ TypeOK
  /\ \A s \in Svgs :
       sceneLoading[s] = {mine[t] : t \in {u \in Threads : Building(u) /\ req[u].svg = s}}
  /\ \A s \in Svgs : \A f, g \in sceneLoading[s] :
       SameSize(flights[f].size, flights[g].size) => f = g

\* A size is kept once, and no more sizes are kept than the limit.
SizesKeptOnce ==
  \A s \in Svgs : \A kept \in {scenes[s], rasters[s]} :
    /\ Len(kept) <= MaxRasterSizes
    /\ \A i, j \in 1..Len(kept) : SameSize(kept[i].size, kept[j].size) => i = j

\* Evictions give back exactly what they were charged, so `used` is what is
\* kept, and it stays within the limit; no size is kept twice or past the
\* number of sizes.
ChargedExactly ==
  /\ SizesKeptOnce
  /\ used = other + MapThenSumSet(LAMBDA s : Bytes(scenes[s]) + Bytes(rasters[s]), Svgs)
  /\ used <= Limit

\* Every call of scene and rasterize returns, whoever panics or waits.
EveryCallReturns == \A t \in Threads : pc[t] # "idle" ~> pc[t] = "idle"

\* The comment of ImageSource::scene: a document the scene builder leaves to
\* the raster path is remembered, "so it is asked once".
AskedOnce ==
  [][\A t \in Threads : BuildFallsBack(t) => req[t].svg \notin rasterOnly]_vars
=============================================================================
