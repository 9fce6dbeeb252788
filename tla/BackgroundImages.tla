-------------------------- MODULE BackgroundImages --------------------------
(***************************************************************************)
(* The images of CSS backgrounds, borders, markers and generated content   *)
(* (raikiri-html resources.rs, resources/image_cache.rs).  Renders that    *)
(* share a resource set share its cache and its map of flights; all sets   *)
(* share the process budget: decode permits and retained bytes.            *)
(*                                                                         *)
(* A step is what the code does between two releases of a shared lock.     *)
(* Fetching, decoding and drawing hold none and end in the step that next  *)
(* takes one.  The bytes of the process are read and reserved inside the   *)
(* section of the set that does it.                                        *)
(***************************************************************************)
EXTENDS Naturals, FiniteSets, Sequences, SequencesExt, Retain

CONSTANTS
  Threads,
  Sets,           \* the resource sets: what clones of RenderResources share
  Urls,
  SvgUrls,        \* the URLs that name an SVG document
  DataUrls,       \* the data: URLs, which are fetched without a flight
  Sizes,          \* the box sizes SVG documents are painted at
  ImageBytes,     \* the bytes a decoded image or a drawn raster may have
  SceneBytes,     \* the bytes a scene may be charged
  SourceBytes,    \* the bytes an SVG source is charged
  SetLimit,       \* DecodedImageCache.max_bytes
  ProcessLimit,   \* ProcessImageBudget.max_retained
  MaxPermits,     \* ProcessImageBudget.max_permits
  MaxRasterSizes, \* MAX_RASTER_SIZES
  MaxAttempts,    \* MAX_BACKGROUND_IMAGE_ATTEMPTS
  Panicking,      \* bound: the threads whose provider or decoder may panic
  MaxCalls,       \* bound: how many calls each thread makes
  Asked,          \* bound: who asks which set for what
  None

\* CachedBackgroundImage: what the cache keeps of a URL.
Rasters == [size : Sizes \cup {"natural"}, bytes : Nat]
CachedImages == [svg : BOOLEAN, rasters : Seq(Rasters)]

\* What a thread is called for: to preload a URL, for a render or for the SVG
\* pictures of a set, or to paint an SVG source at a size.
BackgroundCall ==
  [set : Sets, for : {"background"}, asker : Threads \cup Sets, url : Urls, tried : BOOLEAN]
PaintCall ==
  [set : Sets, for : {"pixels", "vector"}, asker : Threads, url : SvgUrls, size : Sizes]

ASSUME ImagesAssumption ==
  /\ IsFiniteSet(Threads) /\ IsFiniteSet(Sets) /\ IsFiniteSet(Urls)
  /\ SvgUrls \subseteq Urls /\ DataUrls \subseteq Urls
  /\ ImageBytes \subseteq Nat /\ SceneBytes \subseteq Nat /\ SourceBytes \in Nat
  /\ SetLimit \in Nat /\ ProcessLimit \in Nat
  /\ MaxPermits \in Nat \ {0} /\ MaxRasterSizes \in Nat \ {0}
  /\ MaxAttempts \in Nat /\ MaxCalls \in [Threads -> Nat]
  /\ Threads \cap Sets = {} /\ Panicking \subseteq Threads
  /\ None \notin {"pending", "skipped", "cached"} \cup CachedImages
  /\ None \notin BackgroundCall \cup PaintCall
  /\ Asked \subseteq Threads \X Sets \X {"css", "url", "data", "paint"}

\* Who counts its requests: a render, or the SVG pictures of a set.
Askers == Threads \cup Sets

VARIABLES
  pc,         \* where each thread is
  call,       \* what each thread was called for
  warned,     \* the threads whose call pushed a warning
  aborted,    \* the threads whose call's abort signal was raised
  room,       \* the bytes a decode may give, as read before it
  seen,       \* the URLs each asker has gone through
  attempts,   \* the requests each asker has made
  inflight,   \* background_inflight of each set: a flight's state by URL
  orphaned,   \* the URLs whose flight lost its owner, by set
  entries,    \* DecodedImageCache.entries of each set
  decoded,    \* .decoded_bytes
  inline,     \* .inline_bytes
  scenes,     \* .scenes, oldest first
  sceneBytes, \* .scene_bytes
  rasterOnly, \* .raster_only
  budget,     \* RenderResources.budget: the inline bytes charged, by what for
  retained,   \* ProcessImageBudget.retained
  permits,    \* ProcessImageBudget.permits
  calls

threadVars == <<pc, call, warned, aborted, room>>
askerVars  == <<seen, attempts>>
keptVars   == <<entries, decoded, scenes, sceneBytes, rasterOnly>>
flightVars == <<inflight, orphaned>>
vars == <<threadVars, askerVars, flightVars, keptVars, inline, budget, retained, permits, calls>>

-----------------------------------------------------------------------------
Monus(a, b) == IF a >= b THEN a - b ELSE 0
Lesser(a, b) == IF a <= b THEN a ELSE b
Bytes(kept) == FoldSeq(LAMBDA e, sum : sum + e.bytes, 0, kept)

RasterBytes(entry) == IF entry = None THEN 0 ELSE Bytes(entry.rasters)
\* SourceChange: only an SVG source is charged for itself.
SourceCost(entry) == IF entry # None /\ entry.svg THEN SourceBytes ELSE 0

AtSize(kept, size) == SelectInSeq(kept, LAMBDA e : e.size = size)
SceneAt(s, u, size) ==
  SelectInSeq(scenes[s], LAMBDA e : e.url = u /\ e.size = size)

\* remaining_for and available_for: replacing a URL's image gives its bytes back.
SetRoom(s, u) ==
  Monus(SetLimit, Monus(decoded[s], RasterBytes(entries[s][u])) + sceneBytes[s] + inline[s])
ProcessRoom(prior) == Monus(ProcessLimit, Monus(retained, prior))

\* reserve_decoded would succeed.
Reserves(s, next) ==
  next <= decoded[s] \/ retained + (next - decoded[s]) <= ProcessLimit

Fits(s, next) == next <= Monus(Monus(SetLimit, sceneBytes[s]), inline[s])

Goto(t, place) == pc' = [pc EXCEPT ![t] = place]
Warn(t) == warned' = warned \cup {t}

-----------------------------------------------------------------------------
Init ==
  /\ pc = [t \in Threads |-> "idle"]
  /\ call = [t \in Threads |-> None]
  /\ warned = {} /\ aborted = {}
  /\ room = [t \in Threads |-> 0]
  /\ seen = [a \in Askers |-> {}]
  /\ attempts = [a \in Askers |-> 0]
  /\ inflight = [s \in Sets |-> [u \in Urls |-> None]]
  /\ orphaned = [s \in Sets |-> {}]
  /\ entries = [s \in Sets |-> [u \in Urls |-> None]]
  /\ decoded = [s \in Sets |-> 0]
  /\ inline = [s \in Sets |-> 0]
  /\ scenes = [s \in Sets |-> <<>>]
  /\ sceneBytes = [s \in Sets |-> 0]
  /\ rasterOnly = [s \in Sets |-> {}]
  /\ budget = [s \in Sets |-> [backgrounds |-> 0, pictures |-> 0]]
  /\ retained = 0
  /\ permits = MaxPermits
  /\ calls = [t \in Threads |-> 0]

Call(t, what, place, request) ==
  /\ pc[t] = "idle" /\ calls[t] < MaxCalls[t]
  /\ <<t, request.set, what>> \in Asked
  /\ calls' = [calls EXCEPT ![t] = @ + 1]
  /\ call' = [call EXCEPT ![t] = request]
  /\ Goto(t, place)
  /\ UNCHANGED <<warned, aborted, room, askerVars, flightVars, keptVars, inline, budget,
                 retained, permits>>

\* One URL of preload_background_urls for the CSS of a render.
Preload(t, s, u) ==
  Call(t, "css", "ask", [set |-> s, for |-> "background", asker |-> t, url |-> u, tried |-> FALSE])

\* get_decoded_at_size and get_vector during paint.
PaintPixels(t, s, u, size) ==
  Call(t, "paint", "pixels", [set |-> s, for |-> "pixels", asker |-> t, url |-> u, size |-> size])
PaintVector(t, s, u, size) ==
  Call(t, "paint", "vector", [set |-> s, for |-> "vector", asker |-> t, url |-> u, size |-> size])

\* The signal of a render is looked at before each request, by the owner of a
\* flight, and before a decode starts; never by a thread that waits.
Listening == {"ask", "look", "payload", "join", "request", "picture", "lock"}

Abort(t) ==
  /\ pc[t] \in Listening /\ t \notin aborted
  /\ call[t].for \in {"background", "picture"}
  /\ aborted' = aborted \cup {t}
  /\ UNCHANGED <<pc, call, warned, room, askerVars, flightVars, keptVars, inline, budget,
                 retained, permits, calls>>

\* What a call leaves in its thread; the end of its scope, or of its unwinding.
Forget(t) ==
  /\ pc' = [pc EXCEPT ![t] = "idle"]
  /\ call' = [call EXCEPT ![t] = None]
  /\ warned' = warned \ {t}
  /\ aborted' = aborted \ {t}

Return(t) ==
  /\ pc[t] \in {"left", "panicked"} /\ call[t].asker = t
  /\ Forget(t)
  /\ UNCHANGED <<room, askerVars, flightVars, keptVars, inline, budget, retained, permits, calls>>

-----------------------------------------------------------------------------
(***************************************************************************)
(* preload_background_urls and fetch_background_image.                     *)
(***************************************************************************)

\* The URL is passed over: the render is aborted, or it was seen before.
PassOver(t) ==
  /\ pc[t] = "ask"
  /\ t \in aborted \/ call[t].url \in seen[call[t].asker]
  /\ Goto(t, "left")
  /\ UNCHANGED <<call, warned, aborted, room, askerVars, flightVars, keptVars, inline, budget,
                 retained, permits, calls>>

\* The URL is new and is not asked for: the policy denies it, the consumer's
\* pixel source has it, the set has it, or the request limit was reached.
TurnAway(t) ==
  LET a == call[t].asker  u == call[t].url IN
  /\ pc[t] = "ask" /\ t \notin aborted /\ u \notin seen[a]
  /\ seen' = [seen EXCEPT ![a] = @ \cup {u}]
  /\ \/ Warn(t) /\ UNCHANGED attempts
     \/ UNCHANGED <<warned, attempts>>
     \/ /\ entries[call[t].set][u] = None
        /\ attempts[a] = MaxAttempts
        /\ attempts' = [attempts EXCEPT ![a] = @ + 1]
        /\ Warn(t)
  /\ Goto(t, "left")
  /\ UNCHANGED <<call, aborted, room, flightVars, keptVars, inline, budget, retained,
                 permits, calls>>

Ask(t) ==
  LET a == call[t].asker  u == call[t].url IN
  /\ pc[t] = "ask" /\ t \notin aborted /\ u \notin seen[a]
  /\ entries[call[t].set][u] = None
  /\ attempts[a] < MaxAttempts
  /\ seen' = [seen EXCEPT ![a] = @ \cup {u}]
  /\ attempts' = [attempts EXCEPT ![a] = @ + 1]
  /\ call' = [call EXCEPT ![t].tried = TRUE]
  /\ Goto(t, "look")
  /\ UNCHANGED <<warned, aborted, room, flightVars, keptVars, inline, budget, retained,
                 permits, calls>>

\* The first look of fetch_background_image, with the set's cache locked.
Look(t) ==
  LET u == call[t].url IN
  /\ pc[t] = "look"
  /\ Goto(t, IF entries[call[t].set][u] # None THEN "left"
             ELSE IF u \in DataUrls THEN "payload" ELSE "join")
  /\ UNCHANGED <<call, warned, aborted, room, askerVars, flightVars, keptVars, inline, budget,
                 retained, permits, calls>>

\* decode_data_background_image: the checks and the charge of an inline image;
\* then decode_and_cache_bytes looks at the signal.
AdmitPayload(t) ==
  LET charged == [budget EXCEPT ![call[t].set].backgrounds = @ + 1] IN
  /\ pc[t] = "payload"
  /\ \/ Warn(t) /\ Goto(t, "left") /\ UNCHANGED budget
     \/ t \in aborted /\ budget' = charged /\ Warn(t) /\ Goto(t, "left")
     \/ t \notin aborted /\ budget' = charged /\ Goto(t, "permit") /\ UNCHANGED warned
  /\ UNCHANGED <<call, aborted, room, askerVars, flightVars, keptVars, inline, retained,
                 permits, calls>>

\* Mutant of JoinOwner: a request is made though a flight is there.
JoinAnyway(t) ==
  LET s == call[t].set  u == call[t].url IN
  /\ pc[t] = "join"
  /\ inflight' = [inflight EXCEPT ![s][u] = "pending"]
  /\ Goto(t, "request")
  /\ UNCHANGED <<call, warned, aborted, room, askerVars, keptVars, inline, budget, retained,
                 permits, calls, orphaned>>

\* join_background_inflight, with the map locked.
JoinOwner(t) ==
  LET s == call[t].set  u == call[t].url IN
  /\ pc[t] = "join" /\ inflight[s][u] = None
  /\ inflight' = [inflight EXCEPT ![s][u] = "pending"]
  /\ Goto(t, "request")
  /\ UNCHANGED <<call, warned, aborted, room, askerVars, keptVars, inline, budget, retained,
                 permits, calls, orphaned>>

\* A flight that is over but still in the map answers at once.
JoinWaiter(t) ==
  LET flight == inflight[call[t].set][call[t].url] IN
  /\ pc[t] = "join" /\ flight # None
  /\ Goto(t, IF flight = "pending" THEN "wait" ELSE "left")
  /\ warned' = IF flight = "skipped" THEN warned \cup {t} ELSE warned
  /\ UNCHANGED <<call, aborted, room, askerVars, flightVars, keptVars, inline, budget, retained,
                 permits, calls>>

\* fetch_and_decode_network_owned up to the decode: the owner's render is
\* aborted, there is no provider, the request fails; or its bytes are here.
Request(t) ==
  /\ pc[t] = "request"
  /\ \/ Warn(t) /\ Goto(t, "finish")
     \/ t \notin aborted /\ Goto(t, "permit") /\ UNCHANGED warned
  /\ UNCHANGED <<call, aborted, room, askerVars, flightVars, keptVars, inline, budget, retained,
                 permits, calls>>

\* Where a background goes when its decode is over.
AfterDecode(t) == IF call[t].url \in DataUrls THEN "left" ELSE "finish"

\* Waiting threads that the finished flight of (s, u) answers.
Waiters(s, u) ==
  {w \in Threads : pc[w] = "wait" /\ call[w].set = s /\ call[w].url = u}

\* Mutant of Finish: the waiters are not told why the image was skipped.
FinishSilently(t) ==
  LET s == call[t].set  u == call[t].url IN
  /\ pc[t] = "finish"
  /\ inflight' = [inflight EXCEPT ![s][u] = IF t \in warned THEN "skipped" ELSE "cached"]
  /\ pc' = [w \in Threads |-> IF w = t THEN "remove"
                              ELSE IF w \in Waiters(s, u) THEN "left" ELSE pc[w]]
  /\ UNCHANGED <<call, warned, aborted, room, askerVars, keptVars, inline, budget, retained,
                 permits, calls, orphaned>>

\* BackgroundInflight::finish; the owner's warning is everybody's.
Finish(t) ==
  LET s == call[t].set  u == call[t].url IN
  /\ pc[t] = "finish"
  /\ inflight' = [inflight EXCEPT ![s][u] = IF t \in warned THEN "skipped" ELSE "cached"]
  /\ pc' = [w \in Threads |-> IF w = t THEN "remove"
                              ELSE IF w \in Waiters(s, u) THEN "left" ELSE pc[w]]
  /\ warned' = IF t \in warned THEN warned \cup Waiters(s, u) ELSE warned
  /\ UNCHANGED <<call, aborted, room, askerVars, keptVars, inline, budget, retained,
                 permits, calls, orphaned>>

RemoveFlight(t) ==
  /\ pc[t] = "remove"
  /\ inflight' = [inflight EXCEPT ![call[t].set][call[t].url] = None]
  /\ Goto(t, "left")
  /\ UNCHANGED <<call, warned, aborted, room, askerVars, keptVars, inline, budget, retained,
                 permits, calls, orphaned>>

-----------------------------------------------------------------------------
(***************************************************************************)
(* ProcessImageBudget: the decode permits.                                 *)
(***************************************************************************)
\* What a call does once it holds a permit.
Granted(t) ==
  CASE call[t].for = "background" -> IF call[t].url \in SvgUrls THEN "parse" ELSE "room"
    [] call[t].for = "pixels"     -> "again pixels"
    [] call[t].for = "vector"     -> "again vector"
    [] OTHER                      -> "picture room"

\* acquire, with the permits locked: a thread that is woken looks again.
Acquire(t) ==
  /\ pc[t] = "permit"
  /\ IF permits = 0
       THEN Goto(t, "asleep") /\ UNCHANGED permits
       ELSE permits' = permits - 1 /\ Goto(t, Granted(t))
  /\ UNCHANGED <<call, warned, aborted, room, askerVars, flightVars, keptVars, inline, budget,
                 retained, calls>>

Asleep == {w \in Threads : pc[w] = "asleep"}

\* Mutant of PermitsBack: nobody who waits for a permit is woken.
PermitsBackSilently(t, place) ==
  /\ permits' = Lesser(permits + 1, MaxPermits)
  /\ Goto(t, place)

\* Mutant of PermitsBack: the permit is counted and handed over.
PermitsBackTwice(t, place) ==
  /\ permits' = Lesser(permits + 1, MaxPermits)
  /\ \/ Asleep = {} /\ Goto(t, place)
     \/ \E w \in Asleep : pc' = [pc EXCEPT ![t] = place, ![w] = Granted(w)]

\* ProcessDecodeGuard::drop with notify_one.
PermitsBack(t, place) ==
  /\ permits' = Lesser(permits + 1, MaxPermits)
  /\ \/ Asleep = {} /\ Goto(t, place)
     \/ \E w \in Asleep : pc' = [pc EXCEPT ![t] = place, ![w] = "permit"]

\* The permit is held to the end of decode_and_cache_bytes and of a paint.
DropPermit(t) ==
  /\ pc[t] = "release"
  /\ PermitsBack(t, IF call[t].for = "background" THEN AfterDecode(t) ELSE "left")
  /\ UNCHANGED <<call, warned, aborted, room, askerVars, flightVars, keptVars, inline, budget,
                 retained, calls>>

-----------------------------------------------------------------------------
(***************************************************************************)
(* DecodedImageCache.                                                      *)
(***************************************************************************)
ScenesOf(s, u) == Without(scenes[s], {e \in Range(scenes[s]) : e.url # u})
ScenesWithout(s, u) == Without(scenes[s], {e \in Range(scenes[s]) : e.url = u})

\* commit_entry with invalidate: what was learned of the old source goes.
Invalidated(s, u) ==
  /\ scenes' = [scenes EXCEPT ![s] = ScenesWithout(s, u)]
  /\ sceneBytes' = [sceneBytes EXCEPT ![s] = @ - Bytes(ScenesOf(s, u))]
  /\ rasterOnly' = [rasterOnly EXCEPT ![s] = @ \ {u}]

\* insert_source of a document that parsed: Err when it does not fit.
CacheSource(t) ==
  LET s == call[t].set  u == call[t].url
      next == decoded[s] - RasterBytes(entries[s][u]) - SourceCost(entries[s][u]) + SourceBytes
  IN
  IF Fits(s, next) /\ Reserves(s, next)
    THEN /\ entries' = [entries EXCEPT ![s][u] = [svg |-> TRUE, rasters |-> <<>>]]
         /\ decoded' = [decoded EXCEPT ![s] = next]
         /\ retained' = retained + next - decoded[s] - Bytes(ScenesOf(s, u))
         /\ Invalidated(s, u)
         /\ UNCHANGED warned
    ELSE Warn(t) /\ UNCHANGED <<keptVars, retained>>

\* decode_svg_background: too many bytes, no document, or too slow; or cached.
ParseSource(t) ==
  /\ pc[t] = "parse"
  /\ \/ Warn(t) /\ UNCHANGED <<keptVars, retained>>
     \/ CacheSource(t)
  /\ Goto(t, "release")
  /\ UNCHANGED <<call, aborted, room, askerVars, flightVars, inline, budget, permits, calls>>

\* The oldest rasters make room.
Drops(rasters, k) == SubSeq(rasters, k + 1, Len(rasters))

\* insert_raster: the rasters of an entry of kind `svg` with one more, without
\* the oldest that MaxRasterSizes leaves no place for.
WithRaster(s, u, svg, size, bytes) ==
  LET old == IF entries[s][u] # None /\ svg THEN entries[s][u].rasters ELSE <<>>
      others == Without(old, {e \in Range(old) : e.size = size})
      all == Append(others, [size |-> size, bytes |-> bytes])
  IN Drops(all, Monus(Len(all), MaxRasterSizes))

\* Mutant of Holding: the rasters that are replaced stay charged.
HoldingBoth(s, u, svg, rasters) ==
  decoded[s] - SourceCost(entries[s][u]) + (IF svg THEN SourceBytes ELSE 0) + Bytes(rasters)

\* What the set would hold for these rasters.
Holding(s, u, svg, rasters) ==
  decoded[s] - RasterBytes(entries[s][u]) - SourceCost(entries[s][u])
    + (IF svg THEN SourceBytes ELSE 0) + Bytes(rasters)

\* How many of the rasters can be dropped for the rest to be admitted: the last
\* one never is.
Victims(s, u, svg, rasters) ==
  {k \in 0..(Len(rasters) - 1) :
     LET next == Holding(s, u, svg, Drops(rasters, k)) IN Fits(s, next) /\ Reserves(s, next)}

Admitted(s, u, svg, size, bytes) ==
  Victims(s, u, svg, WithRaster(s, u, svg, size, bytes)) # {}

CacheRaster(s, u, svg, size, bytes) ==
  LET rasters == WithRaster(s, u, svg, size, bytes)
      kept == Drops(rasters, Min(Victims(s, u, svg, rasters)))
      next == Holding(s, u, svg, kept)
  IN
  /\ entries' = [entries EXCEPT ![s][u] = [svg |-> svg, rasters |-> kept]]
  /\ decoded' = [decoded EXCEPT ![s] = next]
  /\ retained' = retained + next - decoded[s]
  /\ UNCHANGED <<scenes, sceneBytes, rasterOnly>>

\* image_cache_effective_remaining, read before the decode it limits.
ReadRoom(t) ==
  LET s == call[t].set  u == call[t].url IN
  /\ pc[t] \in {"room", "pixels room"}
  /\ room' = [room EXCEPT ![t] =
       Lesser(SetRoom(s, u), ProcessRoom(RasterBytes(entries[s][u])))]
  /\ Goto(t, IF pc[t] = "room" THEN "raster" ELSE "draw")
  /\ UNCHANGED <<call, warned, aborted, askerVars, flightVars, keptVars, inline, budget,
                 retained, permits, calls>>

\* decode_raster_background: too large for the room read, not an image, too
\* slow, no longer admitted; or cached.
DecodeRaster(t) ==
  LET s == call[t].set  u == call[t].url IN
  /\ pc[t] = "raster"
  /\ \/ Warn(t) /\ UNCHANGED <<keptVars, retained>>
     \/ \E bytes \in ImageBytes :
          /\ bytes <= room[t]
          /\ IF Admitted(s, u, FALSE, "natural", bytes)
               THEN CacheRaster(s, u, FALSE, "natural", bytes) /\ UNCHANGED warned
               ELSE Warn(t) /\ UNCHANGED <<keptVars, retained>>
  /\ room' = [room EXCEPT ![t] = 0]
  /\ Goto(t, "release")
  /\ UNCHANGED <<call, aborted, askerVars, flightVars, inline, budget, permits, calls>>

-----------------------------------------------------------------------------
(***************************************************************************)
(* Paint: the raster of an SVG source at a size, and its scene for a box.  *)
(***************************************************************************)
IsSvg(s, u) == entries[s][u] # None /\ entries[s][u].svg
HasRaster(t) ==
  /\ IsSvg(call[t].set, call[t].url)
  /\ AtSize(entries[call[t].set][call[t].url].rasters, call[t].size) # 0
HasScene(t) == SceneAt(call[t].set, call[t].url, call[t].size) # 0

\* get_decoded_at_size before and after it waits for a permit.  A kept raster
\* over the caller's own limit is drawn again.
LookForPixels(t) ==
  LET svg == IsSvg(call[t].set, call[t].url) IN
  /\ pc[t] \in {"pixels", "again pixels"}
  /\ \/ /\ ~svg \/ HasRaster(t)
        /\ Goto(t, IF pc[t] = "pixels" THEN "left" ELSE "release")
     \/ /\ svg
        /\ Goto(t, IF pc[t] = "pixels" THEN "permit" ELSE "pixels room")
  /\ UNCHANGED <<call, warned, aborted, room, askerVars, flightVars, keptVars, inline, budget,
                 retained, permits, calls>>

\* The document could not be drawn within the limit or in time; or the raster
\* is kept, when it is still admitted.
DrawPixels(t) ==
  LET s == call[t].set  u == call[t].url IN
  /\ pc[t] = "draw"
  /\ \/ UNCHANGED <<keptVars, retained>>
     \/ \E bytes \in ImageBytes :
          /\ bytes <= room[t]
          /\ Admitted(s, u, TRUE, call[t].size, bytes)
          /\ CacheRaster(s, u, TRUE, call[t].size, bytes)
  /\ room' = [room EXCEPT ![t] = 0]
  /\ Goto(t, "release")
  /\ UNCHANGED <<call, warned, aborted, askerVars, flightVars, inline, budget,
                 permits, calls>>

\* svg_image_scene before it waits for a permit.
LookForScene(t) ==
  LET s == call[t].set  u == call[t].url IN
  /\ pc[t] = "vector"
  /\ Goto(t, IF ~IsSvg(s, u) \/ HasScene(t) \/ u \in rasterOnly[s] THEN "left" ELSE "permit")
  /\ UNCHANGED <<call, warned, aborted, room, askerVars, flightVars, keptVars, inline, budget,
                 retained, permits, calls>>

\* And after: the flag is not looked at again.
LookForSceneAgain(t) ==
  /\ pc[t] = "again vector"
  /\ Goto(t, IF HasScene(t) THEN "release" ELSE "build")
  /\ UNCHANGED <<call, warned, aborted, room, askerVars, flightVars, keptVars, inline, budget,
                 retained, permits, calls>>

\* insert_scene: the scene of this box is replaced; the oldest scenes of the set
\* make room in the set, and nothing makes room in the process.
OtherScenes(s, u, size) ==
  Without(scenes[s], {e \in Range(scenes[s]) : e.url = u /\ e.size = size})

SceneVictims(s, rest, bytes) ==
  Min({k \in 0..Len(rest) : k = Len(rest)
        \/ decoded[s] + inline[s] + Bytes(Drops(rest, k)) + bytes <= SetLimit})

CacheScene(s, u, size, bytes) ==
  LET rest == OtherScenes(s, u, size)
      kept == Drops(rest, SceneVictims(s, rest, bytes))
      free == retained - (sceneBytes[s] - Bytes(kept))
  IN
  IF decoded[s] + inline[s] + bytes > SetLimit
    THEN /\ scenes' = [scenes EXCEPT ![s] = rest]
         /\ sceneBytes' = [sceneBytes EXCEPT ![s] = Bytes(rest)]
         /\ retained' = retained - (sceneBytes[s] - Bytes(rest))
    ELSE IF free + bytes > ProcessLimit
    THEN /\ scenes' = [scenes EXCEPT ![s] = kept]
         /\ sceneBytes' = [sceneBytes EXCEPT ![s] = Bytes(kept)]
         /\ retained' = free
    ELSE /\ scenes' = [scenes EXCEPT ![s] =
                         Append(kept, [url |-> u, size |-> size, bytes |-> bytes])]
         /\ sceneBytes' = [sceneBytes EXCEPT ![s] = Bytes(kept) + bytes]
         /\ retained' = free + bytes

\* The builder fails, is too slow, asks for the raster path, or gives a scene.
BuildScene(t) ==
  LET s == call[t].set  u == call[t].url IN
  /\ pc[t] = "build"
  /\ \/ UNCHANGED <<keptVars, retained>>
     \/ /\ rasterOnly' = [rasterOnly EXCEPT ![s] = @ \cup {u}]
        /\ UNCHANGED <<entries, decoded, scenes, sceneBytes, retained>>
     \/ \E bytes \in SceneBytes :
          /\ CacheScene(s, u, call[t].size, bytes)
          /\ UNCHANGED <<entries, decoded, rasterOnly>>
  /\ Goto(t, "release")
  /\ UNCHANGED <<call, warned, aborted, room, askerVars, flightVars, inline, budget,
                 permits, calls>>

-----------------------------------------------------------------------------
(***************************************************************************)
(* A provider or a decoder panics.  The guard of a permit gives it back;   *)
(* fetch_background_image has none for its flight, which stays in the map. *)
(***************************************************************************)
\* A render that panics is over, and so are its own seen URLs and attempts.
RenderEnds(t) ==
  /\ seen' = IF call[t].asker = t THEN [seen EXCEPT ![t] = {}] ELSE seen
  /\ attempts' = IF call[t].asker = t THEN [attempts EXCEPT ![t] = 0] ELSE attempts

LeavesFlight(t) ==
  LET s == call[t].set  u == call[t].url IN
  /\ orphaned' = IF call[t].for = "background" /\ u \notin DataUrls
                   THEN [orphaned EXCEPT ![s] = @ \cup {u}] ELSE orphaned
  /\ UNCHANGED inflight

Panic(t) ==
  /\ t \in Panicking
  /\ pc[t] \in {"request", "parse", "raster", "draw", "build"}
  /\ IF pc[t] = "request" THEN Goto(t, "panicked") /\ UNCHANGED permits
                           ELSE PermitsBack(t, "panicked")
  /\ LeavesFlight(t)
  /\ RenderEnds(t)
  /\ room' = [room EXCEPT ![t] = 0]
  /\ UNCHANGED <<call, warned, aborted, keptVars, inline, budget, retained, calls>>

-----------------------------------------------------------------------------
(***************************************************************************)
(* A render ends and the next one starts; a set is given up.               *)
(***************************************************************************)
NewRender(t) ==
  /\ pc[t] = "idle" /\ calls[t] < MaxCalls[t] /\ seen[t] # {}
  /\ seen' = [seen EXCEPT ![t] = {}]
  /\ attempts' = [attempts EXCEPT ![t] = 0]
  /\ UNCHANGED <<threadVars, flightVars, keptVars, inline, budget, retained, permits, calls>>

CallsLeft == \E t \in Threads : calls[t] < MaxCalls[t]

\* reset_resource_state with no clone left: a new cache, budget and map, and
\* the drop of the old cache.  No lease keeps it alive.
Reconfigure(s) ==
  /\ CallsLeft
  /\ \A t \in Threads : pc[t] # "idle" => call[t].set # s
  /\ inline[s] = 0
  /\ decoded[s] + sceneBytes[s] > 0 \/ orphaned[s] # {}
  /\ entries' = [entries EXCEPT ![s] = [u \in Urls |-> None]]
  /\ decoded' = [decoded EXCEPT ![s] = 0]
  /\ scenes' = [scenes EXCEPT ![s] = <<>>]
  /\ sceneBytes' = [sceneBytes EXCEPT ![s] = 0]
  /\ rasterOnly' = [rasterOnly EXCEPT ![s] = {}]
  /\ budget' = [budget EXCEPT ![s] = [backgrounds |-> 0, pictures |-> 0]]
  /\ retained' = retained - (decoded[s] + sceneBytes[s])
  /\ inflight' = [inflight EXCEPT ![s] = [u \in Urls |-> None]]
  /\ orphaned' = [orphaned EXCEPT ![s] = {}]
  /\ UNCHANGED <<threadVars, askerVars, inline, permits, calls>>

\* The steps of a call that has started.
Step(t) ==
  \/ PassOver(t) \/ TurnAway(t) \/ Ask(t) \/ Look(t) \/ AdmitPayload(t)
  \/ JoinOwner(t) \/ JoinWaiter(t) \/ Request(t)
  \/ Finish(t) \/ RemoveFlight(t) \/ Acquire(t) \/ DropPermit(t)
  \/ ParseSource(t) \/ ReadRoom(t) \/ DecodeRaster(t)
  \/ LookForPixels(t) \/ DrawPixels(t)
  \/ LookForScene(t) \/ LookForSceneAgain(t) \/ BuildScene(t)
  \/ Return(t)

Next ==
  \/ \E t \in Threads :
       \/ \E s \in Sets, u \in Urls : Preload(t, s, u)
       \/ \E s \in Sets, u \in SvgUrls, size \in Sizes :
            PaintPixels(t, s, u, size) \/ PaintVector(t, s, u, size)
       \/ Abort(t) \/ Step(t) \/ Panic(t) \/ NewRender(t)
  \/ \E s \in Sets : Reconfigure(s)

Spec == Init /\ [][Next]_vars

-----------------------------------------------------------------------------
TypeOK ==
  /\ DOMAIN pc = Threads /\ DOMAIN call = Threads
  /\ warned \subseteq Threads /\ aborted \subseteq Threads
  /\ room \in [Threads -> Nat]
  /\ seen \in [Askers -> SUBSET Urls]
  /\ attempts \in [Askers -> 0..(MaxAttempts + 1)]
  /\ inflight \in [Sets -> [Urls -> {None, "pending", "skipped", "cached"}]]
  /\ orphaned \in [Sets -> SUBSET Urls]
  /\ decoded \in [Sets -> Nat] /\ inline \in [Sets -> Nat] /\ sceneBytes \in [Sets -> Nat]
  /\ rasterOnly \in [Sets -> SUBSET Urls]
  /\ budget \in [Sets -> [backgrounds : Nat, pictures : Nat]]
  /\ retained \in Nat /\ permits \in 0..MaxPermits /\ calls \in [Threads -> Nat]

Decoding == {"parse", "room", "raster", "again pixels", "pixels room", "draw",
             "again vector", "build", "picture room", "picture decode", "picture release",
             "release"}

\* The thread owns the flight of (s, u).
Owns(t, s, u) ==
  /\ pc[t] \in {"request", "permit", "asleep", "finish"} \cup Decoding
  /\ call[t].for = "background" /\ call[t].set = s /\ call[t].url = u
  /\ u \notin DataUrls

\* A flight is pending exactly while one thread owns it or since its owner
\* panicked, so one request at a time runs for a URL of a set, and nobody waits
\* for a flight that left the map (join_background_inflight,
\* finish_background_inflight).
OneFlight ==
  \A s \in Sets, u \in Urls :
    LET owners == {t \in Threads : Owns(t, s, u)} IN
    /\ inflight[s][u] = "pending" <=> owners # {} \/ u \in orphaned[s]
    /\ u \in orphaned[s] => owners = {}
    /\ Cardinality(owners) <= 1
    /\ Waiters(s, u) # {} => inflight[s][u] = "pending"

\* A permit is free or held by one decode, whatever times out or is aborted:
\* no more decodes run at once than there are permits.
PermitsCounted ==
  permits + Cardinality({t \in Threads : pc[t] \in Decoding}) = MaxPermits

\* A request that was made left its image in the cache or its render a warning
\* that says why not, also when another render made it.
SkippedIsExplained ==
  \A t \in Threads :
    pc[t] = "left" /\ call[t].for = "background" /\ call[t].tried
      => t \in warned \/ entries[call[t].set][call[t].url] # None

EntryBytes(entry) == SourceCost(entry) + RasterBytes(entry)
Sum(f) == FoldFunction(+, 0, f)

\* What the counters say is what is kept, of each set and of the process over
\* all sets, and neither is over its limit.
CountersAgree ==
  /\ \A s \in Sets :
       /\ decoded[s] = Sum([u \in Urls |-> EntryBytes(entries[s][u])])
       /\ sceneBytes[s] = Bytes(scenes[s])
       /\ decoded[s] + sceneBytes[s] + inline[s] <= SetLimit
  /\ retained = Sum([s \in Sets |-> decoded[s] + sceneBytes[s] + inline[s]])
  /\ retained <= ProcessLimit
=============================================================================
