--------------------------- MODULE ResourceLoader ---------------------------
(***************************************************************************)
(* The image source cache of raikiri-net (resource_loader.rs): threads     *)
(* call load_source(url) on one shared loader.  A load that misses is      *)
(* admitted under a pending key, fetches with no mutex held, decodes while *)
(* it holds the budget mutex, and publishes its source or gives back what  *)
(* it reserved.  Loads of the same pending key, and loads beyond the slot  *)
(* or entry limit, wait on the condition variable `changed`.               *)
(*                                                                         *)
(* The two mutexes are always taken in the order budget, state, and a      *)
(* section that holds both is one step here.  The budget mutex is held     *)
(* across a decode, so it is a variable; the state mutex never is.         *)
(***************************************************************************)
EXTENDS Naturals, FiniteSets, FiniteSetsExt

CONSTANTS
  Threads,      \* the callers of load_source
  Urls,         \* the image URLs, fragments included
  Keys,         \* the pending keys
  PendingKey,   \* raster_source_key(url), or the whole URL when it has none
  Shareable,    \* the URLs that have a raster_source_key
  UrlBytes,     \* the byte length of a URL
  KeyBytes,     \* the byte length of a pending key
  Encoded,      \* the encoded sizes an SVG response may have
  Decoded,      \* the bytes a decoded source may retain
  Limit,        \* CacheBudget.limit
  MaxEntries,   \* ResourceLoader.max_entries
  MaxInFlight,  \* ResourceLoader.max_in_flight as the constructor is given it
  MaxCalls,     \* bound: how many times load_source is called
  Asked,        \* bound: which thread asks for which URL, as pairs
  None, Failed, \* no value; a call that returned Err or unwound
  Pending       \* a call that has not returned

\* An SVG source is never shared, so its final URL is not looked at; a
\* response that is not SVG subtracts no encoded bytes.
Responses ==
  [svg : {TRUE}, encoded : Encoded, finalShareable : {FALSE}]
    \cup [svg : {FALSE}, encoded : {0}, finalShareable : BOOLEAN]

\* An Arc<ImageSource>: its kind, the bytes it retains, and the number of
\* sources published before it, which tells one Arc from another.
Sources == [svg : BOOLEAN, bytes : Decoded, id : Nat]

ASSUME LimitsAssumption ==
  /\ Limit \in Nat
  /\ MaxEntries \in Nat
  /\ MaxInFlight \in Nat
  /\ MaxCalls \in Nat

ASSUME SizesAssumption ==
  /\ Encoded \subseteq Nat
  /\ Decoded \subseteq Nat
  /\ UrlBytes \in [Urls -> Nat]
  /\ KeyBytes \in [Keys -> Nat]

\* A raster_source_key is a prefix of its URL.  A URL without one is its own
\* pending key, and no other URL has that key.
ASSUME KeysAssumption ==
  /\ PendingKey \in [Urls -> Keys]
  /\ Shareable \subseteq Urls
  /\ \A u \in Urls : KeyBytes[PendingKey[u]] <= UrlBytes[u]
  /\ \A u \in Urls \ Shareable, v \in Urls :
        PendingKey[u] = PendingKey[v] => u = v

ASSUME NoneAssumption ==
  /\ None # Failed /\ None # Pending /\ Failed # Pending
  /\ {None, Failed, Pending} \cap Sources = {}
  /\ None \notin Threads /\ None \notin Urls /\ None \notin Responses

VARIABLES
  pc,        \* where each thread is
  url,       \* the URL each thread is loading
  response,  \* what fetch_bytes returned to each thread
  out,       \* what each thread's last call returned
  exact,     \* SourceCache.exact, by whole URL
  rasters,   \* SourceCache.rasters, by raster_source_key
  loading,   \* LoadState.loading
  used,      \* CacheBudget.used
  pixels,    \* the bytes of `used` the sources' raster and scene caches hold
  holder,    \* the thread that decodes under the budget mutex
  poisoned,  \* a rasterisation panicked while it held the budget mutex
  calls      \* how many calls have been made

threadVars == <<pc, url, response, out>>
cacheVars  == <<exact, rasters, loading>>
vars == <<threadVars, cacheVars, used, pixels, holder, poisoned, calls>>

-----------------------------------------------------------------------------
\* Mutant of Lookup: the shared namespace hides an exact entry.
LookupRastersFirst(u) ==
  IF u \in Shareable /\ rasters[PendingKey[u]] # None THEN rasters[PendingKey[u]]
  ELSE exact[u]

Lookup(u) ==
  IF exact[u] # None THEN exact[u]
  ELSE IF u \in Shareable THEN rasters[PendingKey[u]]
  ELSE None

ExactEntries  == {u \in Urls : exact[u] # None}
RasterEntries == {k \in Keys : rasters[k] # None}
CacheLen == Cardinality(ExactEntries) + Cardinality(RasterEntries)

Slots == IF MaxInFlight = 0 THEN 1 ELSE MaxInFlight

Monus(a, b) == IF a >= b THEN a - b ELSE 0
Remaining == Monus(Limit, used)

BudgetFree == holder = None

\* Mutant of LocksBudget: every caller recovers a poisoned mutex.
LocksPoisonedBudget == BudgetFree

\* budget.lock() succeeds; a poisoned mutex is an error to everyone but
\* PendingSource::drop.
LocksBudget == BudgetFree /\ ~poisoned

Goto(t, place) == pc' = [pc EXCEPT ![t] = place]

Return(t, value) ==
  /\ pc' = [pc EXCEPT ![t] = "idle"]
  /\ out' = [out EXCEPT ![t] = value]
  /\ response' = [response EXCEPT ![t] = None]

\* Mutant of MustWait: `loading` is not asked for the key.
MustWaitForRoom(u) ==
  /\ CacheLen < MaxEntries
  /\ \/ Cardinality(loading) >= Slots
     \/ CacheLen + Cardinality(loading) >= MaxEntries

\* Mutant of MustWait: loads in flight set no entry aside.
MustWaitForSlot(u) ==
  \/ PendingKey[u] \in loading
  \/ CacheLen < MaxEntries /\ Cardinality(loading) >= Slots

\* A duplicate waits before any limit is looked at: it takes no slot of its
\* own.
MustWait(u) ==
  \/ PendingKey[u] \in loading
  \/ /\ CacheLen < MaxEntries
     /\ \/ Cardinality(loading) >= Slots
        \/ CacheLen + Cardinality(loading) >= MaxEntries

CanAdmit(u) ==
  /\ Lookup(u) = None
  /\ ~MustWait(u)
  /\ CacheLen < MaxEntries
  /\ UrlBytes[u] <= Remaining

-----------------------------------------------------------------------------
Init ==
  /\ pc = [t \in Threads |-> "idle"]
  /\ url = [t \in Threads |-> None]
  /\ response = [t \in Threads |-> None]
  /\ out = [t \in Threads |-> None]
  /\ exact = [u \in Urls |-> None]
  /\ rasters = [k \in Keys |-> None]
  /\ loading = {}
  /\ used = 0
  /\ pixels = 0
  /\ holder = None
  /\ poisoned = FALSE
  /\ calls = 0

Call(t, u) ==
  /\ pc[t] = "idle"
  /\ calls < MaxCalls /\ <<t, u>> \in Asked
  /\ calls' = calls + 1
  /\ url' = [url EXCEPT ![t] = u]
  /\ Goto(t, "lookup")
  /\ UNCHANGED <<response, out, cacheVars, used, pixels, holder, poisoned>>

\* The fast path of admit takes the state mutex alone, so it answers even
\* while another thread decodes under the budget mutex.
CachedSource(t) ==
  /\ pc[t] = "lookup"
  /\ IF Lookup(url[t]) # None
       THEN Return(t, Lookup(url[t]))
       ELSE Goto(t, "admit") /\ UNCHANGED <<response, out>>
  /\ UNCHANGED <<url, cacheVars, used, pixels, holder, poisoned, calls>>

AdmitReturns(t) ==
  /\ pc[t] = "admit" /\ BudgetFree
  /\ \/ ~LocksBudget /\ Return(t, Failed)
     \/ /\ LocksBudget
        /\ Lookup(url[t]) # None
        /\ Return(t, Lookup(url[t]))
     \/ /\ LocksBudget
        /\ Lookup(url[t]) = None
        /\ ~MustWait(url[t])
        /\ ~CanAdmit(url[t])
        /\ Return(t, Failed)
  /\ UNCHANGED <<url, cacheVars, used, pixels, holder, poisoned, calls>>

\* Condvar::wait gives up the state mutex and starts waiting in one step.
AdmitWaits(t) ==
  /\ pc[t] = "admit" /\ LocksBudget
  /\ Lookup(url[t]) = None
  /\ MustWait(url[t])
  /\ Goto(t, "waiting")
  /\ UNCHANGED <<url, response, out, cacheVars, used, pixels, holder, poisoned, calls>>

AdmitPending(t) ==
  /\ pc[t] = "admit" /\ LocksBudget
  /\ CanAdmit(url[t])
  /\ used' = used + UrlBytes[url[t]]
  /\ loading' = loading \cup {PendingKey[url[t]]}
  /\ Goto(t, "fetch")
  /\ UNCHANGED <<url, response, out, exact, rasters, pixels, holder, poisoned, calls>>

\* A condition variable may wake a waiter that nobody notified.
WakeSpuriously(t) ==
  /\ pc[t] = "waiting"
  /\ Goto(t, "admit")
  /\ UNCHANGED <<url, response, out, cacheVars, used, pixels, holder, poisoned, calls>>

FetchSucceeds(t, r) ==
  /\ pc[t] = "fetch"
  /\ response' = [response EXCEPT ![t] = r]
  /\ Goto(t, "fetched")
  /\ UNCHANGED <<url, out, cacheVars, used, pixels, holder, poisoned, calls>>

\* The provider returned an error, the input was too large or no valid data:
\* URL, or the provider panicked: the guard is dropped either way.
FetchFails(t) ==
  /\ pc[t] = "fetch"
  /\ Goto(t, "drop")
  /\ UNCHANGED <<url, response, out, cacheVars, used, pixels, holder, poisoned, calls>>

Available(t) == Monus(Remaining, response[t].encoded)

LockBudget(t) ==
  /\ pc[t] = "fetched" /\ BudgetFree
  /\ IF ~LocksBudget \/ Remaining < response[t].encoded
       THEN Goto(t, "drop") /\ UNCHANGED holder
       ELSE Goto(t, "building") /\ holder' = t
  /\ UNCHANGED <<url, response, out, cacheVars, used, pixels, poisoned, calls>>

IsShared(t, svg) ==
  response[t].finalShareable /\ url[t] \in Shareable /\ ~svg

RetainedKeyBytes(t, svg) ==
  IF IsShared(t, svg) THEN KeyBytes[PendingKey[url[t]]] ELSE UrlBytes[url[t]]

\* Mutant of Refund: the suffix of a shared URL stays charged.
RefundNothing(t, svg) == 0

Refund(t, svg) == UrlBytes[url[t]] - RetainedKeyBytes(t, svg)

\* Both checked operations and the filter of `used` in load_source_with.
Fits(t, svg, bytes) ==
  /\ Refund(t, svg) <= used
  /\ used - Refund(t, svg) + bytes <= Limit

\* build_source bounds a raster by `available`, and an SVG source by nothing
\* but the check at publication.
Built(t, bytes) == response[t].svg \/ bytes <= Available(t)

Publish(t, bytes) ==
  LET svg == response[t].svg
      source == [svg |-> svg, bytes |-> bytes, id |-> CacheLen]
  IN
  /\ pc[t] = "building"
  /\ Built(t, bytes) /\ Fits(t, svg, bytes)
  /\ loading' = loading \ {PendingKey[url[t]]}
  /\ IF IsShared(t, svg)
       THEN /\ rasters' = [rasters EXCEPT ![PendingKey[url[t]]] = source]
            /\ UNCHANGED exact
       ELSE /\ exact' = [exact EXCEPT ![url[t]] = source]
            /\ UNCHANGED rasters
  /\ used' = used - Refund(t, svg) + bytes
  /\ out' = [out EXCEPT ![t] = source]
  /\ holder' = None
  /\ Goto(t, "notify")
  /\ UNCHANGED <<url, response, pixels, poisoned, calls>>

\* The builder returned an error or panicked, or the source does not fit: the
\* budget guard goes first, the pending key with the admission after it.
BuildFails(t) ==
  /\ pc[t] = "building"
  /\ holder' = None
  /\ Goto(t, "drop")
  /\ UNCHANGED <<url, response, out, cacheVars, used, pixels, poisoned, calls>>

\* PendingSource::drop works on a poisoned mutex too.
DropPending(t) ==
  /\ pc[t] = "drop" /\ BudgetFree
  /\ IF PendingKey[url[t]] \in loading
       THEN /\ loading' = loading \ {PendingKey[url[t]]}
            /\ used' = Monus(used, UrlBytes[url[t]])
       ELSE UNCHANGED <<loading, used>>
  /\ out' = [out EXCEPT ![t] = Failed]
  /\ Goto(t, "notify")
  /\ UNCHANGED <<url, response, exact, rasters, pixels, holder, poisoned, calls>>

\* Mutant of NotifyAll: notify_one.
NotifyOne(t) ==
  /\ pc[t] = "notify"
  /\ \/ \E w \in Threads : /\ pc[w] = "waiting"
                          /\ pc' = [pc EXCEPT ![t] = "idle", ![w] = "admit"]
     \/ /\ \A w \in Threads : pc[w] # "waiting"
        /\ Goto(t, "idle")
  /\ response' = [response EXCEPT ![t] = None]
  /\ UNCHANGED <<url, out, cacheVars, used, pixels, holder, poisoned, calls>>

\* changed.notify_all() runs after both mutexes are released.
NotifyAll(t) ==
  /\ pc[t] = "notify"
  /\ pc' = [s \in Threads |->
              IF s = t THEN "idle" ELSE IF pc[s] = "waiting" THEN "admit" ELSE pc[s]]
  /\ response' = [response EXCEPT ![t] = None]
  /\ UNCHANGED <<url, out, cacheVars, used, pixels, holder, poisoned, calls>>

SvgCached == \E u \in Urls : exact[u] # None /\ exact[u].svg

\* The raster and scene caches of the published SVG sources take from and
\* give back to the same budget (rasterize, retain_scene); SourceCaches.tla
\* models them.
RetainPixels(n) ==
  /\ SvgCached /\ LocksBudget
  /\ n # pixels /\ pixels <= used
  /\ used - pixels + n <= Limit
  /\ used' = used - pixels + n
  /\ pixels' = n
  /\ UNCHANGED <<threadVars, cacheVars, holder, poisoned, calls>>

\* An SVG rasterisation panics under the budget mutex and poisons it.
RasterizePanics ==
  /\ SvgCached /\ LocksBudget
  /\ poisoned' = TRUE
  /\ UNCHANGED <<threadVars, cacheVars, used, pixels, holder, calls>>

\* The steps of one call of load_source.
Step(t) ==
  \/ CachedSource(t)
  \/ AdmitReturns(t)
  \/ AdmitWaits(t)
  \/ AdmitPending(t)
  \/ \E r \in Responses : FetchSucceeds(t, r)
  \/ FetchFails(t)
  \/ LockBudget(t)
  \/ \E n \in Decoded : Publish(t, n)
  \/ BuildFails(t)
  \/ DropPending(t)
  \/ NotifyAll(t)

Next ==
  \/ \E t \in Threads :
       \/ \E u \in Urls : Call(t, u)
       \/ Step(t)
       \/ WakeSpuriously(t)
  \/ \E n \in {0} \cup Decoded : RetainPixels(n)
  \/ RasterizePanics

Spec == Init /\ [][Next]_vars

\* Threads keep running, fetches and decodes end; nobody has to call, and
\* nothing need wake a waiter but a notification.
Fairness == \A t \in Threads : WF_vars(Step(t))

FairSpec == Spec /\ Fairness
-----------------------------------------------------------------------------
\* The threads between the admission that charged a pending key and the step
\* that publishes or drops it.
Owners == {t \in Threads : pc[t] \in {"fetch", "fetched", "building", "drop"}}

\* Every variable has its type, and the budget mutex is held by exactly the
\* thread that decodes.
TypeOK ==
  /\ pc \in [Threads -> {"idle", "lookup", "admit", "waiting", "fetch", "fetched",
                         "building", "drop", "notify"}]
  /\ url \in [Threads -> Urls \cup {None}]
  /\ response \in [Threads -> Responses \cup {None}]
  /\ out \in [Threads -> Sources \cup {None, Failed}]
  /\ exact \in [Urls -> Sources \cup {None}]
  /\ rasters \in [Keys -> Sources \cup {None}]
  /\ loading \in SUBSET Keys
  /\ used \in Nat /\ pixels \in Nat
  /\ holder \in Threads \cup {None}
  /\ poisoned \in BOOLEAN
  /\ calls \in Nat
  /\ \A t \in Threads : pc[t] # "idle" => url[t] # None
  /\ \A t \in Threads : pc[t] \in {"fetched", "building"} => response[t] # None
  /\ \A t \in Threads : holder = t <=> pc[t] = "building"

\* The keys in `loading` are those of the threads that are loading, one
\* thread per key: the `expect` at publication finds its key, no two threads
\* fetch the same source at once, and no failed or panicked load leaves a key
\* behind that would block its URL for ever.
SingleFlight ==
  /\ loading = {PendingKey[url[t]] : t \in Owners}
  /\ \A s, t \in Owners : PendingKey[url[s]] = PendingKey[url[t]] => s = t

\* A thread that loads a URL loads what the cache does not hold: when it
\* publishes, under either namespace, it overwrites no entry.
OwnerMisses ==
  \A t \in Owners : exact[url[t]] = None /\ rasters[PendingKey[url[t]]] = None

\* The loader never has more loads in flight than slots, and every load in
\* flight has an entry of the cache set aside for it.
Bounded ==
  /\ Cardinality(loading) <= Slots
  /\ CacheLen + Cardinality(loading) <= MaxEntries

\* `used` stays within the limit.
WithinBudget == used <= Limit

\* Loads in flight, entries and bytes together keep to what the constructor
\* was given.
WithinLimits == TypeOK /\ Bounded /\ WithinBudget

\* `used` is exactly what is reserved by the pending keys, what the entries
\* and their keys retain and what the sources' own caches hold: no saturating
\* subtraction ever hides a byte, and no error path forgets a refund.
BudgetExact ==
  used = pixels
         + MapThenSumSet(LAMBDA t : UrlBytes[url[t]], Owners)
         + MapThenSumSet(LAMBDA u : UrlBytes[u] + exact[u].bytes, ExactEntries)
         + MapThenSumSet(LAMBDA k : KeyBytes[k] + rasters[k].bytes, RasterEntries)

\* A thread that waits has a reason to: what it waits for still holds, or a
\* thread is about to notify.
NoLostWakeup ==
  \A t \in Threads :
    pc[t] = "waiting" =>
      \/ Lookup(url[t]) = None /\ MustWait(url[t])
      \/ \E s \in Threads : pc[s] = "notify"

\* The loader is a cache that fills each URL once: threads that race for one
\* URL, or for two aliases of it, are all answered with the same source, and a
\* load fails only while its URL is not cached or after the budget is poisoned.
Promise == INSTANCE LoadOnceCache WITH
  Sources <- [svg : BOOLEAN, bytes : Decoded, id : 0..MaxEntries],
  view <- [u \in Urls |-> Lookup(u)],
  req <- url,
  reply <- [t \in Threads |-> IF pc[t] \in {"idle", "notify"} THEN out[t] ELSE Pending],
  broken <- poisoned

FillsOnce == Promise!Spec

\* After a poisoning panic nothing is admitted or published any more, while
\* pending keys are still given back.
FailsClosed ==
  [][poisoned => exact' = exact /\ rasters' = rasters /\ loading' \subseteq loading
                 /\ used' <= used]_vars

\* Every call of load_source returns, whoever fails, panics or waits.
EveryCallReturns == \A t \in Threads : pc[t] # "idle" ~> pc[t] = "idle"
=============================================================================
