------------------------ MODULE ResourceLoaderProofs ------------------------
(***************************************************************************)
(* The safety of ResourceLoader for every set of threads and URLs and      *)
(* every limit.                                                            *)
(***************************************************************************)
EXTENDS ResourceLoader, FiniteSums

\* Only finitely many entries and pending keys exist, however many URLs there
\* are: the lengths the code compares are numbers.
FiniteState ==
  IsFiniteSet(ExactEntries) /\ IsFiniteSet(RasterEntries) /\ IsFiniteSet(loading)

Typed == TypeOK /\ FiniteState

LEMMA LengthsType ==
  ASSUME FiniteState
  PROVE  CacheLen \in Nat /\ Cardinality(loading) \in Nat
BY FS_CardinalityType DEF FiniteState, CacheLen

LEMMA MonusType ==
  ASSUME NEW a \in Nat, NEW b \in Nat
  PROVE  Monus(a, b) \in Nat /\ Monus(a, b) <= a
BY DEF Monus

\* The steps that touch neither the cache nor the pending keys.
LEMMA FiniteUnchanged ==
  ASSUME FiniteState, UNCHANGED cacheVars
  PROVE  FiniteState'
BY DEF FiniteState, cacheVars, ExactEntries, RasterEntries

\* What an Arc in the publishing thread's hands is.
LEMMA PublishedSource ==
  ASSUME Typed, NEW t \in Threads, NEW n \in Decoded, pc[t] = "building"
  PROVE  /\ url[t] \in Urls
         /\ response[t] \in Responses
         /\ [svg |-> response[t].svg, bytes |-> n, id |-> CacheLen] \in Sources
<1>1. response[t] \in Responses /\ url[t] \in Urls
  BY DEF Typed, TypeOK
<1>2. response[t].svg \in BOOLEAN
  BY <1>1 DEF Responses
<1> QED
  BY <1>1, <1>2, LengthsType DEF Typed, Sources

LEMMA PublishFinite ==
  ASSUME Typed, NEW t \in Threads, NEW n \in Decoded, Publish(t, n)
  PROVE  FiniteState'
<1> DEFINE source == [svg |-> response[t].svg, bytes |-> n, id |-> CacheLen]
<1>1. url[t] \in Urls /\ PendingKey[url[t]] \in Keys
  BY PublishedSource, KeysAssumption DEF Publish, KeysAssumption
<1>2. IsFiniteSet(loading')
  BY FS_RemoveElement DEF Typed, FiniteState, Publish
<1>3. IsFiniteSet(ExactEntries \cup {url[t]})
      /\ IsFiniteSet(RasterEntries \cup {PendingKey[url[t]]})
  BY FS_AddElement DEF Typed, FiniteState
<1>4. ExactEntries' \subseteq ExactEntries \cup {url[t]}
  BY DEF Typed, TypeOK, Publish, ExactEntries
<1>5. RasterEntries' \subseteq RasterEntries \cup {PendingKey[url[t]]}
  BY DEF Typed, TypeOK, Publish, RasterEntries
<1> QED
  BY <1>2, <1>3, <1>4, <1>5, FS_Subset DEF FiniteState

LEMMA TypeInit == Init => Typed
<1> SUFFICES ASSUME Init PROVE Typed
  OBVIOUS
<1>1. TypeOK
  BY NoneAssumption DEF NoneAssumption, Init, TypeOK
<1>2. ExactEntries = {} /\ RasterEntries = {} /\ loading = {}
  BY DEF Init, ExactEntries, RasterEntries
<1> QED
  BY <1>1, <1>2, FS_EmptySet DEF Typed, FiniteState

LEMMA TypeStep ==
  ASSUME Typed, [Next]_vars
  PROVE  Typed'
<1> USE DEF Goto, Return
<1>1. ASSUME NEW t \in Threads, NEW u \in Urls, Call(t, u)
      PROVE  Typed'
  BY <1>1, FiniteUnchanged, NoneAssumption DEF Call, Typed, TypeOK, NoneAssumption, cacheVars
<1>2. ASSUME NEW t \in Threads, CachedSource(t)
      PROVE  Typed'
  <2>1. Lookup(url[t]) \in Sources \cup {None}
    BY <1>2, KeysAssumption DEF CachedSource, Typed, TypeOK, Lookup, KeysAssumption
  <2> QED
    BY <1>2, <2>1, FiniteUnchanged DEF CachedSource, Typed, TypeOK, cacheVars
<1>3. ASSUME NEW t \in Threads, AdmitReturns(t)
      PROVE  Typed'
  <2>1. Lookup(url[t]) \in Sources \cup {None}
    BY <1>3, KeysAssumption DEF AdmitReturns, Typed, TypeOK, Lookup, KeysAssumption
  <2> QED
    BY <1>3, <2>1, FiniteUnchanged DEF AdmitReturns, Typed, TypeOK, cacheVars
<1>4. ASSUME NEW t \in Threads, AdmitWaits(t)
      PROVE  Typed'
  BY <1>4, FiniteUnchanged DEF AdmitWaits, Typed, TypeOK, cacheVars
<1>5. ASSUME NEW t \in Threads, AdmitPending(t)
      PROVE  Typed'
  <2>1. TypeOK'
    BY <1>5, KeysAssumption, SizesAssumption
       DEF AdmitPending, Typed, TypeOK, KeysAssumption, SizesAssumption
  <2>2. FiniteState'
    BY <1>5, FS_AddElement DEF AdmitPending, Typed, FiniteState, ExactEntries, RasterEntries
  <2> QED
    BY <2>1, <2>2 DEF Typed
<1>6. ASSUME NEW t \in Threads, WakeSpuriously(t)
      PROVE  Typed'
  BY <1>6, FiniteUnchanged DEF WakeSpuriously, Typed, TypeOK, cacheVars
<1>7. ASSUME NEW t \in Threads, NEW r \in Responses, FetchSucceeds(t, r)
      PROVE  Typed'
  BY <1>7, FiniteUnchanged, NoneAssumption
     DEF FetchSucceeds, Typed, TypeOK, cacheVars, NoneAssumption
<1>8. ASSUME NEW t \in Threads, FetchFails(t)
      PROVE  Typed'
  BY <1>8, FiniteUnchanged DEF FetchFails, Typed, TypeOK, cacheVars
<1>9. ASSUME NEW t \in Threads, LockBudget(t)
      PROVE  Typed'
  BY <1>9, FiniteUnchanged, NoneAssumption
     DEF LockBudget, LocksBudget, BudgetFree, Typed, TypeOK, cacheVars, NoneAssumption
<1>10. ASSUME NEW t \in Threads, NEW n \in Decoded, Publish(t, n)
       PROVE  Typed'
  <2> DEFINE svg == response[t].svg
             source == [svg |-> svg, bytes |-> n, id |-> CacheLen]
  <2>1. pc[t] = "building"
    BY <1>10 DEF Publish
  <2>2. url[t] \in Urls /\ source \in Sources /\ response[t] \in Responses
    BY <2>1, PublishedSource
  <2>3. RetainedKeyBytes(t, svg) \in Nat /\ RetainedKeyBytes(t, svg) <= UrlBytes[url[t]]
        /\ UrlBytes[url[t]] \in Nat
    BY <2>2, KeysAssumption, SizesAssumption
       DEF RetainedKeyBytes, KeysAssumption, SizesAssumption
  <2>4. used' \in Nat
    BY <1>10, <2>3, SizesAssumption DEF Publish, Fits, Refund, SizesAssumption, Typed, TypeOK
  <2>5. exact' \in [Urls -> Sources \cup {None}]
        /\ rasters' \in [Keys -> Sources \cup {None}]
    BY <1>10, <2>2 DEF Publish, Typed, TypeOK
  <2>6. TypeOK'
    BY <1>10, <2>1, <2>2, <2>4, <2>5, NoneAssumption
       DEF Publish, Typed, TypeOK, NoneAssumption
  <2> QED
    BY <1>10, <2>6, PublishFinite DEF Typed
<1>11. ASSUME NEW t \in Threads, BuildFails(t)
       PROVE  Typed'
  BY <1>11, FiniteUnchanged, NoneAssumption
     DEF BuildFails, Typed, TypeOK, cacheVars, NoneAssumption
<1>12. ASSUME NEW t \in Threads, DropPending(t)
       PROVE  Typed'
  <2>1. used' \in Nat
    BY <1>12, MonusType, SizesAssumption
       DEF DropPending, Typed, TypeOK, SizesAssumption
  <2>2. TypeOK'
    BY <1>12, <2>1 DEF DropPending, Typed, TypeOK
  <2>3. FiniteState'
    BY <1>12, FS_RemoveElement DEF DropPending, Typed, FiniteState, ExactEntries, RasterEntries
  <2> QED
    BY <2>2, <2>3 DEF Typed
<1>13. ASSUME NEW t \in Threads, NotifyAll(t)
       PROVE  Typed'
  BY <1>13, FiniteUnchanged DEF NotifyAll, Typed, TypeOK, cacheVars
<1>14. ASSUME NEW n \in {0} \cup Decoded, RetainPixels(n)
       PROVE  Typed'
  BY <1>14, FiniteUnchanged, SizesAssumption
     DEF RetainPixels, Typed, TypeOK, cacheVars, threadVars, SizesAssumption
<1>15. CASE RasterizePanics
  BY <1>15, FiniteUnchanged DEF RasterizePanics, Typed, TypeOK, cacheVars, threadVars
<1>16. CASE UNCHANGED vars
  BY <1>16, FiniteUnchanged DEF Typed, TypeOK, vars, cacheVars, threadVars
<1> QED
  BY <1>1, <1>2, <1>3, <1>4, <1>5, <1>6, <1>7, <1>8, <1>9, <1>10, <1>11, <1>12,
     <1>13, <1>14, <1>15, <1>16 DEF Next, Step

\* The state of the loader is always well typed, and the budget mutex is held
\* by exactly the thread that decodes under it (load_source_with).
THEOREM TypeCorrect == Spec => []TypeOK
<1>1. Spec => []Typed
  BY TypeInit, TypeStep, PTL DEF Spec
<1>2. Typed => TypeOK
  BY DEF Typed
<1> QED
  BY <1>1, <1>2, PTL
-----------------------------------------------------------------------------
\* The shared namespace holds keys of shareable URLs only, so a URL without a
\* raster_source_key never finds its own key there.
RastersShareable ==
  \A k \in Keys : rasters[k] # None => \E u \in Shareable : PendingKey[u] = k

\* No thread decodes under a poisoned mutex.
PoisonStopsDecoding == poisoned => holder = None

\* The part of the invariant that says who is loading what.
FlightInv == SingleFlight /\ OwnerMisses /\ RastersShareable /\ PoisonStopsDecoding

LEMMA FlightInit == Init => FlightInv
BY DEF Init, FlightInv, SingleFlight, OwnerMisses, RastersShareable,
       PoisonStopsDecoding, Owners

\* A step that moves no thread in or out of Owners and changes neither the
\* cache nor the URL of an owner.
LEMMA FlightUnchanged ==
  ASSUME FlightInv, UNCHANGED cacheVars, Owners' = Owners,
         \A t \in Owners : url'[t] = url[t],
         PoisonStopsDecoding'
  PROVE  FlightInv'
<1>1. SingleFlight'
  BY DEF FlightInv, SingleFlight, cacheVars
<1>2. OwnerMisses' /\ RastersShareable'
  BY DEF FlightInv, OwnerMisses, RastersShareable, cacheVars
<1> QED
  BY <1>1, <1>2 DEF FlightInv

\* The thread that is admitted becomes the one owner of its key.
LEMMA FlightAdmit ==
  ASSUME Typed, FlightInv, NEW t \in Threads, AdmitPending(t)
  PROVE  FlightInv'
<1> DEFINE key == PendingKey[url[t]]
<1>1. t \notin Owners /\ Owners' = Owners \cup {t} /\ url' = url /\ url[t] \in Urls
  BY DEF AdmitPending, Goto, Owners, Typed, TypeOK
<1>2. key \notin loading /\ loading' = loading \cup {key}
  BY DEF AdmitPending, CanAdmit, MustWait
<1>3. \A s \in Owners : PendingKey[url[s]] # key
  BY <1>2 DEF FlightInv, SingleFlight
<1>4. SingleFlight'
  <2>1. loading' = {PendingKey[url'[s]] : s \in Owners'}
    BY <1>1, <1>2 DEF FlightInv, SingleFlight
  <2>2. \A r, s \in Owners' : PendingKey[url'[r]] = PendingKey[url'[s]] => r = s
    BY <1>1, <1>3 DEF FlightInv, SingleFlight
  <2> QED
    BY <2>1, <2>2 DEF SingleFlight
<1>5. exact[url[t]] = None /\ rasters[key] = None
  <2>1. Lookup(url[t]) = None
    BY DEF AdmitPending, CanAdmit
  <2>2. CASE url[t] \in Shareable
    BY <2>1, <2>2 DEF Lookup
  <2>3. CASE url[t] \notin Shareable
    <3>1. rasters[key] = None
      BY <1>1, <2>3, KeysAssumption DEF FlightInv, RastersShareable, KeysAssumption
    <3> QED
      BY <2>1, <2>3, <3>1 DEF Lookup
  <2> QED
    BY <2>2, <2>3
<1>6. OwnerMisses'
  BY <1>1, <1>5 DEF FlightInv, OwnerMisses, AdmitPending
<1>7. RastersShareable' /\ PoisonStopsDecoding'
  BY DEF FlightInv, RastersShareable, PoisonStopsDecoding, AdmitPending
<1> QED
  BY <1>4, <1>6, <1>7 DEF FlightInv

\* The thread that publishes or drops takes its key with it, and no other
\* owner has that key.
LEMMA FlightEnds ==
  ASSUME FlightInv, NEW t \in Owners, Owners' = Owners \ {t}, url' = url,
         loading' = loading \ {PendingKey[url[t]]}
  PROVE  SingleFlight'
BY DEF FlightInv, SingleFlight

LEMMA FlightPublish ==
  ASSUME Typed, FlightInv, NEW t \in Threads, NEW n \in Decoded, Publish(t, n)
  PROVE  FlightInv'
<1> DEFINE key == PendingKey[url[t]]
<1>1. t \in Owners /\ Owners' = Owners \ {t} /\ url' = url /\ url[t] \in Urls
  BY DEF Publish, Goto, Owners, Typed, TypeOK
<1>2. SingleFlight'
  BY <1>1, FlightEnds DEF Publish
<1>3. OwnerMisses'
  <2> SUFFICES ASSUME NEW s \in Owners'
               PROVE  exact'[url[s]] = None /\ rasters'[PendingKey[url[s]]] = None
    BY <1>1 DEF OwnerMisses
  <2>1. s \in Owners /\ s # t
    BY <1>1
  <2>2. PendingKey[url[s]] # key /\ url[s] # url[t]
    BY <1>1, <2>1 DEF FlightInv, SingleFlight
  <2>3. exact[url[s]] = None /\ rasters[PendingKey[url[s]]] = None
    BY <2>1 DEF FlightInv, OwnerMisses
  <2>4. url[s] \in Urls /\ PendingKey[url[s]] \in Keys
    BY <2>1, KeysAssumption DEF Owners, Typed, TypeOK, KeysAssumption
  <2>5. exact'[url[s]] = None
    BY <2>2, <2>3, <2>4 DEF Publish, Typed, TypeOK
  <2>6. rasters'[PendingKey[url[s]]] = None
    BY <2>2, <2>3, <2>4 DEF Publish, Typed, TypeOK
  <2> QED
    BY <2>5, <2>6
<1>4. RastersShareable'
  BY DEF FlightInv, RastersShareable, Publish, IsShared, Typed, TypeOK
<1>5. PoisonStopsDecoding'
  BY DEF FlightInv, PoisonStopsDecoding, Publish
<1> QED
  BY <1>2, <1>3, <1>4, <1>5 DEF FlightInv

LEMMA FlightDrop ==
  ASSUME Typed, FlightInv, NEW t \in Threads, DropPending(t)
  PROVE  FlightInv'
<1>1. t \in Owners /\ Owners' = Owners \ {t} /\ url' = url
  BY DEF DropPending, Goto, Owners, Typed, TypeOK
<1>2. loading' = loading \ {PendingKey[url[t]]}
  BY DEF DropPending
<1>3. SingleFlight'
  BY <1>1, <1>2, FlightEnds
<1>4. OwnerMisses' /\ RastersShareable' /\ PoisonStopsDecoding'
  BY <1>1 DEF FlightInv, OwnerMisses, RastersShareable, PoisonStopsDecoding, DropPending
<1> QED
  BY <1>3, <1>4 DEF FlightInv

LEMMA FlightStep ==
  ASSUME Typed, FlightInv, [Next]_vars
  PROVE  FlightInv'
<1> USE DEF Goto, Return, PoisonStopsDecoding
<1>1. ASSUME NEW t \in Threads, NEW u \in Urls, Call(t, u)
      PROVE  FlightInv'
  <2>1. Owners' = Owners /\ t \notin Owners
    BY <1>1 DEF Call, Owners, Typed, TypeOK
  <2> QED
    BY <1>1, <2>1, FlightUnchanged DEF Call, FlightInv, cacheVars, Typed, TypeOK, Owners
<1>2. ASSUME NEW t \in Threads,
             \/ CachedSource(t) \/ AdmitReturns(t) \/ AdmitWaits(t)
             \/ WakeSpuriously(t) \/ FetchFails(t)
             \/ \E r \in Responses : FetchSucceeds(t, r)
      PROVE  FlightInv'
  <2>1. UNCHANGED <<url, cacheVars, holder, poisoned>>
    BY <1>2 DEF CachedSource, AdmitReturns, AdmitWaits, WakeSpuriously, FetchFails,
                FetchSucceeds
  <2>2. Owners' = Owners
    BY <1>2 DEF CachedSource, AdmitReturns, AdmitWaits, WakeSpuriously, FetchFails,
                FetchSucceeds, Owners, Typed, TypeOK
  <2> QED
    BY <2>1, <2>2, FlightUnchanged DEF FlightInv
<1>3. ASSUME NEW t \in Threads, AdmitPending(t)
      PROVE  FlightInv'
  BY <1>3, FlightAdmit
<1>4. ASSUME NEW t \in Threads, LockBudget(t)
      PROVE  FlightInv'
  <2>1. Owners' = Owners
    BY <1>4 DEF LockBudget, Owners, Typed, TypeOK
  <2>2. PoisonStopsDecoding'
    BY <1>4 DEF LockBudget, LocksBudget, FlightInv
  <2> QED
    BY <1>4, <2>1, <2>2, FlightUnchanged DEF LockBudget
<1>5. ASSUME NEW t \in Threads, NEW n \in Decoded, Publish(t, n)
      PROVE  FlightInv'
  BY <1>5, FlightPublish
<1>6. ASSUME NEW t \in Threads, BuildFails(t)
      PROVE  FlightInv'
  <2>1. Owners' = Owners
    BY <1>6 DEF BuildFails, Owners, Typed, TypeOK
  <2> QED
    BY <1>6, <2>1, FlightUnchanged DEF BuildFails
<1>7. ASSUME NEW t \in Threads, DropPending(t)
      PROVE  FlightInv'
  BY <1>7, FlightDrop
<1>8. ASSUME NEW t \in Threads, NotifyAll(t)
      PROVE  FlightInv'
  <2>1. Owners' = Owners
    BY <1>8 DEF NotifyAll, Owners, Typed, TypeOK
  <2> QED
    BY <1>8, <2>1, FlightUnchanged DEF NotifyAll, FlightInv
<1>9. ASSUME NEW n \in {0} \cup Decoded, RetainPixels(n)
      PROVE  FlightInv'
  BY <1>9, FlightUnchanged DEF RetainPixels, threadVars, Owners, FlightInv
<1>10. CASE RasterizePanics
  BY <1>10, FlightUnchanged
     DEF RasterizePanics, LocksBudget, BudgetFree, threadVars, Owners, FlightInv
<1>11. CASE UNCHANGED vars
  BY <1>11, FlightUnchanged DEF vars, threadVars, cacheVars, Owners, FlightInv
<1> QED
  BY <1>1, <1>2, <1>3, <1>4, <1>5, <1>6, <1>7, <1>8, <1>9, <1>10, <1>11 DEF Next, Step

LEMMA FlightAlways == Spec => [](Typed /\ FlightInv)
<1>1. Init => Typed /\ FlightInv
  BY TypeInit, FlightInit
<1>2. Typed /\ FlightInv /\ [Next]_vars => (Typed /\ FlightInv)'
  BY TypeStep, FlightStep
<1> QED
  BY <1>1, <1>2, PTL DEF Spec

\* However threads, errors and panics interleave, one thread at a time loads
\* a pending key, and the key goes with it (PendingSource).
THEOREM OneFlightPerKey == Spec => []SingleFlight
<1>1. FlightInv => SingleFlight
  BY DEF FlightInv
<1> QED
  BY <1>1, FlightAlways, PTL

\* No publication overwrites an entry of either namespace (SourceCache).
THEOREM NothingOverwritten == Spec => []OwnerMisses
<1>1. FlightInv => OwnerMisses
  BY DEF FlightInv
<1> QED
  BY <1>1, FlightAlways, PTL

\* A poisoned budget admits and publishes nothing, and only gives bytes back.
THEOREM PoisonFailsClosed == Spec => FailsClosed
<1> DEFINE Closed == poisoned => exact' = exact /\ rasters' = rasters
                                 /\ loading' \subseteq loading /\ used' <= used
<1>1. ASSUME Typed, FlightInv, [Next]_vars
      PROVE  [Closed]_vars
  <2> SUFFICES ASSUME poisoned, Next
               PROVE  Closed
    BY <1>1
  <2>1. used <= used /\ ~LocksBudget /\ holder = None
    BY <1>1 DEF LocksBudget, FlightInv, PoisonStopsDecoding, Typed, TypeOK
  <2>2. \A t \in Threads : pc[t] # "building"
    BY <1>1, <2>1, NoneAssumption DEF Typed, TypeOK, NoneAssumption
  <2>3. ASSUME NEW t \in Threads, DropPending(t)
        PROVE  Closed
    <3>1. used \in Nat /\ UrlBytes[url[t]] \in Nat
      BY <1>1, <2>3, SizesAssumption DEF DropPending, Typed, TypeOK, SizesAssumption
    <3>2. Monus(used, UrlBytes[url[t]]) <= used
      BY <3>1, MonusType
    <3> QED
      BY <2>1, <2>3, <3>2 DEF DropPending
  <2>4. ASSUME UNCHANGED <<exact, rasters, loading, used>>
        PROVE  Closed
    BY <2>1, <2>4
  <2> QED
    BY <2>1, <2>2, <2>3, <2>4
       DEF Next, Step, Call, CachedSource, AdmitReturns, AdmitWaits, AdmitPending,
           WakeSpuriously, FetchSucceeds, FetchFails, LockBudget, Publish, BuildFails,
           NotifyAll, RetainPixels, RasterizePanics, cacheVars
<1> QED
  BY <1>1, FlightAlways, PTL DEF Spec, FailsClosed
-----------------------------------------------------------------------------
\* A publication adds one entry, in one of the namespaces, and takes one
\* pending key away.
LEMMA PublishGrows ==
  ASSUME Typed, FlightInv, NEW t \in Threads, NEW n \in Decoded, Publish(t, n)
  PROVE  /\ CacheLen' = CacheLen + 1
         /\ Cardinality(loading') = Cardinality(loading) - 1
<1> DEFINE key == PendingKey[url[t]]
<1>1. t \in Owners /\ url[t] \in Urls /\ key \in Keys
  BY KeysAssumption DEF Publish, Owners, Typed, TypeOK, KeysAssumption
<1>2. key \in loading /\ exact[url[t]] = None /\ rasters[key] = None
  BY <1>1 DEF FlightInv, SingleFlight, OwnerMisses
<1>3. Cardinality(loading') = Cardinality(loading) - 1
  BY <1>2, FS_RemoveElement DEF Publish, Typed, FiniteState
<1>4. [svg |-> response[t].svg, bytes |-> n, id |-> CacheLen] # None
  BY PublishedSource, NoneAssumption DEF Publish, NoneAssumption
<1>5. CASE IsShared(t, response[t].svg)
  <2>1. ExactEntries' = ExactEntries
    BY <1>5 DEF Publish, ExactEntries
  <2>2. RasterEntries' = RasterEntries \cup {key}
    BY <1>1, <1>4, <1>5 DEF Publish, RasterEntries, Typed, TypeOK
  <2>3. key \notin RasterEntries
    BY <1>2 DEF RasterEntries
  <2>4. Cardinality(RasterEntries') = Cardinality(RasterEntries) + 1
    BY <2>2, <2>3, FS_AddElement DEF Typed, FiniteState
  <2>5. Cardinality(RasterEntries) \in Nat /\ Cardinality(ExactEntries) \in Nat
    BY FS_CardinalityType DEF Typed, FiniteState
  <2>6. CacheLen' = CacheLen + 1
    BY <2>1, <2>4, <2>5 DEF CacheLen
  <2> QED
    BY <1>3, <2>6
<1>6. CASE ~IsShared(t, response[t].svg)
  <2>1. RasterEntries' = RasterEntries
    BY <1>6 DEF Publish, RasterEntries
  <2>2. ExactEntries' = ExactEntries \cup {url[t]}
    BY <1>1, <1>4, <1>6 DEF Publish, ExactEntries, Typed, TypeOK
  <2>3. url[t] \notin ExactEntries
    BY <1>2 DEF ExactEntries
  <2>4. Cardinality(ExactEntries') = Cardinality(ExactEntries) + 1
    BY <2>2, <2>3, FS_AddElement DEF Typed, FiniteState
  <2>5. Cardinality(RasterEntries) \in Nat /\ Cardinality(ExactEntries) \in Nat
    BY FS_CardinalityType DEF Typed, FiniteState
  <2>6. CacheLen' = CacheLen + 1
    BY <2>1, <2>4, <2>5 DEF CacheLen
  <2> QED
    BY <1>3, <2>6
<1> QED
  BY <1>5, <1>6

\* What an admission finds, and what it leaves.
LEMMA AdmitFills ==
  ASSUME Typed, NEW t \in Threads, AdmitPending(t)
  PROVE  /\ CacheLen' = CacheLen
         /\ Cardinality(loading') = Cardinality(loading) + 1
         /\ Cardinality(loading) < Slots /\ CacheLen + Cardinality(loading) < MaxEntries
<1>1. PendingKey[url[t]] \notin loading /\ loading' = loading \cup {PendingKey[url[t]]}
  BY DEF AdmitPending, CanAdmit, MustWait
<1>2. Cardinality(loading') = Cardinality(loading) + 1
  BY <1>1, FS_AddElement DEF Typed, FiniteState
<1>3. CacheLen' = CacheLen
  BY DEF AdmitPending, CacheLen, ExactEntries, RasterEntries
<1>4. CacheLen \in Nat /\ Cardinality(loading) \in Nat /\ Slots \in Nat
  BY LengthsType, LimitsAssumption DEF Typed, Slots, LimitsAssumption
<1>5. ~(Cardinality(loading) >= Slots) /\ ~(CacheLen + Cardinality(loading) >= MaxEntries)
  BY DEF AdmitPending, CanAdmit, MustWait
<1> QED
  BY <1>2, <1>3, <1>4, <1>5, LimitsAssumption DEF LimitsAssumption

\* WithinLimits without the types.
LimitsInv == Bounded /\ WithinBudget

LEMMA LimitsInit == Init => LimitsInv
<1> SUFFICES ASSUME Init PROVE LimitsInv
  OBVIOUS
<1>1. ExactEntries = {} /\ RasterEntries = {} /\ loading = {}
  BY DEF Init, ExactEntries, RasterEntries
<1> QED
  BY <1>1, FS_EmptySet, LimitsAssumption
     DEF Init, LimitsInv, Bounded, WithinBudget, CacheLen, Slots, LimitsAssumption

LEMMA LimitsUnchanged ==
  ASSUME LimitsInv, UNCHANGED <<cacheVars, used>>
  PROVE  LimitsInv'
BY DEF LimitsInv, Bounded, WithinBudget, CacheLen, ExactEntries, RasterEntries,
       Slots, cacheVars

\* The steps of one call that neither reserve, publish nor give back.
LEMMA OtherSteps ==
  ASSUME NEW t \in Threads,
         \/ \E u \in Urls : Call(t, u)
         \/ CachedSource(t) \/ AdmitReturns(t) \/ AdmitWaits(t) \/ WakeSpuriously(t)
         \/ \E r \in Responses : FetchSucceeds(t, r)
         \/ FetchFails(t) \/ LockBudget(t) \/ BuildFails(t) \/ NotifyAll(t)
  PROVE  UNCHANGED <<cacheVars, used, pixels, poisoned>>
BY DEF Call, CachedSource, AdmitReturns, AdmitWaits, WakeSpuriously, FetchSucceeds,
       FetchFails, LockBudget, BuildFails, NotifyAll

LEMMA LimitsStep ==
  ASSUME Typed, FlightInv, LimitsInv, [Next]_vars
  PROVE  LimitsInv'
<1> USE DEF LimitsInv
<1>1. ASSUME NEW t \in Threads, AdmitPending(t)
      PROVE  LimitsInv'
  <2>1. Bounded'
    BY <1>1, AdmitFills, LengthsType, LimitsAssumption
       DEF Bounded, Slots, LimitsAssumption, Typed
  <2>2. used \in Nat /\ UrlBytes[url[t]] \in Nat
    BY <1>1, SizesAssumption DEF AdmitPending, Typed, TypeOK, SizesAssumption
  <2>3. UrlBytes[url[t]] <= Remaining
    BY <1>1 DEF AdmitPending, CanAdmit
  <2>4. WithinBudget'
    BY <1>1, <2>2, <2>3, LimitsAssumption
       DEF AdmitPending, WithinBudget, Remaining, Monus, LimitsAssumption
  <2> QED
    BY <2>1, <2>4
<1>2. ASSUME NEW t \in Threads, NEW n \in Decoded, Publish(t, n)
      PROVE  LimitsInv'
  <2>1. Bounded'
    BY <1>2, PublishGrows, LengthsType, LimitsAssumption
       DEF Bounded, Slots, LimitsAssumption, Typed
  <2>2. WithinBudget'
    BY <1>2 DEF Publish, Fits, WithinBudget
  <2> QED
    BY <2>1, <2>2
<1>3. ASSUME NEW t \in Threads, DropPending(t)
      PROVE  LimitsInv'
  <2>1. Cardinality(loading') <= Cardinality(loading) /\ Cardinality(loading') \in Nat
    BY <1>3, FS_Subset, FS_CardinalityType DEF DropPending, Typed, FiniteState
  <2>2. CacheLen' = CacheLen
    BY <1>3 DEF DropPending, CacheLen, ExactEntries, RasterEntries
  <2>3. Bounded'
    BY <2>1, <2>2, LengthsType, LimitsAssumption DEF Bounded, Slots, LimitsAssumption, Typed
  <2>4. used \in Nat /\ UrlBytes[url[t]] \in Nat
    BY <1>3, SizesAssumption DEF DropPending, Typed, TypeOK, SizesAssumption
  <2>5. Monus(used, UrlBytes[url[t]]) \in Nat /\ Monus(used, UrlBytes[url[t]]) <= used
    BY <2>4, MonusType
  <2>6. WithinBudget'
    BY <1>3, <2>4, <2>5, LimitsAssumption DEF DropPending, WithinBudget, LimitsAssumption
  <2> QED
    BY <2>3, <2>6
<1>4. ASSUME NEW n \in {0} \cup Decoded, RetainPixels(n)
      PROVE  LimitsInv'
  BY <1>4 DEF RetainPixels, Bounded, WithinBudget, CacheLen, ExactEntries,
              RasterEntries, Slots, cacheVars
<1>5. CASE RasterizePanics \/ UNCHANGED vars
  BY <1>5, LimitsUnchanged DEF RasterizePanics, vars
<1> QED
  BY <1>1, <1>2, <1>3, <1>4, <1>5, OtherSteps, LimitsUnchanged DEF Next, Step

LEMMA LimitsAlways == Spec => []LimitsInv
<1>1. Init => LimitsInv
  BY LimitsInit
<1>2. Typed /\ FlightInv /\ LimitsInv /\ [Next]_vars => LimitsInv'
  BY LimitsStep
<1> QED
  BY <1>1, <1>2, FlightAlways, PTL DEF Spec

\* No interleaving admits more loads than there are slots and entries for
\* (max_in_flight, max_entries), or charges bytes past the limit of the cache.
THEOREM LimitsKept == Spec => []WithinLimits
<1>1. TypeOK /\ LimitsInv => WithinLimits
  BY DEF LimitsInv, WithinLimits
<1> QED
  BY <1>1, LimitsAlways, TypeCorrect, PTL
-----------------------------------------------------------------------------
\* A waiting thread stays waiting for a reason as long as nobody leaves
\* "notify" and the cache and the pending keys are as they were.
LEMMA ReasonKept ==
  ASSUME NoLostWakeup, UNCHANGED cacheVars,
         \A s \in Threads : pc'[s] = "waiting" =>
            url'[s] = url[s]
            /\ (pc[s] = "waiting" \/ (Lookup(url[s]) = None /\ MustWait(url[s]))),
         \A s \in Threads : pc[s] = "notify" => pc'[s] = "notify"
  PROVE  NoLostWakeup'
<1> SUFFICES ASSUME NEW s \in Threads, pc'[s] = "waiting",
                    ~ \E r \in Threads : pc'[r] = "notify"
             PROVE  Lookup(url[s])' = None /\ MustWait(url[s])'
  BY DEF NoLostWakeup
<1>1. Lookup(url[s]) = None /\ MustWait(url[s])
  BY DEF NoLostWakeup
<1>2. url'[s] = url[s] /\ CacheLen' = CacheLen
  BY DEF CacheLen, ExactEntries, RasterEntries, cacheVars
<1> QED
  BY <1>1, <1>2 DEF Lookup, MustWait, cacheVars, Slots

LEMMA WakeupStep ==
  ASSUME Typed, FlightInv, NoLostWakeup, [Next]_vars
  PROVE  NoLostWakeup'
<1> USE DEF Goto, Return
<1>1. ASSUME NEW t \in Threads, NEW u \in Urls, Call(t, u)
      PROVE  NoLostWakeup'
  BY <1>1, ReasonKept DEF Call, Typed, TypeOK
<1>2. ASSUME NEW t \in Threads,
             \/ CachedSource(t) \/ AdmitReturns(t) \/ WakeSpuriously(t)
             \/ \E r \in Responses : FetchSucceeds(t, r)
             \/ FetchFails(t) \/ LockBudget(t) \/ BuildFails(t)
      PROVE  NoLostWakeup'
  <2>1. UNCHANGED <<url, cacheVars>>
    BY <1>2 DEF CachedSource, AdmitReturns, WakeSpuriously, FetchSucceeds, FetchFails,
                LockBudget, BuildFails
  <2>2. \A s \in Threads : /\ pc'[s] = "waiting" => pc[s] = "waiting"
                           /\ pc[s] = "notify" => pc'[s] = "notify"
    BY <1>2 DEF CachedSource, AdmitReturns, WakeSpuriously, FetchSucceeds, FetchFails,
                LockBudget, BuildFails, Typed, TypeOK
  <2> QED
    BY <2>1, <2>2, ReasonKept
<1>3. ASSUME NEW t \in Threads, AdmitWaits(t)
      PROVE  NoLostWakeup'
  BY <1>3, ReasonKept DEF AdmitWaits, Typed, TypeOK
<1>4. ASSUME NEW t \in Threads, AdmitPending(t)
      PROVE  NoLostWakeup'
  <2> SUFFICES ASSUME NEW s \in Threads, pc'[s] = "waiting",
                      ~ \E r \in Threads : pc'[r] = "notify"
               PROVE  Lookup(url[s])' = None /\ MustWait(url[s])'
    BY DEF NoLostWakeup
  <2>1. pc[s] = "waiting" /\ url' = url /\ ~ \E r \in Threads : pc[r] = "notify"
    BY <1>4 DEF AdmitPending, Typed, TypeOK
  <2>2. Lookup(url[s]) = None /\ MustWait(url[s])
    BY <2>1 DEF NoLostWakeup
  <2>3. CacheLen' = CacheLen /\ Cardinality(loading') = Cardinality(loading) + 1
        /\ loading \subseteq loading'
    BY <1>4, AdmitFills DEF AdmitPending
  <2>4. CacheLen \in Nat /\ Cardinality(loading) \in Nat /\ Slots \in Nat
    BY LengthsType, LimitsAssumption DEF Typed, Slots, LimitsAssumption
  <2>5. MustWait(url[s])'
    BY <2>1, <2>2, <2>3, <2>4, LimitsAssumption DEF MustWait, LimitsAssumption, Slots
  <2> QED
    BY <1>4, <2>1, <2>2, <2>5 DEF AdmitPending, Lookup
<1>5. ASSUME NEW t \in Threads, DropPending(t) \/ \E n \in Decoded : Publish(t, n)
      PROVE  NoLostWakeup'
  <2>1. pc'[t] = "notify"
    BY <1>5 DEF DropPending, Publish, Typed, TypeOK
  <2> QED
    BY <2>1 DEF NoLostWakeup
<1>6. ASSUME NEW t \in Threads, NotifyAll(t)
      PROVE  NoLostWakeup'
  BY <1>6 DEF NotifyAll, NoLostWakeup, Typed, TypeOK
<1>7. CASE RasterizePanics \/ UNCHANGED vars \/ \E n \in {0} \cup Decoded : RetainPixels(n)
  BY <1>7, ReasonKept DEF RasterizePanics, RetainPixels, vars, threadVars
<1> QED
  BY <1>1, <1>2, <1>3, <1>4, <1>5, <1>6, <1>7 DEF Next, Step

\* No wakeup is lost: a thread waits on `changed` only while what it waits for
\* holds, or while the thread that changed it is about to notify (admit).
THEOREM NoWakeupLost == Spec => []NoLostWakeup
<1>1. Init => NoLostWakeup
  BY DEF Init, NoLostWakeup
<1>2. Typed /\ FlightInv /\ NoLostWakeup /\ [Next]_vars => NoLostWakeup'
  BY WakeupStep
<1> QED
  BY <1>1, <1>2, FlightAlways, PTL DEF Spec

-----------------------------------------------------------------------------
\* The identities given so far are smaller than the next one.
IdsFresh ==
  /\ \A u \in Urls : exact[u] # None => exact[u].id < CacheLen
  /\ \A k \in Keys : rasters[k] # None => rasters[k].id < CacheLen

LEMMA IdsStep ==
  ASSUME Typed, FlightInv, IdsFresh, [Next]_vars
  PROVE  IdsFresh'
<1>1. ASSUME NEW t \in Threads, NEW n \in Decoded, Publish(t, n)
      PROVE  IdsFresh'
  <2>1. CacheLen \in Nat /\ CacheLen' = CacheLen + 1
    BY <1>1, LengthsType, PublishGrows DEF Typed
  <2>2. \A s \in Sources : s.id \in Nat
    BY DEF Sources
  <2> DEFINE source == [svg |-> response[t].svg, bytes |-> n, id |-> CacheLen]
  <2>3. ASSUME NEW u \in Urls, exact'[u] # None
        PROVE  exact'[u].id < CacheLen'
    <3>1. exact'[u] = exact[u] \/ exact'[u] = source
      BY <1>1 DEF Publish, Typed, TypeOK
    <3> QED
      BY <2>1, <2>2, <2>3, <3>1 DEF IdsFresh, Typed, TypeOK
  <2>4. ASSUME NEW k \in Keys, rasters'[k] # None
        PROVE  rasters'[k].id < CacheLen'
    <3>1. rasters'[k] = rasters[k] \/ rasters'[k] = source
      BY <1>1 DEF Publish, Typed, TypeOK
    <3> QED
      BY <2>1, <2>2, <2>4, <3>1 DEF IdsFresh, Typed, TypeOK
  <2> QED
    BY <2>3, <2>4 DEF IdsFresh
<1>2. ASSUME UNCHANGED <<exact, rasters>>
      PROVE  IdsFresh'
  BY <1>2 DEF IdsFresh, CacheLen, ExactEntries, RasterEntries
<1> QED
  BY <1>1, <1>2, OtherSteps
     DEF Next, Step, AdmitPending, DropPending, RetainPixels, RasterizePanics, vars, cacheVars

\* The invariant the refinement rests on.
RefineInv == Typed /\ FlightInv /\ LimitsInv /\ IdsFresh

LEMMA RefineAlways == Spec => []RefineInv
<1>1. Init => IdsFresh
  BY DEF Init, IdsFresh
<1>2. Typed /\ FlightInv /\ IdsFresh /\ [Next]_vars => IdsFresh'
  BY IdsStep
<1> QED
  BY <1>1, <1>2, FlightAlways, LimitsAlways, PTL DEF Spec, RefineInv

View == [u \in Urls |-> Lookup(u)]
Reply == [t \in Threads |-> IF pc[t] \in {"idle", "notify"} THEN out[t] ELSE Pending]

LEMMA ReplyUnchanged ==
  ASSUME UNCHANGED <<cacheVars, url, poisoned>>,
         \A s \in Threads :
            /\ pc'[s] \in {"idle", "notify"} <=> pc[s] \in {"idle", "notify"}
            /\ out'[s] = out[s]
  PROVE  UNCHANGED Promise!vars
BY DEF Promise!vars, Lookup, cacheVars

\* A publication fills the URL of its thread and, when it is shared, every
\* alias of it; none of them had a source.
LEMMA PublishFills ==
  ASSUME RefineInv, NEW t \in Threads, NEW n \in Decoded, Publish(t, n)
  PROVE  \E aliases \in SUBSET Urls,
            source \in [svg : BOOLEAN, bytes : Decoded, id : 0..MaxEntries] :
            Promise!Fill(t, aliases, source)
<1> USE DEF Goto
<1> DEFINE key == PendingKey[url[t]]
           svg == response[t].svg
           source == [svg |-> svg, bytes |-> n, id |-> CacheLen]
           aliases == IF IsShared(t, svg)
                        THEN {u \in Shareable : PendingKey[u] = key /\ exact[u] = None}
                        ELSE {url[t]}
<1>1. t \in Owners /\ url[t] \in Urls /\ key \in Keys /\ pc[t] = "building"
  BY KeysAssumption DEF Publish, RefineInv, Owners, Typed, TypeOK, KeysAssumption
<1>2. exact[url[t]] = None /\ rasters[key] = None
  BY <1>1 DEF RefineInv, FlightInv, OwnerMisses
<1>3. source \in [svg : BOOLEAN, bytes : Decoded, id : 0..MaxEntries]
  <2>1. source \in Sources
    BY <1>1, PublishedSource DEF RefineInv
  <2>2. CacheLen \in 0..MaxEntries
    BY LengthsType, LimitsAssumption
       DEF RefineInv, Typed, LimitsInv, Bounded, LimitsAssumption
  <2> QED
    BY <2>1, <2>2 DEF Sources
<1>4. source # None
  BY <1>1, PublishedSource, NoneAssumption DEF RefineInv, NoneAssumption
<1>5. aliases \in SUBSET Urls /\ url[t] \in aliases
  BY <1>1, <1>2, KeysAssumption DEF IsShared, KeysAssumption
<1>6. \A u \in aliases : Lookup(u) = None
  BY <1>2, <1>1, KeysAssumption DEF Lookup, KeysAssumption, IsShared
<1>7. \A u \in Urls : Lookup(u) # source
  <2>1. CacheLen \in Nat /\ source.id = CacheLen
    BY LengthsType DEF RefineInv, Typed
  <2>2. \A s : s # None /\ s.id < CacheLen => s # source
    BY <2>1
  <2> QED
    BY <1>4, <2>2, KeysAssumption
       DEF RefineInv, IdsFresh, Lookup, KeysAssumption
<1>8. \A u \in Urls : Lookup(u)' = IF u \in aliases THEN source ELSE Lookup(u)
  <2> SUFFICES ASSUME NEW u \in Urls
               PROVE  Lookup(u)' = IF u \in aliases THEN source ELSE Lookup(u)
    OBVIOUS
  <2>1. PendingKey[u] \in Keys
    BY KeysAssumption DEF KeysAssumption
  <2>2. CASE IsShared(t, svg)
    <3>1. exact' = exact /\ rasters' = [rasters EXCEPT ![key] = source]
      BY <2>2 DEF Publish
    <3>2. rasters'[PendingKey[u]] = IF PendingKey[u] = key THEN source ELSE rasters[PendingKey[u]]
      BY <2>1, <3>1 DEF RefineInv, Typed, TypeOK
    <3> QED
      BY <2>2, <3>1, <3>2 DEF Lookup
  <2>3. CASE ~IsShared(t, svg)
    <3>1. rasters' = rasters /\ exact' = [exact EXCEPT ![url[t]] = source]
      BY <2>3 DEF Publish
    <3>2. exact'[u] = IF u = url[t] THEN source ELSE exact[u]
      BY <3>1 DEF RefineInv, Typed, TypeOK
    <3> QED
      BY <1>4, <2>3, <3>1, <3>2 DEF Lookup
  <2> QED
    BY <2>2, <2>3
<1>9. ~poisoned
  BY <1>1, NoneAssumption
     DEF RefineInv, FlightInv, PoisonStopsDecoding, Typed, TypeOK, NoneAssumption
<1>10. Reply' = [Reply EXCEPT ![t] = source] /\ Reply[t] = Pending
  BY <1>1 DEF Publish, Reply, RefineInv, Typed, TypeOK
<1>11. UNCHANGED <<url, poisoned>>
  BY DEF Publish
<1>12. Promise!Fill(t, aliases, source)
  BY <1>1, <1>5, <1>6, <1>7, <1>8, <1>9, <1>10, <1>11
     DEF Promise!Fill, Promise!Answer, Reply
<1> QED
  BY <1>3, <1>5, <1>12

LEMMA RefineStep ==
  ASSUME RefineInv, [Next]_vars
  PROVE  [Promise!Next]_(Promise!vars)
<1> USE DEF Goto, Return
<1>1. ASSUME NEW t \in Threads, NEW u \in Urls, Call(t, u)
      PROVE  Promise!Begin(t, u)
  <2>1. Reply' = [Reply EXCEPT ![t] = Pending] /\ Reply[t] # Pending
    BY <1>1, NoneAssumption DEF Call, Reply, RefineInv, Typed, TypeOK, NoneAssumption
  <2>2. View' = View
    BY <1>1 DEF Call, View, Lookup, cacheVars
  <2> QED
    BY <1>1, <2>1, <2>2 DEF Promise!Begin, Promise!Answer, Call, Reply, View
<1>2. ASSUME NEW t \in Threads, CachedSource(t) \/ AdmitReturns(t)
      PROVE  \/ Promise!Hit(t) \/ Promise!Fail(t) \/ UNCHANGED Promise!vars
  <2>1. UNCHANGED <<url, cacheVars, poisoned>> /\ View' = View /\ url[t] \in Urls
    BY <1>2 DEF CachedSource, AdmitReturns, View, Lookup, cacheVars, RefineInv, Typed, TypeOK
  <2>2. CASE pc'[t] = "idle"
    <3>1. \/ Lookup(url[t]) # None /\ out' = [out EXCEPT ![t] = Lookup(url[t])]
          \/ (poisoned \/ Lookup(url[t]) = None) /\ out' = [out EXCEPT ![t] = Failed]
      BY <1>2, <2>2 DEF CachedSource, AdmitReturns, LocksBudget, RefineInv, Typed, TypeOK
    <3>2. Reply[t] = Pending /\ Reply' = [Reply EXCEPT ![t] = out'[t]]
      BY <1>2, <2>2, <3>1 DEF CachedSource, AdmitReturns, Reply, RefineInv, Typed, TypeOK
    <3>3. \/ out'[t] = Lookup(url[t]) /\ Lookup(url[t]) # None
          \/ out'[t] = Failed /\ (poisoned \/ Lookup(url[t]) = None)
      BY <3>1 DEF RefineInv, Typed, TypeOK
    <3> QED
      BY <2>1, <3>2, <3>3 DEF Promise!Hit, Promise!Fail, Promise!Answer, Reply, View
  <2>3. CASE pc'[t] # "idle"
    <3>1. CachedSource(t) /\ pc' = [pc EXCEPT ![t] = "admit"] /\ out' = out
      BY <1>2, <2>3 DEF CachedSource, AdmitReturns, RefineInv, Typed, TypeOK
    <3> QED
      BY <2>1, <3>1, ReplyUnchanged DEF CachedSource, RefineInv, Typed, TypeOK
  <2> QED
    BY <2>2, <2>3
<1>3. ASSUME NEW t \in Threads,
             \/ AdmitWaits(t) \/ AdmitPending(t) \/ WakeSpuriously(t)
             \/ \E r \in Responses : FetchSucceeds(t, r)
             \/ FetchFails(t) \/ LockBudget(t) \/ BuildFails(t)
      PROVE  UNCHANGED Promise!vars
  <2>1. UNCHANGED <<url, poisoned, exact, rasters, out>>
    BY <1>3 DEF AdmitWaits, AdmitPending, WakeSpuriously, FetchSucceeds, FetchFails,
                LockBudget, BuildFails, cacheVars
  <2>2. \A s \in Threads :
           pc'[s] \in {"idle", "notify"} <=> pc[s] \in {"idle", "notify"}
    BY <1>3 DEF AdmitWaits, AdmitPending, WakeSpuriously, FetchSucceeds, FetchFails,
                LockBudget, BuildFails, RefineInv, Typed, TypeOK
  <2> QED
    BY <2>1, <2>2 DEF Promise!vars, Lookup
<1>4. ASSUME NEW t \in Threads, NEW n \in Decoded, Publish(t, n)
      PROVE  \E aliases \in SUBSET Urls,
                source \in [svg : BOOLEAN, bytes : Decoded, id : 0..MaxEntries] :
                Promise!Fill(t, aliases, source)
  BY <1>4, PublishFills
<1>5. ASSUME NEW t \in Threads, DropPending(t)
      PROVE  Promise!Fail(t)
  <2>1. t \in Owners /\ url[t] \in Urls /\ pc[t] = "drop"
    BY <1>5 DEF DropPending, Owners, RefineInv, Typed, TypeOK
  <2>2. Lookup(url[t]) = None
    BY <2>1 DEF RefineInv, FlightInv, OwnerMisses, Lookup
  <2>3. Reply' = [Reply EXCEPT ![t] = Failed] /\ Reply[t] = Pending
    BY <1>5, <2>1 DEF DropPending, Reply, RefineInv, Typed, TypeOK
  <2>4. View' = View
    BY <1>5 DEF DropPending, View, Lookup
  <2> QED
    BY <1>5, <2>1, <2>2, <2>3, <2>4
       DEF Promise!Fail, Promise!Answer, DropPending, Reply, View
<1>6. ASSUME NEW t \in Threads, NotifyAll(t)
      PROVE  UNCHANGED Promise!vars
  BY <1>6, ReplyUnchanged DEF NotifyAll, RefineInv, Typed, TypeOK
<1>7. ASSUME NEW n \in {0} \cup Decoded, RetainPixels(n)
      PROVE  UNCHANGED Promise!vars
  BY <1>7, ReplyUnchanged DEF RetainPixels, threadVars
<1>8. CASE RasterizePanics
  BY <1>8 DEF RasterizePanics, Promise!Next, Promise!Break, threadVars, cacheVars, Lookup
<1>9. CASE UNCHANGED vars
  BY <1>9, ReplyUnchanged DEF vars, threadVars
<1> QED
  BY <1>1, <1>2, <1>3, <1>4, <1>5, <1>6, <1>7, <1>8, <1>9 DEF Next, Step, Promise!Next

\* The loader fills each URL once and answers every load of it with that
\* source, whatever the threads, URLs, aliases and limits (ImageResolver).
THEOREM LoaderFillsOnce == Spec => FillsOnce
<1>1. Init => Promise!Init
  BY KeysAssumption DEF Init, Promise!Init, Lookup, KeysAssumption
<1> QED
  BY <1>1, RefineAlways, RefineStep, PTL DEF Spec, FillsOnce, Promise!Spec
-----------------------------------------------------------------------------
(* What the budget is made of. *)

OwnerBytes(u)  == [t \in Threads |-> UrlBytes[u[t]]]
EntryBytes(e)  == [u \in Urls |-> UrlBytes[u] + e[u].bytes]
RasterBytes(r) == [k \in Keys |-> KeyBytes[k] + r[k].bytes]

Reserved == SumFunctionOnSet(OwnerBytes(url), Owners)
InExact  == SumFunctionOnSet(EntryBytes(exact), ExactEntries)
InShared == SumFunctionOnSet(RasterBytes(rasters), RasterEntries)

\* BudgetExact, and that finitely many loads are in flight: without it a sum
\* over them would say nothing.
Exact == IsFiniteSet(Owners) /\ used = pixels + Reserved + InExact + InShared

LEMMA OwnersHaveUrls ==
  ASSUME Typed
  PROVE  \A t \in Owners : t \in Threads /\ url[t] \in Urls /\ UrlBytes[url[t]] \in Nat
BY SizesAssumption DEF Typed, TypeOK, Owners, SizesAssumption

LEMMA SumsType ==
  ASSUME Typed, IsFiniteSet(Owners)
  PROVE  /\ Weights(OwnerBytes(url), Owners) /\ Reserved \in Nat
         /\ Weights(EntryBytes(exact), ExactEntries) /\ InExact \in Nat
         /\ Weights(RasterBytes(rasters), RasterEntries) /\ InShared \in Nat
<1>1. Weights(OwnerBytes(url), Owners)
  BY OwnersHaveUrls DEF Weights, OwnerBytes
<1>2. Weights(EntryBytes(exact), ExactEntries)
  <2>1. \A u \in ExactEntries : u \in Urls /\ exact[u].bytes \in Nat /\ UrlBytes[u] \in Nat
    BY SizesAssumption DEF ExactEntries, Typed, TypeOK, Sources, SizesAssumption
  <2> QED
    BY <2>1 DEF Weights, EntryBytes
<1>3. Weights(RasterBytes(rasters), RasterEntries)
  <2>1. \A k \in RasterEntries : k \in Keys /\ rasters[k].bytes \in Nat /\ KeyBytes[k] \in Nat
    BY SizesAssumption DEF RasterEntries, Typed, TypeOK, Sources, SizesAssumption
  <2> QED
    BY <2>1 DEF Weights, RasterBytes
<1>4. IsFiniteSet(ExactEntries) /\ IsFiniteSet(RasterEntries)
  BY DEF Typed, FiniteState
<1> QED
  BY <1>1, <1>2, <1>3, <1>4, SumElement DEF Reserved, InExact, InShared

LEMMA ExactInit == Init => Exact
<1> SUFFICES ASSUME Init PROVE Exact
  OBVIOUS
<1>1. ExactEntries = {} /\ RasterEntries = {} /\ Owners = {} /\ used = 0 /\ pixels = 0
  BY DEF Init, ExactEntries, RasterEntries, Owners
<1> QED
  BY <1>1, FS_EmptySet, SumEmpty DEF Exact, Reserved, InExact, InShared

\* A step that moves no thread in or out of Owners.
LEMMA SameReserved ==
  ASSUME IsFiniteSet(Owners), Owners' = Owners, Owners \subseteq Threads,
         \A t \in Owners : url'[t] = url[t]
  PROVE  Reserved' = Reserved
<1>1. \A t \in Owners : OwnerBytes(url')[t] = OwnerBytes(url)[t]
  BY DEF OwnerBytes
<1>2. SumFunctionOnSet(OwnerBytes(url'), Owners) = SumFunctionOnSet(OwnerBytes(url), Owners)
  BY <1>1, SumSame
<1> QED
  BY <1>2 DEF Reserved

LEMMA ExactUnchanged ==
  ASSUME Exact, UNCHANGED <<cacheVars, used, pixels>>, Owners' = Owners,
         \A t \in Owners : url'[t] = url[t]
  PROVE  Exact'
<1>1. Owners \subseteq Threads
  BY DEF Owners
<1>2. Reserved' = Reserved
  BY <1>1, SameReserved DEF Exact
<1>3. InExact' = InExact /\ InShared' = InShared
  BY DEF InExact, InShared, ExactEntries, RasterEntries, cacheVars
<1> QED
  BY <1>2, <1>3 DEF Exact

LEMMA ExactAdmit ==
  ASSUME Typed, Exact, NEW t \in Threads, AdmitPending(t)
  PROVE  Exact'
<1>1. t \notin Owners /\ Owners' = Owners \cup {t} /\ url' = url /\ url[t] \in Urls
  BY DEF AdmitPending, Goto, Owners, Typed, TypeOK
<1>2. UrlBytes[url[t]] \in Nat
  BY <1>1, SizesAssumption DEF SizesAssumption
<1>3. Reserved' = UrlBytes[url[t]] + Reserved
  <2> DEFINE w == OwnerBytes(url)
  <2>1. Weights(w, Owners \cup {t}) /\ w[t] = UrlBytes[url[t]]
    BY <1>2, OwnersHaveUrls DEF Weights, OwnerBytes
  <2> HIDE DEF w
  <2>2. SumFunctionOnSet(w, Owners \cup {t}) = w[t] + SumFunctionOnSet(w, Owners)
    BY <1>1, <2>1, SumAdd DEF Exact
  <2> QED
    BY <1>1, <2>1, <2>2 DEF Reserved, w
<1>4. InExact' = InExact /\ InShared' = InShared
  BY DEF AdmitPending, InExact, InShared, ExactEntries, RasterEntries
<1>5. IsFiniteSet(Owners')
  BY <1>1, FS_AddElement DEF Exact
<1>6. used' = used + UrlBytes[url[t]] /\ pixels' = pixels /\ used \in Nat /\ pixels \in Nat
  BY DEF AdmitPending, Typed, TypeOK
<1> QED
  BY <1>2, <1>3, <1>4, <1>5, <1>6, SumsType DEF Exact

\* The thread that publishes or drops takes its reservation with it.
LEMMA OwnerLeaves ==
  ASSUME Typed, IsFiniteSet(Owners), NEW t \in Owners, Owners' = Owners \ {t}, url' = url
  PROVE  /\ IsFiniteSet(Owners') /\ Reserved' \in Nat /\ UrlBytes[url[t]] \in Nat
         /\ Reserved = UrlBytes[url[t]] + Reserved'
<1> DEFINE w == OwnerBytes(url)
<1>1. t \in Threads /\ UrlBytes[url[t]] \in Nat
  BY OwnersHaveUrls
<1>2. w[t] = UrlBytes[url[t]] /\ Weights(w, Owners)
  BY <1>1, SumsType DEF OwnerBytes
<1> HIDE DEF w
<1>3. /\ SumFunctionOnSet(w, Owners \ {t}) \in Nat
      /\ SumFunctionOnSet(w, Owners) = w[t] + SumFunctionOnSet(w, Owners \ {t})
  BY <1>2, SumElement
<1>4. IsFiniteSet(Owners \ {t})
  BY FS_RemoveElement
<1> QED
  BY <1>1, <1>2, <1>3, <1>4 DEF Reserved, w

\* What is published fills an entry that was empty.
LEMMA ExactPublish ==
  ASSUME Typed, FlightInv, Exact, NEW t \in Threads, NEW n \in Decoded, Publish(t, n)
  PROVE  Exact'
<1> DEFINE key == PendingKey[url[t]]
           svg == response[t].svg
           source == [svg |-> svg, bytes |-> n, id |-> CacheLen]
           bytes == UrlBytes[url[t]]
           retained == RetainedKeyBytes(t, svg)
<1>1. t \in Owners /\ Owners' = Owners \ {t} /\ url' = url /\ url[t] \in Urls /\ key \in Keys
  BY KeysAssumption DEF Publish, Goto, Owners, Typed, TypeOK, KeysAssumption
<1>2. source \in Sources /\ source # None /\ n \in Nat
  BY PublishedSource, NoneAssumption, SizesAssumption
     DEF Publish, NoneAssumption, SizesAssumption
<1>3. exact[url[t]] = None /\ rasters[key] = None
  BY <1>1 DEF FlightInv, OwnerMisses
<1>4. /\ IsFiniteSet(Owners') /\ Reserved' \in Nat /\ bytes \in Nat
      /\ Reserved = bytes + Reserved'
  BY <1>1, OwnerLeaves DEF Exact
<1>5. /\ InExact \in Nat /\ InShared \in Nat /\ used \in Nat /\ pixels \in Nat
      /\ used = pixels + Reserved + InExact + InShared
  BY SumsType DEF Exact, Typed, TypeOK
<1>6. /\ used' = used - (bytes - retained) + n /\ pixels' = pixels
      /\ KeyBytes[key] \in Nat
  BY <1>1, SizesAssumption DEF Publish, Refund, SizesAssumption
<1>7. CASE IsShared(t, svg)
  <2>1. rasters' = [rasters EXCEPT ![key] = source] /\ exact' = exact /\ retained = KeyBytes[key]
    BY <1>7 DEF Publish, RetainedKeyBytes
  <2>2. key \notin RasterEntries /\ RasterEntries' = RasterEntries \cup {key}
    BY <1>1, <1>2, <1>3, <2>1 DEF RasterEntries, Typed, TypeOK
  <2> DEFINE w == RasterBytes(rasters)
             v == RasterBytes(rasters')
  <2>3. \A k \in RasterEntries : v[k] = w[k]
    BY <2>1, <2>2 DEF RasterBytes, RasterEntries, Typed, TypeOK
  <2>4. v[key] = KeyBytes[key] + n
    BY <1>1, <2>1 DEF RasterBytes, Typed, TypeOK
  <2>5. Weights(v, RasterEntries \cup {key}) /\ IsFiniteSet(RasterEntries)
    BY <1>2, <1>4, <1>6, <2>3, <2>4, SumsType DEF Weights, Typed, FiniteState, Exact
  <2> HIDE DEF v, w
  <2>6. SumFunctionOnSet(v, RasterEntries \cup {key})
          = v[key] + SumFunctionOnSet(v, RasterEntries)
    BY <2>2, <2>5, SumAdd
  <2>7. SumFunctionOnSet(v, RasterEntries) = SumFunctionOnSet(w, RasterEntries)
    BY <2>3, <2>5, SumSame
  <2>8. InShared' = KeyBytes[key] + n + InShared
    BY <2>2, <2>4, <2>6, <2>7 DEF InShared, v, w
  <2>9. InExact' = InExact
    BY <2>1 DEF InExact, ExactEntries
  <2> HIDE DEF retained, bytes
  <2> QED
    BY <1>2, <1>4, <1>5, <1>6, <2>1, <2>8, <2>9 DEF Exact
<1>8. CASE ~IsShared(t, svg)
  <2>1. exact' = [exact EXCEPT ![url[t]] = source] /\ rasters' = rasters /\ retained = bytes
    BY <1>8 DEF Publish, RetainedKeyBytes
  <2> DEFINE u == url[t]
  <2>2. u \notin ExactEntries /\ ExactEntries' = ExactEntries \cup {u}
    BY <1>1, <1>2, <1>3, <2>1 DEF ExactEntries, Typed, TypeOK
  <2> DEFINE w == EntryBytes(exact)
             v == EntryBytes(exact')
  <2>3. \A x \in ExactEntries : v[x] = w[x]
    BY <2>1, <2>2 DEF EntryBytes, ExactEntries, Typed, TypeOK
  <2>4. v[u] = bytes + n
    BY <1>1, <2>1 DEF EntryBytes, Typed, TypeOK
  <2>5. Weights(v, ExactEntries \cup {u}) /\ IsFiniteSet(ExactEntries)
    BY <1>2, <1>4, <2>3, <2>4, SumsType DEF Weights, Typed, FiniteState, Exact
  <2> HIDE DEF v, w, u
  <2>6. SumFunctionOnSet(v, ExactEntries \cup {u}) = v[u] + SumFunctionOnSet(v, ExactEntries)
    BY <2>2, <2>5, SumAdd
  <2>7. SumFunctionOnSet(v, ExactEntries) = SumFunctionOnSet(w, ExactEntries)
    BY <2>3, <2>5, SumSame
  <2>8. InExact' = bytes + n + InExact
    BY <2>2, <2>4, <2>6, <2>7 DEF InExact, v, w
  <2>9. InShared' = InShared
    BY <2>1 DEF InShared, RasterEntries
  <2> HIDE DEF retained, bytes
  <2> QED
    BY <1>2, <1>4, <1>5, <1>6, <2>1, <2>8, <2>9 DEF Exact
<1> QED
  BY <1>7, <1>8

LEMMA ExactDrop ==
  ASSUME Typed, FlightInv, Exact, NEW t \in Threads, DropPending(t)
  PROVE  Exact'
<1> DEFINE bytes == UrlBytes[url[t]]
<1>1. t \in Owners /\ Owners' = Owners \ {t} /\ url' = url
  BY DEF DropPending, Goto, Owners, Typed, TypeOK
<1>2. PendingKey[url[t]] \in loading
  BY <1>1 DEF FlightInv, SingleFlight
<1>3. used' = Monus(used, bytes) /\ pixels' = pixels
  BY <1>2 DEF DropPending
<1>4. /\ IsFiniteSet(Owners') /\ Reserved' \in Nat /\ bytes \in Nat
      /\ Reserved = bytes + Reserved'
  BY <1>1, OwnerLeaves DEF Exact
<1>5. /\ InExact \in Nat /\ InShared \in Nat /\ used \in Nat /\ pixels \in Nat
      /\ used = pixels + Reserved + InExact + InShared
  BY SumsType DEF Exact, Typed, TypeOK
<1>6. InExact' = InExact /\ InShared' = InShared
  BY DEF DropPending, InExact, InShared, ExactEntries, RasterEntries
<1> HIDE DEF bytes
<1>7. used >= bytes /\ used - bytes = pixels + Reserved' + InExact + InShared
  <2> DEFINE left == Reserved'
             kept == InExact
             shared == InShared
  <2>1. left \in Nat /\ kept \in Nat /\ shared \in Nat /\ bytes \in Nat /\ pixels \in Nat
    BY <1>4, <1>5
  <2>2. used = pixels + (bytes + left) + kept + shared
    BY <1>4, <1>5
  <2> HIDE DEF left, kept, shared
  <2>3. used >= bytes /\ used - bytes = pixels + left + kept + shared
    BY <2>1, <2>2
  <2> QED
    BY <2>3 DEF left, kept, shared
<1>8. used' = used - bytes
  BY <1>3, <1>7 DEF Monus
<1> QED
  BY <1>3, <1>4, <1>6, <1>7, <1>8 DEF Exact

LEMMA ExactStep ==
  ASSUME Typed, FlightInv, Exact, [Next]_vars
  PROVE  Exact'
<1> USE DEF Goto, Return
<1>1. ASSUME NEW t \in Threads, NEW u \in Urls, Call(t, u)
      PROVE  Exact'
  <2>1. Owners' = Owners /\ t \notin Owners
    BY <1>1 DEF Call, Owners, Typed, TypeOK
  <2> QED
    BY <1>1, <2>1, OtherSteps, ExactUnchanged DEF Call, Typed, TypeOK, Owners
<1>2. ASSUME NEW t \in Threads,
             \/ CachedSource(t) \/ AdmitReturns(t) \/ AdmitWaits(t)
             \/ WakeSpuriously(t) \/ FetchFails(t)
             \/ \E r \in Responses : FetchSucceeds(t, r)
             \/ LockBudget(t) \/ BuildFails(t) \/ NotifyAll(t)
      PROVE  Exact'
  <2>1. UNCHANGED <<url, cacheVars, used, pixels>>
    BY <1>2, OtherSteps
       DEF CachedSource, AdmitReturns, AdmitWaits, WakeSpuriously, FetchFails,
           FetchSucceeds, LockBudget, BuildFails, NotifyAll
  <2>2. Owners' = Owners
    BY <1>2 DEF CachedSource, AdmitReturns, AdmitWaits, WakeSpuriously, FetchFails,
                FetchSucceeds, LockBudget, BuildFails, NotifyAll, Owners, Typed, TypeOK
  <2> QED
    BY <2>1, <2>2, ExactUnchanged
<1>3. ASSUME NEW n \in {0} \cup Decoded, RetainPixels(n)
      PROVE  Exact'
  <2>1. n \in Nat /\ used' = used - pixels + n /\ pixels' = n /\ UNCHANGED <<pc, url, cacheVars>>
    BY <1>3, SizesAssumption DEF RetainPixels, SizesAssumption, threadVars
  <2>2. Owners' = Owners /\ Reserved' = Reserved /\ InExact' = InExact /\ InShared' = InShared
    BY <2>1 DEF Owners, Reserved, InExact, InShared, ExactEntries, RasterEntries, cacheVars
  <2>3. used \in Nat /\ pixels \in Nat
    BY DEF Typed, TypeOK
  <2> QED
    BY <2>1, <2>2, <2>3, SumsType DEF Exact
<1>4. CASE RasterizePanics \/ UNCHANGED vars
  <2>1. Owners' = Owners /\ UNCHANGED <<url, cacheVars, used, pixels>>
    BY <1>4 DEF RasterizePanics, vars, threadVars, Owners
  <2> QED
    BY <2>1, ExactUnchanged
<1> QED
  BY <1>1, <1>2, <1>3, <1>4, ExactAdmit, ExactPublish, ExactDrop DEF Next, Step

\* The sums of BudgetExact, which folds over the same sets.
LEMMA ReservedIsSum ==
  ASSUME IsFiniteSet(Owners)
  PROVE  MapThenSumSet(LAMBDA t : UrlBytes[url[t]], Owners) = Reserved
<1> DEFINE w == OwnerBytes(url)
           Body(it, s) == IF s = {} THEN 0
                          ELSE UrlBytes[url[Pick(s)]] + it[s \ {Pick(s)}]
           Fold(it) == it = [s \in SUBSET Owners |-> Body(it, s)]
           F == CHOOSE it : Fold(it)
<1>1. ASSUME NEW it
      PROVE  Fold(it) <=> SumsOf(w, Owners, it)
  <2>1. \A s \in SUBSET Owners : s # {} => w[Pick(s)] = UrlBytes[url[Pick(s)]]
    BY PickIn DEF OwnerBytes, Owners
  <2> HIDE DEF w
  <2>2. [s \in SUBSET Owners |-> Body(it, s)]
        = [s \in SUBSET Owners |-> IF s = {} THEN 0 ELSE w[Pick(s)] + it[s \ {Pick(s)}]]
    BY <2>1
  <2> HIDE DEF Body
  <2> QED
    BY <2>2 DEF SumsOf
<1>2. SumsOf(w, Owners, F)
  <2> HIDE DEF Fold
  <2>1. Fold(Sums(w, Owners))
    BY <1>1, SumsAreSums
  <2>2. Fold(F)
    BY <2>1
  <2> QED
    BY <1>1, <2>2
<1>3. MapThenSumSet(LAMBDA t : UrlBytes[url[t]], Owners) = F[Owners]
  BY Zenon DEF MapThenSumSet, MapThenFoldSet, Pick
<1> HIDE DEF F, w
<1>4. F[Owners] = SumFunctionOnSet(w, Owners)
  BY <1>2, FoldIsSum
<1> QED
  BY <1>3, <1>4 DEF w, Reserved

LEMMA InExactIsSum ==
  ASSUME IsFiniteSet(ExactEntries)
  PROVE  MapThenSumSet(LAMBDA u : UrlBytes[u] + exact[u].bytes, ExactEntries) = InExact
<1> DEFINE S == ExactEntries
           w == EntryBytes(exact)
           Body(it, s) == IF s = {} THEN 0
                          ELSE (UrlBytes[Pick(s)] + exact[Pick(s)].bytes) + it[s \ {Pick(s)}]
           Fold(it) == it = [s \in SUBSET S |-> Body(it, s)]
           F == CHOOSE it : Fold(it)
<1>1. ASSUME NEW it
      PROVE  Fold(it) <=> SumsOf(w, S, it)
  <2>1. \A s \in SUBSET S : s # {} => w[Pick(s)] = UrlBytes[Pick(s)] + exact[Pick(s)].bytes
    BY PickIn DEF EntryBytes, ExactEntries
  <2> HIDE DEF w
  <2>2. [s \in SUBSET S |-> Body(it, s)]
        = [s \in SUBSET S |-> IF s = {} THEN 0 ELSE w[Pick(s)] + it[s \ {Pick(s)}]]
    BY <2>1
  <2> HIDE DEF Body
  <2> QED
    BY <2>2 DEF SumsOf
<1>2. SumsOf(w, S, F)
  <2> HIDE DEF Fold
  <2>1. Fold(Sums(w, S))
    BY <1>1, SumsAreSums
  <2>2. Fold(F)
    BY <2>1
  <2> QED
    BY <1>1, <2>2
<1>3. MapThenSumSet(LAMBDA u : UrlBytes[u] + exact[u].bytes, ExactEntries) = F[S]
  BY Zenon DEF MapThenSumSet, MapThenFoldSet, Pick
<1> HIDE DEF F, w
<1>4. F[S] = SumFunctionOnSet(w, S)
  BY <1>2, FoldIsSum
<1> QED
  BY <1>3, <1>4 DEF w, InExact

LEMMA InSharedIsSum ==
  ASSUME IsFiniteSet(RasterEntries)
  PROVE  MapThenSumSet(LAMBDA k : KeyBytes[k] + rasters[k].bytes, RasterEntries) = InShared
<1> DEFINE S == RasterEntries
           w == RasterBytes(rasters)
           Body(it, s) == IF s = {} THEN 0
                          ELSE (KeyBytes[Pick(s)] + rasters[Pick(s)].bytes) + it[s \ {Pick(s)}]
           Fold(it) == it = [s \in SUBSET S |-> Body(it, s)]
           F == CHOOSE it : Fold(it)
<1>1. ASSUME NEW it
      PROVE  Fold(it) <=> SumsOf(w, S, it)
  <2>1. \A s \in SUBSET S : s # {} => w[Pick(s)] = KeyBytes[Pick(s)] + rasters[Pick(s)].bytes
    BY PickIn DEF RasterBytes, RasterEntries
  <2> HIDE DEF w
  <2>2. [s \in SUBSET S |-> Body(it, s)]
        = [s \in SUBSET S |-> IF s = {} THEN 0 ELSE w[Pick(s)] + it[s \ {Pick(s)}]]
    BY <2>1
  <2> HIDE DEF Body
  <2> QED
    BY <2>2 DEF SumsOf
<1>2. SumsOf(w, S, F)
  <2> HIDE DEF Fold
  <2>1. Fold(Sums(w, S))
    BY <1>1, SumsAreSums
  <2>2. Fold(F)
    BY <2>1
  <2> QED
    BY <1>1, <2>2
<1>3. MapThenSumSet(LAMBDA k : KeyBytes[k] + rasters[k].bytes, RasterEntries) = F[S]
  BY Zenon DEF MapThenSumSet, MapThenFoldSet, Pick
<1> HIDE DEF F, w
<1>4. F[S] = SumFunctionOnSet(w, S)
  BY <1>2, FoldIsSum
<1> QED
  BY <1>3, <1>4 DEF w, InShared

\* However loads race, fail, panic or share a key: the budget is what the
\* pending keys reserved and what the entries retain, to the byte
\* (PendingSource, load_source_with).
THEOREM BudgetIsExact == Spec => []BudgetExact
<1>1. Init => Exact
  BY ExactInit
<1>2. Typed /\ FlightInv /\ Exact /\ [Next]_vars => Exact'
  BY ExactStep
<1>3. Typed /\ Exact => BudgetExact
  BY ReservedIsSum, InExactIsSum, InSharedIsSum DEF Exact, BudgetExact, Typed, FiniteState
<1> QED
  BY <1>1, <1>2, <1>3, FlightAlways, PTL DEF Spec
=============================================================================
