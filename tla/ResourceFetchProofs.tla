------------------------ MODULE ResourceFetchProofs ------------------------
(***************************************************************************)
(* Proofs that the fetches of ResourceFetch obey policy, carry nothing to  *)
(* another origin, charge what they deliver and load a font once, for      *)
(* every set of threads, URLs, requests and policies; and, below, that the *)
(* expansion of imports makes no fetch that the adapter would not and      *)
(* never expands a sheet inside itself, for every set of sheets, and that  *)
(* what imports add to a document was charged to the expansion budget.  At *)
(* the end, proofs that no raw connect or read of the deadline transport   *)
(* outlives the deadline of its operation, and that no operation times out *)
(* before it.                                                              *)
(***************************************************************************)
EXTENDS StylesheetImports, DeadlineTransport, FiniteSums, TLAPS

vias == {"plain", "adapter", "font"}

\* The parts of the properties that one fetch, of thread t, has to keep.
FetchObeys(f) ==
  /\ f.via # "plain" /\ policy # None =>
       f.current.url \in policy.allowed /\ f.hop <= policy.hops
  /\ f.via = "plain" \/ policy = None => f.hop <= MaxAutoHops

FetchStays(f) ==
  /\ f.current.credentials \/ f.current.body =>
       f.asked = f.current \/ SameOrigin(f.asked.url, f.current.url)
  /\ ~Downgrades(f.asked.url, f.current.url)

Sound(f) == f \in Fetches /\ FetchObeys(f) /\ FetchStays(f)

\* The inductive invariant: every fetch is sound, and the font loader's and
\* the budget's own invariants.
FetchInv == \A t \in Threads : fetch[t] # None => Sound(fetch[t])

Inv == TypeOK /\ FetchInv /\ BudgetCharged /\ FontFetchedOnce

\* The request after a redirect is a request.
LEMMA RedirectedType ==
  ASSUME NEW r \in Requests, NEW to \in Urls, NEW status \in {301, 303, 307}
  PROVE  Redirected(r, to, status) \in Requests
<1>1. BecomesGet(r, status) \in BOOLEAN
  <2>1. CASE status = 301
    BY <2>1 DEF BecomesGet
  <2>2. CASE status = 303
    BY <2>2 DEF BecomesGet
  <2>3. CASE status = 307
    BY <2>3 DEF BecomesGet
  <2> QED BY <2>1, <2>2, <2>3
<1> QED BY <1>1 DEF Redirected, Requests, SameOrigin

\* A redirect that is not refused keeps credentials and a body only on the
\* origin, and never goes from https to http.
LEMMA RedirectKeepsOrigin ==
  ASSUME NEW f \in Fetches, FetchStays(f), NEW to \in Urls, NEW status \in {301, 303, 307},
         f.current.url.scheme \in {"http", "https"},
         ~Refused(f.current, to, status)
  PROVE  FetchStays(Follow(f, to, status))
<1> DEFINE r == f.current
           n == Redirected(r, to, status)
           g == Follow(f, to, status)
<1>1. r \in Requests /\ f.asked \in Requests
  BY DEF Fetches
<1>2. n.url = to
  BY DEF Redirected
<1>3. g.current = n /\ g.asked = f.asked
  BY DEF Follow
<1>4. n.credentials \/ n.body => SameOrigin(r.url, to)
  BY <1>1 DEF Refused, Redirected
<1>5. n.credentials => r.credentials
  BY DEF Redirected
<1>6. n.body => r.body
  BY DEF Redirected
<1>7. n.credentials \/ n.body => SameOrigin(f.asked.url, to)
  <2>1. r.credentials \/ r.body => f.asked = r \/ SameOrigin(f.asked.url, r.url)
    BY DEF FetchStays
  <2>2. ASSUME SameOrigin(f.asked.url, r.url), SameOrigin(r.url, to)
        PROVE  SameOrigin(f.asked.url, to)
    <3> DEFINE a == f.asked.url
               b == r.url
    <3> HIDE DEF a, b
    <3>1. SameOrigin(a, b) /\ SameOrigin(b, to)
      BY <2>2 DEF a, b
    <3>2. SameOrigin(a, to)
      BY <3>1 DEF SameOrigin
    <3> QED BY <3>2 DEF a
  <2> HIDE DEF n
  <2> QED BY <1>4, <1>5, <1>6, <2>1, <2>2
<1>8. ~Downgrades(f.asked.url, to)
  BY DEF Refused, Downgrades, FetchStays
<1>9. n.credentials \/ n.body => f.asked = n \/ SameOrigin(f.asked.url, n.url)
  BY <1>2, <1>7
<1>10. ~Downgrades(f.asked.url, n.url)
  BY <1>2, <1>8
<1> HIDE DEF n, g
<1>11. FetchStays(g)
  BY <1>3, <1>9, <1>10 DEF FetchStays
<1> QED BY <1>11 DEF g

\* A fetch that starts is sound.
LEMMA FetchStarts ==
  ASSUME NEW via \in vias, NEW request \in Requests,
         policy \in Policies \cup {None},
         via # "plain" => ~Denied(request.url)
  PROVE  Sound([via |-> via, asked |-> request, current |-> request, hop |-> 0])
<1> DEFINE f == [via |-> via, asked |-> request, current |-> request, hop |-> 0]
<1>1. f \in Fetches
  BY DEF Fetches, vias
<1>2. FetchObeys(f)
  BY FetchAssumption DEF FetchObeys, Denied
<1>3. FetchStays(f)
  BY DEF FetchStays, Downgrades
<1> QED BY <1>1, <1>2, <1>3 DEF Sound

\* So is one that follows a redirect within the caps.
LEMMA FetchFollows ==
  ASSUME NEW f, Sound(f), policy \in Policies \cup {None},
         NEW to \in Urls, NEW status \in {301, 303, 307},
         f.current.url.scheme \in {"http", "https"}, ~Refused(f.current, to, status),
         f.via = "plain" => f.hop < MaxAutoHops,
         f.via # "plain" => ~TooManyHops(f.hop) /\ ~Denied(to)
  PROVE  Sound(Follow(f, to, status))
<1> DEFINE n == Redirected(f.current, to, status)
           g == Follow(f, to, status)
<1>1. f \in Fetches /\ f.current \in Requests /\ f.hop \in Nat
  BY DEF Sound, Fetches
<1>2. n \in Requests
  BY <1>1, RedirectedType
<1>3. n.url = to
  BY DEF Redirected
<1>4. FetchStays(g)
  <2>1. FetchStays(f)
    BY DEF Sound
  <2> QED BY <1>1, <2>1, RedirectKeepsOrigin
<1>5. g \in Fetches /\ g.via = f.via /\ g.current = n /\ g.hop = f.hop + 1
  BY <1>1, <1>2 DEF Fetches, Follow, n
<1> HIDE DEF n, g
<1>6. FetchObeys(g)
  <2>1. CASE f.via = "plain"
    BY <1>1, <1>5, <2>1, FetchAssumption DEF FetchObeys
  <2>2. CASE f.via # "plain" /\ policy = None
    BY <1>1, <1>5, <2>2, FetchAssumption DEF FetchObeys, TooManyHops
  <2>3. CASE f.via # "plain" /\ policy # None
    <3>1. policy.hops \in Nat /\ f.hop < policy.hops /\ to \in policy.allowed
      BY <1>1, <2>3, FetchAssumption DEF TooManyHops, Denied
    <3> QED BY <1>1, <1>3, <1>5, <2>3, <3>1 DEF FetchObeys
  <2> QED BY <2>1, <2>2, <2>3
<1> QED BY <1>4, <1>5, <1>6 DEF Sound, g
----------------------------------------------------------------------------
(* The invariant. *)

USE DEF vias

LEMMA SoundKept ==
  ASSUME policy' = policy, NEW t \in Threads, Sound(fetch[t]), fetch'[t] = fetch[t]
  PROVE  Sound(fetch[t])'
BY DEF Sound, FetchObeys, FetchStays

\* The end of a call keeps what the loops and the font loader keep.
LEMMA FinishKeeps ==
  ASSUME Inv, policy' = policy, NEW t \in Threads, fetch[t] # None,
         NEW outcome \in Sizes \cup {Failed}, Finish(t, outcome)
  PROVE  /\ fetch' \in [Threads -> Fetches \cup {None}]
         /\ loaded' \in [Urls -> Sizes \cup {None, Failed}]
         /\ holder' \in Threads \cup {None}
         /\ FetchInv' /\ FontFetchedOnce'
<1> USE DEF Inv, TypeOK
<1>1. /\ fetch' = [fetch EXCEPT ![t] = None] /\ fetch[t] \in Fetches
      /\ fetch[t].asked.url \in Urls
  BY DEF Finish, Fetches, Requests
<1>2. \A u \in Threads : fetch'[u] # None => u # t /\ fetch'[u] = fetch[u]
  BY <1>1
<1>3. FetchInv'
  BY <1>2, SoundKept DEF FetchInv
<1>4. /\ loaded' \in [Urls -> Sizes \cup {None, Failed}]
      /\ holder' \in Threads \cup {None}
  BY <1>1 DEF Finish
<1>5. FontFetchedOnce'
  <2> SUFFICES ASSUME NEW u \in Threads, fetch'[u] # None, fetch'[u].via = "font"
               PROVE  holder' = u /\ loaded'[fetch'[u].asked.url] = None
    BY DEF FontFetchedOnce
  <2>1. u # t /\ fetch[u] # None /\ fetch[u].via = "font" /\ fetch'[u] = fetch[u]
    BY <1>2
  <2>2. holder = u /\ loaded[fetch[u].asked.url] = None
    BY <2>1 DEF FontFetchedOnce
  <2>3. fetch[t].via # "font"
    BY <2>1, <2>2 DEF FontFetchedOnce
  <2> QED BY <2>1, <2>2, <2>3 DEF Finish
<1> QED BY <1>1, <1>3, <1>4, <1>5

\* So does the start of one.
LEMMA SendKeeps ==
  ASSUME Inv, policy' = policy, NEW t \in Threads, fetch[t] = None,
         NEW via \in vias, NEW request \in Requests, via # "plain" => ~Denied(request.url),
         Send(t, via, request)
  PROVE  /\ fetch' \in [Threads -> Fetches \cup {None}]
         /\ FetchInv'
         /\ fetch'[t].via = via /\ fetch'[t].asked = request
         /\ \A u \in Threads \ {t} : fetch'[u] = fetch[u]
<1> USE DEF Inv, TypeOK
<1> DEFINE f == [via |-> via, asked |-> request, current |-> request, hop |-> 0]
<1>1. fetch' = [fetch EXCEPT ![t] = f]
  BY DEF Send
<1>2. Sound(f)
  BY FetchStarts
<1>3. f \in Fetches /\ f.via = via /\ f.asked = request
  BY DEF Fetches
<1> HIDE DEF f
<1>4. \A u \in Threads : fetch'[u] # None => Sound(fetch[u])'
  <2> SUFFICES ASSUME NEW u \in Threads, fetch'[u] # None
               PROVE  Sound(fetch[u])'
    OBVIOUS
  <2>1. CASE u = t
    BY <1>1, <1>2, <2>1 DEF Sound, FetchObeys, FetchStays
  <2>2. CASE u # t
    BY <1>1, <2>2, SoundKept DEF FetchInv
  <2> QED BY <2>1, <2>2
<1> QED BY <1>1, <1>3, <1>4 DEF FetchInv

LEMMA InvInit == Init => Inv
BY FetchAssumption DEF Init, Inv, TypeOK, FetchInv, BudgetCharged, FontFetchedOnce

LEMMA StartSteps ==
  ASSUME Inv, NEW t \in Threads, FetchPlainly(t) \/ FetchResource(t) \/ LoadFont(t)
  PROVE  Inv'
<1> USE DEF Inv, TypeOK
<1>1. /\ policy' = policy /\ fetch[t] = None /\ calls' \in 0..MaxCalls
      /\ UNCHANGED <<used, delivered>>
  BY FetchAssumption DEF FetchPlainly, FetchResource, FetchFrom, LoadFont, Begin
<1>2. BudgetCharged'
  BY <1>1 DEF BudgetCharged
<1>3. ASSUME UNCHANGED <<fetch, holder>>, loaded' \in [Urls -> Sizes \cup {None, Failed}],
             \A u \in Threads : fetch[u] # None => fetch[u].via # "font" \/ loaded' = loaded
      PROVE  Inv'
  <2>1. FetchInv'
    BY <1>1, <1>3, SoundKept DEF FetchInv
  <2>2. FontFetchedOnce'
    BY <1>3 DEF FontFetchedOnce
  <2> QED BY <1>1, <1>2, <1>3, <2>1, <2>2
<1>4. ASSUME NEW via \in vias, NEW request \in Requests, via # "plain" => ~Denied(request.url),
             Send(t, via, request), loaded' = loaded,
             \/ via # "font" /\ holder' = holder
             \/ holder = None /\ holder' = t /\ ~FontKnown(request.url)
      PROVE  Inv'
  <2>1. /\ fetch' \in [Threads -> Fetches \cup {None}]
        /\ FetchInv'
        /\ fetch'[t].via = via /\ fetch'[t].asked = request
        /\ \A u \in Threads \ {t} : fetch'[u] = fetch[u]
    BY <1>1, <1>4, SendKeeps
  <2>2. FontFetchedOnce'
    <3> SUFFICES ASSUME NEW u \in Threads, fetch'[u] # None, fetch'[u].via = "font"
                 PROVE  holder' = u /\ loaded'[fetch'[u].asked.url] = None
      BY DEF FontFetchedOnce
    <3>1. CASE u = t
      BY <1>4, <2>1, <3>1 DEF FontKnown
    <3>2. CASE u # t
      <4>1. holder = u /\ loaded[fetch[u].asked.url] = None
        BY <2>1, <3>2 DEF FontFetchedOnce
      <4> QED BY <1>4, <2>1, <3>2, <4>1, FetchAssumption
    <3> QED BY <3>1, <3>2
  <2>3. holder' \in Threads \cup {None}
    BY <1>4
  <2> QED BY <1>1, <1>2, <1>4, <2>1, <2>2, <2>3
<1> HIDE DEF Inv, TypeOK, vias
<1>5. CASE FetchPlainly(t)
  <2>1. PICK request \in Asked : Send(t, "plain", request)
    BY <1>5 DEF FetchPlainly
  <2>2. request \in Requests
    BY FetchAssumption DEF Requests
  <2>3. loaded' = loaded /\ holder' = holder
    BY <1>5 DEF FetchPlainly
  <2>4. "plain" \in vias /\ "plain" # "font"
    BY DEF vias
  <2> QED BY <1>4, <2>1, <2>2, <2>3, <2>4
<1>6. ASSUME NEW url \in Urls
      PROVE  GetRequest(url) \in Requests /\ GetRequest(url).url = url
  BY DEF GetRequest, Requests
<1>7. CASE FetchResource(t)
  <2>1. CASE UNCHANGED fetch
    <3>1. loaded' = loaded /\ UNCHANGED holder
      BY <1>7 DEF FetchResource, FetchFrom
    <3> QED BY <1>3, <2>1, <3>1 DEF Inv, TypeOK
  <2>2. CASE \E url \in Urls : ~Denied(url) /\ Send(t, "adapter", GetRequest(url))
    <3>1. loaded' = loaded /\ holder' = holder
      BY <1>7 DEF FetchResource, FetchFrom
    <3>2. PICK url \in Urls : ~Denied(url) /\ Send(t, "adapter", GetRequest(url))
      BY <2>2
    <3>3. "adapter" \in vias /\ "adapter" # "font"
      BY DEF vias
    <3> QED BY <1>4, <1>6, <3>1, <3>2, <3>3
  <2> QED BY <1>7, <2>1, <2>2 DEF FetchResource, FetchFrom
<1>8. CASE LoadFont(t)
  <2>1. PICK url \in Urls :
          IF FontKnown(url) THEN UNCHANGED <<fetch, loaded, holder>>
          ELSE IF Denied(url)
            THEN loaded' = [loaded EXCEPT ![url] = Failed] /\ UNCHANGED <<fetch, holder>>
            ELSE Send(t, "font", GetRequest(url)) /\ holder' = t /\ UNCHANGED loaded
    BY <1>8 DEF LoadFont
  <2>2. holder = None
    BY <1>8 DEF LoadFont
  <2>3. CASE FontKnown(url)
    BY <1>3, <2>1, <2>3 DEF Inv, TypeOK
  <2>4. CASE ~FontKnown(url) /\ Denied(url)
    <3>1. \A u \in Threads : fetch[u] # None => fetch[u].via # "font"
      BY <2>2, FetchAssumption DEF FontFetchedOnce, Inv
    <3>2. loaded' \in [Urls -> Sizes \cup {None, Failed}]
      BY <2>1, <2>4 DEF Inv, TypeOK
    <3> QED BY <1>3, <2>1, <2>4, <3>1, <3>2
  <2>5. CASE ~FontKnown(url) /\ ~Denied(url)
    <3>1. "font" \in vias
      BY DEF vias
    <3> QED BY <1>4, <1>6, <2>1, <2>2, <2>5, <3>1
  <2> QED BY <2>3, <2>4, <2>5
<1> QED BY <1>5, <1>7, <1>8

\* A body, whatever its size and type, is charged if it is delivered.
LEMMA BodyStep ==
  ASSUME Inv, NEW t \in Threads, ReceiveBody(t)
  PROVE  Inv'
<1>1. PICK bytes \in Sizes, typed \in BOOLEAN :
        LET checked == bytes <= ByteLimit /\ (typed \/ policy = None)
            fits    == checked /\ used + bytes <= Limit
        IN  IF fetch[t].via = "plain" THEN Finish(t, bytes) /\ UNCHANGED <<used, delivered>>
            ELSE /\ used' = IF checked THEN Charged(bytes) ELSE used
                 /\ delivered' = IF fits THEN delivered + bytes ELSE delivered
                 /\ Finish(t, IF fits THEN bytes ELSE Failed)
  BY DEF ReceiveBody
<1>2. policy' = policy /\ calls' = calls /\ fetch[t] # None
  BY DEF ReceiveBody
<1>3. \E outcome \in Sizes \cup {Failed} : Finish(t, outcome)
  BY <1>1
<1>4. /\ used \in Nat /\ delivered \in Nat /\ used = delivered /\ used <= Limit
      /\ bytes \in Nat /\ Limit \in Nat
  BY FetchAssumption DEF Inv, TypeOK, BudgetCharged
<1>5. used' \in 0..Limit /\ delivered' \in Nat /\ BudgetCharged'
  <2>1. CASE fetch[t].via = "plain"
    BY <1>1, <1>4, <2>1 DEF BudgetCharged
  <2>2. CASE fetch[t].via # "plain"
    BY <1>1, <1>4, <2>2 DEF BudgetCharged, Charged
  <2> QED BY <2>1, <2>2
<1>6. /\ fetch' \in [Threads -> Fetches \cup {None}]
      /\ loaded' \in [Urls -> Sizes \cup {None, Failed}]
      /\ holder' \in Threads \cup {None}
      /\ FetchInv' /\ FontFetchedOnce'
  BY <1>2, <1>3, FinishKeeps
<1> QED BY <1>2, <1>5, <1>6 DEF Inv, TypeOK

LEMMA FailStep ==
  ASSUME Inv, NEW t \in Threads, fetch[t] # None, Finish(t, Failed),
         UNCHANGED <<policy, used, delivered, calls>>
  PROVE  Inv'
<1>1. /\ fetch' \in [Threads -> Fetches \cup {None}]
      /\ loaded' \in [Urls -> Sizes \cup {None, Failed}]
      /\ holder' \in Threads \cup {None}
      /\ FetchInv' /\ FontFetchedOnce'
  BY FinishKeeps
<1> QED BY <1>1 DEF Inv, TypeOK, BudgetCharged

\* A redirect is followed, and the fetch stays sound, or ends the call.
LEMMA RedirectStep ==
  ASSUME Inv, NEW t \in Threads, ReceiveRedirect(t)
  PROVE  Inv'
<1>1. PICK to \in Urls, status \in {301, 303, 307}, allowed \in BOOLEAN :
        LET f       == fetch[t]
            checked == f.via # "plain"
            stops   == IF checked
                       THEN TooManyHops(f.hop) \/ Denied(to) \/ (policy # None /\ ~allowed)
                       ELSE f.hop >= MaxAutoHops
        IN  /\ f.current.url.scheme \in {"http", "https"}
            /\ IF Refused(f.current, to, status) \/ stops THEN Finish(t, Failed)
               ELSE /\ fetch' = [fetch EXCEPT ![t] = Follow(f, to, status)]
                    /\ UNCHANGED <<loaded, holder>>
  BY DEF ReceiveRedirect
<1>2. fetch[t] # None /\ UNCHANGED <<policy, used, delivered, calls>>
  BY DEF ReceiveRedirect
<1>3. CASE Finish(t, Failed)
  BY <1>2, <1>3, FailStep
<1>4. CASE ~Finish(t, Failed)
  <2> DEFINE f == fetch[t]
             g == Follow(f, to, status)
  <2>1. /\ fetch' = [fetch EXCEPT ![t] = g]
        /\ loaded' = loaded /\ holder' = holder
        /\ ~Refused(f.current, to, status) /\ f.current.url.scheme \in {"http", "https"}
        /\ f.via = "plain" => ~(f.hop >= MaxAutoHops)
        /\ f.via # "plain" => ~TooManyHops(f.hop) /\ ~Denied(to)
    BY <1>1, <1>4
  <2>2. Sound(f) /\ f.hop \in Nat /\ policy \in Policies \cup {None}
    BY <1>2 DEF Inv, TypeOK, FetchInv, Sound, Fetches
  <2>3. f.via = "plain" => f.hop < MaxAutoHops
    BY <2>1, <2>2, FetchAssumption
  <2>4. Sound(g)
    BY <2>1, <2>2, <2>3, FetchFollows
  <2>5. g.via = f.via /\ g.asked = f.asked
    BY DEF Follow
  <2> HIDE DEF f, g
  <2>6. fetch \in [Threads -> Fetches \cup {None}] /\ policy' = policy
    BY <1>2 DEF Inv, TypeOK
  <2>7. fetch' \in [Threads -> Fetches \cup {None}]
    BY <2>1, <2>4, <2>6 DEF Sound
  <2>8. FetchInv'
    <3> SUFFICES ASSUME NEW u \in Threads, fetch'[u] # None
                 PROVE  Sound(fetch[u])'
      BY DEF FetchInv
    <3>1. CASE u = t
      BY <2>1, <2>4, <2>6, <3>1 DEF Sound, FetchObeys, FetchStays
    <3>2. CASE u # t
      BY <2>1, <2>6, <3>2, SoundKept DEF FetchInv, Inv
    <3> QED BY <3>1, <3>2
  <2>9. FontFetchedOnce'
    BY <1>2, <2>1, <2>5, <2>6 DEF FontFetchedOnce, Inv, f
  <2> QED BY <1>2, <2>1, <2>7, <2>8, <2>9 DEF Inv, TypeOK, BudgetCharged
<1> QED BY <1>3, <1>4

LEMMA PanicStep ==
  ASSUME Inv, NEW t \in Threads, ProviderPanics(t)
  PROVE  Inv'
<1>1. /\ fetch \in [Threads -> Fetches \cup {None}] /\ fetch[t] # None
      /\ fetch' = [fetch EXCEPT ![t] = None]
      /\ holder' = IF fetch[t].via = "font" THEN None ELSE holder
      /\ UNCHANGED <<policy, used, loaded, delivered, calls>>
  BY DEF Inv, TypeOK, ProviderPanics
<1>2. \A u \in Threads : fetch'[u] # None => u # t /\ fetch'[u] = fetch[u]
  BY <1>1
<1>3. FetchInv'
  BY <1>1, <1>2, SoundKept DEF FetchInv, Inv
<1>4. FontFetchedOnce'
  BY <1>1, <1>2 DEF FontFetchedOnce, Inv
<1>5. fetch' \in [Threads -> Fetches \cup {None}]
  BY <1>1
<1> QED BY <1>1, <1>3, <1>4, <1>5 DEF Inv, TypeOK, BudgetCharged

LEMMA InvNext == Inv /\ [Next]_vars => Inv'
<1> SUFFICES ASSUME Inv, [Next]_vars PROVE Inv'
  OBVIOUS
<1>1. CASE Next
  <2>1. PICK t \in Threads :
          \/ FetchPlainly(t) \/ FetchResource(t) \/ LoadFont(t)
          \/ ReceiveBody(t) \/ ReceiveRedirect(t) \/ ProviderFails(t) \/ ProviderPanics(t)
    BY <1>1 DEF Next, Step
  <2>2. CASE FetchPlainly(t) \/ FetchResource(t) \/ LoadFont(t)
    BY <2>2, StartSteps
  <2>3. CASE ReceiveBody(t)
    BY <2>3, BodyStep
  <2>4. CASE ReceiveRedirect(t)
    BY <2>4, RedirectStep
  <2>5. CASE ProviderFails(t)
    BY <2>5, FailStep DEF ProviderFails
  <2>6. CASE ProviderPanics(t)
    BY <2>6, PanicStep
  <2> QED BY <2>1, <2>2, <2>3, <2>4, <2>5, <2>6
<1>2. CASE UNCHANGED vars
  BY <1>2, SoundKept DEF vars, Inv, TypeOK, FetchInv, BudgetCharged, FontFetchedOnce
<1> QED BY <1>1, <1>2

LEMMA Invariance == Spec => []Inv
BY InvInit, InvNext, PTL DEF Spec

----------------------------------------------------------------------------
(* The properties of ResourceFetch. *)

\* Every variable of a fetch keeps its type.
THEOREM FetchTypes == Spec => []TypeOK
<1>1. Inv => TypeOK
  BY DEF Inv
<1> QED BY <1>1, Invariance, PTL

\* No request of the adapter's goes where the policy denies, or past a cap on
\* redirects (check_url_policy, check_redirect).
THEOREM PolicyIsObeyed == Spec => []PolicyObeyed
<1>1. Inv => PolicyObeyed
  BY DEF Inv, FetchInv, Sound, FetchObeys, PolicyObeyed
<1> QED BY <1>1, Invariance, PTL

\* Credentials and bodies stay with the origin asked, and https stays https,
\* along any chain of redirects (Request::redirected).
THEOREM OriginIsKept == Spec => []StaysWithOrigin
<1>1. Inv => StaysWithOrigin
  BY DEF Inv, FetchInv, Sound, FetchStays, StaysWithOrigin
<1> QED BY <1>1, Invariance, PTL

\* The aggregate budget is what was delivered (charge_aggregate_budget).
THEOREM BudgetIsCharged == Spec => []BudgetCharged
<1>1. Inv => BudgetCharged
  BY DEF Inv
<1> QED BY <1>1, Invariance, PTL

\* No font is fetched twice (NetworkFontFaceLoader::load).
THEOREM FontsFetchedOnce == Spec => []FontFetchedOnce
<1>1. Inv => FontFetchedOnce
  BY DEF Inv
<1> QED BY <1>1, Invariance, PTL

----------------------------------------------------------------------------
(* The expansion of imports. *)

\* While an import is on the wire, it is the next item of the innermost sheet,
\* and its URL is not on the chain.
Waits ==
  frames # <<>> /\ fetch[Parser] # None =>
    Top.left # <<>> /\ Head(Top.left).url \in Urls \ Chain

\* A sheet that contains another has its import left to replace.
OuterWaits == \A i \in 2..Len(frames) : frames[i].left # <<>>

\* The inductive invariant: that of the fetches, and what the stack keeps.
ImportInv == Inv /\ ImportsTypeOK /\ Waits /\ OuterWaits /\ NoSheetInsideItself

----------------------------------------------------------------------------
(* The stack of frames. *)

LEMMA TopReplaced ==
  ASSUME NEW S, NEW s \in Seq(S), s # <<>>, NEW x \in S
  PROVE  LET r == <<x>> \o Tail(s)
         IN  /\ r \in Seq(S) /\ Len(r) = Len(s) /\ r[1] = x
             /\ \A i \in 2..Len(s) : r[i] = s[i]
OBVIOUS

LEMMA Pushed ==
  ASSUME NEW S, NEW s \in Seq(S), NEW x \in S
  PROVE  LET r == <<x>> \o s
         IN  /\ r \in Seq(S) /\ Len(r) = Len(s) + 1 /\ r[1] = x
             /\ \A i \in 2..Len(r) : r[i] = s[i - 1]
OBVIOUS

LEMMA Popped ==
  ASSUME NEW S, NEW s \in Seq(S), Len(s) > 1, NEW x \in S
  PROVE  LET r == <<x>> \o Tail(Tail(s))
         IN  /\ r \in Seq(S) /\ Len(r) = Len(s) - 1 /\ r[1] = x
             /\ \A i \in 2..Len(r) : r[i] = s[i + 1]
<1>1. /\ Tail(s) \in Seq(S) /\ Len(Tail(s)) = Len(s) - 1
      /\ \A i \in 1..Len(s) - 1 : Tail(s)[i] = s[i + 1]
  OBVIOUS
<1>2. Tail(s) # <<>>
  <2>1. Len(Tail(s)) # 0 /\ Len(<<>>) = 0
    BY <1>1
  <2> QED BY <2>1
<1> DEFINE u == Tail(s)
           r == <<x>> \o Tail(Tail(s))
           n == Len(s)
<1>3. /\ r \in Seq(S) /\ Len(r) = Len(u) /\ r[1] = x
      /\ \A i \in 2..Len(u) : r[i] = u[i]
  BY <1>1, <1>2, TopReplaced
<1>4. n \in Nat /\ n > 1 /\ Len(u) = n - 1 /\ \A i \in 1..n - 1 : u[i] = s[i + 1]
  BY <1>1
<1> HIDE DEF u, r, n
<1>5. ASSUME NEW i \in 2..Len(r)
      PROVE  r[i] = s[i + 1]
  <2>1. i \in 2..Len(u) /\ i \in 1..n - 1
    BY <1>3, <1>4
  <2> QED BY <1>3, <1>4, <2>1
<1>6. Len(r) = Len(s) - 1
  BY <1>3, <1>4 DEF n
<1> QED BY <1>3, <1>5, <1>6 DEF r

\* A step that keeps the URLs of the frames keeps their order apart.
LEMMA SameNames ==
  ASSUME frames \in Seq(Frames), frames' \in Seq(Frames), NoSheetInsideItself,
         Len(frames') = Len(frames),
         \A i \in 1..Len(frames) : /\ frames'[i].asked = frames[i].asked
                                   /\ frames'[i].url = frames[i].url
  PROVE  NoSheetInsideItself'
BY DEF NoSheetInsideItself

\* So does one that drops the innermost.
LEMMA FewerNames ==
  ASSUME frames \in Seq(Frames), frames' \in Seq(Frames), NoSheetInsideItself,
         Len(frames) > 1, Len(frames') = Len(frames) - 1,
         \A i \in 1..Len(frames') : /\ frames'[i].asked = frames[i + 1].asked
                                    /\ frames'[i].url = frames[i + 1].url
  PROVE  NoSheetInsideItself'
<1> SUFFICES ASSUME NEW i \in 1..Len(frames'), NEW j \in 1..Len(frames'), i < j
             PROVE  {frames'[i].asked, frames'[i].url}
                      \cap {frames'[j].asked, frames'[j].url} = {}
  BY DEF NoSheetInsideItself
<1>1. i + 1 \in DOMAIN frames /\ j + 1 \in DOMAIN frames /\ i + 1 < j + 1
  OBVIOUS
<1>2. {frames[i + 1].asked, frames[i + 1].url}
        \cap {frames[j + 1].asked, frames[j + 1].url} = {}
  BY <1>1 DEF NoSheetInsideItself
<1> QED BY <1>2

\* A sheet opens with a frame of its own.
LEMMA OpenedTyped ==
  ASSUME policy \in Policies \cup {None},
         NEW asked \in Urls \cup {None}, NEW url \in Urls \cup {None},
         NEW items \in Contents, NEW depth \in Nat
  PROVE  /\ Opened(asked, url, items, depth) \in Frames
         /\ Opened(asked, url, items, depth).asked = asked
         /\ Opened(asked, url, items, depth).url = url
<1>1. ImportDepth[policy] \in Nat /\ items \in Seq(Items) /\ Len(items) \in Nat
  BY ImportAssumption
<1>2. (depth >= ImportDepth[policy]) \in BOOLEAN
  BY <1>1
<1>3. /\ (IF depth >= ImportDepth[policy] THEN <<>> ELSE items) \in Seq(Items)
      /\ (IF depth >= ImportDepth[policy] THEN Len(items) ELSE 0) \in Nat
  BY <1>1
<1> QED BY <1>2, <1>3 DEF Opened, Frames

\* Copying an item changes no URL of the stack.
LEMMA KeptTyped ==
  ASSUME NEW frame \in Frames, frame.left # <<>>
  PROVE  /\ KeptIn(frame) \in Frames
         /\ KeptIn(frame).asked = frame.asked /\ KeptIn(frame).url = frame.url
<1>1. Tail(frame.left) \in Seq(Items) /\ frame.bytes + 1 \in Nat
  BY DEF Frames
<1> QED BY <1>1 DEF KeptIn, Frames

LEMMA KeptKeeps ==
  ASSUME frames \in Seq(Frames), NoSheetInsideItself, frames # <<>>, Top.left # <<>>,
         frames' = Kept
  PROVE  /\ frames' \in Seq(Frames) /\ frames' # <<>>
         /\ NoSheetInsideItself' /\ (OuterWaits => OuterWaits')
<1>1. Top \in Frames /\ Top = frames[1]
  BY DEF Top
<1> DEFINE top == KeptIn(Top)
<1>2. top \in Frames /\ top.asked = Top.asked /\ top.url = Top.url
  BY <1>1, KeptTyped
<1> HIDE DEF top
<1>3. frames' = <<top>> \o Tail(frames)
  BY DEF Kept, Outer, top
<1>4. /\ frames' \in Seq(Frames) /\ Len(frames') = Len(frames) /\ frames'[1] = top
      /\ \A i \in 2..Len(frames) : frames'[i] = frames[i]
  BY <1>2, <1>3, TopReplaced
<1>5. \A i \in 1..Len(frames) : /\ frames'[i].asked = frames[i].asked
                                /\ frames'[i].url = frames[i].url
  BY <1>1, <1>2, <1>4
<1>6. OuterWaits => OuterWaits'
  BY <1>4 DEF OuterWaits
<1>7. frames' # <<>>
  BY <1>4
<1> QED BY <1>4, <1>5, <1>6, <1>7, SameNames

\* The bytes a child adds are a number, and splicing keeps the parent's URLs.
LEMMA SpliceTyped ==
  ASSUME NEW frame \in Frames, frame.left # <<>>, NEW child \in Frames
  PROVE  /\ SpliceInto(frame, child) \in Frames
         /\ SpliceInto(frame, child).asked = frame.asked
         /\ SpliceInto(frame, child).url = frame.url
         /\ Cost(frame, child) \in Nat
<1>1. PartsOf(frame) \in Nat /\ PartsOf(child) \in Nat
  BY DEF PartsOf, Frames
<1>2. Head(frame.left).media \in Nat /\ Tail(frame.left) \in Seq(Items)
  <2>1. frame.left \in Seq(Items)
    BY DEF Frames
  <2>2. Head(frame.left) \in Items
    BY <2>1
  <2> QED BY <2>1, <2>2 DEF Items
<1>3. Head(frame.left).media * PartsOf(child) \in Nat
  BY <1>1, <1>2
<1> DEFINE added == child.bytes + Head(frame.left).media * PartsOf(child)
<1>4. added \in Nat
  <2>1. child.bytes \in Nat
    BY DEF Frames
  <2> QED BY <1>3, <2>1
<1> HIDE DEF added
<1>5. SpliceInto(frame, child) =
        [frame EXCEPT !.left = Tail(@), !.bytes = @ + added, !.introduced = @ + added,
                      !.parts = PartsOf(frame) + PartsOf(child), !.pending = FALSE]
  BY DEF SpliceInto, added
<1>6. frame.bytes + added \in Nat /\ frame.introduced + added \in Nat
      /\ PartsOf(frame) + PartsOf(child) \in Nat
  <2>1. frame.bytes \in Nat /\ frame.introduced \in Nat
    BY DEF Frames
  <2> QED BY <1>1, <1>4, <2>1
<1>7. Cost(frame, child) \in Nat
  BY <1>4 DEF Cost, added
<1> QED BY <1>2, <1>5, <1>6, <1>7 DEF Frames

----------------------------------------------------------------------------
(* The fetches below. *)

LEMMA BodyEnds ==
  ASSUME Inv, NEW t \in Threads, ReceiveBody(t)
  PROVE  fetch'[t] = None /\ delivered \in Nat /\ delivered' \in Nat /\ delivered <= delivered'
<1>1. fetch \in [Threads -> Fetches \cup {None}] /\ delivered \in Nat
  BY DEF Inv, TypeOK
<1>2. PICK bytes \in Sizes, typed \in BOOLEAN :
        LET checked == bytes <= ByteLimit /\ (typed \/ policy = None)
            fits    == checked /\ used + bytes <= Limit
        IN  IF fetch[t].via = "plain" THEN Finish(t, bytes) /\ UNCHANGED <<used, delivered>>
            ELSE /\ used' = IF checked THEN Charged(bytes) ELSE used
                 /\ delivered' = IF fits THEN delivered + bytes ELSE delivered
                 /\ Finish(t, IF fits THEN bytes ELSE Failed)
  BY DEF ReceiveBody
<1>3. fetch'[t] = None
  BY <1>1, <1>2 DEF Finish
<1>4. bytes \in Nat /\ (delivered' = delivered \/ delivered' = delivered + bytes)
  BY <1>2, FetchAssumption
<1> QED BY <1>1, <1>3, <1>4

\* A step of one thread leaves the fetches of the others.
LEMMA OthersKept ==
  ASSUME Inv, NEW t \in Threads, NEW u \in Threads \ {t}, Step(t)
  PROVE  fetch'[u] = fetch[u]
<1>1. fetch \in [Threads -> Fetches \cup {None}]
  BY DEF Inv, TypeOK
<1>2. fetch' = fetch \/ \E f : fetch' = [fetch EXCEPT ![t] = f]
  BY DEF Step, FetchPlainly, FetchResource, FetchFrom, LoadFont, Send, ReceiveBody,
         ReceiveRedirect, ProviderFails, ProviderPanics, Finish
<1> QED BY <1>1, <1>2

\* Every step of the expansion is a step of the fetches, or leaves them.
LEMMA ImportStepFetches ==
  ASSUME ImportsTypeOK, [ImportNext]_allVars
  PROVE  [Next]_vars
<1>1. Parser \in Threads
  BY ImportAssumption
<1>2. CASE RenewBudget \/ ExpandInline \/ CopyItem \/ FinishImport \/ FinishRoot
           \/ UNCHANGED allVars
  BY <1>2 DEF RenewBudget, ExpandInline, CopyItem, FinishImport, FinishRoot, allVars
<1>3. CASE LinkArrives \/ ImportArrives \/ ImportFails
  <2>1. ReceiveBody(Parser) \/ ProviderFails(Parser)
    BY <1>3 DEF LinkArrives, ImportArrives, ImportFails
  <2> QED BY <1>1, <2>1 DEF Next, Step
<1>4. CASE ImportRedirected \/ ImportPanics
  <2>1. ReceiveRedirect(Parser) \/ ProviderPanics(Parser)
    BY <1>4 DEF ImportRedirected, ImportPanics
  <2> QED BY <1>1, <2>1 DEF Next, Step
<1>5. CASE RequestImport
  <2>1. FetchFrom(Parser, Head(Top.left).url)
    BY <1>5 DEF RequestImport
  <2>2. Head(Top.left) \in Items
    <3>1. Top \in Frames
      BY <1>5 DEF RequestImport, ImportsTypeOK, Top
    <3>2. Top.left \in Seq(Items) /\ Top.left # <<>>
      BY <1>5, <3>1 DEF RequestImport, Frames
    <3> QED BY <3>2
  <2>3. Head(Top.left).url \in Urls
    BY <1>5, <2>2 DEF RequestImport, Requestable, Items
  <2>4. FetchResource(Parser)
    BY <2>1, <2>3 DEF FetchResource
  <2> QED BY <1>1, <2>4 DEF Next, Step
<1>6. CASE OtherFetches
  BY <1>6 DEF OtherFetches, Next
<1> QED BY <1>2, <1>3, <1>4, <1>5, <1>6 DEF ImportNext

----------------------------------------------------------------------------
(* The invariant, one lemma for each kind of step. *)

LEMMA ImportInvInit == ImportInit => ImportInv
BY InvInit, ImportAssumption
   DEF ImportInit, ImportInv, ImportsTypeOK, Unspent, Waits, OuterWaits, NoSheetInsideItself

\* With the stack and the thread idle, or empty, there is nothing to keep apart.
LEMMA EmptyStack ==
  ASSUME frames' = <<>>, spent' = spent \/ spent' = Unspent, introduced' \in Nat, ImportInv
  PROVE  ImportsTypeOK' /\ Waits' /\ OuterWaits' /\ NoSheetInsideItself'
BY ImportAssumption
   DEF ImportInv, ImportsTypeOK, Unspent, Waits, OuterWaits, NoSheetInsideItself

\* The sheets a document opens are alone on the stack.
LEMMA RootOpens ==
  ASSUME ImportInv, fetch'[Parser] = None, spent' = spent, introduced' = introduced,
         NEW url \in Urls \cup {None}, NEW items \in Contents,
         frames' = <<Opened(url, url, items, 0)>>
  PROVE  ImportsTypeOK' /\ Waits' /\ OuterWaits' /\ NoSheetInsideItself'
<1>1. policy \in Policies \cup {None}
  BY DEF ImportInv, Inv, TypeOK
<1> DEFINE f == Opened(url, url, items, 0)
<1>2. f \in Frames
  BY <1>1, OpenedTyped
<1> HIDE DEF f
<1>3. frames' = <<f>>
  BY DEF f
<1> QED BY <1>2, <1>3
        DEF ImportInv, ImportsTypeOK, Waits, OuterWaits, NoSheetInsideItself

\* An item is copied, with an import on the wire or none.
LEMMA ItemKept ==
  ASSUME ImportInv, frames # <<>>, Top.left # <<>>, frames' = Kept, fetch'[Parser] = None,
         introduced' = introduced,
         spent' \in [fetches : 0..MaxFetches, responses : 0..ResponseLimit,
                     expansion : 0..ExpansionLimit]
  PROVE  ImportsTypeOK' /\ Waits' /\ OuterWaits' /\ NoSheetInsideItself'
<1>1. frames \in Seq(Frames)
  BY DEF ImportInv, ImportsTypeOK
<1>2. /\ frames' \in Seq(Frames) /\ NoSheetInsideItself' /\ OuterWaits'
  BY <1>1, KeptKeeps DEF ImportInv
<1> QED BY <1>2 DEF ImportInv, ImportsTypeOK, Waits

\* The import on the wire ends with nothing to expand.
LEMMA ImportUnexpanded ==
  ASSUME ImportInv, frames # <<>>, fetch[Parser] # None, frames' = Kept,
         fetch'[Parser] = None, introduced' = introduced,
         spent' \in [fetches : 0..MaxFetches, responses : 0..ResponseLimit,
                     expansion : 0..ExpansionLimit]
  PROVE  ImportsTypeOK' /\ Waits' /\ OuterWaits' /\ NoSheetInsideItself'
<1>1. Top.left # <<>>
  BY DEF ImportInv, Waits
<1> QED BY <1>1, ItemKept

\* The sheet of an import opens with URLs that no sheet around it has.
LEMMA ImportOpens ==
  ASSUME ImportInv, frames # <<>>, fetch[Parser] # None, fetch'[Parser] = None,
         introduced' = introduced,
         spent' \in [fetches : 0..MaxFetches, responses : 0..ResponseLimit,
                     expansion : 0..ExpansionLimit],
         NEW url \in Urls, url \notin Chain, NEW items \in Contents,
         frames' = <<Opened(Head(Top.left).url, url, items, Len(frames))>> \o frames
  PROVE  ImportsTypeOK' /\ Waits' /\ OuterWaits' /\ NoSheetInsideItself'
<1> DEFINE asked == Head(Top.left).url
           f == Opened(asked, url, items, Len(frames))
<1>1. /\ frames \in Seq(Frames) /\ policy \in Policies \cup {None}
      /\ Top.left # <<>> /\ asked \in Urls /\ asked \notin Chain
      /\ Top = frames[1] /\ Len(frames) \in Nat
  BY DEF ImportInv, ImportsTypeOK, Inv, TypeOK, Waits, Top
<1> HIDE DEF asked
<1>2. f \in Frames /\ f.asked = asked /\ f.url = url
  BY <1>1, OpenedTyped
<1> HIDE DEF f
<1>3. frames' = <<f>> \o frames
  BY DEF f, asked
<1>4. /\ frames' \in Seq(Frames) /\ Len(frames') = Len(frames) + 1 /\ frames'[1] = f
      /\ \A i \in 2..Len(frames') : frames'[i] = frames[i - 1]
  BY <1>1, <1>2, <1>3, Pushed
<1>5. OuterWaits'
  <2> SUFFICES ASSUME NEW i \in 2..Len(frames') PROVE frames'[i].left # <<>>
    BY DEF OuterWaits
  <2>1. CASE i = 2
    BY <1>1, <1>4, <2>1
  <2>2. CASE i # 2
    <3>1. i - 1 \in 2..Len(frames)
      BY <1>1, <1>4, <2>2
    <3> QED BY <1>4, <3>1 DEF ImportInv, OuterWaits
  <2> QED BY <2>1, <2>2
<1>6. NoSheetInsideItself'
  <2> SUFFICES ASSUME NEW i \in 1..Len(frames'), NEW j \in 1..Len(frames'), i < j
               PROVE  {frames'[i].asked, frames'[i].url}
                        \cap {frames'[j].asked, frames'[j].url} = {}
    BY <1>4 DEF NoSheetInsideItself
  <2>1. j - 1 \in DOMAIN frames /\ frames'[j] = frames[j - 1]
    BY <1>1, <1>4
  <2>2. CASE i = 1
    <3>1. {frames[j - 1].asked, frames[j - 1].url} \subseteq Chain
      BY <2>1 DEF Chain
    <3> QED BY <1>1, <1>2, <1>4, <2>1, <2>2, <3>1
  <2>3. CASE i # 1
    <3>1. i - 1 \in DOMAIN frames /\ i - 1 < j - 1 /\ frames'[i] = frames[i - 1]
      BY <1>1, <1>4, <2>3
    <3>2. {frames[i - 1].asked, frames[i - 1].url}
            \cap {frames[j - 1].asked, frames[j - 1].url} = {}
      BY <2>1, <3>1 DEF ImportInv, NoSheetInsideItself
    <3> QED BY <2>1, <3>1, <3>2
  <2> QED BY <2>2, <2>3
<1> QED BY <1>4, <1>5, <1>6 DEF ImportInv, ImportsTypeOK, Waits

\* A sheet that is done leaves its parent on top, with its import replaced or
\* copied.
LEMMA ImportFinishes ==
  ASSUME ImportInv, FinishImport
  PROVE  ImportsTypeOK' /\ Waits' /\ OuterWaits' /\ NoSheetInsideItself'
<1> DEFINE parent == frames[2]
           total  == spent.expansion + Cost(parent, Top)
<1>1. /\ frames \in Seq(Frames) /\ Len(frames) > 1 /\ Len(frames) \in Nat
      /\ Top \in Frames /\ parent \in Frames /\ parent.left # <<>>
      /\ Head(Outer) = parent /\ Tail(Outer) = Tail(Tail(frames))
      /\ spent.expansion \in Nat /\ UNCHANGED <<introduced, fetch>> /\ fetch[Parser] = None
  BY DEF ImportInv, ImportsTypeOK, OuterWaits, FinishImport, Top, Outer, vars
<1>2. \E f \in Frames : /\ f.asked = parent.asked /\ f.url = parent.url
                        /\ frames' = <<f>> \o Tail(Tail(frames))
  <2>1. CASE total > ExpansionLimit
    BY <1>1, <2>1, KeptTyped DEF FinishImport
  <2>2. CASE ~(total > ExpansionLimit)
    <3>1. frames' = <<SpliceInto(parent, Top)>> \o Tail(Tail(frames))
      BY <1>1, <2>2 DEF FinishImport
    <3>2. /\ SpliceInto(parent, Top) \in Frames
          /\ SpliceInto(parent, Top).asked = parent.asked
          /\ SpliceInto(parent, Top).url = parent.url
      BY <1>1, SpliceTyped
    <3> HIDE DEF parent, total
    <3> QED BY <3>1, <3>2
  <2> QED BY <2>1, <2>2
<1>3. spent' \in [fetches : 0..MaxFetches, responses : 0..ResponseLimit,
                  expansion : 0..ExpansionLimit]
  <2>1. CASE total > ExpansionLimit
    BY <1>1, <2>1 DEF FinishImport, ImportInv, ImportsTypeOK
  <2>2. CASE ~(total > ExpansionLimit)
    <3>1. Cost(parent, Top) \in Nat
      BY <1>1, SpliceTyped
    <3>2. total \in 0..ExpansionLimit
      BY <1>1, <2>2, <3>1, ImportAssumption
    <3>3. spent' = [spent EXCEPT !.expansion = total]
      BY <1>1, <2>2 DEF FinishImport
    <3> QED BY <3>2, <3>3 DEF ImportInv, ImportsTypeOK
  <2> QED BY <2>1, <2>2
<1> HIDE DEF parent, total
<1>4. PICK f \in Frames : /\ f.asked = parent.asked /\ f.url = parent.url
                         /\ frames' = <<f>> \o Tail(Tail(frames))
  BY <1>2
<1>5. /\ frames' \in Seq(Frames) /\ Len(frames') = Len(frames) - 1 /\ frames'[1] = f
      /\ \A i \in 2..Len(frames') : frames'[i] = frames[i + 1]
  BY <1>1, <1>4, Popped
<1>6. \A i \in 1..Len(frames') : /\ frames'[i].asked = frames[i + 1].asked
                                /\ frames'[i].url = frames[i + 1].url
  <2> SUFFICES ASSUME NEW i \in 1..Len(frames')
               PROVE  frames'[i].asked = frames[i + 1].asked /\ frames'[i].url = frames[i + 1].url
    OBVIOUS
  <2>1. CASE i = 1
    BY <1>4, <1>5, <2>1 DEF parent
  <2>2. CASE i # 1
    <3>1. i \in 2..Len(frames')
      BY <1>1, <1>5, <2>2
    <3> QED BY <1>5, <3>1
  <2> QED BY <2>1, <2>2
<1>7. NoSheetInsideItself'
  BY <1>1, <1>5, <1>6, FewerNames DEF ImportInv
<1>8. OuterWaits'
  BY <1>1, <1>5 DEF ImportInv, OuterWaits
<1> QED BY <1>1, <1>3, <1>5, <1>7, <1>8 DEF ImportInv, ImportsTypeOK, Waits

LEMMA ImportInvNext == ImportInv /\ [ImportNext]_allVars => ImportInv'
<1> SUFFICES ASSUME ImportInv, [ImportNext]_allVars PROVE ImportInv'
  OBVIOUS
<1>1. Inv /\ Parser \in Threads
  BY ImportAssumption DEF ImportInv
<1>2. Inv'
  BY <1>1, ImportStepFetches, InvNext DEF ImportInv
<1>3. fetch \in [Threads -> Fetches \cup {None}] /\ policy \in Policies \cup {None}
  BY <1>1 DEF Inv, TypeOK
<1>4. /\ frames \in Seq(Frames) /\ introduced \in Nat
      /\ spent \in [fetches : 0..MaxFetches, responses : 0..ResponseLimit,
                    expansion : 0..ExpansionLimit]
  BY DEF ImportInv, ImportsTypeOK
<1>5. CASE RenewBudget \/ ImportPanics
  <2>1. frames' = <<>> /\ spent' = Unspent /\ introduced' = 0
    BY <1>5 DEF RenewBudget, ImportPanics
  <2> QED BY <1>2, <2>1, EmptyStack DEF ImportInv
<1>6. CASE ExpandInline
  <2>1. PICK items \in Contents : frames' = <<Opened(None, None, items, 0)>>
    BY <1>6 DEF ExpandInline
  <2>2. fetch'[Parser] = None /\ UNCHANGED <<spent, introduced>>
    BY <1>6 DEF ExpandInline, vars
  <2> QED BY <1>2, <2>1, <2>2, RootOpens DEF ImportInv
<1>7. CASE LinkArrives
  <2>1. PICK items \in Contents :
          frames' = <<Opened(fetch[Parser].current.url, fetch[Parser].current.url, items, 0)>>
    BY <1>7 DEF LinkArrives
  <2>2. fetch'[Parser] = None /\ UNCHANGED <<spent, introduced>>
    BY <1>1, <1>7, BodyEnds DEF LinkArrives
  <2>3. fetch[Parser].current.url \in Urls
    BY <1>1, <1>3, <1>7 DEF LinkArrives, ReceiveBody, Fetches, Requests
  <2> QED BY <1>2, <2>1, <2>2, <2>3, RootOpens DEF ImportInv
<1>8. CASE CopyItem
  <2>1. fetch'[Parser] = None /\ UNCHANGED <<spent, introduced>>
    BY <1>8 DEF CopyItem, vars
  <2> QED BY <1>2, <1>4, <1>8, <2>1, ItemKept DEF CopyItem, ImportInv
<1>9. CASE RequestImport
  <2>1. /\ spent' \in [fetches : 0..MaxFetches, responses : 0..ResponseLimit,
                       expansion : 0..ExpansionLimit]
        /\ frames # <<>> /\ Top.left # <<>> /\ introduced' = introduced
        /\ Requestable(Head(Top.left).url) /\ fetch[Parser] = None
    BY <1>4, <1>9, ImportAssumption DEF RequestImport, Requestable
  <2>2. CASE Denied(Head(Top.left).url)
    <3>1. frames' = Kept /\ fetch'[Parser] = None
      BY <1>9, <2>1, <2>2 DEF RequestImport, FetchFrom
    <3> QED BY <1>2, <2>1, <3>1, ItemKept DEF ImportInv
  <2>3. CASE ~Denied(Head(Top.left).url)
    <3>1. frames' = frames
      BY <1>9, <2>3 DEF RequestImport
    <3>2. Head(Top.left) \in Items
      <4>1. Top \in Frames
        BY <1>4, <2>1 DEF Top
      <4>2. Top.left \in Seq(Items)
        BY <4>1 DEF Frames
      <4> QED BY <2>1, <4>2
    <3>3. Head(Top.left).url \in Urls \ Chain
      BY <2>1, <3>2 DEF Requestable, Items
    <3> QED BY <1>2, <1>4, <2>1, <3>1, <3>3
            DEF ImportInv, ImportsTypeOK, Waits, OuterWaits, NoSheetInsideItself, Top, Chain
  <2> QED BY <2>2, <2>3
<1>10. CASE ImportArrives
  <2> DEFINE total == spent.responses + (delivered' - delivered)
             url   == fetch[Parser].current.url
  <2>1. /\ fetch'[Parser] = None /\ fetch[Parser] # None /\ frames # <<>>
        /\ introduced' = introduced /\ total \in Nat
    BY <1>1, <1>4, <1>10, BodyEnds DEF ImportArrives, ReceiveBody
  <2>2. url \in Urls
    BY <1>1, <1>3, <2>1 DEF Fetches, Requests
  <2>3. spent' \in [fetches : 0..MaxFetches, responses : 0..ResponseLimit,
                    expansion : 0..ExpansionLimit]
    <3>1. spent' = [spent EXCEPT !.responses =
                      IF total > ResponseLimit THEN ResponseLimit ELSE total]
      BY <1>10 DEF ImportArrives
    <3>2. (IF total > ResponseLimit THEN ResponseLimit ELSE total) \in 0..ResponseLimit
      BY <2>1, ImportAssumption
    <3> HIDE DEF total
    <3> QED BY <1>4, <3>1, <3>2
  <2>4. CASE frames' = Kept
    BY <1>2, <2>1, <2>3, <2>4, ImportUnexpanded DEF ImportInv
  <2>5. CASE /\ url \notin Chain
             /\ \E items \in Contents :
                  frames' = <<Opened(Head(Top.left).url, url, items, Len(frames))>> \o frames
    BY <1>2, <2>1, <2>2, <2>3, <2>5, ImportOpens DEF ImportInv
  <2> QED BY <1>10, <2>4, <2>5 DEF ImportArrives
<1>11. CASE ImportRedirected
  <2>1. /\ frames # <<>> /\ fetch[Parser] # None /\ UNCHANGED <<spent, introduced>>
        /\ frames' = IF fetch'[Parser] = None THEN Kept ELSE frames
    BY <1>11 DEF ImportRedirected, ReceiveRedirect
  <2>2. CASE fetch'[Parser] = None
    BY <1>2, <1>4, <2>1, <2>2, ImportUnexpanded DEF ImportInv
  <2>3. CASE fetch'[Parser] # None
    BY <1>2, <2>1, <2>3
       DEF ImportInv, ImportsTypeOK, Waits, OuterWaits, NoSheetInsideItself, Top, Chain
  <2> QED BY <2>2, <2>3
<1>12. CASE ImportFails
  <2>1. fetch'[Parser] = None /\ fetch[Parser] # None
    BY <1>1, <1>3, <1>12, BodyEnds DEF ImportFails, ProviderFails, ReceiveBody, Finish
  <2> QED BY <1>2, <1>4, <1>12, <2>1, ImportUnexpanded DEF ImportFails, ImportInv
<1>13. CASE FinishImport
  BY <1>2, <1>13, ImportFinishes DEF ImportInv
<1>14. CASE FinishRoot
  <2>1. Top \in Frames
    <3>1. Len(frames) = 1
      BY <1>14 DEF FinishRoot
    <3>2. frames # <<>>
      <4>1. Len(<<>>) # 1
        OBVIOUS
      <4> QED BY <3>1, <4>1
    <3> QED BY <1>4, <3>2 DEF Top
  <2>2. introduced' \in Nat
    BY <1>4, <1>14, <2>1 DEF FinishRoot, Frames
  <2> QED BY <1>2, <1>14, <2>2, EmptyStack DEF FinishRoot, ImportInv
<1>15. CASE OtherFetches
  <2>1. UNCHANGED importVars
    BY <1>15 DEF OtherFetches
  <2>2. frames # <<>> => fetch'[Parser] = fetch[Parser]
    BY <1>1, <1>15, OthersKept DEF OtherFetches
  <2> QED BY <1>2, <2>1, <2>2
          DEF ImportInv, ImportsTypeOK, Waits, OuterWaits, NoSheetInsideItself, Top, Chain,
              importVars
<1>16. CASE UNCHANGED allVars
  BY <1>2, <1>16
     DEF ImportInv, ImportsTypeOK, Waits, OuterWaits, NoSheetInsideItself, Top, Chain,
         allVars, importVars, vars
<1> QED BY <1>5, <1>6, <1>7, <1>8, <1>9, <1>10, <1>11, <1>12, <1>13, <1>14, <1>15, <1>16
        DEF ImportNext

LEMMA ImportInvariance == ImportSpec => []ImportInv
BY ImportInvInit, ImportInvNext, PTL DEF ImportSpec

----------------------------------------------------------------------------
(* The properties. *)

\* The expansion of imports is a user of the fetches like any other: what it
\* does to them, ResourceFetch allows (import.rs goes through fetch_one_hop).
THEOREM ImportsAreFetches == ImportSpec => Spec
<1>1. ImportInit => Init
  BY DEF ImportInit
<1>2. ImportInv /\ [ImportNext]_allVars => [Next]_vars
  BY ImportStepFetches DEF ImportInv
<1> QED BY <1>1, <1>2, ImportInvariance, PTL DEF ImportSpec, Spec

\* So what is proved of every fetch holds of imports: policy is obeyed, nothing
\* leaves its origin, and the aggregate budget is what was delivered.
THEOREM ImportsObeyPolicy == ImportSpec => [](PolicyObeyed /\ StaysWithOrigin /\ BudgetCharged)
BY ImportsAreFetches, PolicyIsObeyed, OriginIsKept, BudgetIsCharged, PTL

\* No sheet is expanded inside itself, whatever URLs its imports name and
\* wherever servers redirect them (requested_import_url, fetch_import).
THEOREM NeverInsideItself == ImportSpec => []NoSheetInsideItself
<1>1. ImportInv => NoSheetInsideItself
  BY DEF ImportInv
<1> QED BY <1>1, ImportInvariance, PTL

----------------------------------------------------------------------------
(* What imports add is charged. *)

\* The bytes that imports introduced, level by level.
AtLevel(s) == [n \in 1..Len(s) |-> s[Len(s) + 1 - n].introduced]

OnStack(s) == SumFunctionOnSet(AtLevel(s), 1..Len(s))

LEMMA LevelsTyped ==
  ASSUME NEW s \in Seq(Frames)
  PROVE  /\ IsFiniteSet(1..Len(s)) /\ Weights(AtLevel(s), 1..Len(s)) /\ OnStack(s) \in Nat
<1>1. IsFiniteSet(1..Len(s))
  BY FS_Interval
<1>2. Weights(AtLevel(s), 1..Len(s))
  <2> SUFFICES ASSUME NEW n \in 1..Len(s) PROVE AtLevel(s)[n] \in Nat
    BY DEF Weights
  <2>1. s[Len(s) + 1 - n] \in Frames
    OBVIOUS
  <2> QED BY <2>1 DEF AtLevel, Frames
<1> QED BY <1>1, <1>2, SumElement DEF OnStack

LEMMA StackPushed ==
  ASSUME NEW s \in Seq(Frames), NEW x \in Frames
  PROVE  OnStack(<<x>> \o s) = x.introduced + OnStack(s)
<1> DEFINE r == <<x>> \o s
           n == Len(s) + 1
<1>1. /\ r \in Seq(Frames) /\ Len(r) = n /\ r[1] = x /\ n \in Nat /\ Len(s) \in Nat
      /\ \A i \in 2..Len(r) : r[i] = s[i - 1]
  BY Pushed
<1> HIDE DEF r
<1>2. 1..Len(r) = (1..Len(s)) \cup {n} /\ n \notin 1..Len(s)
  BY <1>1
<1>3. AtLevel(r)[n] = x.introduced
  BY <1>1 DEF AtLevel
<1>4. \A k \in 1..Len(s) : AtLevel(r)[k] = AtLevel(s)[k]
  <2> SUFFICES ASSUME NEW k \in 1..Len(s) PROVE AtLevel(r)[k] = AtLevel(s)[k]
    OBVIOUS
  <2>1. Len(r) + 1 - k \in 2..Len(r) /\ Len(r) + 1 - k - 1 = Len(s) + 1 - k
    BY <1>1
  <2>2. r[Len(r) + 1 - k] = s[Len(s) + 1 - k]
    BY <1>1, <2>1
  <2> QED BY <1>1, <2>2 DEF AtLevel
<1>5. OnStack(r) = AtLevel(r)[n] + SumFunctionOnSet(AtLevel(r), 1..Len(s))
  <2> DEFINE w == AtLevel(r)
             S == 1..Len(s)
  <2>1. IsFiniteSet(S) /\ n \notin S /\ Weights(w, S \cup {n})
    BY <1>1, <1>2, LevelsTyped
  <2>2. OnStack(r) = SumFunctionOnSet(w, S \cup {n})
    BY <1>2 DEF OnStack
  <2> HIDE DEF w, S, n
  <2>3. SumFunctionOnSet(w, S \cup {n}) = w[n] + SumFunctionOnSet(w, S)
    BY <2>1, SumAdd
  <2> QED BY <2>2, <2>3 DEF w, S
<1>6. SumFunctionOnSet(AtLevel(r), 1..Len(s)) = OnStack(s)
  BY <1>4, LevelsTyped, SumSame DEF OnStack
<1> QED BY <1>3, <1>5, <1>6 DEF r

LEMMA EmptyAddsNothing == OnStack(<<>>) = 0
<1>1. 1..Len(<<>>) = {}
  OBVIOUS
<1> QED BY <1>1, SumEmpty DEF OnStack

LEMMA OneFrameAdds ==
  ASSUME NEW x \in Frames
  PROVE  OnStack(<<x>>) = x.introduced
<1>1. <<x>> = <<x>> \o <<>> /\ <<>> \in Seq(Frames)
  OBVIOUS
<1>2. x.introduced \in Nat
  BY DEF Frames
<1>3. OnStack(<<x>> \o <<>>) = x.introduced + OnStack(<<>>)
  BY <1>1, StackPushed
<1>4. OnStack(<<x>>) = OnStack(<<x>> \o <<>>)
  BY <1>1
<1> QED BY <1>2, <1>3, <1>4, EmptyAddsNothing

\* The innermost frame, and what the others add.
LEMMA TopAdds ==
  ASSUME NEW s \in Seq(Frames), s # <<>>
  PROVE  /\ OnStack(s) = s[1].introduced + OnStack(Tail(s))
         /\ s[1].introduced \in Nat /\ OnStack(Tail(s)) \in Nat /\ Tail(s) \in Seq(Frames)
<1>1. s[1] \in Frames /\ Tail(s) \in Seq(Frames) /\ s = <<s[1]>> \o Tail(s)
  OBVIOUS
<1> QED BY <1>1, StackPushed, LevelsTyped DEF Frames

----------------------------------------------------------------------------
\* What the stack has room for: imports are charged before they are added, and
\* a sheet that may import is less deep than policy allows.
ImportCharge ==
  /\ introduced + OnStack(frames) <= spent.expansion
  /\ \A i \in DOMAIN frames : frames[i].left # <<>> => Len(frames) + 1 - i <= ImportDepth[policy]
  /\ Len(frames) <= ImportDepth[policy] + 1

LEMMA StackTyped ==
  ASSUME ImportInv
  PROVE  /\ frames \in Seq(Frames) /\ introduced \in Nat /\ spent.expansion \in Nat
         /\ OnStack(frames) \in Nat /\ ImportDepth[policy] \in Nat /\ Len(frames) \in Nat
         /\ policy \in Policies \cup {None} /\ fetch \in [Threads -> Fetches \cup {None}]
<1>1. /\ frames \in Seq(Frames) /\ introduced \in Nat
      /\ spent \in [fetches : 0..MaxFetches, responses : 0..ResponseLimit,
                    expansion : 0..ExpansionLimit]
      /\ policy \in Policies \cup {None} /\ fetch \in [Threads -> Fetches \cup {None}]
  BY DEF ImportInv, ImportsTypeOK, Inv, TypeOK
<1>2. spent.expansion \in Nat /\ ImportDepth[policy] \in Nat
  BY <1>1, ImportAssumption
<1> QED BY <1>1, <1>2, LevelsTyped

\* Policy is the operation's from beginning to end.
LEMMA PolicyStays ==
  ASSUME ImportsTypeOK, [ImportNext]_allVars
  PROVE  policy' = policy
<1>1. [Next]_vars
  BY ImportStepFetches
<1> QED BY <1>1
        DEF Next, Step, vars, FetchPlainly, FetchResource, FetchFrom, LoadFont, ReceiveBody,
            ReceiveRedirect, ProviderFails, ProviderPanics

\* An item is copied: nothing is introduced.
LEMMA KeptCharges ==
  ASSUME ImportInv, ImportCharge, frames # <<>>, Top.left # <<>>, frames' = Kept,
         policy' = policy, introduced' = introduced, spent'.expansion = spent.expansion
  PROVE  ImportCharge'
<1> DEFINE top == KeptIn(Top)
<1>1. /\ frames \in Seq(Frames) /\ Top = frames[1] /\ Top \in Frames /\ Outer \in Seq(Frames)
      /\ Outer = Tail(frames) /\ ImportDepth[policy] \in Nat /\ Len(frames) \in Nat
  BY StackTyped DEF Top, Outer
<1>2. top \in Frames
  BY <1>1, KeptTyped
<1>3. top.introduced = Top.introduced
  BY <1>1 DEF KeptIn, Frames
<1> HIDE DEF top
<1>4. frames' = <<top>> \o Tail(frames)
  BY <1>1 DEF Kept, top
<1>5. OnStack(frames') = OnStack(frames)
  <2>1. OnStack(frames') = top.introduced + OnStack(Tail(frames))
    BY <1>1, <1>2, <1>4, StackPushed
  <2>2. OnStack(frames) = Top.introduced + OnStack(Tail(frames))
    BY <1>1, TopAdds
  <2> QED BY <1>3, <2>1, <2>2
<1>6. /\ Len(frames') = Len(frames) /\ frames'[1] = top
      /\ \A i \in 2..Len(frames) : frames'[i] = frames[i]
      /\ frames' \in Seq(Frames)
  BY <1>1, <1>2, <1>4, TopReplaced
<1>7. \A i \in DOMAIN frames' : frames'[i].left # <<>> =>
        Len(frames') + 1 - i <= ImportDepth[policy]
  <2> SUFFICES ASSUME NEW i \in 1..Len(frames), frames'[i].left # <<>>
               PROVE  Len(frames) + 1 - i <= ImportDepth[policy]
    BY <1>6
  <2>1. CASE i = 1
    BY <1>1, <2>1 DEF ImportCharge
  <2>2. CASE i # 1
    <3>1. i \in 2..Len(frames)
      BY <1>1, <2>2
    <3> QED BY <1>6, <3>1 DEF ImportCharge
  <2> QED BY <2>1, <2>2
<1> QED BY <1>5, <1>6, <1>7 DEF ImportCharge

\* A sheet of the document opens the stack.
LEMMA RootCharges ==
  ASSUME ImportInv, ImportCharge, frames = <<>>, policy' = policy, introduced' = introduced,
         spent'.expansion = spent.expansion,
         NEW url \in Urls \cup {None}, NEW items \in Contents,
         frames' = <<Opened(url, url, items, 0)>>
  PROVE  ImportCharge'
<1> DEFINE f == Opened(url, url, items, 0)
<1>1. ImportDepth[policy] \in Nat /\ policy \in Policies \cup {None} /\ introduced \in Nat
  BY StackTyped
<1>2. f \in Frames
  BY <1>1, OpenedTyped
<1>3. f.introduced = 0 /\ (f.left # <<>> => 1 <= ImportDepth[policy])
  BY <1>1 DEF Opened
<1> HIDE DEF f
<1>4. frames' = <<f>>
  BY DEF f
<1>5. OnStack(frames') = 0 /\ OnStack(frames) = 0
  BY <1>2, <1>3, <1>4, OneFrameAdds, EmptyAddsNothing
<1>6. Len(frames') = 1 /\ frames'[1] = f
  BY <1>4
<1>7. \A i \in DOMAIN frames' : frames'[i].left # <<>> =>
        Len(frames') + 1 - i <= ImportDepth[policy]
  <2> SUFFICES ASSUME NEW i \in DOMAIN frames', frames'[i].left # <<>>
               PROVE  Len(frames') + 1 - i <= ImportDepth[policy]
    OBVIOUS
  <2>1. i = 1
    BY <1>4
  <2> QED BY <1>3, <1>6, <2>1
<1>8. introduced' + OnStack(frames') <= spent'.expansion
  BY <1>1, <1>5 DEF ImportCharge
<1> QED BY <1>1, <1>6, <1>7, <1>8 DEF ImportCharge

\* The sheet of an import opens above an import, so its parent is less deep
\* than imports may go.
LEMMA OpenedCharges ==
  ASSUME ImportInv, ImportCharge, frames # <<>>, Top.left # <<>>, policy' = policy,
         introduced' = introduced, spent'.expansion = spent.expansion,
         NEW asked \in Urls, NEW url \in Urls, NEW items \in Contents,
         frames' = <<Opened(asked, url, items, Len(frames))>> \o frames
  PROVE  ImportCharge'
<1> DEFINE f == Opened(asked, url, items, Len(frames))
<1>1. /\ ImportDepth[policy] \in Nat /\ policy \in Policies \cup {None} /\ introduced \in Nat
      /\ frames \in Seq(Frames) /\ Len(frames) \in Nat /\ Top = frames[1]
      /\ OnStack(frames) \in Nat /\ 1 \in DOMAIN frames
  BY StackTyped DEF Top
<1>2. f \in Frames
  BY <1>1, OpenedTyped
<1>3. f.introduced = 0 /\ (f.left # <<>> => Len(frames) + 1 <= ImportDepth[policy])
  BY <1>1 DEF Opened
<1> HIDE DEF f
<1>4. frames' = <<f>> \o frames
  BY DEF f
<1>5. OnStack(frames') = OnStack(frames)
  <2>1. OnStack(frames') = f.introduced + OnStack(frames)
    BY <1>1, <1>2, <1>4, StackPushed
  <2> QED BY <1>1, <1>3, <2>1
<1>6. /\ frames' \in Seq(Frames) /\ Len(frames') = Len(frames) + 1 /\ frames'[1] = f
      /\ \A i \in 2..Len(frames') : frames'[i] = frames[i - 1]
  BY <1>1, <1>2, <1>4, Pushed
<1>7. \A i \in DOMAIN frames' : frames'[i].left # <<>> =>
        Len(frames') + 1 - i <= ImportDepth[policy]
  <2> SUFFICES ASSUME NEW i \in 1..Len(frames'), frames'[i].left # <<>>
               PROVE  Len(frames') + 1 - i <= ImportDepth[policy]
    BY <1>6
  <2>1. CASE i = 1
    BY <1>1, <1>3, <1>6, <2>1
  <2>2. CASE i # 1
    <3>1. i \in 2..Len(frames') /\ i - 1 \in DOMAIN frames
      BY <1>1, <1>6, <2>2
    <3>2. frames[i - 1].left # <<>>
      BY <1>6, <3>1
    <3>3. Len(frames) + 1 - (i - 1) <= ImportDepth[policy]
      BY <3>1, <3>2 DEF ImportCharge
    <3> QED BY <1>1, <1>6, <3>1, <3>3
  <2> QED BY <2>1, <2>2
<1>8. Len(frames') <= ImportDepth[policy] + 1
  <2>1. Len(frames) + 1 - 1 <= ImportDepth[policy]
    BY <1>1 DEF ImportCharge
  <2> QED BY <1>1, <1>6, <2>1
<1> QED BY <1>1, <1>5, <1>7, <1>8 DEF ImportCharge

\* A sheet that is done adds to its parent what was charged, or nothing; what
\* was introduced into it is part of that, or gone.
LEMMA FinishCharges ==
  ASSUME ImportInv, ImportCharge, FinishImport
  PROVE  ImportCharge'
<1> DEFINE parent == frames[2]
           total  == spent.expansion + Cost(parent, Top)
           rest   == Tail(Tail(frames))
<1>1. /\ frames \in Seq(Frames) /\ Len(frames) > 1 /\ Len(frames) \in Nat
      /\ Top \in Frames /\ Top = frames[1] /\ parent \in Frames /\ parent.left # <<>>
      /\ Head(Outer) = parent /\ Tail(Outer) = rest /\ Outer = Tail(frames)
      /\ Outer \in Seq(Frames) /\ Outer # <<>> /\ Outer[1] = parent
      /\ spent.expansion \in Nat /\ introduced' = introduced /\ policy' = policy
      /\ introduced \in Nat /\ ImportDepth[policy] \in Nat
  <2>1. UNCHANGED <<introduced, policy>> /\ Len(frames) > 1
    BY DEF FinishImport, vars
  <2>2. /\ frames \in Seq(Frames) /\ spent.expansion \in Nat /\ introduced \in Nat
        /\ ImportDepth[policy] \in Nat
    BY StackTyped
  <2>3. parent.left # <<>>
    BY <2>1, <2>2 DEF ImportInv, OuterWaits
  <2>4. /\ Len(frames) \in Nat /\ Top = frames[1] /\ Top \in Frames /\ parent \in Frames
        /\ Outer = Tail(frames)
    BY <2>1, <2>2 DEF Top, Outer
  <2>5. /\ Tail(frames) \in Seq(Frames) /\ Len(Tail(frames)) = Len(frames) - 1
        /\ Tail(frames)[1] = parent
    BY <2>1, <2>2
  <2>6. Tail(frames) # <<>>
    <3>1. Len(Tail(frames)) # 0 /\ Len(<<>>) = 0
      BY <2>1, <2>4, <2>5
    <3> QED BY <3>1
  <2>7. Head(Outer) = parent /\ Outer # <<>>
    BY <2>4, <2>5, <2>6
  <2> HIDE DEF parent
  <2> QED BY <2>1, <2>2, <2>3, <2>4, <2>5, <2>7
<1>2. /\ OnStack(frames) = Top.introduced + OnStack(Outer) /\ Top.introduced \in Nat
      /\ OnStack(Outer) = parent.introduced + OnStack(rest) /\ parent.introduced \in Nat
      /\ OnStack(rest) \in Nat /\ rest \in Seq(Frames)
  <2>1. /\ OnStack(frames) = frames[1].introduced + OnStack(Tail(frames))
        /\ frames[1].introduced \in Nat
    <3>1. frames # <<>>
      BY <1>1 DEF Outer
    <3> QED BY <1>1, <3>1, TopAdds
  <2>2. /\ OnStack(Outer) = Outer[1].introduced + OnStack(Tail(Outer))
        /\ Outer[1].introduced \in Nat /\ OnStack(Tail(Outer)) \in Nat
        /\ Tail(Outer) \in Seq(Frames)
    BY <1>1, TopAdds
  <2> HIDE DEF parent, rest
  <2> QED BY <1>1, <2>1, <2>2
<1>3. /\ Cost(parent, Top) \in Nat /\ SpliceInto(parent, Top) \in Frames
      /\ KeptIn(parent) \in Frames
  BY <1>1, SpliceTyped, KeptTyped
<1>4. /\ KeptIn(parent).introduced = parent.introduced
      /\ SpliceInto(parent, Top).introduced = parent.introduced + Cost(parent, Top)
  BY <1>1 DEF KeptIn, SpliceInto, Cost, Frames
<1> HIDE DEF parent, rest
<1> DEFINE a == Top.introduced
           b == parent.introduced
           c == OnStack(rest)
<1>numbers. /\ a \in Nat /\ b \in Nat /\ c \in Nat /\ introduced \in Nat
      /\ spent.expansion \in Nat /\ introduced + (a + (b + c)) <= spent.expansion
  <2>1. a \in Nat /\ b \in Nat /\ c \in Nat /\ OnStack(frames) = a + (b + c)
    BY <1>2
  <2> HIDE DEF a, b, c
  <2>2. introduced + OnStack(frames) <= spent.expansion
    BY DEF ImportCharge
  <2> QED BY <1>1, <2>1, <2>2
<1>5. /\ introduced' + OnStack(frames') <= spent'.expansion
      /\ \E f \in Frames : frames' = <<f>> \o rest
  <2>1. CASE total > ExpansionLimit
    <3>1. frames' = <<KeptIn(parent)>> \o rest /\ spent' = spent
      BY <1>1, <2>1 DEF FinishImport
    <3>2. OnStack(frames') = parent.introduced + OnStack(rest)
      BY <1>2, <1>3, <1>4, <3>1, StackPushed
    <3> DEFINE sum == OnStack(frames')
    <3>4. sum = b + c
      BY <3>2
    <3> HIDE DEF sum, a, b, c
    <3>5. introduced + sum <= spent.expansion
      BY <1>numbers, <3>4
    <3>6. introduced' + sum <= spent'.expansion
      BY <1>1, <3>1, <3>5
    <3> QED BY <1>3, <3>1, <3>6 DEF sum
  <2>2. CASE ~(total > ExpansionLimit)
    <3>1. frames' = <<SpliceInto(parent, Top)>> \o rest
      BY <1>1, <2>2 DEF FinishImport
    <3>2. spent' = [spent EXCEPT !.expansion = total]
      BY <1>1, <2>2 DEF FinishImport
    <3>3. spent'.expansion = spent.expansion + Cost(parent, Top)
      BY <3>2 DEF ImportInv, ImportsTypeOK
    <3> DEFINE cost == Cost(parent, Top)
               f == SpliceInto(parent, Top)
    <3>4. OnStack(frames') = parent.introduced + cost + OnStack(rest)
      <4>1. f.introduced = parent.introduced + cost /\ f \in Frames
        BY <1>3, <1>4
      <4>2. frames' = <<f>> \o rest
        BY <3>1
      <4> HIDE DEF f
      <4>3. OnStack(frames') = f.introduced + OnStack(rest)
        BY <1>2, <4>1, <4>2, StackPushed
      <4> QED BY <4>1, <4>3
    <3>6. introduced' + OnStack(frames') <= spent'.expansion
      <4>1. cost \in Nat
        BY <1>3
      <4>2. spent'.expansion = spent.expansion + cost
        BY <3>3
      <4> DEFINE sum == OnStack(frames')
                 room == spent'.expansion
      <4>3. sum = b + cost + c /\ room = spent.expansion + cost
        BY <3>4, <4>2
      <4> HIDE DEF cost, sum, room, a, b, c
      <4>4. introduced + sum <= room
        BY <1>numbers, <4>1, <4>3
      <4>5. introduced' + sum <= room
        BY <1>1, <4>4
      <4> QED BY <4>5 DEF sum, room
    <3> QED BY <1>3, <3>1, <3>6
  <2> QED BY <2>1, <2>2
<1>6. PICK f \in Frames : frames' = <<f>> \o rest
  BY <1>5
<1>7. /\ frames' \in Seq(Frames) /\ Len(frames') = Len(frames) - 1
      /\ \A i \in 2..Len(frames') : frames'[i] = frames[i + 1]
  BY <1>1, <1>6, Popped DEF rest
<1>8. \A i \in DOMAIN frames' : frames'[i].left # <<>> =>
        Len(frames') + 1 - i <= ImportDepth[policy]
  <2> SUFFICES ASSUME NEW i \in 1..Len(frames'), frames'[i].left # <<>>
               PROVE  Len(frames') + 1 - i <= ImportDepth[policy]
    BY <1>7
  <2>1. i + 1 \in DOMAIN frames
    BY <1>1, <1>7
  <2>2. frames[i + 1].left # <<>>
    <3>1. CASE i = 1
      BY <1>1, <3>1 DEF parent
    <3>2. CASE i # 1
      <4>1. i \in 2..Len(frames')
        BY <1>1, <1>7, <3>2
      <4> QED BY <1>7, <4>1
    <3> QED BY <3>1, <3>2
  <2>3. Len(frames) + 1 - (i + 1) <= ImportDepth[policy]
    BY <2>1, <2>2 DEF ImportCharge
  <2> QED BY <1>1, <1>7, <2>3
<1>9. Len(frames') <= ImportDepth[policy] + 1
  BY <1>1, <1>7 DEF ImportCharge
<1> QED BY <1>1, <1>5, <1>8, <1>9 DEF ImportCharge

\* Nothing is left of an operation that is over, and the root of one takes what
\* was introduced into it along.
LEMMA EmptyCharges ==
  ASSUME frames' = <<>>, policy' = policy, ImportDepth[policy] \in Nat,
         introduced' \in Nat, introduced' <= spent'.expansion
  PROVE  ImportCharge'
<1>1. OnStack(frames') = 0 /\ Len(frames') = 0 /\ DOMAIN frames' = {}
  BY EmptyAddsNothing
<1> QED BY <1>1 DEF ImportCharge

LEMMA ImportChargeInit == ImportInit => ImportCharge
<1> SUFFICES ASSUME ImportInit PROVE ImportCharge
  OBVIOUS
<1>1. ImportInv
  BY ImportInvInit
<1>2. ImportDepth[policy] \in Nat
  BY <1>1, StackTyped
<1>3. OnStack(frames) = 0 /\ Len(frames) = 0 /\ DOMAIN frames = {}
  BY EmptyAddsNothing DEF ImportInit
<1> QED BY <1>2, <1>3 DEF ImportInit, Unspent, ImportCharge

LEMMA ImportChargeNext == ImportInv /\ ImportCharge /\ [ImportNext]_allVars => ImportCharge'
<1> SUFFICES ASSUME ImportInv, ImportCharge, [ImportNext]_allVars PROVE ImportCharge'
  OBVIOUS
<1>1. /\ Inv /\ Parser \in Threads /\ policy' = policy /\ ImportDepth[policy] \in Nat
      /\ frames \in Seq(Frames) /\ introduced \in Nat /\ OnStack(frames) \in Nat
      /\ fetch \in [Threads -> Fetches \cup {None}]
  BY ImportAssumption, PolicyStays, StackTyped DEF ImportInv
<1>2. spent \in [fetches : 0..MaxFetches, responses : 0..ResponseLimit,
                 expansion : 0..ExpansionLimit]
  BY DEF ImportInv, ImportsTypeOK
<1>3. frames # <<>> /\ fetch[Parser] # None => Top.left # <<>> /\ Head(Top.left).url \in Urls
  BY DEF ImportInv, Waits
<1>4. CASE RenewBudget \/ ImportPanics
  <2>1. frames' = <<>> /\ introduced' = 0 /\ spent'.expansion = 0
    BY <1>4 DEF RenewBudget, ImportPanics, Unspent
  <2> QED BY <1>1, <2>1, EmptyCharges
<1>5. CASE ExpandInline
  BY <1>1, <1>5, RootCharges DEF ExpandInline
<1>6. CASE LinkArrives
  <2>1. fetch[Parser].current.url \in Urls
    BY <1>1, <1>6 DEF LinkArrives, ReceiveBody, Fetches, Requests
  <2> QED BY <1>1, <1>6, <2>1, RootCharges DEF LinkArrives
<1>7. CASE CopyItem
  BY <1>1, <1>7, KeptCharges DEF CopyItem
<1>8. CASE RequestImport
  <2>1. /\ frames # <<>> /\ Top.left # <<>> /\ introduced' = introduced
        /\ spent'.expansion = spent.expansion
    BY <1>2, <1>8 DEF RequestImport
  <2>2. CASE frames' = Kept
    BY <1>1, <2>1, <2>2, KeptCharges
  <2>3. CASE frames' = frames
    BY <1>1, <2>1, <2>3 DEF ImportCharge
  <2> QED BY <1>8, <2>2, <2>3 DEF RequestImport
<1>9. CASE ImportArrives
  <2> DEFINE url == fetch[Parser].current.url
  <2>1. /\ frames # <<>> /\ fetch[Parser] # None /\ introduced' = introduced
        /\ spent'.expansion = spent.expansion
    BY <1>2, <1>9 DEF ImportArrives, ReceiveBody
  <2>2. url \in Urls
    BY <1>1, <2>1 DEF Fetches, Requests
  <2>3. CASE frames' = Kept
    BY <1>1, <1>3, <2>1, <2>3, KeptCharges
  <2>4. CASE \E items \in Contents :
               frames' = <<Opened(Head(Top.left).url, url, items, Len(frames))>> \o frames
    BY <1>1, <1>3, <2>1, <2>2, <2>4, OpenedCharges
  <2> QED BY <1>9, <2>3, <2>4 DEF ImportArrives
<1>10. CASE ImportRedirected
  <2>1. frames # <<>> /\ fetch[Parser] # None /\ UNCHANGED <<spent, introduced>>
    BY <1>10 DEF ImportRedirected, ReceiveRedirect
  <2>2. CASE frames' = Kept
    BY <1>1, <1>3, <2>1, <2>2, KeptCharges
  <2>3. CASE frames' = frames
    BY <1>1, <2>1, <2>3 DEF ImportCharge
  <2> QED BY <1>10, <2>2, <2>3 DEF ImportRedirected
<1>11. CASE ImportFails
  <2>1. /\ frames # <<>> /\ fetch[Parser] # None /\ UNCHANGED <<spent, introduced>>
        /\ frames' = Kept
    BY <1>11 DEF ImportFails, ProviderFails, ReceiveBody
  <2> QED BY <1>1, <1>3, <2>1, KeptCharges
<1>12. CASE FinishImport
  BY <1>12, FinishCharges
<1>13. CASE FinishRoot
  <2>1. frames' = <<>> /\ introduced' = introduced + Top.introduced /\ spent' = spent
    BY <1>13 DEF FinishRoot
  <2>2. Top = frames[1] /\ frames # <<>>
    <3>1. Len(frames) # 0 /\ Len(<<>>) = 0
      BY <1>13 DEF FinishRoot
    <3>2. frames # <<>>
      BY <3>1
    <3> QED BY <1>1, <3>2 DEF Top
  <2>3. /\ OnStack(frames) = Top.introduced + OnStack(Tail(frames))
        /\ Top.introduced \in Nat /\ OnStack(Tail(frames)) \in Nat
    BY <1>1, <2>2, TopAdds
  <2> DEFINE a == Top.introduced
             b == OnStack(Tail(frames))
  <2>4. /\ a \in Nat /\ b \in Nat /\ introduced + (a + b) <= spent.expansion
        /\ introduced' = introduced + a /\ spent.expansion \in Nat
    <3>1. introduced + OnStack(frames) <= spent.expansion /\ OnStack(frames) = a + b
      BY <2>3 DEF ImportCharge
    <3>2. spent.expansion \in Nat
      BY StackTyped
    <3> HIDE DEF a, b
    <3> QED BY <2>1, <2>3, <3>1, <3>2 DEF a, b
  <2> HIDE DEF a, b
  <2>5. introduced' \in Nat /\ introduced' <= spent.expansion
    BY <1>1, <2>4
  <2> QED BY <1>1, <2>1, <2>5, EmptyCharges
<1>14. CASE OtherFetches \/ UNCHANGED allVars
  <2>1. UNCHANGED importVars
    BY <1>14 DEF OtherFetches, allVars
  <2> QED BY <1>1, <2>1 DEF ImportCharge, importVars
<1> QED BY <1>4, <1>5, <1>6, <1>7, <1>8, <1>9, <1>10, <1>11, <1>12, <1>13, <1>14
        DEF ImportNext

\* The sum of ImportsCharged, which folds over the same levels.
LEMMA StackIsSum ==
  ASSUME frames \in Seq(Frames)
  PROVE  MapThenSumSet(LAMBDA n : Level(n).introduced, DOMAIN frames) = OnStack(frames)
<1> DEFINE S == 1..Len(frames)
           w == AtLevel(frames)
           Body(it, s) == IF s = {} THEN 0
                          ELSE Level(Pick(s)).introduced + it[s \ {Pick(s)}]
           Fold(it) == it = [s \in SUBSET S |-> Body(it, s)]
           F == CHOOSE it : Fold(it)
<1>0. IsFiniteSet(S) /\ DOMAIN frames = S
  BY LevelsTyped
<1>1. ASSUME NEW it
      PROVE  Fold(it) <=> SumsOf(w, S, it)
  <2>1. \A s \in SUBSET S : s # {} => w[Pick(s)] = Level(Pick(s)).introduced
    BY PickIn DEF AtLevel, Level
  <2> HIDE DEF w, S
  <2>2. [s \in SUBSET S |-> Body(it, s)]
        = [s \in SUBSET S |-> IF s = {} THEN 0 ELSE w[Pick(s)] + it[s \ {Pick(s)}]]
    BY <2>1
  <2> HIDE DEF Body
  <2> QED
    BY <2>2 DEF SumsOf
<1>2. SumsOf(w, S, F)
  <2> HIDE DEF Fold
  <2>1. Fold(Sums(w, S))
    BY <1>0, <1>1, SumsAreSums
  <2>2. Fold(F)
    BY <2>1
  <2> QED
    BY <1>1, <2>2
<1>3. MapThenSumSet(LAMBDA n : Level(n).introduced, S) = F[S]
  BY Zenon DEF MapThenSumSet, MapThenFoldSet, Pick
<1> HIDE DEF F, w, S
<1>4. F[S] = SumFunctionOnSet(w, S)
  BY <1>0, <1>2, FoldIsSum
<1> QED
  BY <1>0, <1>3, <1>4 DEF w, S, OnStack

\* However sheets import one another, and whatever is refused on the way back
\* up, what imports add to the sheets of an operation was charged before, and no
\* sheet is deeper than policy allows (charge_expansion, expand_sheet).
THEOREM ImportsAlwaysCharged == ImportSpec => []ImportsCharged
<1>1. ImportInv /\ ImportCharge => ImportsCharged
  BY StackIsSum, StackTyped DEF ImportInv, ImportCharge, ImportsCharged
<1> QED BY <1>1, ImportInvariance, ImportChargeInit, ImportChargeNext, PTL DEF ImportSpec

----------------------------------------------------------------------------
(* The deadline transport that carries the fetches. *)

\* The deadline of the operation that carried a value.
DueOf(timeout) == IF timeout.reason = "connect" THEN connectDue ELSE requestDue

\* Which phase a blocking call belongs to, and a value nobody carried yet.
CallsInPhase ==
  /\ state = "connect" => phase = "connecting"
  /\ state \in {"read", "write"} => phase = "operation" /\ ~fresh
  /\ fresh => phase = "operation" /\ clock + next.after = Due

\* What the transport anchored: while it connects, the connect deadline; on
\* an open connection, for a value it has seen, the deadline of that value's
\* operation; and it has seen the value of the operation under way.
AnchoredAtDue ==
  /\ phase = "connecting" => next.reason = "connect" /\ deadline = connectDue
  /\ phase \in {"idle", "operation"} /\ lastSeen # NoTimeout =>
       deadline = DueOf(lastSeen)
  /\ phase = "operation" => next # NoTimeout /\ (fresh \/ lastSeen = next)

\* A connect or read ends by its deadline; a read or write not before, and a
\* write that is repeated from now on not before either.
EndsWhenDue ==
  /\ state \in {"connect", "read"} => until <= Due
  /\ state \in {"read", "write"} => until >= Due /\ clock + applied >= Due

\* The inductive invariant.
TransportInv == TransportTypeOK /\ CallsInPhase /\ AnchoredAtDue /\ EndsWhenDue

----------------------------------------------------------------------------

\* The first state.
LEMMA TransportBegins == TransportInit => TransportInv
PROOF
  <1> SUFFICES ASSUME TransportInit
               PROVE  TransportInv
    OBVIOUS
  <1>1. fresh \in BOOLEAN /\ failed \in BOOLEAN
    BY DEF TransportInit
  <1>2. TransportTypeOK
    BY <1>1, TicksAssumption DEF TransportInit, TransportTypeOK, Timeouts, NoTimeout, Unset
  <1>3. CallsInPhase /\ AnchoredAtDue /\ EndsWhenDue
    BY DEF TransportInit, CallsInPhase, AnchoredAtDue, EndsWhenDue
  <1>4. QED
    BY <1>2, <1>3 DEF TransportInv

\* The steps of the connector.
LEMMA ConnectorKept ==
  ASSUME TransportInv, StartConnect \/ TryAddress \/ AddressFails \/ Connected
  PROVE  TransportInv'
PROOF
  <1> USE TicksAssumption
      DEF TransportInv, TransportTypeOK, CallsInPhase, AnchoredAtDue, EndsWhenDue, Timeouts,
          NoTimeout, Unset, Due, DueOf, client, transport, socket, connect
  <1>1. CASE StartConnect
    <2>1. failed' \in BOOLEAN
      BY <1>1 DEF StartConnect
    <2>2. next' \in Timeouts /\ next'.reason = "connect"
      BY <1>1 DEF StartConnect
    <2>3. TransportTypeOK'
      BY <1>1, <2>1, <2>2 DEF StartConnect
    <2>4. QED
      BY <1>1, <2>3, <2>2 DEF StartConnect
  <1>2. CASE TryAddress
    <2>1. CASE addrs = 0 \/ Passed(deadline)
      <3>1. failed' \in BOOLEAN /\ fresh' \in BOOLEAN
        BY <1>2, <2>1 DEF TryAddress, EndRequest
      <3>2. QED
        BY <1>2, <2>1, <3>1 DEF TryAddress, EndRequest
    <2>2. CASE ~(addrs = 0 \/ Passed(deadline))
      BY <1>2, <2>2 DEF TryAddress, Passed, Block, AddressTicks
    <2>3. QED
      BY <2>1, <2>2
  <1>3. CASE AddressFails
    BY <1>3 DEF AddressFails
  <1>4. CASE Connected
    BY <1>4 DEF Connected
  <1>5. QED
    BY <1>1, <1>2, <1>3, <1>4

\* The steps of the client between operations.
LEMMA ClientKept ==
  ASSUME TransportInv, StartOperation \/ EndOperation \/ CheckIn \/ CheckOut
  PROVE  TransportInv'
PROOF
  <1> USE TicksAssumption
      DEF TransportInv, TransportTypeOK, CallsInPhase, AnchoredAtDue, EndsWhenDue, Timeouts,
          NoTimeout, Unset, Due, DueOf, client, transport, socket, connect
  <1>1. CASE StartOperation
    BY <1>1 DEF StartOperation
  <1>2. CASE EndOperation
    BY <1>2 DEF EndOperation
  <1>3. CASE CheckIn
    BY <1>3 DEF CheckIn, Forget
  <1>4. CASE CheckOut
    BY <1>4 DEF CheckOut, Forget
  <1>5. QED
    BY <1>1, <1>2, <1>3, <1>4

\* Raw calls, and time.
LEMMA CallsKept ==
  ASSUME TransportInv, RawCall \/ CallReturns \/ WritesOn \/ CallTimesOut \/ CallFails \/ Tick
  PROVE  TransportInv'
PROOF
  <1> USE TicksAssumption
      DEF TransportInv, TransportTypeOK, CallsInPhase, AnchoredAtDue, EndsWhenDue, Timeouts,
          NoTimeout, Unset, Due, DueOf, client, transport, socket, connect
  <1>1. CASE RawCall
    <2>1. deadline' = Due /\ lastSeen' = next /\ UNCHANGED <<clock, next, Due>>
      BY <1>1 DEF RawCall, Anchored
    <2>2. CASE Passed(deadline')
      <3>1. failed' \in BOOLEAN /\ fresh' \in BOOLEAN
        BY <1>1, <2>2 DEF RawCall, EndRequest
      <3>2. QED
        BY <1>1, <2>1, <2>2, <3>1 DEF RawCall, EndRequest
    <2>3. CASE ~Passed(deadline')
      <3>1. failed' \in BOOLEAN /\ fresh' \in BOOLEAN
        BY <1>1, <2>3 DEF RawCall
      <3>2. /\ state' \in {"read", "write"} /\ ~fresh' /\ clock < Due
            /\ applied' = Due - clock /\ until' = Due
        <4>1. PICK call \in {"read", "write"} : Block(call, deadline' - clock)
          BY <1>1, <2>3 DEF RawCall
        <4>2. clock < Due /\ Due \in Int
          BY <2>1, <2>3 DEF Passed
        <4>3. ~fresh'
          BY <1>1, <2>3 DEF RawCall
        <4>4. QED
          BY <2>1, <4>1, <4>2, <4>3 DEF Block
      <3>3. TransportTypeOK'
        BY <1>1, <2>1, <2>3, <3>1, <3>2 DEF RawCall
      <3>4. QED
        BY <1>1, <2>1, <2>3, <3>2, <3>3 DEF RawCall
    <2>4. QED
      BY <2>2, <2>3
  <1>2. CASE CallReturns
    BY <1>2 DEF CallReturns
  <1>3. CASE WritesOn
    BY <1>3 DEF WritesOn, Block
  <1>4. CASE CallTimesOut
    BY <1>4 DEF CallTimesOut, EndRequest
  <1>5. CASE CallFails
    BY <1>5 DEF CallFails, EndRequest
  <1>6. CASE Tick
    BY <1>6 DEF Tick
  <1>7. QED
    BY <1>1, <1>2, <1>3, <1>4, <1>5, <1>6

\* Every step.
LEMMA TransportStep == TransportInv /\ [TransportNext]_transportVars => TransportInv'
PROOF
  <1> SUFFICES ASSUME TransportInv, [TransportNext]_transportVars
               PROVE  TransportInv'
    OBVIOUS
  <1>1. CASE UNCHANGED transportVars
    BY <1>1
    DEF TransportInv, TransportTypeOK, CallsInPhase, AnchoredAtDue, EndsWhenDue, Due, DueOf,
        transportVars, client, transport, socket, connect
  <1>2. CASE TransportNext
    BY <1>1, <1>2, ConnectorKept, ClientKept, CallsKept DEF TransportNext, Stop
  <1>3. QED
    BY <1>1, <1>2

LEMMA TransportAlways == TransportSpec => []TransportInv
  BY TransportBegins, TransportStep, PTL DEF TransportSpec

----------------------------------------------------------------------------

\* For any deadlines, number of addresses and sequence of raw calls: no raw
\* connect (TcpConnector::connect) or read (await_input) blocks past the
\* deadline of its operation.
THEOREM ConnectsAndReadsEnd == TransportSpec => []ReadsKeepDeadline
PROOF
  <1>1. TransportInv => ReadsKeepDeadline
    BY DEF TransportInv, EndsWhenDue, ReadsKeepDeadline
  <1>2. QED
    BY <1>1, TransportAlways, PTL

\* What a step that fails an operation with a timeout finds.
LEMMA FailsWhenDue ==
  ASSUME TransportInv, [TransportNext]_transportVars, failed', ~failed, phase = "operation"
  PROVE  clock >= Due
PROOF
  <1> USE DEF TransportInv, TransportTypeOK, CallsInPhase, AnchoredAtDue, EndsWhenDue, Timeouts,
              NoTimeout, Unset, Due, DueOf
  <1>1. CASE RawCall
    BY <1>1 DEF RawCall, Anchored, Passed, EndRequest
  <1>2. CASE CallTimesOut
    BY <1>2 DEF CallTimesOut
  <1>3. CASE TryAddress \/ CallFails
    BY <1>3 DEF TryAddress, CallFails, EndRequest
  <1>4. CASE StartConnect
    BY <1>4 DEF StartConnect
  <1>5. CASE UNCHANGED failed
    BY <1>5
  <1>6. QED
    BY <1>1, <1>2, <1>3, <1>4, <1>5
    DEF TransportNext, transportVars, AddressFails, Connected, StartOperation, EndOperation,
        CheckIn, CheckOut, CallReturns, WritesOn, Tick, Stop

\* No operation fails with a timeout before its own deadline, whatever the
\* transport anchored for earlier operations of the connection.
THEOREM NeverBeforeDue == TransportSpec => TimesOutWhenDue
PROOF
  <1>1. TransportInv /\ [TransportNext]_transportVars =>
          [failed' /\ ~failed /\ phase = "operation" => clock >= Due]_transportVars
    BY FailsWhenDue
  <1>2. QED
    BY <1>1, TransportAlways, PTL DEF TransportSpec, TimesOutWhenDue
=============================================================================
