--------------------------- MODULE ResourceFetch ---------------------------
(***************************************************************************)
(* Fetches through a network provider: the loop of NetworkProvider::fetch  *)
(* with Request::redirected (raikiri-traits/net.rs), and the adapter that  *)
(* checks policy and limits at every hop, for stylesheets and images and,  *)
(* behind the memo of NetworkFontFaceLoader, for fonts                     *)
(* (raikiri-html/resources/network.rs).                                    *)
(*                                                                         *)
(* The provider below, which performs one hop, is external: it answers     *)
(* with a body or a redirect of its choice, fails or panics.  A URL is a   *)
(* scheme and a host; `body' of a request stands for its body,             *)
(* content_type and the headers that describe it, `credentials' for its    *)
(* credential headers.                                                     *)
(***************************************************************************)
EXTENDS Integers

CONSTANTS
  Threads,
  Urls,         \* records of a scheme and a host, "" for none
  Asked,        \* requests of the embedder's
  Policies,     \* each with the URLs it allows and its cap on redirects
  MaxAutoHops,  \* MAX_AUTO_REDIRECT_HOPS
  Sizes,        \* bytes of a response
  ByteLimit,    \* byte_limit of one response
  Limit,        \* max_aggregate_resource_bytes
  MaxCalls,     \* bound: fetches
  None, Failed

ASSUME FetchAssumption ==
  /\ Urls \subseteq [scheme : STRING, host : STRING]
  /\ Asked \subseteq [url : Urls, method : {"GET", "POST"}, body : BOOLEAN, credentials : BOOLEAN]
  /\ Policies \subseteq [allowed : SUBSET Urls, hops : Nat]
  /\ MaxAutoHops \in Nat /\ Sizes \subseteq Nat /\ ByteLimit \in Nat /\ Limit \in Nat
  /\ MaxCalls \in Nat
  /\ None \notin Threads \cup Policies /\ None # Failed /\ {None, Failed} \cap Sizes = {}

VARIABLES
  policy,    \* the policy of the render, or None
  fetch,     \* of each thread: its call and the request on the wire, or None
  used,      \* ResourceNetworkProvider::budget
  loaded,    \* NetworkFontFaceLoader::loaded
  holder,    \* who holds the mutex of `loaded'
  delivered, \* bytes the adapter has returned (for the properties)
  calls

vars == <<policy, fetch, used, loaded, holder, delivered, calls>>

Requests == [url : Urls, method : {"GET", "POST"}, body : BOOLEAN, credentials : BOOLEAN]

\* get_request: what the renderer itself asks for.
GetRequest(url) == [url |-> url, method |-> "GET", body |-> FALSE, credentials |-> FALSE]

----------------------------------------------------------------------------
(* Request::redirected. *)

SameOrigin(a, b) == a.host # "" /\ a = b

Downgrades(from, to) == from.scheme = "https" /\ to.scheme = "http"

BecomesGet(request, status) ==
  CASE status = 301 -> request.method = "POST"
    [] status = 303 -> request.method # "GET"
    [] status = 307 -> FALSE

\* Mutant: only another host is another origin.
RedirectedByHost(request, to, status) ==
  LET get    == BecomesGet(request, status)
      leaves == request.url.host # to.host
      method == IF get THEN "GET" ELSE request.method
  IN  [url |-> to, method |-> method,
       body |-> request.body /\ ~get /\ ~(leaves /\ method = "GET"),
       credentials |-> request.credentials /\ ~leaves]

\* The next request.
Redirected(request, to, status) ==
  LET get    == BecomesGet(request, status)
      leaves == ~SameOrigin(request.url, to)
      method == IF get THEN "GET" ELSE request.method
  IN  [url |-> to, method |-> method,
       body |-> request.body /\ ~get /\ ~(leaves /\ method = "GET"),
       credentials |-> request.credentials /\ ~leaves]

Refused(request, to, status) ==
  \/ Downgrades(request.url, to)
  \/ ~SameOrigin(request.url, to) /\ Redirected(request, to, status).body

\* The next turn of a loop that follows redirects.
Follow(f, to, status) ==
  [via |-> f.via, asked |-> f.asked,
   current |-> Redirected(f.current, to, status), hop |-> f.hop + 1]

----------------------------------------------------------------------------
(* The checks of the adapter. *)

\* check_url_policy
Denied(url) == policy # None /\ url \notin policy.allowed

\* Mutant: one redirect too many.
TooManyHopsLate(hop) == hop > IF policy = None THEN MaxAutoHops ELSE policy.hops

\* The cap of check_redirect, before the hop is counted.
TooManyHops(hop) == hop >= IF policy = None THEN MaxAutoHops ELSE policy.hops

\* Mutant: a response that does not fit is charged all the same.
ChargedAnyway(bytes) == used + bytes

\* charge_aggregate_budget: the budget after a response.
Charged(bytes) == IF used + bytes > Limit THEN used ELSE used + bytes

----------------------------------------------------------------------------
Init ==
  /\ policy \in Policies \cup {None}
  /\ fetch = [t \in Threads |-> None]
  /\ used = 0 /\ loaded = [u \in Urls |-> None] /\ holder = None
  /\ delivered = 0 /\ calls = 0

\* The call of t returns: the font loader inserts the outcome and unlocks.
Finish(t, outcome) ==
  /\ fetch' = [fetch EXCEPT ![t] = None]
  /\ IF fetch[t].via = "font"
     THEN /\ loaded' = [loaded EXCEPT ![fetch[t].asked.url] = outcome]
          /\ holder' = None
     ELSE UNCHANGED <<loaded, holder>>

Send(t, via, request) ==
  fetch' = [fetch EXCEPT ![t] = [via |-> via, asked |-> request, current |-> request,
                                 hop |-> 0]]

Begin(t) == fetch[t] = None /\ calls < MaxCalls /\ calls' = calls + 1

\* NetworkProvider::fetch of the provider itself, with a request of the
\* embedder's: no policy and no limit.
FetchPlainly(t) ==
  /\ Begin(t)
  /\ \E request \in Asked : Send(t, "plain", request)
  /\ UNCHANGED <<policy, used, loaded, holder, delivered>>

\* A stylesheet or an image through the adapter: a denied URL is never sent.
FetchFrom(t, url) ==
  /\ Begin(t)
  /\ IF Denied(url) THEN UNCHANGED fetch ELSE Send(t, "adapter", GetRequest(url))
  /\ UNCHANGED <<policy, used, loaded, holder, delivered>>

FetchResource(t) == \E url \in Urls : FetchFrom(t, url)

\* Mutant: only fonts that loaded are remembered.
FontSucceeded(url) == loaded[url] \notin {None, Failed}

FontKnown(url) == loaded[url] # None

\* NetworkFontFaceLoader::load keeps the mutex across its fetch.
LoadFont(t) ==
  /\ Begin(t) /\ holder = None
  /\ \E url \in Urls :
       IF FontKnown(url) THEN UNCHANGED <<fetch, loaded, holder>>
       ELSE IF Denied(url)
         THEN loaded' = [loaded EXCEPT ![url] = Failed] /\ UNCHANGED <<fetch, holder>>
         ELSE Send(t, "font", GetRequest(url)) /\ holder' = t /\ UNCHANGED loaded
  /\ UNCHANGED <<policy, used, delivered>>

\* The provider answers with a body, with a type the policy takes or not; the
\* adapter checks its size and type and charges the aggregate budget.
ReceiveBody(t) ==
  /\ fetch[t] # None
  /\ \E bytes \in Sizes, typed \in BOOLEAN :
       LET checked == bytes <= ByteLimit /\ (typed \/ policy = None)
           fits    == checked /\ used + bytes <= Limit
       IN  IF fetch[t].via = "plain" THEN Finish(t, bytes) /\ UNCHANGED <<used, delivered>>
           ELSE /\ used' = IF checked THEN Charged(bytes) ELSE used
                /\ delivered' = IF fits THEN delivered + bytes ELSE delivered
                /\ Finish(t, IF fits THEN bytes ELSE Failed)
  /\ UNCHANGED <<policy, calls>>

\* The provider redirects, which only HTTP servers do, and policy may refuse a
\* redirect for reasons of its own.
ReceiveRedirect(t) ==
  /\ fetch[t] # None
  /\ \E to \in Urls, status \in {301, 303, 307}, allowed \in BOOLEAN :
       LET f       == fetch[t]
           checked == f.via # "plain"
           stops   == IF checked
                      THEN TooManyHops(f.hop) \/ Denied(to) \/ (policy # None /\ ~allowed)
                      ELSE f.hop >= MaxAutoHops
       IN  /\ f.current.url.scheme \in {"http", "https"}
           /\ IF Refused(f.current, to, status) \/ stops THEN Finish(t, Failed)
              ELSE /\ fetch' = [fetch EXCEPT ![t] = Follow(f, to, status)]
                   /\ UNCHANGED <<loaded, holder>>
  /\ UNCHANGED <<policy, used, delivered, calls>>

\* The provider reports an error.
ProviderFails(t) ==
  /\ fetch[t] # None /\ Finish(t, Failed)
  /\ UNCHANGED <<policy, used, delivered, calls>>

\* The provider panics: the mutex is unlocked, nothing is inserted, and later
\* calls ignore the poison.
ProviderPanics(t) ==
  /\ fetch[t] # None
  /\ fetch' = [fetch EXCEPT ![t] = None]
  /\ holder' = IF fetch[t].via = "font" THEN None ELSE holder
  /\ UNCHANGED <<policy, used, loaded, delivered, calls>>

Step(t) ==
  \/ FetchPlainly(t) \/ FetchResource(t) \/ LoadFont(t)
  \/ ReceiveBody(t) \/ ReceiveRedirect(t) \/ ProviderFails(t) \/ ProviderPanics(t)

Next == \E t \in Threads : Step(t)

Spec == Init /\ [][Next]_vars

----------------------------------------------------------------------------
(* Properties. *)

Fetches == [via : {"plain", "adapter", "font"}, asked : Requests, current : Requests,
            hop : Nat]

TypeOK ==
  /\ policy \in Policies \cup {None}
  /\ fetch \in [Threads -> Fetches \cup {None}]
  /\ used \in 0..Limit /\ delivered \in Nat /\ calls \in 0..MaxCalls
  /\ loaded \in [Urls -> Sizes \cup {None, Failed}]
  /\ holder \in Threads \cup {None}

\* Whatever chain of redirects a server makes, every request that leaves the
\* adapter goes where the policy allows, within the policy's cap on redirects
\* or, without a policy, the provider's own.
PolicyObeyed ==
  \A t \in Threads : fetch[t] # None =>
    /\ fetch[t].via # "plain" /\ policy # None =>
         fetch[t].current.url \in policy.allowed /\ fetch[t].hop <= policy.hops
    /\ fetch[t].via = "plain" \/ policy = None => fetch[t].hop <= MaxAutoHops

\* Along a chain, credentials and a body reach only the origin the caller
\* named, and a request that began on https is not sent over http.
StaysWithOrigin ==
  \A t \in Threads : fetch[t] # None =>
    LET asked == fetch[t].asked  current == fetch[t].current IN
    /\ current.credentials \/ current.body => asked = current \/ SameOrigin(asked.url, current.url)
    /\ ~Downgrades(asked.url, current.url)

\* Threads that share the aggregate budget are charged what they were given
\* and nothing else, within the limit.
BudgetCharged == used = delivered /\ used <= Limit

\* A font is fetched by one thread at a time, and no more once its outcome,
\* a failure too, is known.
FontFetchedOnce ==
  \A t \in Threads : fetch[t] # None /\ fetch[t].via = "font" =>
    holder = t /\ loaded[fetch[t].asked.url] = None
=============================================================================
