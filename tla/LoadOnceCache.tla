---------------------------- MODULE LoadOnceCache ----------------------------
(***************************************************************************)
(* What the image source cache promises its callers (image_resolver.rs,    *)
(* the documentation of ImageResolver): a URL is filled at most once and   *)
(* keeps its source for ever, every load of it that returns a source       *)
(* returns that one, and a load fails only while its URL is not filled or  *)
(* after the cache broke.                                                  *)
(***************************************************************************)
CONSTANTS Threads, Urls, Sources, None, Failed, Pending

VARIABLES
  view,    \* the source each URL answers with, or None
  req,     \* the URL each thread last asked for
  reply,   \* what each thread was told, or Pending
  broken   \* the cache answers no more misses

vars == <<view, req, reply, broken>>

Init ==
  /\ view = [u \in Urls |-> None]
  /\ req = [t \in Threads |-> None]
  /\ reply = [t \in Threads |-> None]
  /\ broken = FALSE

Answer(t, value) == reply' = [reply EXCEPT ![t] = value]

Begin(t, u) ==
  /\ reply[t] # Pending
  /\ req' = [req EXCEPT ![t] = u]
  /\ Answer(t, Pending)
  /\ UNCHANGED <<view, broken>>

Hit(t) ==
  /\ reply[t] = Pending
  /\ view[req[t]] # None
  /\ Answer(t, view[req[t]])
  /\ UNCHANGED <<view, req, broken>>

\* One load fills its own URL, and possibly aliases of it, with a new source.
Fill(t, aliases, source) ==
  /\ reply[t] = Pending /\ ~broken
  /\ req[t] \in aliases
  /\ \A u \in aliases : view[u] = None
  /\ \A u \in Urls : view[u] # source
  /\ view' = [u \in Urls |-> IF u \in aliases THEN source ELSE view[u]]
  /\ Answer(t, source)
  /\ UNCHANGED <<req, broken>>

Fail(t) ==
  /\ reply[t] = Pending
  /\ broken \/ view[req[t]] = None
  /\ Answer(t, Failed)
  /\ UNCHANGED <<view, req, broken>>

Break ==
  /\ broken' = TRUE
  /\ UNCHANGED <<view, req, reply>>

Next ==
  \/ \E t \in Threads :
       \/ \E u \in Urls : Begin(t, u)
       \/ Hit(t)
       \/ \E aliases \in SUBSET Urls, source \in Sources : Fill(t, aliases, source)
       \/ Fail(t)
  \/ Break

Spec == Init /\ [][Next]_vars
=============================================================================
