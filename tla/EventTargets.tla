---------------------------- MODULE EventTargets ----------------------------
(***************************************************************************)
(* What scripts may rely on when they register listeners (DOM 2.7, as the  *)
(* documentation of runtime/events.rs states it): a target has a set of    *)
(* registrations; what is called is a registration the target has at that  *)
(* moment, and a `once` registration is gone before it is called.          *)
(***************************************************************************)
EXTENDS Naturals, Sequences

CONSTANTS Nodes, Callbacks, Registrations, NoCall

VARIABLES
  registered, \* the registrations of each target
  calls       \* the registration each nested dispatch is calling

vars == <<registered, calls>>

Init ==
  /\ registered = [n \in Nodes |-> {}]
  /\ calls = <<>>

SameListener(r, s) ==
  /\ r.kind = s.kind /\ r.capture = s.capture /\ r.handler = s.handler
  /\ r.handler \/ r.callback = s.callback

Has(n, r) == \E s \in registered[n] : SameListener(r, s)

\* Scripts run between the dispatches and inside the listener called last.
ScriptRuns == calls # <<>> => calls[Len(calls)] # NoCall

Register(n, r) ==
  /\ ScriptRuns /\ ~Has(n, r)
  /\ \A m \in Nodes : \A s \in registered[m] : s.id # r.id
  /\ registered' = [registered EXCEPT ![n] = @ \cup {r}]
  /\ UNCHANGED calls

Unregister(n, r) ==
  /\ ScriptRuns /\ r \in registered[n]
  /\ registered' = [registered EXCEPT ![n] = @ \ {r}]
  /\ UNCHANGED calls

\* An event handler attribute keeps its place when it is assigned again.
Reassign(n, r, callback) ==
  /\ ScriptRuns /\ r \in registered[n] /\ r.handler
  /\ registered' = [registered EXCEPT
       ![n] = (@ \ {r}) \cup {[r EXCEPT !.callback = callback]}]
  /\ UNCHANGED calls

Enter ==
  /\ calls' = Append(calls, NoCall)
  /\ UNCHANGED registered

Start(n, r) ==
  /\ calls # <<>> /\ ~ScriptRuns
  /\ r \in registered[n]
  /\ calls' = [calls EXCEPT ![Len(calls)] = r]
  /\ registered' = IF r.once THEN [registered EXCEPT ![n] = @ \ {r}]
                             ELSE registered

End ==
  /\ calls # <<>> /\ ScriptRuns
  /\ calls' = [calls EXCEPT ![Len(calls)] = NoCall]
  /\ UNCHANGED registered

\* The listener returns or throws; a dispatch of its exception may begin at once.
EndAndEnter ==
  /\ calls # <<>> /\ ScriptRuns
  /\ calls' = Append([calls EXCEPT ![Len(calls)] = NoCall], NoCall)
  /\ UNCHANGED registered

Leave ==
  /\ calls # <<>>
  /\ calls' = SubSeq(calls, 1, Len(calls) - 1)
  /\ UNCHANGED registered

Next ==
  \/ Enter \/ End \/ EndAndEnter \/ Leave
  \/ \E n \in Nodes : \E r \in registered[n] :
       \/ Start(n, r)
       \/ Unregister(n, r)
       \/ \E c \in Callbacks : Reassign(n, r, c)
  \/ \E n \in Nodes, r \in Registrations : Register(n, r)

Spec == Init /\ [][Next]_vars
=============================================================================
