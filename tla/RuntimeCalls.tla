---------------------------- MODULE RuntimeCalls ----------------------------
(***************************************************************************)
(* What the script runtime promises whoever calls one of its entry points: *)
(* evaluating a script, dispatching a trusted event, running until idle.   *)
(* A call runs script, which may meet a limit.  The first limit stops the  *)
(* runtime for good, and every call that returns after it says so.         *)
(***************************************************************************)

CONSTANT Limits \* the reasons a limit gives for stopping the runtime

VARIABLES
  busy,    \* a call is under way
  aborted, \* the limit that stopped the runtime, or Unlimited
  result   \* what the last call returned

calls == <<busy, aborted, result>>

Unlimited == "none"
Successes == {"ok", "idle"}

CallsInit == busy = FALSE /\ aborted = Unlimited /\ result = "ok"

\* A stopped runtime refuses every call.
Call ==
  /\ ~busy
  /\ IF aborted = Unlimited THEN busy' = TRUE /\ UNCHANGED <<aborted, result>>
                            ELSE result' = aborted /\ UNCHANGED <<busy, aborted>>

\* Script meets a limit, which the call reports at once or when it returns.
MeetLimit ==
  /\ busy /\ aborted = Unlimited
  /\ aborted' \in Limits
  /\ \/ UNCHANGED <<busy, result>>
     \/ busy' = FALSE /\ result' = aborted'

\* The call returns, with success only if no limit was met.
Finish ==
  /\ busy /\ busy' = FALSE
  /\ result' \in IF aborted = Unlimited THEN Successes ELSE {aborted}
  /\ UNCHANGED aborted

CallsNext == Call \/ MeetLimit \/ Finish

\* Every call returns.
CallsSpec == CallsInit /\ [][CallsNext]_calls /\ WF_calls(Finish)
=============================================================================
