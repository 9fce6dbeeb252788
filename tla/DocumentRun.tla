---------------------------- MODULE DocumentRun ----------------------------
(***************************************************************************)
(* DomRuntime::run_document (raikiri-js, runtime/scripts.rs): the classic  *)
(* scripts of a parsed document in tree order, the scripts document.write  *)
(* inserts while they run, then DOMContentLoaded, the event loop, load and *)
(* the event loop again, until a limit stops the run.                      *)
(*                                                                         *)
(* Scripts, listeners and the event loop are calls of RuntimeCalls.  The   *)
(* tree is the list of the script elements in document order, all children *)
(* of one parent; scripts do not move them.                                *)
(***************************************************************************)
EXTENDS RuntimeCalls, Integers, SequencesExt

CONSTANTS
  Parsed,    \* script elements in the parsed document
  MaxWritten \* bound: script elements document.write inserts

ASSUME CountsAssumption == Parsed \in Nat /\ MaxWritten \in Nat

VARIABLES
  stage,    \* where run() is
  part,     \* what the script at hand is doing
  document, \* State::host: the script elements in document order
  left,     \* the elements collected up front that were not yet executed
  pending,  \* execute_script: the stack of scripts to run
  written,  \* State::written_scripts
  point,    \* State::write_point: the boundary writes go in front of
  current,  \* State::current_script
  reached,  \* the scripts execute_script has come to
  ready,    \* State::ready_state
  report    \* RunReport::aborted, or NoReport before run() began

script == <<part, left, pending, written, point, current, reached>>
documentVars == <<calls, stage, script, document, ready, report>>

NoScript == 0
NoPoint == -1
AtEnd == 0
NoReport == "no report"

ASSUME LimitsAssumption == Limits \cap (Successes \cup {Unlimited, NoReport}) = {}

IndexOf(s) == CHOOSE i \in DOMAIN document : document[i] = s

\* WritePoint::after: the node that follows the script when it starts.
PointAfter(s) ==
  IF IndexOf(s) = Len(document) THEN AtEnd ELSE document[IndexOf(s) + 1]

\* with_state refuses to touch the state of a stopped runtime.
IfActive(x, y) == IF aborted = Unlimited THEN x ELSE y

----------------------------------------------------------------------------
DocumentInit ==
  /\ busy = FALSE /\ aborted \in Limits \cup {Unlimited} /\ result = "ok"
  /\ stage = "idle" /\ part = "none"
  /\ document = [i \in 1..Parsed |-> i] /\ left = <<>>
  /\ pending = <<>> /\ written = <<>> /\ point = NoPoint /\ current = NoScript
  /\ reached = {} /\ ready = "complete" /\ report = NoReport

\* The report starts from a limit an earlier evaluation met.
Start ==
  /\ stage = "idle"
  /\ stage' = "images" /\ report' = aborted /\ ready' = IfActive("loading", ready)
  /\ UNCHANGED <<calls, script, document>>

\* Event handler attributes are compiled and image requests started; the
\* node or work limit can stop the run here.
SyncParsed ==
  /\ stage = "images"
  /\ aborted' \in IF report = Unlimited THEN Limits \cup {Unlimited} ELSE {aborted}
  /\ report' = IF report = Unlimited THEN aborted' ELSE report
  /\ stage' = "scripts"
  /\ left' = IF aborted' = Unlimited THEN document ELSE <<>>
  /\ UNCHANGED <<busy, result, part, pending, written, point, current, reached,
                 document, ready>>

----------------------------------------------------------------------------
(* execute_script: a parsed script and the scripts it writes. *)

AtScripts == stage = "scripts" /\ ~busy /\ part = "none"

\* The loop over the collected elements.
NextElement ==
  /\ AtScripts /\ pending = <<>> /\ left # <<>> /\ aborted = Unlimited
  /\ pending' = <<Head(left)>> /\ left' = Tail(left)
  /\ UNCHANGED <<calls, stage, part, written, point, current, reached, document,
                 ready, report>>

\* The script on top of the stack: not classic, inline, or external with a
\* fetch that succeeds or fails, which leaves it only its error event.
NextScript ==
  /\ AtScripts /\ pending # <<>> /\ aborted = Unlimited
  /\ LET s == Last(pending)
     IN  /\ reached' = reached \cup {s}
         /\ part' \in {"other", "inline", "external", "error"}
         /\ IF part' = "other"
            THEN UNCHANGED <<busy, aborted, result, point, current>>
            ELSE /\ Call
                 /\ point' = PointAfter(s)
                 /\ current' = IF part' = "error" THEN NoScript ELSE s
  /\ pending' = Front(pending)
  /\ UNCHANGED <<stage, left, written, document, ready, report>>

\* document.write of a script: in front of the boundary, or at the end.
Write ==
  /\ busy /\ aborted = Unlimited /\ point # NoPoint
  /\ Len(document) < Parsed + MaxWritten
  /\ LET new == Len(document) + 1
     IN  /\ document' = InsertAt(document,
                          IF point = AtEnd THEN new ELSE IndexOf(point), new)
         /\ written' = Append(written, new)
  /\ UNCHANGED <<calls, stage, part, left, pending, point, current, reached,
                 ready, report>>

\* leave_script, which a stopped runtime does not carry out.
PointLeft == IfActive(NoPoint, point)

\* Mutant: scripts are queued behind those that were written earlier.
PendingBehind == Reverse(written) \o pending

\* Written scripts go on the stack in reverse.
PendingWithWritten == pending \o Reverse(written)

\* run_one and what follows it in execute_script.
LeaveScript ==
  /\ part' = "none" /\ point' = PointLeft /\ current' = IfActive(NoScript, current)
  /\ IF aborted = Unlimited
     THEN pending' = PendingWithWritten /\ written' = <<>>
     ELSE UNCHANGED <<pending, written>>

\* Mutant: a limit met by a script is not recorded.
ReportUnchanged(outcome) == report

\* An entry point that fails puts its reason into the report.
ReportOf(outcome) == IF outcome \in Successes THEN report ELSE outcome

\* A script or its event returns.  The load event follows an external script
\* that was evaluated, with the insertion point still in place.
EndOfPart ==
  /\ stage = "scripts" /\ busy /\ Finish
  /\ report' = ReportOf(result')
  /\ IF part = "external" /\ result' \in Successes
     THEN /\ part' = "load event" /\ current' = NoScript
          /\ UNCHANGED <<pending, written, point>>
     ELSE LeaveScript
  /\ UNCHANGED <<stage, left, reached, document, ready>>

FireScriptLoad ==
  /\ part = "load event" /\ ~busy
  /\ Call /\ part' = "load"
  /\ UNCHANGED <<stage, left, pending, written, point, current, reached, document,
                 ready, report>>

SkipOther ==
  /\ part = "other" /\ LeaveScript
  /\ UNCHANGED <<calls, stage, left, reached, document, ready, report>>

----------------------------------------------------------------------------
(* The document's own events. *)

\* The call a stage makes and the one that follows; DOMContentLoaded and load
\* are fired after the state they announce was set.
Follows == [scripts |-> "DOMContentLoaded", DOMContentLoaded |-> "drain",
            drain |-> "load", load |-> "last drain"]

Announced == [scripts |-> "interactive", DOMContentLoaded |-> ready,
              drain |-> "complete", load |-> ready]

StageEnded ==
  /\ ~busy /\ stage \in DOMAIN Follows
  /\ stage = "scripts" =>
       part = "none" /\ (aborted # Unlimited \/ (left = <<>> /\ pending = <<>>))

\* Mutant: only the runtime's own flag is looked at, before the stage runs.
MayGoOnAlways == TRUE

\* Each stage runs only while the report names no limit.
MayGoOn == report = Unlimited

NextStage ==
  /\ StageEnded
  /\ IF MayGoOn
     THEN Call /\ stage' = Follows[stage] /\ ready' = Announced[stage]
     ELSE stage' = "done" /\ UNCHANGED <<calls, ready>>
  /\ UNCHANGED <<script, document, report>>

EndOfStage ==
  /\ busy /\ stage \in {"DOMContentLoaded", "drain", "load", "last drain"}
  /\ Finish /\ report' = ReportOf(result')
  /\ stage' = IF stage = "last drain" THEN "done" ELSE stage
  /\ UNCHANGED <<script, document, ready>>

\* A limit met by the script, listener or task that runs.
Stop ==
  /\ busy /\ aborted = Unlimited
  /\ aborted' \in Limits
  /\ UNCHANGED <<busy, result, stage, script, document, ready, report>>

\* run_document again, or any evaluation, after the run.
Done == stage = "done" /\ UNCHANGED documentVars

Step ==
  \/ Start \/ SyncParsed \/ NextElement \/ NextScript \/ EndOfPart
  \/ FireScriptLoad \/ SkipOther \/ NextStage \/ EndOfStage

DocumentNext == Step \/ Write \/ Stop \/ Done

\* Every call returns, and run() goes on after it.
DocumentSpec == DocumentInit /\ [][DocumentNext]_documentVars /\ WF_documentVars(Step)

----------------------------------------------------------------------------
(* Properties. *)

Scripts == 1..(Parsed + MaxWritten)

\* Every variable has its type.
TypeOK ==
  /\ busy \in BOOLEAN /\ aborted \in Limits \cup {Unlimited}
  /\ result \in Limits \cup Successes
  /\ stage \in {"idle", "images", "scripts", "DOMContentLoaded", "drain", "load",
                "last drain", "done"}
  /\ part \in {"none", "other", "inline", "external", "error", "load event", "load"}
  /\ document \in Seq(Scripts) /\ left \in Seq(Scripts)
  /\ pending \in Seq(Scripts) /\ written \in Seq(Scripts)
  /\ point \in Scripts \cup {NoPoint, AtEnd} /\ current \in Scripts \cup {NoScript}
  /\ reached \subseteq Scripts
  /\ ready \in {"loading", "interactive", "complete"}
  /\ report \in Limits \cup {Unlimited, NoReport}

\* Scripts are reached in document order, those written by other scripts
\* included: no script runs before one that stands in front of it, and outside
\* parser scripts, from events or the event loop, none is written.
RunsInDocumentOrder ==
  /\ TypeOK
  /\ stage # "scripts" /\ aborted = Unlimited => point = NoPoint /\ current = NoScript
  /\ \A i, j \in DOMAIN document :
       i < j /\ document[j] \in reached => document[i] \in reached

\* The report names the limit that stopped the runtime, whichever script,
\* listener or task met it, and only such a one.
ReportTellsAbort == stage = "done" => report = aborted

\* The load event waits for every script of the document, and is not fired
\* once a limit was met.
LoadComesLast ==
  [][stage' = "load" /\ stage # "load" =>
       /\ aborted = Unlimited
       /\ {document[i] : i \in DOMAIN document} \subseteq reached]_documentVars
=============================================================================
