----------------------------- MODULE EventLoop -----------------------------
(***************************************************************************)
(* The virtual-time event loop of a page's script runtime                  *)
(* (raikiri-js, runtime/event_loop.rs) with the host entry points that     *)
(* drive it: DomRuntime::evaluate, a trusted event, and                    *)
(* DomRuntime::run_until_idle.                                             *)
(*                                                                         *)
(* `loop' is the EventLoop struct.  The rest is the control of the one     *)
(* thread: where it is (pc), where a microtask checkpoint returns to       *)
(* (after) and the locals of run_until_idle and run_animation_frame.  A    *)
(* script is any sequence of calls of the bindings; it ends by returning   *)
(* (an exception it throws is reported to listeners, which are more of the *)
(* same) or by meeting an engine limit.  A microtask has no identity: the  *)
(* queue is its length.                                                    *)
(***************************************************************************)
EXTENDS Integers, FiniteSets

CONSTANTS
  MaxVirtualTime, \* Limits::max_virtual_time_ms
  MaxTasks,       \* Limits::max_tasks
  MaxEnqueued,    \* Limits::max_enqueued_jobs
  NestedLevels,   \* 5: timers nested deeper than this are clamped
  NestedTimeout,  \* 4 ms: what they are clamped to
  FrameMs,        \* 16 ms: the distance of two animation frames
  MaxFixups,      \* MAX_IDLE_FOCUS_FIXUPS
  MaxTimerId,     \* i32::MAX: timer ids saturate there
  Timeouts,       \* the timeouts scripts pass to setTimeout and setInterval
  Delays          \* the delays of native jobs

ASSUME LimitsAssumption ==
  /\ {MaxVirtualTime, MaxTasks, MaxEnqueued, NestedLevels, MaxFixups,
      MaxTimerId} \subseteq Nat
  /\ NestedTimeout \in Nat \ {0} /\ FrameMs \in Nat \ {0}
  /\ Timeouts \subseteq Int /\ Delays \subseteq Nat

\* Ids saturate at i32::MAX; the registration limit keeps a run below it.
ASSUME IdsAssumption == MaxEnqueued < MaxTimerId

VARIABLES
  loop,     \* the EventLoop struct
  pc,       \* where the thread is
  after,    \* where the microtask checkpoint under way returns to
  task,     \* the task taken last
  frameEnd, \* run_animation_frame: the first handle of the next frame
  settled,  \* run_until_idle: nothing ran since focus was found settled
  fixups,   \* run_until_idle: focus fixups made since it began
  result    \* what the last entry point returned

locals == <<task, frameEnd, settled, fixups>>
vars == <<loop, pc, after, locals, result>>

NoAbort == "none"
EngineLimits == {"LoopIterations", "Recursion", "SelectorWork", "Nodes"}
Reasons == {"VirtualTime", "Tasks", "EnqueuedJobs"} \cup EngineLimits

\* Where script runs, and where the runtime itself is at work.
Scripts == {"evaluate", "event", "stringify", "microtask", "timer", "frame",
            "native", "fixup"}
Returns == {"host", "stringify", "next", "rearm", "callbacks"}

----------------------------------------------------------------------------
(* EventLoop: queues, limits, abort. *)

Before(q, r) == q.due < r.due \/ (q.due = r.due /\ q.seq < r.seq)

\* Mutant: among equal due times the latest registration is first.
EarliestLifo(Q) ==
  CHOOSE q \in Q : \A r \in Q : r.due >= q.due /\ (r.due = q.due => r.seq <= q.seq)

Earliest(Q) == CHOOSE q \in Q : \A r \in Q : q = r \/ Before(q, r)

NewLoop ==
  [now |-> 0, nextSeq |-> 0, tasks |-> {}, microtasks |-> 0, timers |-> {},
   nextTimer |-> 1, frames |-> {}, nextFrame |-> 1, frameScheduled |-> FALSE,
   cancellable |-> {}, nextCancellable |-> 0, nesting |-> 0, jobsRun |-> 0,
   jobsEnqueued |-> 0, aborted |-> NoAbort]

\* Mutant: the timers survive an abort.
AbortKeepingTimers(l, reason) ==
  [l EXCEPT !.tasks = {}, !.microtasks = 0, !.frames = {}, !.cancellable = {},
            !.frameScheduled = FALSE, !.nesting = 0,
            !.aborted = IF @ = NoAbort THEN reason ELSE @]

\* Every queue is discarded; the first reason stays on record.
Abort(l, reason) ==
  [l EXCEPT !.tasks = {}, !.microtasks = 0, !.timers = {}, !.frames = {},
            !.cancellable = {}, !.frameScheduled = FALSE, !.nesting = 0,
            !.aborted = IF @ = NoAbort THEN reason ELSE @]

Full(l) == l.jobsEnqueued >= MaxEnqueued

Reserve(l) == [l EXCEPT !.jobsEnqueued = @ + 1]

QueueMicrotask(l) == [Reserve(l) EXCEPT !.microtasks = @ + 1]

PushTask(l, delay, kind, id, nesting) ==
  [l EXCEPT !.tasks = @ \cup {[due |-> l.now + delay, seq |-> l.nextSeq,
                               kind |-> kind, id |-> id, nesting |-> nesting]},
            !.nextSeq = @ + 1]

QueueTask(l, delay) == PushTask(Reserve(l), delay, "native", 0, 0)

\* The wait of a timer: never negative, and at least NestedTimeout for one
\* set more than NestedLevels timers deep.
TimerDelay(l, timeout) ==
  LET wait == IF timeout < 0 THEN 0 ELSE timeout
  IN  IF l.nesting > NestedLevels /\ wait < NestedTimeout
      THEN NestedTimeout ELSE wait

ScheduleTimer(l, id, timeout) ==
  PushTask(l, TimerDelay(l, timeout), "timer", id, l.nesting + 1)

TimerIds(l) == {t.id : t \in l.timers}

RemoveTimer(l, id) == [l EXCEPT !.timers = {t \in @ : t.id # id}]

\* A task whose timer or token is gone is skipped without counting.
Live(l) ==
  {q \in l.tasks : /\ q.kind = "timer" => q.id \in TimerIds(l)
                   /\ q.kind = "cancellable" => q.id \in l.cancellable}

\* Popping up to the first live task drops the cancelled ones before it.
Skip(l) ==
  [l EXCEPT !.tasks = {q \in @ : q \in Live(l) \/ \E r \in Live(l) : Before(r, q)}]

Take(l, q) ==
  [l EXCEPT !.tasks = @ \ {q}, !.now = IF q.due > @ THEN q.due ELSE @,
            !.jobsRun = @ + 1]

----------------------------------------------------------------------------
(* Results of the entry points and of the calls they make. *)

Goto(place) == pc' = place /\ UNCHANGED <<after, result>>

Checkpoint(return) == pc' = "checkpoint" /\ after' = return /\ UNCHANGED result

\* An entry point returns `what' to the embedder.
ReturnToHost(what) == pc' = "host" /\ result' = what /\ UNCHANGED after

\* `?': every call on the way returns the reason on record.
Fail(l) == loop' = l /\ ReturnToHost(l.aborted) /\ UNCHANGED locals

Running == pc \in Scripts /\ loop.aborted = NoAbort

\* A binding that registers a job: past the limit, the run is aborted and
\* the error it throws cannot be caught, so the script ends.
Register(l) ==
  /\ Running
  /\ IF Full(loop)
     THEN Fail(Abort(loop, "EnqueuedJobs"))
     ELSE loop' = l /\ UNCHANGED <<pc, after, locals, result>>

----------------------------------------------------------------------------
(* What a running script can do. *)

\* setTimeout and setInterval.
SetTimer ==
  \E timeout \in Timeouts, repeat \in BOOLEAN :
    LET id == loop.nextTimer
        l  == [Reserve(loop) EXCEPT
                 !.nextTimer = IF @ < MaxTimerId THEN @ + 1 ELSE @,
                 !.timers = {t \in @ : t.id # id}
                   \cup {[id |-> id, timeout |-> timeout, repeat |-> repeat]}]
    IN  Register(ScheduleTimer(l, id, timeout))

ClearTimer ==
  /\ Running
  /\ \E id \in TimerIds(loop) : loop' = RemoveTimer(loop, id)
  /\ UNCHANGED <<pc, after, locals, result>>

\* Mutant: only the first callback of a page queues a frame.
FrameTaskOnce(l) ==
  LET next == (l.now \div FrameMs + 1) * FrameMs
  IN  IF l.nextFrame > 2 THEN l
      ELSE PushTask([l EXCEPT !.frameScheduled = TRUE], next - l.now,
                    "frame", 0, 0)

\* One task per frame, at the next boundary of the virtual clock.
FrameTask(l) ==
  LET next == (l.now \div FrameMs + 1) * FrameMs
  IN  IF l.frameScheduled THEN l
      ELSE PushTask([l EXCEPT !.frameScheduled = TRUE], next - l.now,
                    "frame", 0, 0)

RequestAnimationFrame ==
  Register(FrameTask([Reserve(loop) EXCEPT !.nextFrame = @ + 1,
                                           !.frames = @ \cup {loop.nextFrame}]))

\* The frame task stays queued although no callback may be left.
CancelAnimationFrame ==
  /\ Running
  /\ \E h \in loop.frames : loop' = [loop EXCEPT !.frames = @ \ {h}]
  /\ UNCHANGED <<pc, after, locals, result>>

QueueMicrotaskCall == Register(QueueMicrotask(loop))

\* A promise job or a Boa timeout job: the enqueue hook returns nothing, so
\* past the limit the run is aborted while the script goes on.
EnqueueJob ==
  /\ Running
  /\ loop' \in IF Full(loop) THEN {Abort(loop, "EnqueuedJobs")}
               ELSE {QueueMicrotask(loop)} \cup {QueueTask(loop, d) : d \in Delays}
  /\ UNCHANGED <<pc, after, locals, result>>

QueueNativeTask == Delays # {} /\ Register(QueueTask(loop, 0))

QueueCancellableNativeTask ==
  \E delay \in Delays :
    LET token == loop.nextCancellable
    IN  Register(PushTask([Reserve(loop) EXCEPT
                             !.nextCancellable = @ + 1,
                             !.cancellable = @ \cup {token}],
                          delay, "cancellable", token, 0))

CancelNativeTask ==
  /\ Running
  /\ \E token \in loop.cancellable :
       loop' = [loop EXCEPT !.cancellable = @ \ {token}]
  /\ UNCHANGED <<pc, after, locals, result>>

\* An engine limit ends the script; it cannot be caught.
MeetEngineLimit ==
  pc \in Scripts /\ \E reason \in EngineLimits : Fail(Abort(loop, reason))

Binding ==
  \/ SetTimer \/ ClearTimer \/ RequestAnimationFrame \/ CancelAnimationFrame
  \/ QueueMicrotaskCall \/ EnqueueJob \/ QueueNativeTask
  \/ QueueCancellableNativeTask \/ CancelNativeTask \/ MeetEngineLimit

----------------------------------------------------------------------------
(* What follows a script. *)

\* Mutant: settle looks only at the result of the callback, not at an abort
\* the enqueue hook could not report.
SettleResultOnly(l) == FALSE

\* settle reports the abort of a script that returned normally.
SettleFails(l) == l.aborted # NoAbort

\* Where the checkpoint after a script may return to.  evaluate turns an
\* uncaught value into a message after its checkpoint, which runs toString.
AfterScript(script) ==
  CASE script = "evaluate" -> {"host", "stringify"}
    [] script = "timer"    -> {"rearm"}
    [] script = "frame"    -> {"callbacks"}
    [] script = "native"   -> {"next"}
    [] OTHER               -> {after}

\* A script ends.  No checkpoint follows the listeners of an event or the
\* toString of a thrown value.
ScriptReturns ==
  /\ pc \in Scripts
  /\ UNCHANGED <<loop, locals>>
  /\ \/ SettleFails(loop) /\ ReturnToHost(loop.aborted)
     \/ /\ ~SettleFails(loop)
        /\ IF pc \in {"event", "stringify"} THEN ReturnToHost("ok")
           ELSE \E return \in AfterScript(pc) : Checkpoint(return)

\* next_microtask.
CheckpointRuns ==
  /\ pc = "checkpoint" /\ loop.microtasks > 0
  /\ IF loop.jobsRun >= MaxTasks
     THEN Fail(Abort(loop, "Tasks"))
     ELSE /\ loop' = [loop EXCEPT !.microtasks = @ - 1, !.jobsRun = @ + 1]
          /\ Goto("microtask") /\ UNCHANGED locals

CheckpointEnds ==
  /\ pc = "checkpoint" /\ loop.microtasks = 0
  /\ IF after = "host" THEN ReturnToHost("ok") ELSE Goto(after)
  /\ UNCHANGED <<loop, locals>>

----------------------------------------------------------------------------
(* Entry points of the embedder. *)

\* DomRuntime::evaluate, or a trusted event with its listeners.
StartScript ==
  /\ pc = "host"
  /\ IF loop.aborted = NoAbort
     THEN \E script \in {"evaluate", "event"} : Goto(script)
     ELSE ReturnToHost(loop.aborted)
  /\ UNCHANGED <<loop, locals>>

\* The loop starts with a checkpoint.
StartOfRun(return) == Checkpoint(return)

StartRun ==
  /\ pc = "host"
  /\ IF loop.aborted = NoAbort
     THEN /\ StartOfRun("next")
          /\ settled' = FALSE /\ fixups' = 0 /\ UNCHANGED <<task, frameEnd>>
     ELSE ReturnToHost(loop.aborted) /\ UNCHANGED locals
  /\ UNCHANGED loop

----------------------------------------------------------------------------
(* run_until_idle: one task after another. *)

\* A callback the frame's callbacks register needs a frame of its own.
FrameStarts(l) == [l EXCEPT !.frameScheduled = FALSE]

TakeJob(l, token) == [l EXCEPT !.cancellable = @ \ {token}]

\* The steps of the task q up to the first script it runs.
Begin(q, l) ==
  CASE q.kind = "timer" ->
         loop' = [l EXCEPT !.nesting = q.nesting] /\ Goto("timer") /\ UNCHANGED frameEnd
    [] q.kind = "frame" ->
         /\ loop' = FrameStarts(l)
         /\ Goto("callbacks") /\ frameEnd' = l.nextFrame
    [] q.kind = "cancellable" ->
         /\ loop' = TakeJob(l, q.id)
         /\ Goto("native") /\ UNCHANGED frameEnd
    [] OTHER -> loop' = l /\ Goto("native") /\ UNCHANGED frameEnd

PastHorizon(q) == q.due > MaxVirtualTime

NextTask ==
  /\ pc = "next" /\ Live(loop) # {}
  /\ LET q == Earliest(Live(loop))
         l == Skip(loop)
     IN  CASE PastHorizon(q)              -> Fail(Abort(l, "VirtualTime"))
           [] ~PastHorizon(q) /\ l.jobsRun >= MaxTasks -> Fail(Abort(l, "Tasks"))
           [] OTHER -> /\ Begin(q, Take(l, q)) /\ task' = q
                       /\ UNCHANGED <<settled, fixups>>

Repeats(id) == {t \in loop.timers : t.id = id /\ t.repeat}

\* Mutant: a repetition is not charged.
RearmUncharged(l, t) == ScheduleTimer(l, t.id, t.timeout)

\* Every repetition is a registration of its own.
Rearm(l, t) == ScheduleTimer(Reserve(l), t.id, t.timeout)

\* Mutant: a timer that ended leaves its nesting level behind.
TimerEndsNested(l) == l

TimerEnds(l) == [l EXCEPT !.nesting = 0]

\* The end of run_timer, after the checkpoint that still belongs to it.
EndTimer ==
  /\ pc = "rearm"
  /\ IF Repeats(task.id) # {} /\ Full(loop)
     THEN Fail(Abort(loop, "EnqueuedJobs"))
     ELSE /\ loop' = TimerEnds(
                IF Repeats(task.id) # {}
                THEN Rearm(loop, CHOOSE t \in Repeats(task.id) : TRUE)
                ELSE RemoveTimer(loop, task.id))
          /\ Checkpoint("next") /\ UNCHANGED locals

\* The callbacks registered before the frame that were not cancelled.
CallbacksOfFrame == {h \in loop.frames : h < frameEnd}

NextCallback ==
  /\ pc = "callbacks" /\ CallbacksOfFrame # {}
  /\ LET first == CHOOSE h \in CallbacksOfFrame : \A k \in CallbacksOfFrame : h <= k
     IN  loop' = [loop EXCEPT !.frames = @ \ {first}]
  /\ Goto("frame") /\ UNCHANGED locals

\* fix_up_focus: focus is valid, or is dropped, with blur listeners or
\* without.  Either way a checkpoint follows and the loop goes on.
FixUpFocus(moved, events) ==
  IF moved /\ events THEN pc' = "fixup" /\ after' = "next" /\ UNCHANGED result
                     ELSE Checkpoint("next")

\* A frame ends with a focus fixup.
EndCallbacks ==
  /\ pc = "callbacks" /\ CallbacksOfFrame = {}
  /\ \E moved \in BOOLEAN : FixUpFocus(moved, TRUE)
  /\ UNCHANGED <<loop, locals>>

\* A fixup without events leaves nothing to look at again.
Settles(moved, events) == ~moved \/ ~events

\* No live task: the page has settled, or focus is looked at once more.
Idle ==
  /\ pc = "next" /\ Live(loop) = {}
  /\ loop' = Skip(loop)
  /\ \/ settled /\ ReturnToHost("idle") /\ UNCHANGED locals
     \/ /\ ~settled
        /\ LET events == fixups < MaxFixups
           IN  \E moved \in BOOLEAN : /\ FixUpFocus(moved, events)
                                      /\ settled' = Settles(moved, events)
        /\ fixups' = IF fixups <= MaxFixups THEN fixups + 1 ELSE fixups
        /\ UNCHANGED <<task, frameEnd>>

----------------------------------------------------------------------------
Init ==
  /\ loop = NewLoop /\ pc = "host" /\ after = "host"
  /\ task = [due |-> 0, seq |-> -1, kind |-> "none", id |-> 0, nesting |-> 0]
  /\ frameEnd = 0 /\ settled = FALSE /\ fixups = 0 /\ result = "ok"

\* What the thread does by itself once an entry point was called.
Step ==
  \/ ScriptReturns \/ CheckpointRuns \/ CheckpointEnds
  \/ NextTask \/ EndTimer \/ NextCallback \/ EndCallbacks \/ Idle

Next == StartScript \/ StartRun \/ Binding \/ Step

Spec == Init /\ [][Next]_vars

\* Scripts end (the engine's limits see to that) and the thread runs on;
\* the embedder need not call anything.
FairSpec == Spec /\ WF_vars(Step)

----------------------------------------------------------------------------
(* Properties. *)

Tasks == [due : Nat, seq : Nat, kind : {"timer", "frame", "native", "cancellable"},
          id : Nat, nesting : Nat]

LoopType ==
  [now : Nat, nextSeq : Nat, tasks : SUBSET Tasks, microtasks : Nat,
   timers : SUBSET [id : Nat, timeout : Int, repeat : BOOLEAN], nextTimer : Nat,
   frames : SUBSET Nat, nextFrame : Nat, frameScheduled : BOOLEAN,
   cancellable : SUBSET Nat, nextCancellable : Nat, nesting : Nat,
   jobsRun : Nat, jobsEnqueued : Nat, aborted : Reasons \cup {NoAbort}]

\* Every variable has its type; the clock and the counters keep to their
\* limits.
TypeOK ==
  /\ loop \in LoopType
  /\ loop.jobsRun <= MaxTasks /\ loop.jobsEnqueued <= MaxEnqueued
  /\ loop.now <= MaxVirtualTime
  /\ pc \in Scripts \cup {"host", "checkpoint", "next", "rearm", "callbacks"}
  /\ after \in Returns
  /\ task.kind # "none" => task \in Tasks
  /\ frameEnd \in Nat /\ settled \in BOOLEAN /\ fixups \in 0..(MaxFixups + 1)
  /\ result \in Reasons \cup {"ok", "idle"}

\* An aborted runtime keeps nothing that could still run, and neither does one
\* whose run_until_idle reports success.
NothingLeft ==
  loop.aborted # NoAbort \/ (pc = "host" /\ result = "idle") =>
    /\ loop.tasks = {} /\ loop.microtasks = 0 /\ loop.timers = {}
    /\ loop.frames = {} /\ loop.cancellable = {} /\ ~loop.frameScheduled

RunningTimer ==
  \/ pc \in {"timer", "rearm"}
  \/ pc \in {"checkpoint", "microtask"} /\ after = "rearm"

\* An active timer has exactly one task, queued or running, and the nesting
\* level is that of the timer whose task runs, its microtasks included.
TimersFollowTasks ==
  /\ \A t \in loop.timers :
       Cardinality({q \in loop.tasks : q.kind = "timer" /\ q.id = t.id})
         = IF RunningTimer /\ task.id = t.id THEN 0 ELSE 1
  /\ loop.aborted = NoAbort =>
       loop.nesting = IF RunningTimer THEN task.nesting ELSE 0

InFrame ==
  \/ pc \in {"callbacks", "frame"}
  \/ pc \in {"checkpoint", "microtask"} /\ after = "callbacks"

\* A callback that waits for a frame has one coming: its own task is queued,
\* or the frame that will call it is running.
FrameComes ==
  /\ \A h \in loop.frames : loop.frameScheduled \/ (InFrame /\ h < frameEnd)
  /\ Cardinality({q \in loop.tasks : q.kind = "frame"})
       = IF loop.frameScheduled THEN 1 ELSE 0

Starts == pc = "next" /\ task' # task

\* Tasks run in the order of due time and registration, none before the
\* microtasks of everything earlier, none due past the horizon.
TasksInOrder ==
  [][Starts => /\ Before(task, task') /\ loop.microtasks = 0
               /\ task'.due <= MaxVirtualTime /\ loop'.now = task'.due]_vars

\* Every queued entry, cancelled or not, and every job run was registered:
\* the registration limit bounds the queues.
QueueBounded ==
  /\ TypeOK
  /\ loop.aborted = NoAbort =>
       Cardinality(loop.tasks) + loop.microtasks + loop.jobsRun <= loop.jobsEnqueued

Calls == INSTANCE RuntimeCalls WITH
           Limits <- Reasons, busy <- pc # "host", aborted <- loop.aborted

\* The event loop keeps what the runtime promises its callers: the first limit
\* stays, calls are refused after it, a call that met one does not report
\* success, and every call returns.
KeepsCalls == Calls!CallsSpec

============================================================================
