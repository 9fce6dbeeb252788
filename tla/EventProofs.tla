----------------------------- MODULE EventProofs -----------------------------
(***************************************************************************)
(* Proofs about the event loop of a page's script runtime and about the    *)
(* dispatch of events in it.                                               *)
(*                                                                         *)
(* Of the loop, for all limits, timeouts and delays: the queues are        *)
(* bounded by what was registered, an abort leaves nothing that could run, *)
(* timers and frames have their tasks, tasks run in order, and callers are *)
(* told of the first limit.                                                *)
(*                                                                         *)
(* Of dispatch, for any targets, events and registrations and any depth:   *)
(* slots stay put while a dispatch walks them, no exception is lost, and   *)
(* what is called is what EventTargets has registered.                     *)
(***************************************************************************)
EXTENDS EventLoop, EventDispatch, FiniteSums

----------------------------------------------------------------------------
(* The inductive invariant. *)

TaskKinds == {"timer", "frame", "native", "cancellable"}

\* The parts of TypeOK.
LoopOK ==
  /\ loop \in LoopType /\ IsFiniteSet(loop.tasks)
  /\ loop.jobsRun <= MaxTasks /\ loop.jobsEnqueued <= MaxEnqueued
  /\ loop.now <= MaxVirtualTime

ThreadOK ==
  /\ pc \in Scripts \cup {"host", "checkpoint", "next", "rearm", "callbacks"}
  /\ after \in Returns
  /\ task.kind # "none" => task \in Tasks
  /\ frameEnd \in Nat /\ settled \in BOOLEAN /\ fixups \in 0..(MaxFixups + 1)
  /\ result \in Reasons \cup {"ok", "idle"}
  /\ pc = "fixup" => after = "next"

Discarded(l) ==
  /\ l.tasks = {} /\ l.microtasks = 0 /\ l.timers = {}
  /\ l.frames = {} /\ l.cancellable = {} /\ ~l.frameScheduled

\* Where an aborted run can be, and where nothing waits for a checkpoint.
Placed ==
  /\ loop.aborted # NoAbort => Discarded(loop) /\ pc \in Scripts \cup {"host"}
  /\ pc \in {"next", "rearm", "callbacks"} => loop.microtasks = 0
  /\ pc = "host" /\ result = "idle" => Discarded(loop)

Bounded ==
  loop.aborted = NoAbort =>
    Cardinality(loop.tasks) + loop.microtasks + loop.jobsRun <= loop.jobsEnqueued

\* What is queued comes after what was taken, and no two tasks are queued with
\* the same number.
Ordered ==
  /\ task.due = loop.now /\ task.seq \in Int /\ task.seq < loop.nextSeq
  /\ \A q \in loop.tasks :
       q.seq < loop.nextSeq /\ q.due >= loop.now /\ Before(task, q)
  /\ \A q, r \in loop.tasks : q.seq = r.seq => q = r

TimerTasks(l) == {q \in l.tasks : q.kind = "timer"}
FrameTasks(l) == {q \in l.tasks : q.kind = "frame"}

\* No id is given to two timers; a timer has its task, cleared or not.
TimersHaveTasks ==
  /\ loop.nextTimer <= loop.jobsEnqueued + 1
  /\ \A t \in loop.timers : t.id < loop.nextTimer
  /\ \A q \in TimerTasks(loop) : q.id < loop.nextTimer
  /\ \A q, r \in TimerTasks(loop) : q.id = r.id => q = r
  /\ \A t \in loop.timers :
       \/ \E q \in TimerTasks(loop) : q.id = t.id
       \/ RunningTimer /\ task.id = t.id
  /\ RunningTimer =>
       /\ task.kind = "timer" /\ task.id < loop.nextTimer
       /\ \A q \in TimerTasks(loop) : q.id # task.id
  /\ loop.aborted = NoAbort =>
       loop.nesting = IF RunningTimer THEN task.nesting ELSE 0

FramesHaveTask ==
  /\ \A h \in loop.frames : h < loop.nextFrame
  /\ \A h \in loop.frames : loop.frameScheduled \/ (InFrame /\ h < frameEnd)
  /\ loop.frameScheduled <=> FrameTasks(loop) # {}
  /\ \A q, r \in FrameTasks(loop) : q = r

TokensHaveTasks ==
  \A token \in loop.cancellable :
    \E q \in loop.tasks : q.kind = "cancellable" /\ q.id = token

IInv ==
  /\ LoopOK /\ ThreadOK /\ Placed
  /\ Bounded /\ Ordered /\ TimersHaveTasks /\ FramesHaveTask /\ TokensHaveTasks

----------------------------------------------------------------------------
(* What the operators on the EventLoop struct change. *)

\* Outside the fields S, m is l.
Rest(l, m, S) == \A f \in DOMAIN l \ S : m[f] = l[f]

Job(l, delay, kind, id, nesting) ==
  [due |-> l.now + delay, seq |-> l.nextSeq, kind |-> kind, id |-> id, nesting |-> nesting]

LEMMA Pushes ==
  ASSUME NEW l \in LoopType, NEW delay \in Nat, NEW kind \in TaskKinds,
         NEW id \in Nat, NEW nesting \in Nat
  PROVE  LET m == PushTask(l, delay, kind, id, nesting)
             q == Job(l, delay, kind, id, nesting)
         IN  /\ m \in LoopType /\ Rest(l, m, {"tasks", "nextSeq"})
             /\ m.tasks = l.tasks \cup {q} /\ m.nextSeq = l.nextSeq + 1 /\ q \in Tasks
PROOF
  <1> DEFINE m == PushTask(l, delay, kind, id, nesting)
             q == Job(l, delay, kind, id, nesting)
             tasks == l.tasks \cup {q}
             next == l.nextSeq + 1
  <1>1. l.now \in Nat /\ l.nextSeq \in Nat /\ l.tasks \in SUBSET Tasks
    BY DEF LoopType
  <1>2. q \in Tasks
    BY <1>1 DEF Job, Tasks, TaskKinds
  <1>3. m = [l EXCEPT !.tasks = tasks, !.nextSeq = next]
    BY DEF PushTask, Job
  <1>4. tasks \in SUBSET Tasks /\ next \in Nat
    BY <1>1, <1>2
  <1> HIDE DEF m, q, tasks, next
  <1>5. m \in LoopType /\ m.tasks = tasks /\ m.nextSeq = next
    BY <1>3, <1>4 DEF LoopType
  <1>6. Rest(l, m, {"tasks", "nextSeq"})
    BY <1>3 DEF Rest, LoopType
  <1>7. QED
    BY <1>2, <1>5, <1>6 DEF m, q, tasks, next

LEMMA Reserves ==
  ASSUME NEW l \in LoopType
  PROVE  /\ Reserve(l) \in LoopType /\ Rest(l, Reserve(l), {"jobsEnqueued"})
         /\ Reserve(l).jobsEnqueued = l.jobsEnqueued + 1
PROOF
  <1> DEFINE n == l.jobsEnqueued + 1
  <1>1. n \in Nat
    BY DEF LoopType
  <1>2. Reserve(l) = [l EXCEPT !.jobsEnqueued = n]
    BY DEF Reserve
  <1> HIDE DEF n
  <1>3. QED
    BY <1>1, <1>2 DEF LoopType, Rest, n

LEMMA Aborts ==
  ASSUME NEW l \in LoopType, NEW reason \in Reasons
  PROVE  LET m == Abort(l, reason) IN
         /\ m \in LoopType /\ Discarded(m) /\ m.nesting = 0
         /\ m.aborted = IF l.aborted = NoAbort THEN reason ELSE l.aborted
         /\ Rest(l, m, {"tasks", "microtasks", "timers", "frames", "cancellable",
                        "frameScheduled", "nesting", "aborted"})
PROOF
  <1> DEFINE m == Abort(l, reason)
             why == IF l.aborted = NoAbort THEN reason ELSE l.aborted
  <1>1. why \in Reasons \cup {NoAbort}
    BY DEF LoopType
  <1>2. m = [l EXCEPT !.tasks = {}, !.microtasks = 0, !.timers = {}, !.frames = {},
                      !.cancellable = {}, !.frameScheduled = FALSE, !.nesting = 0,
                      !.aborted = why]
    BY DEF Abort
  <1> HIDE DEF m, why
  <1>3. m \in LoopType
    BY <1>1, <1>2 DEF LoopType
  <1>4. Discarded(m) /\ m.nesting = 0 /\ m.aborted = why
    BY <1>2 DEF LoopType, Discarded
  <1>5. Rest(l, m, {"tasks", "microtasks", "timers", "frames", "cancellable",
                    "frameScheduled", "nesting", "aborted"})
    BY <1>2 DEF LoopType, Rest
  <1>6. QED
    BY <1>3, <1>4, <1>5 DEF m, why

\* Skip drops only tasks whose timer or token is gone.
LEMMA Skips ==
  ASSUME NEW l \in LoopType
  PROVE  LET m == Skip(l) IN
         /\ m \in LoopType /\ Rest(l, m, {"tasks"})
         /\ m.tasks \subseteq l.tasks /\ Live(l) \subseteq m.tasks
         /\ Live(l) = {} => m.tasks = {}
         /\ \A q \in m.tasks : q \in Live(l) \/ \E r \in Live(l) : Before(r, q)
PROOF
  <1> DEFINE tasks == {q \in l.tasks : q \in Live(l) \/ \E r \in Live(l) : Before(r, q)}
  <1>1. tasks \subseteq l.tasks /\ Live(l) \subseteq tasks /\ l.tasks \subseteq Tasks
    BY DEF Live, LoopType
  <1>2. /\ Live(l) = {} => tasks = {}
        /\ \A q \in tasks : q \in Live(l) \/ \E r \in Live(l) : Before(r, q)
    OBVIOUS
  <1>3. Skip(l) = [l EXCEPT !.tasks = tasks]
    BY DEF Skip
  <1> HIDE DEF tasks
  <1>4. QED
    BY <1>1, <1>2, <1>3 DEF LoopType, Rest

----------------------------------------------------------------------------
(* What keeps the parts of the invariant. *)

LEMMA OrderedStays ==
  ASSUME Ordered, loop'.tasks \subseteq loop.tasks, task' = task,
         loop'.now = loop.now, loop'.nextSeq = loop.nextSeq
  PROVE  Ordered'
  BY DEF Ordered

LEMMA OrderedPush ==
  ASSUME LoopOK, Ordered, NEW q, q.due \in Nat, q.due >= loop.now, q.seq = loop.nextSeq,
         loop'.tasks = loop.tasks \cup {q}, task' = task,
         loop'.now = loop.now, loop'.nextSeq = loop.nextSeq + 1
  PROVE  Ordered'
PROOF
  <1>1. /\ loop.nextSeq \in Nat /\ loop.now \in Nat
        /\ \A r \in loop.tasks : r.seq \in Nat /\ r.due \in Nat
    BY DEF LoopOK, LoopType, Tasks
  <1>2. /\ task.due = loop.now /\ task.seq \in Int /\ task.seq < loop.nextSeq + 1
        /\ Before(task, q)
    BY <1>1 DEF Ordered, Before
  <1>3. \A r \in loop.tasks : r.seq < loop.nextSeq + 1 /\ r.seq # q.seq
    BY <1>1 DEF Ordered
  <1>4. QED
    BY <1>1, <1>2, <1>3 DEF Ordered

LEMMA BoundStays ==
  ASSUME LoopOK, LoopOK', Bounded, loop'.tasks \subseteq loop.tasks,
         loop.aborted = NoAbort,
         loop'.microtasks + loop'.jobsRun <= loop.microtasks + loop.jobsRun,
         loop'.jobsEnqueued >= loop.jobsEnqueued
  PROVE  Bounded'
PROOF
  <1> DEFINE before == Cardinality(loop.tasks)
             later == Cardinality(loop'.tasks)
  <1>1. before \in Nat /\ later \in Nat /\ later <= before
    BY FS_Subset, FS_CardinalityType DEF LoopOK
  <1>2. /\ loop.microtasks \in Nat /\ loop.jobsRun \in Nat /\ loop.jobsEnqueued \in Nat
        /\ loop'.microtasks \in Nat /\ loop'.jobsRun \in Nat /\ loop'.jobsEnqueued \in Nat
    BY DEF LoopOK, LoopType
  <1>3. before + loop.microtasks + loop.jobsRun <= loop.jobsEnqueued
    BY DEF Bounded
  <1> HIDE DEF before, later
  <1>4. later + loop'.microtasks + loop'.jobsRun <= loop'.jobsEnqueued
    BY <1>1, <1>2, <1>3
  <1>5. QED
    BY <1>4 DEF Bounded, later

LEMMA BoundPush ==
  ASSUME LoopOK, Bounded, NEW q, loop'.tasks = loop.tasks \cup {q},
         loop.aborted = NoAbort, loop'.microtasks = loop.microtasks,
         loop'.jobsRun = loop.jobsRun, loop'.jobsEnqueued = loop.jobsEnqueued + 1
  PROVE  Bounded' /\ IsFiniteSet(loop'.tasks)
PROOF
  <1> DEFINE before == Cardinality(loop.tasks)
             later == Cardinality(loop'.tasks)
  <1>1. before \in Nat /\ later \in Nat /\ later <= before + 1 /\ IsFiniteSet(loop'.tasks)
    <2> DEFINE S == loop.tasks
    <2>1. IsFiniteSet(S)
      BY DEF LoopOK
    <2> HIDE DEF S
    <2>2. /\ Cardinality(S) \in Nat /\ IsFiniteSet(S \cup {q})
          /\ Cardinality(S \cup {q}) = IF q \in S THEN Cardinality(S) ELSE Cardinality(S) + 1
      BY <2>1, FS_AddElement, FS_CardinalityType
    <2>3. loop'.tasks = S \cup {q}
      BY DEF S
    <2> HIDE DEF later
    <2>4. /\ Cardinality(loop'.tasks) \in Nat
          /\ Cardinality(loop'.tasks) <= Cardinality(S) + 1 /\ IsFiniteSet(loop'.tasks)
      <3> DEFINE T == S \cup {q}
                 c == Cardinality(S)
                 d == Cardinality(T)
      <3>1. c \in Nat /\ d = (IF q \in S THEN c ELSE c + 1) /\ IsFiniteSet(T)
        BY <2>2
      <3> HIDE DEF c, d
      <3>2. d \in Nat /\ d <= c + 1
        BY <3>1
      <3>3. QED
        BY <2>3, <3>1, <3>2 DEF c, d
    <2>5. QED
      BY <2>2, <2>4 DEF S, later
  <1>2. loop.microtasks \in Nat /\ loop.jobsRun \in Nat /\ loop.jobsEnqueued \in Nat
    BY DEF LoopOK, LoopType
  <1>3. before + loop.microtasks + loop.jobsRun <= loop.jobsEnqueued
    BY DEF Bounded
  <1> HIDE DEF before, later
  <1>4. later + loop'.microtasks + loop'.jobsRun <= loop'.jobsEnqueued
    BY <1>1, <1>2, <1>3
  <1>5. QED
    BY <1>1, <1>4 DEF Bounded, later

\* The tasks of active timers and of tokens stay, and no timer task is added.
LEMMA TimersStay ==
  ASSUME LoopOK, LoopOK', TimersHaveTasks, task' = task, RunningTimer' <=> RunningTimer,
         TimerTasks(loop') \subseteq TimerTasks(loop), loop'.timers \subseteq loop.timers,
         \A q \in TimerTasks(loop) : q.id \in TimerIds(loop') => q \in loop'.tasks,
         loop'.nextTimer = loop.nextTimer, loop'.jobsEnqueued >= loop.jobsEnqueued,
         loop'.aborted = loop.aborted, loop'.nesting = loop.nesting
  PROVE  TimersHaveTasks'
PROOF
  <1>1. loop'.nextTimer <= loop'.jobsEnqueued + 1
    BY DEF LoopOK, LoopType, TimersHaveTasks
  <1>2. ASSUME NEW t \in loop'.timers
        PROVE  \/ \E q \in TimerTasks(loop') : q.id = t.id
               \/ RunningTimer /\ task.id = t.id
    <2>1. t.id \in TimerIds(loop')
      BY DEF TimerIds
    <2>2. QED
      BY <2>1 DEF TimersHaveTasks, TimerTasks
  <1>3. QED
    BY <1>1, <1>2 DEF TimersHaveTasks

LEMMA FramesStay ==
  ASSUME FramesHaveTask, FrameTasks(loop') = FrameTasks(loop), loop'.frames \subseteq loop.frames,
         loop'.nextFrame = loop.nextFrame, loop'.frameScheduled = loop.frameScheduled,
         InFrame => InFrame', frameEnd' = frameEnd
  PROVE  FramesHaveTask'
  BY DEF FramesHaveTask

LEMMA TokensStay ==
  ASSUME TokensHaveTasks, loop'.cancellable \subseteq loop.cancellable,
         \A q \in loop.tasks :
           q.kind = "cancellable" /\ q.id \in loop'.cancellable => q \in loop'.tasks
  PROVE  TokensHaveTasks'
  BY DEF TokensHaveTasks

----------------------------------------------------------------------------
(* Aborts. *)

\* l is the loop, or the loop without tasks that were skipped.
LEMMA AbortKept ==
  ASSUME IInv, NEW l \in LoopType, Rest(loop, l, {"tasks"}), NEW reason \in Reasons,
         loop' = Abort(l, reason), UNCHANGED locals, ThreadOK',
         pc' \in Scripts \cup {"host"}, RunningTimer' => RunningTimer
  PROVE  IInv'
PROOF
  <1>1. /\ loop' \in LoopType /\ Discarded(loop') /\ loop'.aborted # NoAbort
        /\ loop'.now = loop.now /\ loop'.nextSeq = loop.nextSeq
        /\ loop'.nextTimer = loop.nextTimer /\ loop'.jobsRun = loop.jobsRun
        /\ loop'.jobsEnqueued = loop.jobsEnqueued
    <2> DEFINE m == Abort(l, reason)
    <2>1. /\ m \in LoopType /\ Discarded(m)
          /\ m.aborted = IF l.aborted = NoAbort THEN reason ELSE l.aborted
          /\ Rest(l, m, {"tasks", "microtasks", "timers", "frames", "cancellable",
                         "frameScheduled", "nesting", "aborted"})
      BY Aborts
    <2>2. loop' = m /\ reason # NoAbort /\ loop \in LoopType
      BY DEF IInv, LoopOK, Reasons, EngineLimits, NoAbort
    <2> HIDE DEF m
    <2>3. m.aborted # NoAbort
      BY <2>1, <2>2
    <2>4. /\ m.now = l.now /\ m.nextSeq = l.nextSeq /\ m.nextTimer = l.nextTimer
          /\ m.jobsRun = l.jobsRun /\ m.jobsEnqueued = l.jobsEnqueued
      BY <2>1 DEF Rest, LoopType
    <2>5. /\ l.now = loop.now /\ l.nextSeq = loop.nextSeq /\ l.nextTimer = loop.nextTimer
          /\ l.jobsRun = loop.jobsRun /\ l.jobsEnqueued = loop.jobsEnqueued
      BY <2>2 DEF Rest, LoopType
    <2>6. QED
      BY <2>1, <2>2, <2>3, <2>4, <2>5
  <1>2. LoopOK'
    BY <1>1, FS_EmptySet DEF IInv, LoopOK, Discarded
  <1>3. Placed' /\ Bounded'
    BY <1>1 DEF Placed, Bounded, Discarded, Scripts
  <1>4. Ordered'
    BY <1>1, OrderedStays DEF IInv, Discarded, locals
  <1>5. TimersHaveTasks'
    BY <1>1 DEF IInv, TimersHaveTasks, TimerTasks, Discarded, locals
  <1>6. FramesHaveTask' /\ TokensHaveTasks'
    BY <1>1 DEF FramesHaveTask, FrameTasks, TokensHaveTasks, Discarded
  <1>7. QED
    BY <1>2, <1>3, <1>4, <1>5, <1>6 DEF IInv

LEMMA FailKept ==
  ASSUME IInv, NEW l \in LoopType, Rest(loop, l, {"tasks"}), NEW reason \in Reasons,
         Fail(Abort(l, reason))
  PROVE  IInv'
PROOF
  <1>1. /\ loop' = Abort(l, reason) /\ UNCHANGED locals /\ pc' = "host"
        /\ result' = Abort(l, reason).aborted /\ after' = after
    BY DEF Fail, ReturnToHost
  <1>2. result' \in Reasons
    <2>1. l.aborted \in Reasons \cup {NoAbort}
      BY DEF LoopType
    <2>2. QED
      BY <1>1, <2>1, Aborts
  <1>3. ThreadOK'
    BY <1>1, <1>2 DEF IInv, ThreadOK, locals
  <1>4. ~RunningTimer'
    BY <1>1 DEF RunningTimer
  <1>5. QED
    BY <1>1, <1>3, <1>4, AbortKept

LEMMA RestOfItself == ASSUME NEW l, NEW S PROVE Rest(l, l, S)
  BY DEF Rest

----------------------------------------------------------------------------
(* What a running script does. *)

Stays == UNCHANGED <<pc, after, locals, result>>

LEMMA StaysPut ==
  ASSUME IInv, Stays
  PROVE  /\ ThreadOK' /\ task' = task /\ frameEnd' = frameEnd
         /\ RunningTimer' <=> RunningTimer
         /\ InFrame' <=> InFrame
  BY DEF IInv, ThreadOK, Stays, locals, RunningTimer, InFrame

LEMMA RegisterKept ==
  ASSUME IInv, NEW l, Register(l), Running /\ ~Full(loop) /\ loop' = l /\ Stays => IInv'
  PROVE  IInv'
PROOF
  <1>1. CASE Full(loop)
    BY <1>1, RestOfItself, FailKept DEF Register, IInv, LoopOK, Reasons
  <1>2. CASE ~Full(loop)
    BY <1>2 DEF Register, Stays
  <1>3. QED
    BY <1>1, <1>2

LEMMA BindingKept ==
  ASSUME IInv, Running, Stays, LoopOK', loop'.aborted = NoAbort,
         Bounded', Ordered', TimersHaveTasks', FramesHaveTask', TokensHaveTasks'
  PROVE  IInv'
PROOF
  <1>1. pc' \in Scripts /\ ThreadOK'
    BY StaysPut DEF Running, Stays
  <1>2. Placed'
    BY <1>1 DEF Placed, Scripts
  <1>3. QED
    BY <1>1, <1>2 DEF IInv

\* A job is registered while the limit is not reached.
LEMMA RoomToRegister ==
  ASSUME IInv, Running, ~Full(loop), loop' \in LoopType, loop'.now = loop.now,
         loop'.jobsRun = loop.jobsRun, loop'.jobsEnqueued = loop.jobsEnqueued + 1,
         IsFiniteSet(loop'.tasks)
  PROVE  LoopOK'
PROOF
  <1>1. loop.jobsEnqueued + 1 <= MaxEnqueued
    BY LimitsAssumption DEF IInv, LoopOK, LoopType, Full
  <1>2. QED
    BY <1>1 DEF IInv, LoopOK

\* A task other than a timer's is registered and queued.
LEMMA QueuedKept ==
  ASSUME IInv, Running, ~Full(loop), Stays, loop' \in LoopType,
         NEW q \in Tasks, loop'.tasks = loop.tasks \cup {q}, q.kind # "timer",
         q.due >= loop.now, q.seq = loop.nextSeq,
         Rest(loop, loop', {"tasks", "nextSeq", "jobsEnqueued", "frames", "nextFrame",
                            "frameScheduled", "cancellable", "nextCancellable"}),
         loop'.nextSeq = loop.nextSeq + 1, loop'.jobsEnqueued = loop.jobsEnqueued + 1,
         FramesHaveTask', TokensHaveTasks'
  PROVE  IInv'
PROOF
  <1>1. /\ loop'.now = loop.now /\ loop'.jobsRun = loop.jobsRun
        /\ loop'.microtasks = loop.microtasks /\ loop'.timers = loop.timers
        /\ loop'.nextTimer = loop.nextTimer /\ loop'.nesting = loop.nesting
        /\ loop'.aborted = loop.aborted /\ loop.aborted = NoAbort
        /\ loop.jobsEnqueued \in Nat
    BY DEF IInv, LoopOK, LoopType, Rest, Running
  <1>2. Bounded' /\ IsFiniteSet(loop'.tasks)
    BY <1>1, BoundPush DEF IInv
  <1>3. LoopOK'
    BY <1>1, <1>2, RoomToRegister
  <1>4. Ordered'
    <2>1. q.due \in Nat /\ task' = task
      BY StaysPut DEF Tasks
    <2>2. QED
      BY <1>1, <2>1, OrderedPush DEF IInv
  <1>5. TimersHaveTasks'
    <2>1. TimerTasks(loop') = TimerTasks(loop)
      BY DEF TimerTasks
    <2>2. \A r \in TimerTasks(loop) : r \in loop'.tasks
      BY DEF TimerTasks
    <2>3. QED
      BY <1>1, <1>3, <2>1, <2>2, StaysPut, TimersStay DEF IInv
  <1>6. QED
    BY <1>1, <1>2, <1>3, <1>4, <1>5, BindingKept

\* A step that queues no task and drops none leaves most of the loop alone.
LEMMA QuietKept ==
  ASSUME IInv, Running, Stays, loop' \in LoopType, loop'.tasks = loop.tasks,
         Rest(loop, loop', {"timers", "frames", "cancellable"}),
         loop'.timers \subseteq loop.timers, loop'.frames \subseteq loop.frames,
         loop'.cancellable \subseteq loop.cancellable
  PROVE  IInv'
PROOF
  <1>1. /\ loop'.now = loop.now /\ loop'.jobsRun = loop.jobsRun
        /\ loop'.microtasks = loop.microtasks /\ loop'.nextSeq = loop.nextSeq
        /\ loop'.nextTimer = loop.nextTimer /\ loop'.nesting = loop.nesting
        /\ loop'.nextFrame = loop.nextFrame /\ loop'.frameScheduled = loop.frameScheduled
        /\ loop'.aborted = loop.aborted /\ loop.aborted = NoAbort
        /\ loop'.jobsEnqueued = loop.jobsEnqueued
        /\ loop.jobsEnqueued \in Nat /\ loop.microtasks + loop.jobsRun \in Nat
    BY DEF IInv, LoopOK, LoopType, Rest, Running
  <1>2. LoopOK'
    BY <1>1 DEF IInv, LoopOK
  <1>3. Bounded'
    BY <1>1, <1>2, BoundStays DEF IInv
  <1>4. Ordered'
    BY <1>1, StaysPut, OrderedStays DEF IInv
  <1>5. TimerTasks(loop') = TimerTasks(loop) /\ FrameTasks(loop') = FrameTasks(loop)
    BY DEF TimerTasks, FrameTasks
  <1>6. TimersHaveTasks'
    <2>1. \A q \in TimerTasks(loop) : q \in loop'.tasks
      BY DEF TimerTasks
    <2>2. QED
      BY <1>1, <1>2, <1>5, <2>1, StaysPut, TimersStay DEF IInv
  <1>7. FramesHaveTask'
    BY <1>1, <1>5, StaysPut, FramesStay DEF IInv
  <1>8. TokensHaveTasks'
    BY TokensStay DEF IInv
  <1>9. QED
    BY <1>1, <1>2, <1>3, <1>4, <1>6, <1>7, <1>8, BindingKept

LEMMA ClearTimerKept == ASSUME IInv, ClearTimer PROVE IInv'
PROOF
  <1>1. PICK id : loop' = RemoveTimer(loop, id)
    BY DEF ClearTimer
  <1> DEFINE left == {t \in loop.timers : t.id # id}
  <1>2. left \subseteq loop.timers /\ loop' = [loop EXCEPT !.timers = left]
    BY <1>1 DEF RemoveTimer
  <1>3. Running /\ Stays /\ loop \in LoopType
    BY DEF ClearTimer, Stays, IInv, LoopOK
  <1> HIDE DEF left
  <1>4. /\ loop' \in LoopType /\ loop'.tasks = loop.tasks
        /\ Rest(loop, loop', {"timers", "frames", "cancellable"})
        /\ loop'.timers \subseteq loop.timers /\ loop'.frames \subseteq loop.frames
        /\ loop'.cancellable \subseteq loop.cancellable
    BY <1>2, <1>3 DEF LoopType, Rest
  <1>5. QED
    BY <1>3, <1>4, QuietKept

LEMMA CancelAnimationFrameKept == ASSUME IInv, CancelAnimationFrame PROVE IInv'
PROOF
  <1>1. PICK h : loop' = [loop EXCEPT !.frames = @ \ {h}]
    BY DEF CancelAnimationFrame
  <1> DEFINE left == loop.frames \ {h}
  <1>2. left \subseteq loop.frames /\ loop' = [loop EXCEPT !.frames = left]
    BY <1>1
  <1>3. Running /\ Stays /\ loop \in LoopType
    BY DEF CancelAnimationFrame, Stays, IInv, LoopOK
  <1> HIDE DEF left
  <1>4. /\ loop' \in LoopType /\ loop'.tasks = loop.tasks
        /\ Rest(loop, loop', {"timers", "frames", "cancellable"})
        /\ loop'.timers \subseteq loop.timers /\ loop'.frames \subseteq loop.frames
        /\ loop'.cancellable \subseteq loop.cancellable
    BY <1>2, <1>3 DEF LoopType, Rest
  <1>5. QED
    BY <1>3, <1>4, QuietKept

LEMMA CancelNativeTaskKept == ASSUME IInv, CancelNativeTask PROVE IInv'
PROOF
  <1>1. PICK token : loop' = [loop EXCEPT !.cancellable = @ \ {token}]
    BY DEF CancelNativeTask
  <1> DEFINE left == loop.cancellable \ {token}
  <1>2. left \subseteq loop.cancellable /\ loop' = [loop EXCEPT !.cancellable = left]
    BY <1>1
  <1>3. Running /\ Stays /\ loop \in LoopType
    BY DEF CancelNativeTask, Stays, IInv, LoopOK
  <1> HIDE DEF left
  <1>4. /\ loop' \in LoopType /\ loop'.tasks = loop.tasks
        /\ Rest(loop, loop', {"timers", "frames", "cancellable"})
        /\ loop'.timers \subseteq loop.timers /\ loop'.frames \subseteq loop.frames
        /\ loop'.cancellable \subseteq loop.cancellable
    BY <1>2, <1>3 DEF LoopType, Rest
  <1>5. QED
    BY <1>3, <1>4, QuietKept

\* A microtask is registered and queued.
LEMMA MicrotaskKept ==
  ASSUME IInv, Running, ~Full(loop), Stays, loop' = QueueMicrotask(loop)
  PROVE  IInv'
PROOF
  <1> DEFINE l == Reserve(loop)
             n == l.microtasks + 1
  <1>1. /\ loop \in LoopType /\ l \in LoopType /\ Rest(loop, l, {"jobsEnqueued"})
        /\ l.jobsEnqueued = loop.jobsEnqueued + 1
    BY Reserves DEF IInv, LoopOK
  <1>2. loop' = [l EXCEPT !.microtasks = n]
    BY DEF QueueMicrotask
  <1> HIDE DEF l
  <1>3. n \in Nat /\ n = loop.microtasks + 1
    BY <1>1 DEF LoopType, Rest
  <1> HIDE DEF n
  <1>4. /\ loop' \in LoopType /\ loop'.microtasks = n
        /\ loop'.jobsEnqueued = loop.jobsEnqueued + 1
    BY <1>1, <1>2, <1>3 DEF LoopType
  <1>5. Rest(loop, loop', {"microtasks", "jobsEnqueued"})
    BY <1>1, <1>2 DEF LoopType, Rest
  <1>6. /\ loop'.tasks = loop.tasks /\ loop'.now = loop.now /\ loop'.jobsRun = loop.jobsRun
        /\ loop'.nextSeq = loop.nextSeq /\ loop'.timers = loop.timers
        /\ loop'.nextTimer = loop.nextTimer /\ loop'.nesting = loop.nesting
        /\ loop'.frames = loop.frames /\ loop'.cancellable = loop.cancellable
        /\ loop'.nextFrame = loop.nextFrame /\ loop'.frameScheduled = loop.frameScheduled
        /\ loop'.aborted = loop.aborted /\ loop.aborted = NoAbort
        /\ loop.jobsEnqueued \in Nat /\ loop.microtasks \in Nat /\ loop.jobsRun \in Nat
    BY <1>1, <1>5 DEF LoopType, Rest, Running
  <1>7. LoopOK'
    BY <1>4, <1>6, RoomToRegister DEF IInv, LoopOK
  <1>8. Bounded'
    <2>1. Cardinality(loop.tasks) \in Nat
      BY FS_CardinalityType DEF IInv, LoopOK
    <2>2. QED
      BY <1>3, <1>4, <1>6, <2>1 DEF IInv, Bounded
  <1>9. Ordered' /\ FramesHaveTask' /\ TokensHaveTasks'
    BY <1>6, StaysPut, OrderedStays, FramesStay, TokensStay DEF IInv, FrameTasks
  <1>10. TimersHaveTasks'
    <2>1. TimerTasks(loop') = TimerTasks(loop) /\ loop'.jobsEnqueued >= loop.jobsEnqueued
      BY <1>4, <1>6 DEF TimerTasks
    <2>2. \A q \in TimerTasks(loop) : q \in loop'.tasks
      BY <1>6 DEF TimerTasks
    <2>3. QED
      BY <1>6, <1>7, <2>1, <2>2, StaysPut, TimersStay DEF IInv
  <1>11. QED
    BY <1>6, <1>7, <1>8, <1>9, <1>10, BindingKept

\* A job is queued as a task.
LEMMA NativeTaskKept ==
  ASSUME IInv, Running, ~Full(loop), Stays, NEW delay \in Nat, loop' = QueueTask(loop, delay)
  PROVE  IInv'
PROOF
  <1> DEFINE l == Reserve(loop)
             q == Job(l, delay, "native", 0, 0)
  <1>1. /\ loop \in LoopType /\ l \in LoopType /\ Rest(loop, l, {"jobsEnqueued"})
        /\ l.jobsEnqueued = loop.jobsEnqueued + 1
    BY Reserves DEF IInv, LoopOK
  <1>2. loop' = PushTask(l, delay, "native", 0, 0)
    BY DEF QueueTask
  <1>3. /\ loop' \in LoopType /\ Rest(l, loop', {"tasks", "nextSeq"})
        /\ loop'.tasks = l.tasks \cup {q} /\ loop'.nextSeq = l.nextSeq + 1 /\ q \in Tasks
    <2> DEFINE m == PushTask(l, delay, "native", 0, 0)
    <2>1. "native" \in TaskKinds /\ 0 \in Nat
      BY DEF TaskKinds
    <2> HIDE DEF l
    <2>2. /\ m \in LoopType /\ Rest(l, m, {"tasks", "nextSeq"})
          /\ m.tasks = l.tasks \cup {q} /\ m.nextSeq = l.nextSeq + 1 /\ q \in Tasks
      BY <1>1, <2>1, Pushes
    <2> HIDE DEF m, q
    <2>3. QED
      BY <1>2, <2>2 DEF m
  <1>4. q.kind = "native" /\ q.due = l.now + delay /\ q.seq = l.nextSeq
    BY DEF Job
  <1> HIDE DEF l, q
  <1>5. /\ loop'.tasks = loop.tasks \cup {q} /\ loop'.nextSeq = loop.nextSeq + 1
        /\ q.seq = loop.nextSeq /\ q.due >= loop.now /\ q.kind = "native"
        /\ loop'.jobsEnqueued = loop.jobsEnqueued + 1
        /\ loop'.frames = loop.frames /\ loop'.cancellable = loop.cancellable
        /\ loop'.nextFrame = loop.nextFrame /\ loop'.frameScheduled = loop.frameScheduled
    BY <1>1, <1>3, <1>4 DEF LoopType, Rest
  <1>6. Rest(loop, loop', {"tasks", "nextSeq", "jobsEnqueued", "frames", "nextFrame",
                           "frameScheduled", "cancellable", "nextCancellable"})
    BY <1>1, <1>3 DEF LoopType, Rest
  <1>7. FramesHaveTask' /\ TokensHaveTasks'
    BY <1>5, StaysPut, FramesStay, TokensStay DEF IInv, FrameTasks
  <1>8. QED
    BY <1>3, <1>5, <1>6, <1>7, QueuedKept

LEMMA EnqueueJobKept == ASSUME IInv, EnqueueJob PROVE IInv'
PROOF
  <1>1. Running /\ Stays
    BY DEF EnqueueJob, Stays
  <1>2. CASE Full(loop)
    <2>1. loop' = Abort(loop, "EnqueuedJobs") /\ "EnqueuedJobs" \in Reasons
      BY <1>2 DEF EnqueueJob, Reasons
    <2>2. UNCHANGED locals /\ pc' \in Scripts \cup {"host"}
      BY <1>1 DEF Stays, Running
    <2>3. QED
      BY <1>1, <2>1, <2>2, StaysPut, RestOfItself, AbortKept DEF IInv, LoopOK
  <1>3. CASE ~Full(loop)
    <2>1. \/ loop' = QueueMicrotask(loop)
          \/ \E delay \in Delays : loop' = QueueTask(loop, delay)
      BY <1>3 DEF EnqueueJob
    <2>2. QED
      BY <1>1, <1>3, <2>1, MicrotaskKept, NativeTaskKept, LimitsAssumption
  <1>4. QED
    BY <1>2, <1>3

LEMMA QueueCancellableKept == ASSUME IInv, QueueCancellableNativeTask PROVE IInv'
PROOF
  <1> DEFINE token == loop.nextCancellable
             l == [Reserve(loop) EXCEPT !.nextCancellable = @ + 1,
                                        !.cancellable = @ \cup {token}]
  <1>1. PICK delay \in Delays : Register(PushTask(l, delay, "cancellable", token, 0))
    BY DEF QueueCancellableNativeTask
  <1> DEFINE m == PushTask(l, delay, "cancellable", token, 0)
             q == Job(l, delay, "cancellable", token, 0)
  <1> SUFFICES ASSUME Running, ~Full(loop), loop' = m, Stays
               PROVE  IInv'
    <2>1. Register(m)
      BY <1>1
    <2> HIDE DEF m
    <2>2. QED
      BY <2>1, RegisterKept
  <1> DEFINE r == Reserve(loop)
             next == r.nextCancellable + 1
             tokens == r.cancellable \cup {token}
  <1>2. /\ loop \in LoopType /\ r \in LoopType /\ Rest(loop, r, {"jobsEnqueued"})
        /\ r.jobsEnqueued = loop.jobsEnqueued + 1
    BY Reserves DEF IInv, LoopOK
  <1>3. l = [r EXCEPT !.nextCancellable = next, !.cancellable = tokens]
    OBVIOUS
  <1>4. next \in Nat /\ tokens \in SUBSET Nat /\ token \in Nat /\ delay \in Nat
    BY <1>2, LimitsAssumption DEF LoopType
  <1> HIDE DEF r, l, next
  <1>5. tokens = loop.cancellable \cup {token}
    BY <1>2 DEF LoopType, Rest
  <1> HIDE DEF tokens
  <1>6. /\ l \in LoopType /\ l.cancellable = tokens
        /\ Rest(r, l, {"nextCancellable", "cancellable"})
    BY <1>2, <1>3, <1>4 DEF LoopType, Rest
  <1>7. /\ m \in LoopType /\ Rest(l, m, {"tasks", "nextSeq"})
        /\ m.tasks = l.tasks \cup {q} /\ m.nextSeq = l.nextSeq + 1 /\ q \in Tasks
    <2>1. "cancellable" \in TaskKinds /\ 0 \in Nat
      BY DEF TaskKinds
    <2> HIDE DEF token
    <2>2. QED
      BY <1>4, <1>6, <2>1, Pushes
  <1>8. q.kind = "cancellable" /\ q.id = token /\ q.due = l.now + delay /\ q.seq = l.nextSeq
    BY DEF Job
  <1> HIDE DEF m, q
  <1>9. /\ loop'.tasks = loop.tasks \cup {q} /\ loop'.nextSeq = loop.nextSeq + 1
        /\ q.seq = loop.nextSeq /\ q.due >= loop.now
        /\ loop'.jobsEnqueued = loop.jobsEnqueued + 1
        /\ loop'.frames = loop.frames /\ loop'.cancellable = tokens
        /\ loop'.nextFrame = loop.nextFrame /\ loop'.frameScheduled = loop.frameScheduled
    BY <1>2, <1>4, <1>6, <1>7, <1>8 DEF LoopType, Rest
  <1>10. Rest(loop, loop', {"tasks", "nextSeq", "jobsEnqueued", "frames", "nextFrame",
                            "frameScheduled", "cancellable", "nextCancellable"})
    BY <1>2, <1>6, <1>7 DEF LoopType, Rest
  <1>11. FramesHaveTask'
    BY <1>8, <1>9, StaysPut, FramesStay DEF IInv, FrameTasks
  <1>12. TokensHaveTasks'
    BY <1>5, <1>8, <1>9 DEF IInv, TokensHaveTasks
  <1>13. q.kind # "timer"
    BY <1>8
  <1>14. QED
    BY <1>7, <1>9, <1>10, <1>11, <1>12, <1>13, QueuedKept

LEMMA RequestFrameKept == ASSUME IInv, RequestAnimationFrame PROVE IInv'
PROOF
  <1> DEFINE r == Reserve(loop)
             l == [r EXCEPT !.nextFrame = @ + 1, !.frames = @ \cup {loop.nextFrame}]
             next == r.nextFrame + 1
             frames == r.frames \cup {loop.nextFrame}
  <1> SUFFICES ASSUME Running, ~Full(loop), loop' = FrameTask(l), Stays
               PROVE  IInv'
    <2>1. Register(FrameTask(l))
      BY DEF RequestAnimationFrame
    <2> HIDE DEF l
    <2>2. QED
      BY <2>1, RegisterKept
  <1>1. /\ loop \in LoopType /\ r \in LoopType /\ Rest(loop, r, {"jobsEnqueued"})
        /\ r.jobsEnqueued = loop.jobsEnqueued + 1
    BY Reserves DEF IInv, LoopOK
  <1>2. l = [r EXCEPT !.nextFrame = next, !.frames = frames]
    OBVIOUS
  <1>3. next \in Nat /\ frames \in SUBSET Nat
    BY <1>1 DEF LoopType
  <1> HIDE DEF r, l
  <1>4. next = loop.nextFrame + 1 /\ frames = loop.frames \cup {loop.nextFrame}
    BY <1>1 DEF LoopType, Rest
  <1> HIDE DEF next, frames
  <1>5. /\ l \in LoopType /\ l.frames = frames /\ l.nextFrame = next
        /\ Rest(r, l, {"nextFrame", "frames"})
    BY <1>1, <1>2, <1>3 DEF LoopType, Rest
  <1>6. /\ l.jobsEnqueued = loop.jobsEnqueued + 1
        /\ Rest(loop, l, {"jobsEnqueued", "nextFrame", "frames"})
    BY <1>1, <1>5 DEF LoopType, Rest
  <1>7. \A h \in frames : h < next
    BY <1>1, <1>4 DEF IInv, FramesHaveTask, LoopType
  <1>8. CASE l.frameScheduled
    <2>1. loop' = l
      BY <1>8 DEF FrameTask
    <2>2. /\ loop'.tasks = loop.tasks /\ loop'.now = loop.now /\ loop'.jobsRun = loop.jobsRun
          /\ loop'.microtasks = loop.microtasks
          /\ loop'.nextSeq = loop.nextSeq /\ loop'.timers = loop.timers
          /\ loop'.nextTimer = loop.nextTimer /\ loop'.nesting = loop.nesting
          /\ loop'.cancellable = loop.cancellable
          /\ loop'.frameScheduled = loop.frameScheduled
          /\ loop'.aborted = loop.aborted /\ loop.aborted = NoAbort
          /\ loop'.jobsEnqueued = loop.jobsEnqueued + 1
          /\ loop.jobsEnqueued \in Nat /\ loop.microtasks + loop.jobsRun \in Nat
      BY <1>1, <1>6, <2>1 DEF LoopType, Rest, Running
    <2>3. LoopOK'
      BY <1>5, <2>1, <2>2, RoomToRegister DEF IInv, LoopOK
    <2>4. Bounded'
      BY <2>2, <2>3, BoundStays DEF IInv
    <2>5. Ordered' /\ TokensHaveTasks'
      BY <2>2, StaysPut, OrderedStays, TokensStay DEF IInv
    <2>6. TimersHaveTasks'
      <3>1. TimerTasks(loop') = TimerTasks(loop) /\ loop'.jobsEnqueued >= loop.jobsEnqueued
        BY <2>2 DEF TimerTasks
      <3>2. \A q \in TimerTasks(loop) : q \in loop'.tasks
        BY <2>2 DEF TimerTasks
      <3>3. QED
        BY <2>2, <2>3, <3>1, <3>2, StaysPut, TimersStay DEF IInv
    <2>7. FramesHaveTask'
      <3>1. FrameTasks(loop') = FrameTasks(loop) /\ loop'.frameScheduled
        BY <1>8, <2>1, <2>2 DEF FrameTasks
      <3>2. loop'.frames = frames /\ loop'.nextFrame = next
        BY <1>5, <2>1
      <3>3. QED
        BY <1>7, <2>2, <3>1, <3>2 DEF IInv, FramesHaveTask
    <2>8. QED
      BY <2>2, <2>3, <2>4, <2>5, <2>6, <2>7, BindingKept
  <1>9. CASE ~l.frameScheduled
    <2> DEFINE wait == (l.now \div FrameMs + 1) * FrameMs - l.now
               m == [l EXCEPT !.frameScheduled = TRUE]
               q == Job(m, wait, "frame", 0, 0)
    <2>1. wait \in Nat
      BY <1>5, LimitsAssumption DEF LoopType
    <2>2. loop' = PushTask(m, wait, "frame", 0, 0)
      BY <1>9 DEF FrameTask
    <2> HIDE DEF wait
    <2>3. /\ m \in LoopType /\ m.frameScheduled = TRUE /\ Rest(l, m, {"frameScheduled"})
      BY <1>5 DEF LoopType, Rest
    <2> HIDE DEF m
    <2>4. /\ loop' \in LoopType /\ Rest(m, loop', {"tasks", "nextSeq"})
          /\ loop'.tasks = m.tasks \cup {q} /\ loop'.nextSeq = m.nextSeq + 1 /\ q \in Tasks
      <3> DEFINE p == PushTask(m, wait, "frame", 0, 0)
      <3>1. "frame" \in TaskKinds /\ 0 \in Nat
        BY DEF TaskKinds
      <3>2. /\ p \in LoopType /\ Rest(m, p, {"tasks", "nextSeq"})
            /\ p.tasks = m.tasks \cup {q} /\ p.nextSeq = m.nextSeq + 1 /\ q \in Tasks
        BY <2>1, <2>3, <3>1, Pushes
      <3>3. loop' = p
        BY <2>2
      <3> HIDE DEF p
      <3>4. QED
        BY <3>2, <3>3
    <2>5. q.kind = "frame" /\ q.due = m.now + wait /\ q.seq = m.nextSeq
      BY DEF Job
    <2> HIDE DEF q
    <2>6. /\ loop'.tasks = loop.tasks \cup {q} /\ loop'.nextSeq = loop.nextSeq + 1
          /\ q.seq = loop.nextSeq /\ q.due >= loop.now
          /\ loop'.jobsEnqueued = loop.jobsEnqueued + 1
          /\ loop'.cancellable = loop.cancellable
      <3>1. /\ m.tasks = loop.tasks /\ m.nextSeq = loop.nextSeq /\ m.now = loop.now
            /\ m.jobsEnqueued = loop.jobsEnqueued + 1 /\ m.cancellable = loop.cancellable
            /\ loop.now \in Nat
        BY <1>1, <1>5, <1>6, <2>3 DEF LoopType, Rest
      <3>2. loop'.jobsEnqueued = m.jobsEnqueued /\ loop'.cancellable = m.cancellable
        BY <2>3, <2>4 DEF LoopType, Rest
      <3>3. QED
        BY <2>1, <2>4, <2>5, <3>1, <3>2
    <2>7. /\ loop'.frames = frames /\ loop'.nextFrame = next
          /\ loop'.frameScheduled = TRUE /\ ~loop.frameScheduled
      BY <1>1, <1>5, <1>6, <1>9, <2>3, <2>4 DEF LoopType, Rest
    <2>8. Rest(loop, loop', {"tasks", "nextSeq", "jobsEnqueued", "frames", "nextFrame",
                             "frameScheduled", "cancellable", "nextCancellable"})
      BY <1>1, <1>5, <1>6, <2>3, <2>4 DEF LoopType, Rest
    <2>9. TokensHaveTasks'
      BY <2>6, TokensStay DEF IInv
    <2>10. FramesHaveTask'
      <3>1. FrameTasks(loop) = {}
        BY <2>7 DEF IInv, FramesHaveTask
      <3>2. FrameTasks(loop') = {q}
        BY <2>5, <2>6, <3>1 DEF FrameTasks
      <3>3. QED
        BY <1>7, <2>7, <3>2 DEF FramesHaveTask
    <2>11. q.kind # "timer"
      BY <2>5
    <2>12. QED
      BY <2>4, <2>6, <2>8, <2>9, <2>10, <2>11, QueuedKept
  <1>10. QED
    BY <1>8, <1>9

LEMMA WaitIsNatural ==
  ASSUME NEW l \in LoopType, NEW timeout \in Int
  PROVE  TimerDelay(l, timeout) \in Nat
  BY LimitsAssumption DEF TimerDelay

\* A new timer has an id of its own: the limit on registrations keeps the
\* counter from saturating.
LEMMA SetTimerKept == ASSUME IInv, SetTimer PROVE IInv'
PROOF
  <1> DEFINE id == loop.nextTimer
             r == Reserve(loop)
             Timer(timeout, repeat) == [id |-> id, timeout |-> timeout, repeat |-> repeat]
             Timers(timeout, repeat) == {t \in r.timers : t.id # id} \cup {Timer(timeout, repeat)}
             next == IF r.nextTimer < MaxTimerId THEN r.nextTimer + 1 ELSE r.nextTimer
             With(timeout, repeat) ==
               [r EXCEPT !.nextTimer = next, !.timers = Timers(timeout, repeat)]
  <1>1. PICK timeout \in Timeouts, repeat \in BOOLEAN :
          Register(ScheduleTimer(With(timeout, repeat), id, timeout))
    BY DEF SetTimer
  <1> DEFINE timer == Timer(timeout, repeat)
             timers == Timers(timeout, repeat)
             l == With(timeout, repeat)
             wait == TimerDelay(l, timeout)
             m == PushTask(l, wait, "timer", id, l.nesting + 1)
             q == Job(l, wait, "timer", id, l.nesting + 1)
  <1> SUFFICES ASSUME Running, ~Full(loop), loop' = m, Stays
               PROVE  IInv'
    <2>1. Register(m)
      BY <1>1 DEF ScheduleTimer
    <2> HIDE DEF m
    <2>2. QED
      BY <2>1, RegisterKept
  <1>2. /\ loop \in LoopType /\ r \in LoopType /\ Rest(loop, r, {"jobsEnqueued"})
        /\ r.jobsEnqueued = loop.jobsEnqueued + 1
    BY Reserves DEF IInv, LoopOK
  <1>3. id \in Nat /\ next = id + 1 /\ id < MaxTimerId
    <2>1. /\ r.nextTimer = loop.nextTimer /\ loop.nextTimer \in Nat /\ loop.jobsEnqueued \in Nat
      BY <1>2 DEF LoopType, Rest
    <2>2. /\ ~(loop.jobsEnqueued >= MaxEnqueued) /\ loop.nextTimer <= loop.jobsEnqueued + 1
          /\ MaxEnqueued \in Nat /\ MaxTimerId \in Nat /\ MaxEnqueued < MaxTimerId
      BY LimitsAssumption, IdsAssumption DEF IInv, TimersHaveTasks, Full
    <2>3. QED
      BY <2>1, <2>2
  <1>4. timer \in [id : Nat, timeout : Int, repeat : BOOLEAN] /\ timer.id = id /\ timeout \in Int
    BY <1>3, LimitsAssumption
  <1> HIDE DEF id, next, Timer
  <1>5. /\ timers = {t \in loop.timers : t.id # id} \cup {timer}
        /\ timers \in SUBSET [id : Nat, timeout : Int, repeat : BOOLEAN]
    BY <1>2, <1>4 DEF LoopType, Rest
  <1> HIDE DEF r, Timers
  <1>6. /\ l \in LoopType /\ l.timers = timers /\ l.nextTimer = next
        /\ Rest(r, l, {"nextTimer", "timers"})
    <2> HIDE DEF timers
    <2>1. l = [r EXCEPT !.nextTimer = next, !.timers = timers]
      BY DEF timers
    <2> HIDE DEF With
    <2>2. next \in Nat
      BY <1>3
    <2>3. QED
      BY <1>2, <1>5, <2>1, <2>2 DEF LoopType, Rest
  <1> HIDE DEF With, timers
  <1>7. wait \in Nat /\ l.nesting + 1 \in Nat
    BY <1>4, <1>6, WaitIsNatural DEF LoopType
  <1> HIDE DEF wait
  <1>8. /\ m \in LoopType /\ Rest(l, m, {"tasks", "nextSeq"})
        /\ m.tasks = l.tasks \cup {q} /\ m.nextSeq = l.nextSeq + 1 /\ q \in Tasks
    <2>1. "timer" \in TaskKinds
      BY DEF TaskKinds
    <2>2. QED
      BY <1>3, <1>6, <1>7, <2>1, Pushes
  <1>9. q.kind = "timer" /\ q.id = id /\ q.due = l.now + wait /\ q.seq = l.nextSeq
    BY DEF Job
  <1> HIDE DEF m, q
  <1>10. /\ l.tasks = loop.tasks /\ l.nextSeq = loop.nextSeq /\ l.now = loop.now
         /\ l.jobsEnqueued = loop.jobsEnqueued + 1 /\ l.microtasks = loop.microtasks
         /\ l.jobsRun = loop.jobsRun /\ l.frames = loop.frames
         /\ l.nextFrame = loop.nextFrame /\ l.frameScheduled = loop.frameScheduled
         /\ l.cancellable = loop.cancellable /\ l.nesting = loop.nesting
         /\ l.aborted = loop.aborted
    BY <1>2, <1>6 DEF LoopType, Rest
  <1>11. /\ loop'.now = loop.now /\ loop'.jobsEnqueued = loop.jobsEnqueued + 1
         /\ loop'.microtasks = loop.microtasks
         /\ loop'.jobsRun = loop.jobsRun /\ loop'.frames = loop.frames
         /\ loop'.nextFrame = loop.nextFrame /\ loop'.frameScheduled = loop.frameScheduled
         /\ loop'.cancellable = loop.cancellable /\ loop'.nesting = loop.nesting
         /\ loop'.aborted = loop.aborted /\ loop.aborted = NoAbort
         /\ loop'.timers = timers /\ loop'.nextTimer = id + 1
    BY <1>3, <1>6, <1>8, <1>10 DEF LoopType, Rest, Running
  <1>12. /\ loop'.tasks = loop.tasks \cup {q} /\ loop'.nextSeq = loop.nextSeq + 1
         /\ q.seq = loop.nextSeq /\ q.due >= loop.now /\ q.due \in Nat
    BY <1>2, <1>7, <1>8, <1>9, <1>10 DEF LoopType
  <1>13. Bounded' /\ LoopOK'
    BY <1>8, <1>11, <1>12, BoundPush, RoomToRegister DEF IInv
  <1>14. Ordered'
    BY <1>11, <1>12, StaysPut, OrderedPush DEF IInv
  <1>15. FramesHaveTask'
    BY <1>9, <1>11, <1>12, StaysPut, FramesStay DEF IInv, FrameTasks
  <1>16. TokensHaveTasks'
    BY <1>11, <1>12, TokensStay DEF IInv
  <1>17. TimersHaveTasks'
    <2>1. TimerTasks(loop') = TimerTasks(loop) \cup {q}
      BY <1>9, <1>12 DEF TimerTasks
    <2>2. /\ \A p \in TimerTasks(loop) : p.id \in Nat /\ p.id < id
          /\ \A t \in loop.timers : t.id \in Nat /\ t.id < id
          /\ RunningTimer => task.id < id /\ task.id \in Nat
      BY <1>2 DEF IInv, TimersHaveTasks, TimerTasks, LoopType, Tasks, ThreadOK, id
    <2>3. loop'.nextTimer <= loop'.jobsEnqueued + 1
      BY <1>2, <1>3, <1>11 DEF IInv, TimersHaveTasks, LoopType, id
    <2>4. /\ \A p \in TimerTasks(loop') : p.id < id + 1
          /\ \A p, s \in TimerTasks(loop') : p.id = s.id => p = s
      BY <1>3, <1>9, <2>1, <2>2 DEF IInv, TimersHaveTasks
    <2>5. ASSUME NEW t \in timers
          PROVE  /\ t.id < id + 1
                 /\ \/ \E p \in TimerTasks(loop') : p.id = t.id
                    \/ RunningTimer /\ task.id = t.id
      <3>1. CASE t = timer
        BY <1>3, <1>4, <1>9, <2>1, <3>1
      <3>2. CASE t # timer
        <4>1. t \in loop.timers
          BY <1>5, <3>2
        <4>2. QED
          BY <1>3, <2>1, <2>2, <4>1 DEF IInv, TimersHaveTasks
      <3>3. QED
        BY <3>1, <3>2
    <2>6. RunningTimer =>
            /\ task.kind = "timer" /\ task.id < id + 1
            /\ \A p \in TimerTasks(loop') : p.id # task.id
      BY <1>3, <1>9, <2>1, <2>2 DEF IInv, TimersHaveTasks
    <2>7. loop'.nesting = IF RunningTimer THEN task.nesting ELSE 0
      BY <1>11 DEF IInv, TimersHaveTasks
    <2>8. QED
      BY <1>11, <2>3, <2>4, <2>5, <2>6, <2>7, StaysPut DEF TimersHaveTasks
  <1>18. QED
    BY <1>11, <1>13, <1>14, <1>15, <1>16, <1>17, BindingKept

LEMMA BindingsKept == ASSUME IInv, Binding PROVE IInv'
PROOF
  <1>1. CASE QueueMicrotaskCall
    BY <1>1, RegisterKept, MicrotaskKept DEF QueueMicrotaskCall
  <1>2. CASE QueueNativeTask
    <2>1. 0 \in Nat
      OBVIOUS
    <2>2. QED
      BY <1>2, <2>1, RegisterKept, NativeTaskKept DEF QueueNativeTask
  <1>3. CASE MeetEngineLimit
    BY <1>3, RestOfItself, FailKept DEF MeetEngineLimit, IInv, LoopOK, Reasons
  <1>4. QED
    BY <1>1, <1>2, <1>3, SetTimerKept, ClearTimerKept, RequestFrameKept,
       CancelAnimationFrameKept, EnqueueJobKept, QueueCancellableKept, CancelNativeTaskKept
    DEF Binding

----------------------------------------------------------------------------
(* Steps of the thread that leave the loop alone. *)

LEMMA MoveKept ==
  ASSUME IInv, UNCHANGED <<loop, task, frameEnd>>, ThreadOK', Placed',
         RunningTimer' => RunningTimer,
         loop.aborted = NoAbort /\ RunningTimer => RunningTimer',
         loop.aborted = NoAbort /\ InFrame => InFrame' \/ CallbacksOfFrame = {}
  PROVE  IInv'
PROOF
  <1>1. LoopOK' /\ Bounded' /\ Ordered' /\ TokensHaveTasks'
    BY DEF IInv, LoopOK, Bounded, Ordered, TokensHaveTasks
  <1>2. TimersHaveTasks'
    BY DEF IInv, TimersHaveTasks, Placed, Discarded
  <1>3. FramesHaveTask'
    <2>1. ASSUME NEW h \in loop.frames
          PROVE  loop.frameScheduled \/ (InFrame' /\ h < frameEnd)
      BY DEF IInv, FramesHaveTask, CallbacksOfFrame, Placed, Discarded
    <2>2. QED
      BY <2>1 DEF IInv, FramesHaveTask
  <1>4. QED
    BY <1>1, <1>2, <1>3 DEF IInv

LEMMA StartKept == ASSUME IInv, StartScript \/ StartRun PROVE IInv'
PROOF
  <1>1. UNCHANGED <<loop, task, frameEnd>> /\ pc = "host"
    BY DEF StartScript, StartRun, locals
  <1>2. loop.aborted \in Reasons \cup {NoAbort} /\ ("idle" \notin Reasons)
    BY DEF IInv, LoopOK, LoopType, Reasons, EngineLimits
  <1>3. ThreadOK'
    <2>1. MaxFixups \in Nat /\ 0 \in 0..(MaxFixups + 1)
      BY LimitsAssumption
    <2>2. CASE StartScript
      BY <1>1, <1>2, <2>2
      DEF IInv, ThreadOK, StartScript, Goto, ReturnToHost, locals, Scripts
    <2>3. CASE StartRun
      BY <1>1, <1>2, <2>1, <2>3
      DEF IInv, ThreadOK, StartRun, StartOfRun, Checkpoint, ReturnToHost, locals, Scripts,
          Returns
    <2>4. QED
      BY <2>2, <2>3
  <1>4. Placed'
    BY <1>1, <1>2
    DEF IInv, Placed, StartScript, StartRun, StartOfRun, Goto, Checkpoint, ReturnToHost,
        Discarded, Scripts
  <1>5. ~RunningTimer /\ ~InFrame
    BY <1>1 DEF RunningTimer, InFrame
  <1>6. ~RunningTimer'
    BY <1>1
    DEF RunningTimer, StartScript, StartRun, StartOfRun, Goto, Checkpoint, ReturnToHost
  <1>7. QED
    BY <1>1, <1>3, <1>4, <1>5, <1>6, MoveKept

LEMMA ScriptReturnsKept == ASSUME IInv, ScriptReturns PROVE IInv'
PROOF
  <1>1. UNCHANGED <<loop, task, frameEnd, settled, fixups>> /\ pc \in Scripts
    BY DEF ScriptReturns, locals
  <1>2. CASE SettleFails(loop) /\ ReturnToHost(loop.aborted)
    <2>1. pc' = "host" /\ result' = loop.aborted /\ loop.aborted \in Reasons /\ after' = after
      BY <1>2 DEF SettleFails, ReturnToHost, IInv, LoopOK, LoopType
    <2>2. loop.aborted # NoAbort
      BY <1>2 DEF SettleFails
    <2>3. ThreadOK'
      BY <1>1, <2>1 DEF IInv, ThreadOK
    <2>4. Placed'
      BY <1>1, <2>1, <2>2 DEF IInv, Placed, Discarded, Scripts
    <2>5. ~RunningTimer'
      BY <2>1 DEF RunningTimer
    <2>6. QED
      BY <1>1, <2>2, <2>3, <2>4, <2>5, MoveKept
  <1>3. CASE /\ ~SettleFails(loop) /\ pc \in {"event", "stringify"}
             /\ ReturnToHost("ok")
    <2>1. pc' = "host" /\ result' = "ok" /\ after' = after /\ loop.aborted = NoAbort
      BY <1>3 DEF SettleFails, ReturnToHost
    <2>2. ThreadOK' /\ Placed'
      BY <1>1, <2>1 DEF IInv, ThreadOK, Placed, Discarded, Scripts
    <2>3. ~RunningTimer /\ ~InFrame /\ ~RunningTimer'
      BY <1>3, <2>1 DEF RunningTimer, InFrame
    <2>4. QED
      BY <1>1, <2>2, <2>3, MoveKept
  <1>4. ASSUME ~SettleFails(loop), pc \notin {"event", "stringify"},
               NEW return \in AfterScript(pc), Checkpoint(return)
        PROVE  IInv'
    <2>1. /\ pc' = "checkpoint" /\ after' = return /\ result' = result
          /\ loop.aborted = NoAbort
      BY <1>4 DEF SettleFails, Checkpoint
    <2>2. return \in Returns
      BY <1>1, <1>4 DEF AfterScript, Returns, Scripts, IInv, ThreadOK
    <2>3. ThreadOK' /\ Placed'
      BY <1>1, <2>1, <2>2 DEF IInv, ThreadOK, Placed, Discarded
    <2> DEFINE script == pc
    <2>4. /\ script = "evaluate" => return \in {"host", "stringify"}
          /\ script = "timer" => return = "rearm"
          /\ script = "frame" => return = "callbacks"
          /\ script = "native" => return = "next"
          /\ script \in {"microtask", "fixup"} => return = after
      <3> HIDE DEF script
      <3>1. return \in AfterScript(script)
        BY <1>4 DEF script
      <3>2. QED
        BY <3>1 DEF AfterScript
    <2>5. pc = "fixup" => return = "next"
      BY <2>4 DEF IInv, ThreadOK
    <2>6. RunningTimer' <=> RunningTimer
      BY <1>1, <1>4, <2>1, <2>4, <2>5 DEF RunningTimer, Scripts
    <2>7. InFrame' <=> InFrame
      BY <1>1, <1>4, <2>1, <2>4, <2>5 DEF InFrame, Scripts
    <2>8. QED
      BY <1>1, <2>3, <2>6, <2>7, MoveKept
  <1>5. QED
    BY <1>2, <1>3, <1>4 DEF ScriptReturns

LEMMA CheckpointEndsKept == ASSUME IInv, CheckpointEnds PROVE IInv'
PROOF
  <1>1. /\ UNCHANGED <<loop, task, frameEnd, settled, fixups, after>>
        /\ pc = "checkpoint" /\ loop.microtasks = 0
        /\ pc' = after /\ result' \in {"ok", result} /\ (after = "host" => result' = "ok")
    BY DEF CheckpointEnds, locals, Goto, ReturnToHost
  <1>2. after \in Returns /\ loop.aborted = NoAbort
    BY <1>1 DEF IInv, ThreadOK, Placed, Scripts
  <1>3. ThreadOK' /\ Placed'
    BY <1>1, <1>2 DEF IInv, ThreadOK, Placed, Returns, Scripts, Discarded
  <1>4. (RunningTimer' <=> RunningTimer) /\ (InFrame' <=> InFrame)
    BY <1>1, <1>2 DEF RunningTimer, InFrame, Returns
  <1>5. QED
    BY <1>1, <1>3, <1>4, MoveKept

LEMMA EndCallbacksKept == ASSUME IInv, EndCallbacks PROVE IInv'
PROOF
  <1>1. /\ UNCHANGED <<loop, task, frameEnd, settled, fixups, result>>
        /\ pc = "callbacks" /\ CallbacksOfFrame = {}
        /\ pc' \in {"fixup", "checkpoint"} /\ after' = "next"
    BY DEF EndCallbacks, locals, FixUpFocus, Checkpoint
  <1>2. loop.aborted = NoAbort
    BY <1>1 DEF IInv, Placed, Scripts
  <1>3. ThreadOK' /\ Placed'
    BY <1>1, <1>2 DEF IInv, ThreadOK, Placed, Returns, Scripts, Discarded
  <1>4. ~RunningTimer /\ ~RunningTimer'
    BY <1>1 DEF RunningTimer
  <1>5. QED
    BY <1>1, <1>3, <1>4, MoveKept

----------------------------------------------------------------------------
(* Steps of the thread that change the loop. *)

LEMMA CheckpointRunsKept == ASSUME IInv, CheckpointRuns PROVE IInv'
PROOF
  <1>0. loop \in LoopType /\ pc = "checkpoint" /\ loop.aborted = NoAbort
    BY DEF IInv, LoopOK, CheckpointRuns, Placed, Scripts
  <1>1. CASE loop.jobsRun >= MaxTasks
    BY <1>0, <1>1, RestOfItself, FailKept DEF CheckpointRuns, Reasons
  <1>2. CASE ~(loop.jobsRun >= MaxTasks)
    <2> DEFINE left == loop.microtasks - 1
               run == loop.jobsRun + 1
    <2>1. left \in Nat /\ run \in Nat /\ run <= MaxTasks /\ loop.microtasks = left + 1
      BY <1>0, <1>2, LimitsAssumption DEF CheckpointRuns, LoopType
    <2>2. /\ loop' = [loop EXCEPT !.microtasks = left, !.jobsRun = run]
          /\ pc' = "microtask" /\ UNCHANGED <<after, result, locals>>
      BY <1>2 DEF CheckpointRuns, Goto
    <2> HIDE DEF left, run
    <2>3. /\ loop' \in LoopType /\ loop'.microtasks = left /\ loop'.jobsRun = run
          /\ Rest(loop, loop', {"microtasks", "jobsRun"})
      BY <1>0, <2>1, <2>2 DEF LoopType, Rest
    <2>4. /\ loop'.tasks = loop.tasks /\ loop'.now = loop.now
          /\ loop'.nextSeq = loop.nextSeq /\ loop'.timers = loop.timers
          /\ loop'.nextTimer = loop.nextTimer /\ loop'.nesting = loop.nesting
          /\ loop'.frames = loop.frames /\ loop'.cancellable = loop.cancellable
          /\ loop'.nextFrame = loop.nextFrame /\ loop'.frameScheduled = loop.frameScheduled
          /\ loop'.aborted = loop.aborted /\ loop'.jobsEnqueued = loop.jobsEnqueued
          /\ loop.jobsEnqueued \in Nat /\ loop.microtasks \in Nat /\ loop.jobsRun \in Nat
      BY <1>0, <2>3 DEF LoopType, Rest
    <2>5. LoopOK'
      BY <2>1, <2>3, <2>4 DEF IInv, LoopOK
    <2>6. ThreadOK' /\ Placed'
      BY <1>0, <2>2, <2>4 DEF IInv, ThreadOK, Placed, Discarded, locals, Scripts
    <2>7. Bounded'
      <3>1. left + run <= loop.microtasks + loop.jobsRun
        BY <2>1, <2>4 DEF run
      <3>2. QED
        BY <1>0, <2>3, <2>4, <2>5, <3>1, BoundStays DEF IInv
    <2>8. task' = task /\ frameEnd' = frameEnd
      BY <2>2 DEF locals
    <2>9. (RunningTimer' <=> RunningTimer) /\ (InFrame' <=> InFrame)
      BY <1>0, <2>2 DEF RunningTimer, InFrame
    <2>10. Ordered' /\ TokensHaveTasks'
      BY <2>4, <2>8, OrderedStays, TokensStay DEF IInv
    <2>11. TimersHaveTasks'
      <3>1. TimerTasks(loop') = TimerTasks(loop) /\ loop'.jobsEnqueued >= loop.jobsEnqueued
        BY <2>4 DEF TimerTasks
      <3>2. \A q \in TimerTasks(loop) : q \in loop'.tasks
        BY <2>4 DEF TimerTasks
      <3>3. QED
        BY <2>4, <2>5, <2>8, <2>9, <3>1, <3>2, TimersStay DEF IInv
    <2>12. FramesHaveTask'
      <3>1. FrameTasks(loop') = FrameTasks(loop)
        BY <2>4 DEF FrameTasks
      <3>2. QED
        BY <2>4, <2>8, <2>9, <3>1, FramesStay DEF IInv
    <2>13. QED
      BY <2>5, <2>6, <2>7, <2>10, <2>11, <2>12 DEF IInv
  <1>3. QED
    BY <1>1, <1>2

LEMMA NextCallbackKept == ASSUME IInv, NextCallback PROVE IInv'
PROOF
  <1> DEFINE first == CHOOSE h \in CallbacksOfFrame : \A k \in CallbacksOfFrame : h <= k
             left == loop.frames \ {first}
  <1>1. loop \in LoopType /\ pc = "callbacks" /\ loop.aborted = NoAbort
    BY DEF IInv, LoopOK, NextCallback, Placed, Scripts
  <1>2. left \subseteq loop.frames
    OBVIOUS
  <1>3. /\ loop' = [loop EXCEPT !.frames = left]
        /\ pc' = "frame" /\ UNCHANGED <<after, result, locals>>
    BY DEF NextCallback, Goto
  <1> HIDE DEF left
  <1>4. /\ loop' \in LoopType /\ loop'.frames \subseteq loop.frames
        /\ loop'.tasks = loop.tasks /\ loop'.now = loop.now
        /\ loop'.microtasks = loop.microtasks /\ loop'.jobsRun = loop.jobsRun
        /\ loop'.nextSeq = loop.nextSeq /\ loop'.timers = loop.timers
        /\ loop'.nextTimer = loop.nextTimer /\ loop'.nesting = loop.nesting
        /\ loop'.cancellable = loop.cancellable
        /\ loop'.nextFrame = loop.nextFrame /\ loop'.frameScheduled = loop.frameScheduled
        /\ loop'.aborted = loop.aborted /\ loop'.jobsEnqueued = loop.jobsEnqueued
        /\ loop.jobsEnqueued \in Nat /\ loop.microtasks + loop.jobsRun \in Nat
    BY <1>1, <1>2, <1>3 DEF LoopType
  <1>5. LoopOK'
    BY <1>4 DEF IInv, LoopOK
  <1>6. ThreadOK' /\ Placed'
    BY <1>1, <1>3, <1>4 DEF IInv, ThreadOK, Placed, Discarded, locals, Scripts
  <1>7. Bounded'
    BY <1>1, <1>4, <1>5, BoundStays DEF IInv
  <1>8. task' = task /\ frameEnd' = frameEnd
    BY <1>3 DEF locals
  <1>9. (RunningTimer' <=> RunningTimer) /\ InFrame'
    BY <1>1, <1>3 DEF RunningTimer, InFrame
  <1>10. Ordered' /\ TokensHaveTasks'
    BY <1>4, <1>8, OrderedStays, TokensStay DEF IInv
  <1>11. TimersHaveTasks'
    <2>1. TimerTasks(loop') = TimerTasks(loop) /\ loop'.jobsEnqueued >= loop.jobsEnqueued
      BY <1>4 DEF TimerTasks
    <2>2. \A q \in TimerTasks(loop) : q \in loop'.tasks
      BY <1>4 DEF TimerTasks
    <2>3. QED
      BY <1>4, <1>5, <1>8, <1>9, <2>1, <2>2, TimersStay DEF IInv
  <1>12. FramesHaveTask'
    <2>1. FrameTasks(loop') = FrameTasks(loop)
      BY <1>4 DEF FrameTasks
    <2>2. QED
      BY <1>4, <1>8, <1>9, <2>1, FramesStay DEF IInv
  <1>13. QED
    BY <1>5, <1>6, <1>7, <1>10, <1>11, <1>12 DEF IInv

\* What has a task has a live one.
LEMMA LiveTasks ==
  ASSUME IInv
  PROVE  /\ \A t \in loop.timers : \A q \in TimerTasks(loop) : q.id = t.id => q \in Live(loop)
         /\ FrameTasks(loop) \subseteq Live(loop)
         /\ \A q \in loop.tasks :
              q.kind = "cancellable" /\ q.id \in loop.cancellable => q \in Live(loop)
  BY DEF Live, TimerTasks, FrameTasks, TimerIds

LEMMA IdleKept == ASSUME IInv, Idle PROVE IInv'
PROOF
  <1>1. /\ loop \in LoopType /\ pc = "next" /\ loop.aborted = NoAbort
        /\ Live(loop) = {} /\ loop' = Skip(loop) /\ UNCHANGED <<task, frameEnd>>
    BY DEF IInv, LoopOK, Idle, Placed, Scripts, locals
  <1>2. loop' \in LoopType /\ loop'.tasks = {} /\ Rest(loop, loop', {"tasks"})
    BY <1>1, Skips
  <1>3. /\ loop'.now = loop.now /\ loop'.microtasks = loop.microtasks
        /\ loop'.jobsRun = loop.jobsRun
        /\ loop'.nextSeq = loop.nextSeq /\ loop'.timers = loop.timers
        /\ loop'.nextTimer = loop.nextTimer /\ loop'.nesting = loop.nesting
        /\ loop'.frames = loop.frames /\ loop'.cancellable = loop.cancellable
        /\ loop'.frameScheduled = loop.frameScheduled
        /\ loop'.aborted = loop.aborted /\ loop'.jobsEnqueued = loop.jobsEnqueued
        /\ loop.jobsEnqueued \in Nat /\ loop.microtasks + loop.jobsRun \in Nat
    BY <1>1, <1>2 DEF LoopType, Rest
  <1>4. ~RunningTimer /\ ~InFrame
    BY <1>1 DEF RunningTimer, InFrame
  <1>5. Discarded(loop')
    <2>1. loop.microtasks = 0
      BY <1>1 DEF IInv, Placed
    <2>2. loop.timers = {}
      BY <1>1, <1>4, LiveTasks DEF IInv, TimersHaveTasks
    <2>3. ~loop.frameScheduled /\ loop.frames = {}
      BY <1>1, <1>4, LiveTasks DEF IInv, FramesHaveTask
    <2>4. loop.cancellable = {}
      BY <1>1, LiveTasks DEF IInv, TokensHaveTasks
    <2>5. QED
      BY <1>2, <1>3, <2>1, <2>2, <2>3, <2>4 DEF Discarded
  <1>6. LoopOK'
    BY <1>2, <1>3, FS_EmptySet DEF IInv, LoopOK
  <1>7. /\ \/ pc' = "host" /\ after' = after
           \/ pc' \in {"checkpoint", "fixup"} /\ after' = "next"
        /\ settled' \in BOOLEAN /\ fixups' \in 0..(MaxFixups + 1)
        /\ result' \in {result, "idle"}
    <2>1. CASE settled /\ ReturnToHost("idle") /\ UNCHANGED locals
      BY <2>1 DEF ReturnToHost, locals, IInv, ThreadOK
    <2>2. CASE ~settled
      <3>1. fixups' \in 0..(MaxFixups + 1)
        <4>1. MaxFixups \in Nat /\ fixups \in 0..(MaxFixups + 1)
          BY LimitsAssumption DEF IInv, ThreadOK
        <4>2. fixups' = IF fixups <= MaxFixups THEN fixups + 1 ELSE fixups
          BY <2>2 DEF Idle
        <4>3. QED
          BY <4>1, <4>2
      <3>2. PICK moved \in BOOLEAN : /\ FixUpFocus(moved, fixups < MaxFixups)
                                     /\ settled' = Settles(moved, fixups < MaxFixups)
        BY <2>2 DEF Idle
      <3>3. settled' \in BOOLEAN
        BY <3>2 DEF Settles
      <3>4. pc' \in {"checkpoint", "fixup"} /\ after' = "next" /\ result' = result
        BY <3>2 DEF FixUpFocus, Checkpoint
      <3>5. QED
        BY <3>1, <3>3, <3>4
    <2>3. QED
      BY <2>1, <2>2 DEF Idle
  <1>8. ThreadOK' /\ Placed'
    BY <1>1, <1>3, <1>5, <1>7 DEF IInv, ThreadOK, Placed, Scripts, Returns
  <1>9. ~RunningTimer' /\ ~InFrame'
    BY <1>1, <1>7 DEF RunningTimer, InFrame
  <1>10. Bounded' /\ Ordered'
    BY <1>1, <1>2, <1>3, <1>6, BoundStays, OrderedStays DEF IInv
  <1>11. TimersHaveTasks'
    <2>1. loop'.nesting = 0
      BY <1>1, <1>3, <1>4 DEF IInv, TimersHaveTasks
    <2>2. TimerTasks(loop') = {} /\ loop'.timers = {}
      BY <1>5 DEF TimerTasks, Discarded
    <2>3. loop'.nextTimer <= loop'.jobsEnqueued + 1
      BY <1>3 DEF IInv, TimersHaveTasks
    <2>4. QED
      BY <1>9, <2>1, <2>2, <2>3 DEF TimersHaveTasks
  <1>12. FramesHaveTask' /\ TokensHaveTasks'
    BY <1>5 DEF FramesHaveTask, TokensHaveTasks, FrameTasks, Discarded
  <1>13. QED
    BY <1>6, <1>8, <1>10, <1>11, <1>12 DEF IInv

\* A repetition gives the timer its next task; a timer that ended is removed.
LEMMA EndTimerKept == ASSUME IInv, EndTimer PROVE IInv'
PROOF
  <1>1. loop \in LoopType /\ pc = "rearm" /\ loop.aborted = NoAbort /\ loop.microtasks = 0
    BY DEF IInv, LoopOK, EndTimer, Placed, Scripts
  <1>2. /\ RunningTimer /\ ~InFrame /\ task.kind = "timer" /\ task.id < loop.nextTimer
        /\ \A q \in TimerTasks(loop) : q.id # task.id
    BY <1>1 DEF IInv, TimersHaveTasks, RunningTimer, InFrame
  <1>3. CASE Repeats(task.id) # {} /\ Full(loop)
    BY <1>1, <1>3, RestOfItself, FailKept DEF EndTimer, Reasons
  <1>4. CASE ~(Repeats(task.id) # {} /\ Full(loop))
    <2>1. /\ pc' = "checkpoint" /\ after' = "next" /\ UNCHANGED <<locals, result>>
      BY <1>4 DEF EndTimer, Checkpoint
    <2>2. task' = task /\ frameEnd' = frameEnd /\ ~RunningTimer' /\ ~InFrame'
      BY <2>1 DEF locals, RunningTimer, InFrame
    <2>3. ThreadOK'
      BY <2>1 DEF IInv, ThreadOK, locals, Returns
    <2>4. CASE Repeats(task.id) # {}
      <3> DEFINE t == CHOOSE t \in Repeats(task.id) : TRUE
                 r == Reserve(loop)
                 wait == TimerDelay(r, t.timeout)
                 m == PushTask(r, wait, "timer", t.id, r.nesting + 1)
                 q == Job(r, wait, "timer", t.id, r.nesting + 1)
      <3>1. loop' = [m EXCEPT !.nesting = 0] /\ ~Full(loop)
        BY <1>4, <2>4 DEF EndTimer, Rearm, TimerEnds, ScheduleTimer
      <3>2. t \in loop.timers /\ t.id = task.id
        BY <2>4 DEF Repeats
      <3> HIDE DEF t
      <3>3. t.id \in Nat /\ t.timeout \in Int
        BY <1>1, <3>2 DEF LoopType
      <3>4. /\ r \in LoopType /\ Rest(loop, r, {"jobsEnqueued"})
            /\ r.jobsEnqueued = loop.jobsEnqueued + 1
        BY <1>1, Reserves
      <3> HIDE DEF r
      <3>5. wait \in Nat /\ r.nesting + 1 \in Nat
        BY <3>3, <3>4, WaitIsNatural DEF LoopType
      <3> HIDE DEF wait
      <3>6. /\ m \in LoopType /\ Rest(r, m, {"tasks", "nextSeq"})
            /\ m.tasks = r.tasks \cup {q} /\ m.nextSeq = r.nextSeq + 1 /\ q \in Tasks
        <4>1. "timer" \in TaskKinds
          BY DEF TaskKinds
        <4>2. QED
          BY <3>3, <3>4, <3>5, <4>1, Pushes
      <3>7. q.kind = "timer" /\ q.id = task.id /\ q.due = r.now + wait /\ q.seq = r.nextSeq
        BY <3>2 DEF Job
      <3> HIDE DEF m, q
      <3>8. loop' \in LoopType /\ loop'.nesting = 0 /\ Rest(m, loop', {"nesting"})
        BY <3>1, <3>6 DEF LoopType, Rest
      <3>9. /\ r.tasks = loop.tasks /\ r.now = loop.now /\ r.nextSeq = loop.nextSeq
            /\ r.microtasks = loop.microtasks /\ r.jobsRun = loop.jobsRun
            /\ r.timers = loop.timers /\ r.nextTimer = loop.nextTimer
            /\ r.frames = loop.frames /\ r.nextFrame = loop.nextFrame
            /\ r.frameScheduled = loop.frameScheduled
            /\ r.cancellable = loop.cancellable /\ r.aborted = loop.aborted
        BY <1>1, <3>4 DEF LoopType, Rest
      <3>10. /\ m.now = loop.now /\ m.jobsEnqueued = loop.jobsEnqueued + 1
             /\ m.microtasks = loop.microtasks /\ m.jobsRun = loop.jobsRun
             /\ m.timers = loop.timers /\ m.nextTimer = loop.nextTimer
             /\ m.frames = loop.frames /\ m.nextFrame = loop.nextFrame
             /\ m.frameScheduled = loop.frameScheduled
             /\ m.cancellable = loop.cancellable /\ m.aborted = loop.aborted
        BY <3>4, <3>6, <3>9 DEF LoopType, Rest
      <3>11. /\ loop'.tasks = loop.tasks \cup {q} /\ loop'.nextSeq = loop.nextSeq + 1
             /\ loop'.now = loop.now /\ loop'.jobsEnqueued = loop.jobsEnqueued + 1
             /\ loop'.microtasks = loop.microtasks /\ loop'.jobsRun = loop.jobsRun
             /\ loop'.timers = loop.timers /\ loop'.nextTimer = loop.nextTimer
             /\ loop'.frames = loop.frames /\ loop'.nextFrame = loop.nextFrame
             /\ loop'.frameScheduled = loop.frameScheduled
             /\ loop'.cancellable = loop.cancellable /\ loop'.aborted = loop.aborted
        BY <3>6, <3>8, <3>9, <3>10 DEF LoopType, Rest
      <3>12. /\ q.due \in Nat /\ q.due >= loop.now /\ q.seq = loop.nextSeq
             /\ loop.jobsEnqueued \in Nat /\ MaxEnqueued \in Nat
             /\ loop.jobsEnqueued + 1 <= MaxEnqueued
        BY <1>1, <3>1, <3>5, <3>7, <3>9, LimitsAssumption DEF LoopType, Full
      <3>13. Bounded' /\ IsFiniteSet(loop'.tasks)
        BY <1>1, <3>11, BoundPush DEF IInv
      <3>14. LoopOK'
        BY <3>8, <3>11, <3>12, <3>13 DEF IInv, LoopOK
      <3>15. Placed'
        BY <1>1, <2>1, <3>11 DEF Placed
      <3>16. Ordered'
        BY <2>2, <3>11, <3>12, OrderedPush DEF IInv
      <3>17. TimersHaveTasks'
        <4>1. TimerTasks(loop') = TimerTasks(loop) \cup {q}
          BY <3>7, <3>11 DEF TimerTasks
        <4>2. loop'.nextTimer <= loop'.jobsEnqueued + 1
          BY <1>1, <3>11, <3>12 DEF IInv, TimersHaveTasks, LoopType
        <4>3. \A u \in loop.timers : \E p \in TimerTasks(loop') : p.id = u.id
          BY <3>7, <4>1 DEF IInv, TimersHaveTasks
        <4>4. /\ \A p \in TimerTasks(loop') : p.id < loop.nextTimer
              /\ \A p, s \in TimerTasks(loop') : p.id = s.id => p = s
          BY <1>2, <3>7, <4>1 DEF IInv, TimersHaveTasks
        <4>5. QED
          BY <2>2, <3>8, <3>11, <4>2, <4>3, <4>4 DEF IInv, TimersHaveTasks
      <3>18. FramesHaveTask'
        <4>1. FrameTasks(loop') = FrameTasks(loop)
          BY <3>7, <3>11 DEF FrameTasks
        <4>2. QED
          BY <1>2, <2>2, <3>11, <4>1, FramesStay DEF IInv
      <3>19. TokensHaveTasks'
        BY <3>11, TokensStay DEF IInv
      <3>20. QED
        BY <2>3, <3>13, <3>14, <3>15, <3>16, <3>17, <3>18, <3>19 DEF IInv
    <2>5. CASE Repeats(task.id) = {}
      <3> DEFINE left == {t \in loop.timers : t.id # task.id}
      <3>1. left \subseteq loop.timers /\ loop' = [loop EXCEPT !.timers = left, !.nesting = 0]
        BY <1>1, <1>4, <2>5 DEF EndTimer, TimerEnds, RemoveTimer, LoopType
      <3>2. \A t \in left : t.id # task.id
        OBVIOUS
      <3> HIDE DEF left
      <3>3. /\ loop' \in LoopType /\ loop'.nesting = 0 /\ loop'.timers = left
            /\ loop'.tasks = loop.tasks /\ loop'.now = loop.now
            /\ loop'.microtasks = loop.microtasks /\ loop'.jobsRun = loop.jobsRun
            /\ loop'.nextSeq = loop.nextSeq /\ loop'.nextTimer = loop.nextTimer
            /\ loop'.frames = loop.frames /\ loop'.cancellable = loop.cancellable
            /\ loop'.nextFrame = loop.nextFrame /\ loop'.frameScheduled = loop.frameScheduled
            /\ loop'.aborted = loop.aborted /\ loop'.jobsEnqueued = loop.jobsEnqueued
            /\ loop.jobsEnqueued \in Nat /\ loop.microtasks + loop.jobsRun \in Nat
        <4>1. /\ loop' \in LoopType /\ Rest(loop, loop', {"timers", "nesting"})
          BY <1>1, <3>1 DEF LoopType, Rest
        <4>2. loop'.nesting = 0 /\ loop'.timers = left
          BY <1>1, <3>1 DEF LoopType
        <4>3. QED
          BY <1>1, <4>1, <4>2 DEF LoopType, Rest
      <3>4. LoopOK'
        BY <3>3 DEF IInv, LoopOK
      <3>5. Placed'
        BY <1>1, <2>1, <3>3 DEF Placed
      <3>6. Bounded'
        BY <1>1, <3>3, <3>4, BoundStays DEF IInv
      <3>7. Ordered' /\ TokensHaveTasks'
        BY <2>2, <3>3, OrderedStays, TokensStay DEF IInv
      <3>8. TimersHaveTasks'
        <4>1. TimerTasks(loop') = TimerTasks(loop)
          BY <3>3 DEF TimerTasks
        <4>2. \A u \in left : u.id < loop.nextTimer /\ \E p \in TimerTasks(loop) : p.id = u.id
          BY <3>1, <3>2 DEF IInv, TimersHaveTasks
        <4>3. QED
          BY <2>2, <3>3, <4>1, <4>2 DEF IInv, TimersHaveTasks
      <3>9. FramesHaveTask'
        <4>1. FrameTasks(loop') = FrameTasks(loop)
          BY <3>3 DEF FrameTasks
        <4>2. QED
          BY <1>2, <2>2, <3>3, <4>1, FramesStay DEF IInv
      <3>10. QED
        BY <2>3, <3>4, <3>5, <3>6, <3>7, <3>8, <3>9 DEF IInv
    <2>6. QED
      BY <2>4, <2>5
  <1>5. QED
    BY <1>3, <1>4

----------------------------------------------------------------------------
(* The next task. *)

\* Among tasks with different numbers one comes before all the others.
LEMMA EarliestExists ==
  ASSUME NEW S \in SUBSET Tasks, S # {}, \A q, r \in S : q.seq = r.seq => q = r
  PROVE  Earliest(S) \in S /\ \A r \in S : Earliest(S) = r \/ Before(Earliest(S), r)
PROOF
  <1> DEFINE D == {q.due : q \in S}
  <1>1. \A q \in S : q.due \in Nat /\ q.seq \in Nat
    BY DEF Tasks
  <1>2. PICK d \in D : \A e \in D : d <= e
    <2>1. D \in SUBSET Nat /\ D # {}
      BY <1>1
    <2> HIDE DEF D
    <2>2. QED
      BY <2>1, LeastNatural
  <1> DEFINE F == {q \in S : q.due = d}
             N == {q.seq : q \in F}
  <1>3. PICK n \in N : \A k \in N : n <= k
    <2>1. N \in SUBSET Nat /\ N # {}
      BY <1>1, <1>2
    <2> HIDE DEF N
    <2>2. QED
      BY <2>1, LeastNatural
  <1>4. PICK q \in S : q.due = d /\ q.seq = n
    BY <1>3
  <1>5. ASSUME NEW r \in S
        PROVE  q = r \/ Before(q, r)
    <2>1. d <= r.due /\ d \in Nat /\ n \in Nat
      BY <1>1, <1>2, <1>4
    <2>2. r.due = d => n <= r.seq
      BY <1>3
    <2>3. QED
      BY <1>1, <1>4, <2>1, <2>2 DEF Before
  <1>6. QED
    BY <1>5 DEF Earliest

\* What a task changes before it runs any script.
LEMMA BeginsTask ==
  ASSUME NEW l \in LoopType, NEW q \in Tasks, Begin(q, l)
  PROVE  /\ loop' \in LoopType
         /\ Rest(l, loop', {"nesting", "frameScheduled", "cancellable"})
         /\ loop'.nesting = IF q.kind = "timer" THEN q.nesting ELSE l.nesting
         /\ loop'.frameScheduled = (q.kind # "frame" /\ l.frameScheduled)
         /\ loop'.cancellable =
              IF q.kind = "cancellable" THEN l.cancellable \ {q.id} ELSE l.cancellable
         /\ frameEnd' = IF q.kind = "frame" THEN l.nextFrame ELSE frameEnd
         /\ pc' \in {"timer", "callbacks", "native"} /\ UNCHANGED <<after, result>>
         /\ pc' = "timer" <=> q.kind = "timer"
         /\ pc' = "callbacks" <=> q.kind = "frame"
PROOF
  <1>1. /\ q.nesting \in Nat /\ l.frameScheduled \in BOOLEAN
        /\ q.kind \in {"timer", "frame", "native", "cancellable"}
    BY DEF LoopType, Tasks
  <1>2. CASE q.kind = "timer"
    <2> DEFINE nesting == q.nesting
    <2>1. /\ loop' = [l EXCEPT !.nesting = nesting] /\ pc' = "timer"
          /\ UNCHANGED <<after, result, frameEnd>>
      BY <1>2 DEF Begin, Goto
    <2> HIDE DEF nesting
    <2>2. nesting \in Nat
      BY <1>1 DEF nesting
    <2>3. /\ loop' \in LoopType /\ loop'.nesting = nesting
          /\ loop'.frameScheduled = l.frameScheduled /\ loop'.cancellable = l.cancellable
          /\ Rest(l, loop', {"nesting", "frameScheduled", "cancellable"})
      BY <2>1, <2>2 DEF LoopType, Rest
    <2>4. QED
      BY <1>1, <1>2, <2>1, <2>3 DEF nesting
  <1>3. CASE q.kind = "frame"
    <2>1. /\ loop' = [l EXCEPT !.frameScheduled = FALSE] /\ pc' = "callbacks"
          /\ UNCHANGED <<after, result>> /\ frameEnd' = l.nextFrame
      BY <1>3 DEF Begin, Goto, FrameStarts
    <2>2. /\ loop' \in LoopType /\ loop'.frameScheduled = FALSE
          /\ loop'.nesting = l.nesting /\ loop'.cancellable = l.cancellable
          /\ Rest(l, loop', {"nesting", "frameScheduled", "cancellable"})
      BY <2>1 DEF LoopType, Rest
    <2>3. QED
      BY <1>1, <1>3, <2>1, <2>2
  <1>4. CASE q.kind = "cancellable"
    <2> DEFINE left == l.cancellable \ {q.id}
    <2>1. /\ loop' = [l EXCEPT !.cancellable = left] /\ pc' = "native"
          /\ UNCHANGED <<after, result, frameEnd>>
      BY <1>4 DEF Begin, Goto, TakeJob
    <2>2. left \in SUBSET Nat
      BY DEF LoopType
    <2> HIDE DEF left
    <2>3. /\ loop' \in LoopType /\ loop'.cancellable = left
          /\ loop'.frameScheduled = l.frameScheduled /\ loop'.nesting = l.nesting
          /\ Rest(l, loop', {"nesting", "frameScheduled", "cancellable"})
      BY <2>1, <2>2 DEF LoopType, Rest
    <2>4. QED
      BY <1>1, <1>4, <2>1, <2>3 DEF left
  <1>5. CASE q.kind = "native"
    <2>1. /\ loop' = l /\ pc' = "native" /\ UNCHANGED <<after, result, frameEnd>>
      BY <1>5 DEF Begin, Goto
    <2>2. QED
      BY <1>1, <1>5, <2>1, RestOfItself
  <1>6. QED
    BY <1>1, <1>2, <1>3, <1>4, <1>5
LEMMA Takes ==
  ASSUME NEW l \in LoopType, NEW q \in Tasks, q.due >= l.now
  PROVE  /\ Take(l, q) \in LoopType /\ Rest(l, Take(l, q), {"tasks", "now", "jobsRun"})
         /\ Take(l, q).tasks = l.tasks \ {q} /\ Take(l, q).now = q.due
         /\ Take(l, q).jobsRun = l.jobsRun + 1
PROOF
  <1> DEFINE left == l.tasks \ {q}
             now == IF q.due > l.now THEN q.due ELSE l.now
             run == l.jobsRun + 1
  <1>1. left \in SUBSET Tasks /\ now \in Nat /\ run \in Nat /\ now = q.due
    BY DEF LoopType, Tasks
  <1>2. Take(l, q) = [l EXCEPT !.tasks = left, !.now = now, !.jobsRun = run]
    BY DEF Take
  <1> HIDE DEF left, now, run
  <1>3. /\ Take(l, q) \in LoopType /\ Rest(l, Take(l, q), {"tasks", "now", "jobsRun"})
        /\ Take(l, q).tasks = left /\ Take(l, q).now = now /\ Take(l, q).jobsRun = run
    BY <1>1, <1>2 DEF LoopType, Rest
  <1>4. QED
    BY <1>1, <1>3 DEF left, run

\* The task that is taken comes before all that stay queued.
LEMMA NextTaskKept == ASSUME IInv, NextTask PROVE IInv'
PROOF
  <1> DEFINE q == Earliest(Live(loop))
             l == Skip(loop)
             k == Take(l, q)
  <1>1. /\ loop \in LoopType /\ pc = "next" /\ loop.aborted = NoAbort /\ loop.microtasks = 0
        /\ Live(loop) # {}
    BY DEF IInv, LoopOK, NextTask, Placed, Scripts
  <1>2. /\ l \in LoopType /\ Rest(loop, l, {"tasks"}) /\ l.tasks \subseteq loop.tasks
        /\ Live(loop) \subseteq l.tasks
        /\ \A p \in l.tasks : p \in Live(loop) \/ \E r \in Live(loop) : Before(r, p)
    BY <1>1, Skips
  <1>3. q \in Live(loop) /\ \A r \in Live(loop) : q = r \/ Before(q, r)
    <2>1. Live(loop) \in SUBSET Tasks /\ \A p, r \in Live(loop) : p.seq = r.seq => p = r
      BY <1>1 DEF Live, LoopType, IInv, Ordered
    <2>2. QED
      BY <1>1, <2>1, EarliestExists
  <1> HIDE DEF l, q
  <1>4. CASE PastHorizon(q)
    <2>1. Fail(Abort(l, "VirtualTime"))
      BY <1>4 DEF NextTask, l, q
    <2>2. QED
      BY <1>2, <2>1, FailKept DEF Reasons
  <1>5. CASE ~PastHorizon(q) /\ l.jobsRun >= MaxTasks
    <2>1. Fail(Abort(l, "Tasks"))
      BY <1>5 DEF NextTask, l, q
    <2>2. QED
      BY <1>2, <2>1, FailKept DEF Reasons
  <1>6. CASE ~PastHorizon(q) /\ ~(l.jobsRun >= MaxTasks)
    <2>1. Begin(q, k) /\ task' = q /\ UNCHANGED <<settled, fixups>>
      BY <1>6 DEF NextTask, l, q
    <2>2. /\ l.now = loop.now /\ l.nextSeq = loop.nextSeq /\ l.microtasks = loop.microtasks
          /\ l.timers = loop.timers /\ l.nextTimer = loop.nextTimer
          /\ l.frames = loop.frames /\ l.nextFrame = loop.nextFrame
          /\ l.frameScheduled = loop.frameScheduled /\ l.cancellable = loop.cancellable
          /\ l.nesting = loop.nesting /\ l.jobsRun = loop.jobsRun
          /\ l.jobsEnqueued = loop.jobsEnqueued /\ l.aborted = loop.aborted
      BY <1>1, <1>2 DEF LoopType, Rest
    <2>3. q \in loop.tasks /\ q \in Tasks /\ q \in l.tasks
      BY <1>1, <1>2, <1>3 DEF Live, LoopType
    <2>4. /\ q.due \in Nat /\ q.seq \in Nat /\ q.due >= loop.now /\ loop.now \in Nat
          /\ q.id \in Nat /\ q.nesting \in Nat /\ q.seq < loop.nextSeq
      BY <1>1, <2>3 DEF IInv, Ordered, LoopType, Tasks
    <2>5. /\ k \in LoopType /\ Rest(l, k, {"tasks", "now", "jobsRun"})
          /\ k.tasks = l.tasks \ {q} /\ k.now = q.due /\ k.jobsRun = l.jobsRun + 1
      BY <1>2, <2>2, <2>3, <2>4, Takes
    <2> HIDE DEF k
    <2>6. /\ k.nextSeq = loop.nextSeq /\ k.microtasks = loop.microtasks
          /\ k.timers = loop.timers /\ k.nextTimer = loop.nextTimer
          /\ k.frames = loop.frames /\ k.nextFrame = loop.nextFrame
          /\ k.frameScheduled = loop.frameScheduled /\ k.cancellable = loop.cancellable
          /\ k.nesting = loop.nesting /\ k.jobsEnqueued = loop.jobsEnqueued
          /\ k.aborted = loop.aborted
      BY <1>2, <2>2, <2>5 DEF LoopType, Rest
    <2>7. /\ loop' \in LoopType
          /\ Rest(k, loop', {"nesting", "frameScheduled", "cancellable"})
          /\ loop'.nesting = IF q.kind = "timer" THEN q.nesting ELSE loop.nesting
          /\ loop'.frameScheduled = (q.kind # "frame" /\ loop.frameScheduled)
          /\ loop'.cancellable = IF q.kind = "cancellable"
                                 THEN loop.cancellable \ {q.id} ELSE loop.cancellable
          /\ frameEnd' = IF q.kind = "frame" THEN loop.nextFrame ELSE frameEnd
          /\ pc' \in {"timer", "callbacks", "native"} /\ UNCHANGED <<after, result>>
          /\ pc' = "timer" <=> q.kind = "timer"
          /\ pc' = "callbacks" <=> q.kind = "frame"
      BY <2>1, <2>3, <2>5, <2>6, BeginsTask
    <2>8. /\ loop'.tasks = l.tasks \ {q} /\ loop'.now = q.due
          /\ loop'.jobsRun = loop.jobsRun + 1 /\ loop'.microtasks = 0
          /\ loop'.nextSeq = loop.nextSeq /\ loop'.timers = loop.timers
          /\ loop'.nextTimer = loop.nextTimer /\ loop'.frames = loop.frames
          /\ loop'.nextFrame = loop.nextFrame /\ loop'.jobsEnqueued = loop.jobsEnqueued
          /\ loop'.aborted = NoAbort
      BY <1>1, <2>2, <2>5, <2>6, <2>7 DEF LoopType, Rest
    <2>9. /\ ~RunningTimer /\ ~InFrame
          /\ RunningTimer' <=> q.kind = "timer"
          /\ InFrame' <=> q.kind = "frame"
      BY <1>1, <2>7 DEF RunningTimer, InFrame
    <2>10. /\ loop.tasks \in SUBSET Tasks /\ IsFiniteSet(loop.tasks)
           /\ loop.jobsRun \in Nat /\ loop.jobsEnqueued \in Nat
           /\ MaxTasks \in Nat /\ MaxVirtualTime \in Nat
      BY <1>1, LimitsAssumption DEF IInv, LoopOK, LoopType
    <2>11. /\ IsFiniteSet(loop'.tasks) /\ Cardinality(loop.tasks) \in Nat
           /\ Cardinality(loop'.tasks) \in Nat
           /\ Cardinality(loop'.tasks) <= Cardinality(loop.tasks) - 1
      <3>1. /\ IsFiniteSet(loop.tasks \ {q}) /\ Cardinality(loop.tasks) \in Nat
            /\ Cardinality(loop.tasks \ {q}) = Cardinality(loop.tasks) - 1
        BY <2>3, <2>10, Smaller
      <3>2. loop'.tasks \subseteq loop.tasks \ {q}
        BY <1>2, <2>8
      <3>3. /\ IsFiniteSet(loop'.tasks) /\ Cardinality(loop'.tasks) \in Nat
            /\ Cardinality(loop'.tasks) <= Cardinality(loop.tasks \ {q})
        <4> DEFINE S == loop.tasks \ {q}
                   T == loop'.tasks
        <4>1. IsFiniteSet(S) /\ T \subseteq S
          BY <3>1, <3>2
        <4> HIDE DEF S, T
        <4>2. IsFiniteSet(T) /\ Cardinality(T) <= Cardinality(S) /\ Cardinality(T) \in Nat
          BY <4>1, FS_Subset, FS_CardinalityType
        <4>3. QED
          BY <4>2 DEF S, T
      <3>4. QED
        BY <3>1, <3>3
    <2>12. LoopOK'
      <3>1. q.due <= MaxVirtualTime /\ loop.jobsRun + 1 <= MaxTasks
        BY <1>6, <2>2, <2>4, <2>10 DEF PastHorizon
      <3>2. QED
        BY <2>7, <2>8, <2>11, <3>1 DEF IInv, LoopOK
    <2>13. ThreadOK'
      <3>1. frameEnd' \in Nat
        BY <1>1, <2>7 DEF LoopType, IInv, ThreadOK
      <3>2. QED
        BY <2>1, <2>3, <2>7, <3>1 DEF IInv, ThreadOK, Scripts
    <2>14. Placed'
      BY <2>7, <2>8 DEF Placed
    <2>15. Bounded'
      <3> DEFINE before == Cardinality(loop.tasks)
                 later == Cardinality(loop'.tasks)
      <3>1. before + loop.microtasks + loop.jobsRun <= loop.jobsEnqueued
        BY <1>1 DEF IInv, Bounded
      <3>2. later <= before - 1 /\ later \in Nat /\ before \in Nat
        BY <2>11
      <3> HIDE DEF before, later
      <3>3. later + loop'.microtasks + loop'.jobsRun <= loop'.jobsEnqueued
        BY <1>1, <2>8, <2>10, <3>1, <3>2
      <3>4. QED
        BY <3>3 DEF Bounded, later
    <2>16. Ordered'
      <3>1. ASSUME NEW p \in loop'.tasks
            PROVE  /\ p.seq < loop.nextSeq /\ p.due >= q.due /\ Before(q, p)
        <4>1. p \in loop.tasks /\ p \in l.tasks /\ p # q
          BY <1>2, <2>8
        <4>2. p.seq < loop.nextSeq /\ p.due \in Nat /\ p.seq \in Nat
          BY <2>10, <4>1 DEF IInv, Ordered, Tasks
        <4>3. Before(q, p)
          <5>1. CASE p \in Live(loop)
            BY <1>3, <4>1, <5>1
          <5>2. CASE p \notin Live(loop)
            <6>1. PICK r \in Live(loop) : Before(r, p)
              BY <1>2, <4>1, <5>2
            <6>2. r \in Tasks /\ (q = r \/ Before(q, r))
              BY <1>3, <2>10 DEF Live
            <6>3. QED
              BY <2>4, <4>2, <6>1, <6>2 DEF Before, Tasks
          <5>3. QED
            BY <5>1, <5>2
        <4>4. QED
          BY <2>4, <4>2, <4>3 DEF Before
      <3>2. \A p, r \in loop'.tasks : p.seq = r.seq => p = r
        BY <1>2, <2>8 DEF IInv, Ordered
      <3>3. QED
        BY <2>1, <2>4, <2>8, <3>1, <3>2 DEF Ordered
    <2>17. TimersHaveTasks'
      <3>1. TimerTasks(loop') \subseteq TimerTasks(loop) \ {q}
        BY <1>2, <2>8 DEF TimerTasks
      <3>2. ASSUME NEW t \in loop.timers
            PROVE  \/ \E p \in TimerTasks(loop') : p.id = t.id
                   \/ RunningTimer' /\ q.id = t.id
        <4>1. PICK p \in TimerTasks(loop) : p.id = t.id
          BY <2>9 DEF IInv, TimersHaveTasks
        <4>2. p \in Live(loop)
          BY <4>1, LiveTasks
        <4>3. QED
          BY <1>2, <2>8, <2>9, <4>1, <4>2 DEF TimerTasks
      <3>3. q.kind = "timer" =>
              q.id < loop.nextTimer /\ \A p \in TimerTasks(loop') : p.id # q.id
        BY <2>3, <3>1 DEF IInv, TimersHaveTasks, TimerTasks
      <3>4. loop'.nesting = IF RunningTimer' THEN q.nesting ELSE 0
        BY <1>1, <2>7, <2>9 DEF IInv, TimersHaveTasks
      <3>5. QED
        BY <2>1, <2>8, <2>9, <3>1, <3>2, <3>3, <3>4 DEF IInv, TimersHaveTasks
    <2>18. FramesHaveTask'
      <3>1. CASE q.kind = "frame"
        <4>1. q \in FrameTasks(loop)
          BY <2>3, <3>1 DEF FrameTasks
        <4>2. FrameTasks(loop') = {}
          BY <1>2, <2>8, <4>1 DEF IInv, FramesHaveTask, FrameTasks
        <4>3. QED
          BY <2>7, <2>8, <2>9, <3>1, <4>2 DEF IInv, FramesHaveTask
      <3>2. CASE q.kind # "frame"
        <4>1. FrameTasks(loop') = FrameTasks(loop)
          BY <1>2, <2>8, <3>2, LiveTasks DEF FrameTasks
        <4>2. loop'.frameScheduled = loop.frameScheduled /\ frameEnd' = frameEnd
          BY <1>1, <2>7, <3>2 DEF LoopType
        <4>3. QED
          BY <2>8, <2>9, <4>1, <4>2, FramesStay DEF IInv
      <3>3. QED
        BY <3>1, <3>2
    <2>19. TokensHaveTasks'
      <3>1. ASSUME NEW token \in loop'.cancellable
            PROVE  \E p \in loop'.tasks : p.kind = "cancellable" /\ p.id = token
        <4>1. token \in loop.cancellable /\ (q.kind = "cancellable" => token # q.id)
          BY <2>7
        <4>2. PICK p \in loop.tasks : p.kind = "cancellable" /\ p.id = token
          BY <4>1 DEF IInv, TokensHaveTasks
        <4>3. p \in Live(loop) /\ p # q
          BY <4>1, <4>2, LiveTasks
        <4>4. QED
          BY <1>2, <2>8, <4>2, <4>3
      <3>2. QED
        BY <3>1 DEF TokensHaveTasks
    <2>20. QED
      BY <2>12, <2>13, <2>14, <2>15, <2>16, <2>17, <2>18, <2>19 DEF IInv
  <1>7. QED
    BY <1>4, <1>5, <1>6

----------------------------------------------------------------------------
(* The invariant holds in every state. *)

LEMMA InitKept == Init => IInv
PROOF
  <1> SUFFICES ASSUME Init PROVE IInv
    OBVIOUS
  <1> DEFINE first == [due |-> 0, seq |-> -1, kind |-> "none", id |-> 0, nesting |-> 0]
  <1>1. /\ loop = NewLoop /\ pc = "host" /\ after = "host" /\ task = first
        /\ frameEnd = 0 /\ settled = FALSE /\ fixups = 0 /\ result = "ok"
    BY DEF Init
  <1>2. /\ MaxTasks \in Nat /\ MaxEnqueued \in Nat /\ MaxVirtualTime \in Nat
        /\ MaxFixups \in Nat
    BY LimitsAssumption
  <1>3. /\ loop.tasks = {} /\ loop.timers = {} /\ loop.frames = {} /\ loop.cancellable = {}
        /\ loop.microtasks = 0 /\ loop.jobsRun = 0 /\ loop.jobsEnqueued = 0
        /\ loop.now = 0 /\ loop.nextSeq = 0 /\ loop.nextTimer = 1 /\ loop.nextFrame = 1
        /\ loop.frameScheduled = FALSE /\ loop.nesting = 0 /\ loop.aborted = NoAbort
        /\ loop.nextCancellable = 0
    BY <1>1 DEF NewLoop
  <1>4. loop \in LoopType
    BY <1>1 DEF NewLoop, LoopType
  <1>5. LoopOK
    BY <1>2, <1>3, <1>4, FS_EmptySet DEF LoopOK
  <1>6. ThreadOK /\ Placed
    <2>1. task.kind = "none" /\ 0 \in 0..(MaxFixups + 1) /\ 0 \in Nat
      BY <1>1, <1>2
    <2>2. ThreadOK
      BY <1>1, <2>1 DEF ThreadOK, Returns
    <2>3. Placed
      BY <1>1, <1>3 DEF Placed
    <2>4. QED
      BY <2>2, <2>3
  <1>7. Bounded
    BY <1>3, FS_EmptySet DEF Bounded
  <1>8. Ordered
    BY <1>1, <1>3 DEF Ordered
  <1>9. ~RunningTimer /\ ~InFrame
    BY <1>1 DEF RunningTimer, InFrame
  <1>10. TimersHaveTasks /\ FramesHaveTask /\ TokensHaveTasks
    BY <1>3, <1>9
    DEF TimersHaveTasks, FramesHaveTask, TokensHaveTasks, TimerTasks, FrameTasks
  <1>11. QED
    BY <1>5, <1>6, <1>7, <1>8, <1>10 DEF IInv

LEMMA StepKept == IInv /\ [Next]_vars => IInv'
PROOF
  <1>1. ASSUME IInv, UNCHANGED vars
        PROVE  IInv'
    BY <1>1
    DEF vars, locals, IInv, LoopOK, ThreadOK, Placed, Discarded, Bounded, Ordered,
        TimersHaveTasks, TimerTasks, FramesHaveTask, FrameTasks, TokensHaveTasks,
        RunningTimer, InFrame
  <1>2. ASSUME IInv, Step
        PROVE  IInv'
    BY <1>2, ScriptReturnsKept, CheckpointRunsKept, CheckpointEndsKept, NextTaskKept,
       EndTimerKept, NextCallbackKept, EndCallbacksKept, IdleKept
    DEF Step
  <1>3. QED
    BY <1>1, <1>2, StartKept, BindingsKept DEF Next

\* What holds at every moment: the loop, its thread and the queues keep their
\* shape, whatever scripts register, cancel or abort (EventLoop).
THEOREM Always == Spec => []IInv
  BY InitKept, StepKept, PTL DEF Spec

----------------------------------------------------------------------------
(* What the runs check. *)

\* The queues hold no more than was registered and did not run yet, and every
\* variable keeps its type and its limit: the registration limit bounds the
\* memory of a page's event loop (EventLoop of runtime/event_loop.rs).
THEOREM QueuesBounded == Spec => []QueueBounded
PROOF
  <1>1. IInv => QueueBounded
    BY DEF IInv, LoopOK, ThreadOK, Bounded, QueueBounded, TypeOK
  <1>2. QED
    BY <1>1, Always, PTL

\* After an abort, and when a run settled, nothing is left that a later call
\* would run: no task, microtask, timer, frame callback or token.
THEOREM NothingLeftOver == Spec => []NothingLeft
PROOF
  <1>1. IInv => NothingLeft
    BY DEF IInv, Placed, Discarded, NothingLeft
  <1>2. QED
    BY <1>1, Always, PTL

LEMMA OneOrNone ==
  ASSUME NEW S, \A q, r \in S : q = r
  PROVE  Cardinality(S) = IF S = {} THEN 0 ELSE 1
PROOF
  <1>1. CASE S = {}
    BY <1>1, FS_EmptySet
  <1>2. CASE S # {}
    <2>1. PICK q : q \in S
      BY <1>2
    <2>2. S = {q}
      BY <2>1
    <2>3. QED
      BY <2>2, FS_Singleton
  <1>3. QED
    BY <1>1, <1>2

\* An active timer has one task, queued or running: it neither gets lost nor
\* fires twice (run_timer, clear_timer), and the nesting level that clamps
\* timeouts is that of the running timer, whatever its microtasks do.
THEOREM TimersAlwaysFollow == Spec => []TimersFollowTasks
PROOF
  <1>1. ASSUME IInv, NEW t \in loop.timers
        PROVE  Cardinality({q \in loop.tasks : q.kind = "timer" /\ q.id = t.id})
                 = IF RunningTimer /\ task.id = t.id THEN 0 ELSE 1
    <2> DEFINE S == {q \in loop.tasks : q.kind = "timer" /\ q.id = t.id}
    <2>1. \A q, r \in S : q = r
      BY <1>1 DEF IInv, TimersHaveTasks, TimerTasks
    <2>2. S = {} <=> RunningTimer /\ task.id = t.id
      BY <1>1 DEF IInv, TimersHaveTasks, TimerTasks
    <2> HIDE DEF S
    <2>3. Cardinality(S) = IF S = {} THEN 0 ELSE 1
      BY <2>1, OneOrNone
    <2>4. QED
      BY <2>2, <2>3 DEF S
  <1>2. IInv => TimersFollowTasks
    BY <1>1 DEF IInv, TimersHaveTasks, TimersFollowTasks
  <1>3. QED
    BY <1>2, Always, PTL

\* A callback registered by requestAnimationFrame has a frame coming, and
\* there is one frame task, never two (schedule_animation_frame_task).
THEOREM FramesAlwaysCome == Spec => []FrameComes
PROOF
  <1>1. ASSUME IInv
        PROVE  Cardinality({q \in loop.tasks : q.kind = "frame"})
                 = IF loop.frameScheduled THEN 1 ELSE 0
    <2> DEFINE S == {q \in loop.tasks : q.kind = "frame"}
    <2>1. (\A q, r \in S : q = r) /\ (loop.frameScheduled <=> S # {})
      BY <1>1 DEF IInv, FramesHaveTask, FrameTasks
    <2> HIDE DEF S
    <2>2. Cardinality(S) = IF S = {} THEN 0 ELSE 1
      BY <2>1, OneOrNone
    <2>3. QED
      BY <2>1, <2>2 DEF S
  <1>2. IInv => FrameComes
    BY <1>1 DEF IInv, FramesHaveTask, FrameComes
  <1>3. QED
    BY <1>2, Always, PTL

\* Tasks start in the order of due time and registration, with no microtask of
\* an earlier one left and none past the horizon, whatever was registered,
\* cancelled or skipped in between (next_task, run_until_idle).
THEOREM StartsInOrder == Spec => TasksInOrder
PROOF
  <1>1. ASSUME IInv, [Next]_vars, Starts
        PROVE  /\ Before(task, task') /\ loop.microtasks = 0
               /\ task'.due <= MaxVirtualTime /\ loop'.now = task'.due
    <2>1. pc = "next" /\ task' # task /\ loop.microtasks = 0
      BY <1>1 DEF Starts, IInv, Placed
    <2>2. NextTask
      BY <1>1, <2>1
      DEF Next, Step, vars, locals, StartScript, StartRun, Binding, SetTimer, ClearTimer,
          RequestAnimationFrame, CancelAnimationFrame, QueueMicrotaskCall, EnqueueJob,
          QueueNativeTask, QueueCancellableNativeTask, CancelNativeTask, MeetEngineLimit,
          Register, Running, Scripts, ScriptReturns, CheckpointRuns, CheckpointEnds,
          EndTimer, NextCallback, EndCallbacks, Idle
    <2>3. IInv'
      BY <1>1, StepKept
    <2>4. loop'.now = task'.due /\ task'.due <= MaxVirtualTime
      BY <2>3 DEF IInv, LoopOK, Ordered
    <2>5. task' = Earliest(Live(loop))
      BY <2>1, <2>2 DEF NextTask, Fail, locals
    <2>6. Earliest(Live(loop)) \in loop.tasks
      <3>1. Live(loop) \in SUBSET Tasks /\ \A p, r \in Live(loop) : p.seq = r.seq => p = r
        BY <1>1 DEF Live, LoopType, IInv, LoopOK, Ordered
      <3>2. Live(loop) # {}
        BY <2>2 DEF NextTask
      <3>3. QED
        BY <3>1, <3>2, EarliestExists DEF Live
    <2>7. QED
      BY <1>1, <2>1, <2>4, <2>5, <2>6 DEF IInv, Ordered
  <1>2. IInv /\ [Next]_vars =>
          [Starts => /\ Before(task, task') /\ loop.microtasks = 0
                     /\ task'.due <= MaxVirtualTime /\ loop'.now = task'.due]_vars
    BY <1>1
  <1>3. QED
    BY <1>2, Always, PTL DEF Spec, TasksInOrder

----------------------------------------------------------------------------
(* The event loop keeps what the runtime promises its callers. *)

Refines == [Calls!CallsNext]_(Calls!calls)

\* A step inside a call that meets no limit is none of the caller's business.
LEMMA InsideCall ==
  ASSUME loop'.aborted = loop.aborted, result' = result, pc # "host", pc' # "host"
  PROVE  Refines
  BY DEF Refines, Calls!calls

LEMMA MeetsLimit ==
  ASSUME IInv, pc # "host", NEW l \in LoopType, Rest(loop, l, {"tasks"}),
         NEW reason \in Reasons, loop' = Abort(l, reason),
         \/ pc' = "host" /\ result' = loop'.aborted
         \/ loop.aborted = NoAbort /\ UNCHANGED <<pc, result>>
  PROVE  Refines
PROOF
  <1>1. loop'.aborted = IF loop.aborted = NoAbort THEN reason ELSE loop.aborted
    <2>1. l.aborted = loop.aborted
      BY DEF IInv, LoopOK, LoopType, Rest
    <2>2. Abort(l, reason).aborted = IF l.aborted = NoAbort THEN reason ELSE l.aborted
      BY Aborts
    <2>3. QED
      BY <2>1, <2>2
  <1>2. CASE loop.aborted = NoAbort
    <2>1. Calls!MeetLimit
      BY <1>1, <1>2 DEF Calls!MeetLimit, Calls!Unlimited, NoAbort
    <2>2. QED
      BY <2>1 DEF Refines, Calls!CallsNext
  <1>3. CASE loop.aborted # NoAbort
    <2>1. Calls!Finish
      BY <1>1, <1>3 DEF Calls!Finish, Calls!Unlimited, NoAbort
    <2>2. QED
      BY <2>1 DEF Refines, Calls!CallsNext
  <1>4. QED
    BY <1>2, <1>3

LEMMA CallReturns ==
  ASSUME pc # "host", pc' = "host", loop'.aborted = loop.aborted,
         result' \in IF loop.aborted = NoAbort THEN {"ok", "idle"} ELSE {loop.aborted}
  PROVE  Refines
  BY DEF Refines, Calls!CallsNext, Calls!Finish, Calls!Unlimited, Calls!Successes, NoAbort

\* m has the reason of l on record.
SameReason(l, m) == "aborted" \in DOMAIN m /\ m.aborted = l.aborted

LEMMA PushReason ==
  ASSUME NEW l, "aborted" \in DOMAIN l, NEW delay, NEW kind, NEW id, NEW nesting
  PROVE  SameReason(l, PushTask(l, delay, kind, id, nesting))
  BY DEF SameReason, PushTask

LEMMA ReserveReason ==
  ASSUME NEW l, "aborted" \in DOMAIN l
  PROVE  SameReason(l, Reserve(l))
  BY DEF SameReason, Reserve

LEMMA Registers ==
  ASSUME IInv, NEW l, Register(l), SameReason(loop, l)
  PROVE  Refines
PROOF
  <1>1. /\ pc # "host" /\ loop \in LoopType /\ "EnqueuedJobs" \in Reasons
        /\ loop.aborted = NoAbort
    BY DEF Register, Running, Scripts, IInv, LoopOK, Reasons
  <1>2. CASE Full(loop)
    <2>1. loop' = Abort(loop, "EnqueuedJobs") /\ pc' = "host"
      BY <1>2 DEF Register, Fail, ReturnToHost
    <2>2. result' = loop'.aborted
      BY <1>2, <2>1 DEF Register, Fail, ReturnToHost
    <2>3. QED
      BY <1>1, <2>1, <2>2, RestOfItself, MeetsLimit
  <1>3. CASE ~Full(loop)
    BY <1>1, <1>3, InsideCall DEF Register, SameReason
  <1>4. QED
    BY <1>2, <1>3

LEMMA BindingRefines == ASSUME IInv, Binding PROVE Refines
PROOF
  <1>1. loop \in LoopType /\ "aborted" \in DOMAIN loop
    BY DEF IInv, LoopOK, LoopType
  <1>2. /\ "aborted" \in DOMAIN Reserve(loop) /\ Reserve(loop).aborted = loop.aborted
    BY <1>1, ReserveReason DEF SameReason
  <1>3. CASE SetTimer
    <2> DEFINE id == loop.nextTimer
               Timer(timeout, repeat) ==
                 [id |-> id, timeout |-> timeout, repeat |-> repeat]
               l(timeout, repeat) ==
                 [Reserve(loop) EXCEPT
                    !.nextTimer = IF @ < MaxTimerId THEN @ + 1 ELSE @,
                    !.timers = {t \in @ : t.id # id} \cup {Timer(timeout, repeat)}]
    <2>1. PICK timeout \in Timeouts, repeat \in BOOLEAN :
            Register(ScheduleTimer(l(timeout, repeat), id, timeout))
      BY <1>3 DEF SetTimer
    <2>2. SameReason(loop, l(timeout, repeat))
      BY <1>2 DEF SameReason
    <2> DEFINE k == l(timeout, repeat)
               m == PushTask(k, TimerDelay(k, timeout), "timer", id, k.nesting + 1)
    <2>3. Register(m)
      BY <2>1 DEF ScheduleTimer
    <2>4. SameReason(loop, k)
      BY <2>2
    <2> HIDE DEF k, l
    <2>5. SameReason(k, m)
      BY <2>4, PushReason DEF SameReason
    <2> HIDE DEF m
    <2>6. QED
      BY <2>3, <2>4, <2>5, Registers DEF SameReason
  <1>4. CASE RequestAnimationFrame
    <2> DEFINE l == [Reserve(loop) EXCEPT !.nextFrame = @ + 1,
                                          !.frames = @ \cup {loop.nextFrame}]
               s == [l EXCEPT !.frameScheduled = TRUE]
               m == FrameTask(l)
    <2>1. Register(m)
      BY <1>4 DEF RequestAnimationFrame
    <2>2. SameReason(loop, l)
      BY <1>2 DEF SameReason
    <2> HIDE DEF l
    <2>3. SameReason(l, s)
      BY <2>2 DEF SameReason
    <2> HIDE DEF s
    <2>4. m = l \/ \E delay : m = PushTask(s, delay, "frame", 0, 0)
      BY DEF FrameTask, s
    <2> HIDE DEF m
    <2>5. SameReason(loop, m)
      BY <2>2, <2>3, <2>4, PushReason DEF SameReason
    <2>6. QED
      BY <2>1, <2>5, Registers
  <1>5. CASE QueueMicrotaskCall
    <2>1. SameReason(loop, QueueMicrotask(loop))
      BY <1>2 DEF SameReason, QueueMicrotask
    <2>2. QED
      BY <1>5, <2>1, Registers DEF QueueMicrotaskCall
  <1>6. ASSUME NEW delay
        PROVE  SameReason(loop, QueueTask(loop, delay))
    BY <1>2, PushReason DEF SameReason, QueueTask
  <1>7. CASE QueueNativeTask
    BY <1>6, <1>7, Registers DEF QueueNativeTask
  <1>8. CASE QueueCancellableNativeTask
    <2> DEFINE token == loop.nextCancellable
               l == [Reserve(loop) EXCEPT !.nextCancellable = @ + 1,
                                          !.cancellable = @ \cup {token}]
               M(delay) == PushTask(l, delay, "cancellable", token, 0)
    <2>1. PICK delay \in Delays : Register(M(delay))
      BY <1>8 DEF QueueCancellableNativeTask
    <2>2. SameReason(loop, l)
      BY <1>2 DEF SameReason
    <2> HIDE DEF l
    <2>3. SameReason(loop, M(delay))
      BY <2>2, PushReason DEF SameReason
    <2> HIDE DEF M
    <2>4. QED
      BY <2>1, <2>3, Registers
  <1>9. CASE EnqueueJob
    <2>1. pc # "host" /\ UNCHANGED <<pc, result>> /\ loop.aborted = NoAbort
      BY <1>9 DEF EnqueueJob, Running, Scripts
    <2>2. CASE Full(loop)
      <3>1. loop' = Abort(loop, "EnqueuedJobs") /\ "EnqueuedJobs" \in Reasons
        BY <1>9, <2>2 DEF EnqueueJob, Reasons
      <3>2. QED
        BY <1>1, <2>1, <3>1, RestOfItself, MeetsLimit
    <2>3. CASE ~Full(loop)
      <3>1. loop' = QueueMicrotask(loop) \/ \E delay : loop' = QueueTask(loop, delay)
        BY <1>9, <2>3 DEF EnqueueJob
      <3>2. SameReason(loop, QueueMicrotask(loop))
        BY <1>2 DEF SameReason, QueueMicrotask
      <3>3. loop'.aborted = loop.aborted
        BY <1>6, <3>1, <3>2 DEF SameReason
      <3>4. QED
        BY <2>1, <3>3, InsideCall
    <2>4. QED
      BY <2>2, <2>3
  <1>10. CASE ClearTimer \/ CancelAnimationFrame \/ CancelNativeTask
    <2>1. pc # "host" /\ UNCHANGED <<pc, result>>
      BY <1>10 DEF ClearTimer, CancelAnimationFrame, CancelNativeTask, Running, Scripts
    <2>2. loop'.aborted = loop.aborted
      BY <1>1, <1>10
      DEF ClearTimer, RemoveTimer, CancelAnimationFrame, CancelNativeTask, LoopType
    <2>3. QED
      BY <2>1, <2>2, InsideCall
  <1>11. CASE MeetEngineLimit
    <2>1. PICK reason \in EngineLimits : Fail(Abort(loop, reason))
      BY <1>11 DEF MeetEngineLimit
    <2>2. /\ loop' = Abort(loop, reason) /\ pc' = "host" /\ result' = loop'.aborted
          /\ pc # "host" /\ reason \in Reasons
      BY <1>11, <2>1 DEF MeetEngineLimit, Fail, ReturnToHost, Scripts, Reasons
    <2>3. QED
      BY <1>1, <2>2, RestOfItself, MeetsLimit
  <1>12. QED
    BY <1>3, <1>4, <1>5, <1>7, <1>8, <1>9, <1>10, <1>11 DEF Binding

LEMMA StepRefines == ASSUME IInv, Step PROVE Refines
PROOF
  <1>1. /\ loop \in LoopType /\ "aborted" \in DOMAIN loop
        /\ {"Tasks", "EnqueuedJobs", "VirtualTime"} \subseteq Reasons
    BY DEF IInv, LoopOK, LoopType, Reasons
  <1>2. CASE ScriptReturns
    <2>1. loop' = loop /\ pc # "host"
      BY <1>2 DEF ScriptReturns, Scripts
    <2>2. CASE SettleFails(loop)
      BY <1>2, <2>1, <2>2, CallReturns DEF ScriptReturns, SettleFails, ReturnToHost
    <2>3. CASE ~SettleFails(loop)
      BY <1>2, <2>1, <2>3, CallReturns, InsideCall
      DEF ScriptReturns, SettleFails, ReturnToHost, Checkpoint
    <2>4. QED
      BY <2>2, <2>3
  <1>3. CASE CheckpointRuns
    <2>1. pc # "host"
      BY <1>3 DEF CheckpointRuns
    <2>2. CASE loop.jobsRun >= MaxTasks
      <3>1. Fail(Abort(loop, "Tasks"))
        BY <1>3, <2>2 DEF CheckpointRuns
      <3>2. QED
        BY <1>1, <2>1, <3>1, RestOfItself, MeetsLimit DEF Fail, ReturnToHost
    <2>3. CASE ~(loop.jobsRun >= MaxTasks)
      BY <1>1, <1>3, <2>1, <2>3, InsideCall DEF CheckpointRuns, Goto
    <2>4. QED
      BY <2>2, <2>3
  <1>4. CASE CheckpointEnds
    <2>1. pc # "host" /\ loop' = loop /\ loop.aborted = NoAbort
      BY <1>4 DEF CheckpointEnds, IInv, Placed, Scripts
    <2>2. QED
      BY <1>4, <2>1, CallReturns, InsideCall DEF CheckpointEnds, ReturnToHost, Goto
  <1>5. CASE NextTask
    <2> DEFINE q == Earliest(Live(loop))
               l == Skip(loop)
               k == Take(l, q)
    <2>1. l \in LoopType /\ Rest(loop, l, {"tasks"}) /\ pc # "host"
      BY <1>1, <1>5, Skips DEF NextTask
    <2>2. l.aborted = loop.aborted /\ "aborted" \in DOMAIN l
      BY <1>1, <2>1 DEF LoopType, Rest
    <2> HIDE DEF q, l
    <2>3. CASE \E reason \in {"VirtualTime", "Tasks"} : Fail(Abort(l, reason))
      BY <1>1, <2>1, <2>3, MeetsLimit DEF Fail, ReturnToHost
    <2>4. CASE Begin(q, k)
      <3>1. SameReason(loop, k)
        BY <2>2 DEF Take, SameReason
      <3> HIDE DEF k
      <3>2. loop'.aborted = loop.aborted /\ pc' # "host" /\ result' = result
        BY <2>4, <3>1 DEF Begin, FrameStarts, TakeJob, Goto, SameReason
      <3>3. QED
        BY <2>1, <3>2, InsideCall
    <2>5. QED
      BY <1>5, <2>3, <2>4 DEF NextTask, q, l
  <1>6. CASE EndTimer
    <2>1. pc # "host"
      BY <1>6 DEF EndTimer
    <2>2. CASE Repeats(task.id) # {} /\ Full(loop)
      <3>1. Fail(Abort(loop, "EnqueuedJobs"))
        BY <1>6, <2>2 DEF EndTimer
      <3>2. QED
        BY <1>1, <2>1, <3>1, RestOfItself, MeetsLimit DEF Fail, ReturnToHost
    <2>3. CASE ~(Repeats(task.id) # {} /\ Full(loop))
      <3> DEFINE t == CHOOSE t \in Repeats(task.id) : TRUE
                 r == Reserve(loop)
                 m == PushTask(r, TimerDelay(r, t.timeout), "timer", t.id, r.nesting + 1)
                 n == RemoveTimer(loop, task.id)
      <3>1. /\ loop' = TimerEnds(IF Repeats(task.id) # {} THEN m ELSE n)
            /\ pc' = "checkpoint" /\ result' = result
        BY <1>6, <2>3 DEF EndTimer, Rearm, ScheduleTimer, Checkpoint
      <3>2. SameReason(loop, n)
        BY <1>1 DEF SameReason, RemoveTimer
      <3>3. SameReason(loop, r)
        BY <1>1, ReserveReason
      <3> HIDE DEF t, r, n
      <3>4. SameReason(r, m)
        BY <3>3, PushReason DEF SameReason
      <3> HIDE DEF m
      <3>5. loop'.aborted = loop.aborted
        BY <3>1, <3>2, <3>3, <3>4 DEF SameReason, TimerEnds
      <3>6. QED
        BY <2>1, <3>1, <3>5, InsideCall
    <2>4. QED
      BY <2>2, <2>3
  <1>7. CASE NextCallback
    <2>1. pc # "host" /\ pc' # "host" /\ result' = result /\ loop'.aborted = loop.aborted
      BY <1>1, <1>7 DEF NextCallback, Goto
    <2>2. QED
      BY <2>1, InsideCall
  <1>8. CASE EndCallbacks
    <2>1. pc # "host" /\ pc' # "host" /\ result' = result /\ loop' = loop
      BY <1>8 DEF EndCallbacks, FixUpFocus, Checkpoint
    <2>2. QED
      BY <2>1, InsideCall
  <1>9. CASE Idle
    <2>1. pc = "next" /\ loop' = Skip(loop) /\ loop.aborted = NoAbort
      BY <1>9 DEF Idle, IInv, Placed, Scripts
    <2>2. loop'.aborted = loop.aborted
      BY <1>1, <2>1, Skips DEF LoopType, Rest
    <2>3. CASE ReturnToHost("idle")
      BY <2>1, <2>2, <2>3, CallReturns DEF ReturnToHost
    <2>4. CASE \E moved \in BOOLEAN : FixUpFocus(moved, fixups < MaxFixups)
      BY <2>1, <2>2, <2>4, InsideCall DEF FixUpFocus, Checkpoint
    <2>5. QED
      BY <1>9, <2>3, <2>4 DEF Idle
  <1>10. QED
    BY <1>2, <1>3, <1>4, <1>5, <1>6, <1>7, <1>8, <1>9 DEF Step

\* The steps of the event loop are calls, limits met in them and returns: the
\* first limit stays on record, later calls are refused with it, and none that
\* met it reports success (settle, Abort).
THEOREM KeepsPromise == Spec => Calls!CallsInit /\ [][Calls!CallsNext]_(Calls!calls)
PROOF
  <1>1. Init => Calls!CallsInit
    BY DEF Init, NewLoop, Calls!CallsInit, Calls!Unlimited, NoAbort
  <1>2. ASSUME IInv, UNCHANGED vars
        PROVE  Refines
    BY <1>2 DEF vars, Refines, Calls!calls
  <1>3. ASSUME IInv, StartScript \/ StartRun
        PROVE  Refines
    <2>1. Calls!Call
      BY <1>3
      DEF StartScript, StartRun, StartOfRun, Checkpoint, Goto, ReturnToHost, Calls!Call,
          Calls!Unlimited, NoAbort
    <2>2. QED
      BY <2>1 DEF Refines, Calls!CallsNext
  <1>4. IInv /\ [Next]_vars => [Calls!CallsNext]_(Calls!calls)
    BY <1>2, <1>3, BindingRefines, StepRefines DEF Next, Refines
  <1>5. QED
    BY <1>1, <1>4, Always, PTL DEF Spec

----------------------------------------------------------------------------
(* Listener lists and dispatch. *)

\* What addEventListener and handler attributes do not keep twice.
Alike(r, s) ==
  /\ r.kind = s.kind /\ r.capture = s.capture /\ r.handler = s.handler
  /\ r.handler \/ r.callback = s.callback

\* A registration made before `fresh' was the next id; handler attributes do not
\* capture.
Made(r, fresh) == r.id < fresh /\ (r.handler => ~r.capture)

IsLive(l, i) == i \in DOMAIN l.entries /\ ~l.entries[i].removed

\* A list with registrations made before `fresh' was the next id: a removed one
\* is there only while the list waits to be compacted, and that only while it
\* is walked; of those that count, no two are alike.
ListOK(l, fresh) ==
  /\ l \in Lists
  /\ \A i \in DOMAIN l.entries : l.entries[i].removed => l.dirty
  /\ l.depth = 0 => ~l.dirty
  /\ \A i \in DOMAIN l.entries : Made(l.entries[i].listener, fresh)
  /\ \A i, j : IsLive(l, i) /\ IsLive(l, j)
                 /\ Alike(l.entries[i].listener, l.entries[j].listener) => i = j

\* A dispatch that is somewhere on its path.
FrameOK(f) == f \in Frames /\ f.path # <<>> /\ f.visit \in 1..LastVisit(f)

\* The slots f has to visit hold what they held when it began to walk l.
Held(l, f) ==
  \A k \in DOMAIN f.pending :
    /\ f.pending[k].slot \in DOMAIN l.entries
    /\ l.entries[f.pending[k].slot].listener.id = f.pending[k].id

At(st, n) == {i \in DOMAIN st : Visited(st[i]) = n}

\* The dispatches `st' walk the lists `ls'.
Walking(ls, st, fresh) ==
  /\ ls \in [Nodes -> Lists] /\ st \in Seq(Frames)
  /\ \A n \in Nodes : ListOK(ls[n], fresh) /\ ls[n].depth = Cardinality(At(st, n))
  /\ \A i \in DOMAIN st : FrameOK(st[i]) /\ Held(ls[Visited(st[i])], st[i])

----------------------------------------------------------------------------
(* Frames and their places. *)

LEMMA VisitedType ==
  ASSUME NEW f, FrameOK(f)
  PROVE  Visited(f) \in Nodes /\ Len(f.path) \in Nat /\ f.visit \in Nat
PROOF
  <1> DEFINE p == f.path
             n == Len(p)
  <1>1. p \in Seq(Nodes) /\ p # <<>> /\ n \in Nat /\ n # 0
    BY EmptySeq DEF FrameOK, Frames
  <1>2. f.visit \in 1..(2 * n)
    <2>1. LastVisit(f) \in {2 * n, n + 1} /\ f.visit \in 1..LastVisit(f)
      BY DEF LastVisit, FrameOK
    <2> DEFINE v == f.visit
               last == LastVisit(f)
    <2> HIDE DEF n, v, last
    <2>2. v \in 1..last /\ last \in {2 * n, n + 1} /\ n \in Nat /\ n # 0
      BY <1>1, <2>1 DEF v, last, n
    <2>3. v \in 1..(2 * n)
      BY <2>2
    <2>4. QED
      BY <2>3 DEF v, n
  <1> HIDE DEF n
  <1>3. CASE f.visit <= n
    <2>1. n + 1 - f.visit \in 1..n
      BY <1>1, <1>2, <1>3
    <2>2. p[n + 1 - f.visit] \in Nodes
      BY <1>1, <2>1, ElementOfSeq DEF n
    <2>3. QED
      BY <1>1, <1>2, <1>3, <2>2 DEF Visited, n
  <1>4. CASE ~(f.visit <= n)
    <2>1. f.visit - n \in 1..n
      BY <1>1, <1>2, <1>4
    <2>2. p[f.visit - n] \in Nodes
      BY <1>1, <2>1, ElementOfSeq DEF n
    <2>3. QED
      BY <1>1, <1>2, <1>4, <2>2 DEF Visited, n
  <1>5. QED
    BY <1>3, <1>4

LEMMA AtFinite ==
  ASSUME NEW st \in Seq(Frames), NEW n
  PROVE  IsFiniteSet(At(st, n)) /\ Cardinality(At(st, n)) \in Nat
PROOF
  <1>1. DOMAIN st = 1..Len(st) /\ Len(st) \in Nat
    BY LenProperties
  <1>2. IsFiniteSet(1..Len(st)) /\ At(st, n) \subseteq 1..Len(st)
    BY <1>1, FS_Interval DEF At
  <1>3. QED
    BY <1>2, FS_Subset, FS_CardinalityType

\* The innermost dispatch begins, ends, or goes on where it is.
LEMMA AtPushed ==
  ASSUME NEW st \in Seq(Frames), NEW f \in Frames, NEW n
  PROVE  Cardinality(At(Append(st, f), n)) =
           IF Visited(f) = n THEN Cardinality(At(st, n)) + 1 ELSE Cardinality(At(st, n))
PROOF
  <1> DEFINE k == Len(st)
             t == Append(st, f)
  <1>1. /\ k \in Nat /\ DOMAIN st = 1..k /\ DOMAIN t = 1..(k + 1)
        /\ t[k + 1] = f /\ \A i \in 1..k : t[i] = st[i]
    BY AppendProperties, LenProperties
  <1> HIDE DEF t, k
  <1>2. CASE Visited(f) = n
    <2>1. At(t, n) = At(st, n) \cup {k + 1}
      BY <1>1, <1>2 DEF At
    <2>2. k + 1 \notin At(st, n)
      BY <1>1 DEF At
    <2>3. QED
      BY <1>2, <2>1, <2>2, AtFinite, FS_AddElement DEF t
  <1>3. CASE Visited(f) # n
    <2>1. At(t, n) = At(st, n)
      BY <1>1, <1>3 DEF At
    <2>2. QED
      BY <1>3, <2>1 DEF t
  <1>4. QED
    BY <1>2, <1>3

LEMMA PoppedIs ==
  ASSUME NEW st \in Seq(Frames), st # <<>>
  PROVE  LET k == Len(st)
             s == SubSeq(st, 1, k - 1)
         IN  /\ k \in Nat \ {0} /\ DOMAIN st = 1..k /\ st[k] \in Frames
             /\ s \in Seq(Frames) /\ Len(s) = k - 1 /\ DOMAIN s = 1..(k - 1)
             /\ \A i \in 1..(k - 1) : s[i] = st[i]
PROOF
  <1>1. Len(st) \in Nat \ {0} /\ DOMAIN st = 1..Len(st)
    BY EmptySeq, LenProperties
  <1>2. \A i \in 1..Len(st) : st[i] \in Frames
    BY <1>1, ElementOfSeq
  <1>3. QED
    BY <1>1, <1>2, SubSeqProperties

LEMMA TopIsThere ==
  ASSUME NEW st \in Seq(Frames), st # <<>>
  PROVE  Len(st) \in DOMAIN st /\ Len(st) \in 1..Len(st)
BY PoppedIs

LEMMA AtPopped ==
  ASSUME NEW st \in Seq(Frames), st # <<>>, NEW n
  PROVE  Cardinality(At(SubSeq(st, 1, Len(st) - 1), n)) =
           IF Visited(st[Len(st)]) = n THEN Cardinality(At(st, n)) - 1
                                       ELSE Cardinality(At(st, n))
PROOF
  <1> DEFINE k == Len(st)
             s == SubSeq(st, 1, k - 1)
  <1>1. /\ k \in Nat \ {0} /\ DOMAIN st = 1..k /\ DOMAIN s = 1..(k - 1)
        /\ \A i \in 1..(k - 1) : s[i] = st[i]
    BY PoppedIs
  <1> HIDE DEF s, k
  <1>2. CASE Visited(st[k]) = n
    <2>1. At(s, n) = At(st, n) \ {k}
      BY <1>1, <1>2 DEF At
    <2>2. k \in At(st, n)
      BY <1>1, <1>2 DEF At
    <2>3. QED
      BY <1>2, <2>1, <2>2, AtFinite, FS_RemoveElement DEF s, k
  <1>3. CASE Visited(st[k]) # n
    <2>1. At(s, n) = At(st, n)
      BY <1>1, <1>3 DEF At
    <2>2. QED
      BY <1>3, <2>1 DEF s, k
  <1>4. QED
    BY <1>2, <1>3 DEF k

----------------------------------------------------------------------------
(* Lists. *)

LEMMA LiveIs ==
  ASSUME NEW l
  PROVE  /\ \A i : i \in DOMAIN LiveSlots(l) <=> IsLive(l, i)
         /\ \A i \in DOMAIN LiveSlots(l) : LiveSlots(l)[i] = l.entries[i].listener
         /\ \A r : r \in Range(LiveSlots(l)) <=> \E i : IsLive(l, i) /\ l.entries[i].listener = r
BY DEF LiveSlots, IsLive, Range

LEMMA EntriesAre ==
  ASSUME NEW l \in Lists
  PROVE  /\ l.entries \in Seq(Entries) /\ l.depth \in Nat /\ l.dirty \in BOOLEAN
         /\ Len(l.entries) \in Nat /\ DOMAIN l.entries = 1..Len(l.entries)
         /\ \A i \in DOMAIN l.entries :
              /\ l.entries[i] \in Entries
              /\ l.entries[i].listener \in Registrations /\ l.entries[i].removed \in BOOLEAN
PROOF
  <1>1. /\ l.entries \in Seq(Entries) /\ l.depth \in Nat /\ l.dirty \in BOOLEAN
    BY DEF Lists
  <1>2. \A i \in DOMAIN l.entries : l.entries[i] \in Entries
    BY <1>1, LenProperties, ElementOfSeq
  <1>3. QED
    BY <1>1, <1>2, LenProperties DEF Entries

\* compact: a list nobody walks loses its removed entries, and nothing else.
LEMMA CompactOK ==
  ASSUME NEW l, NEW fresh, l \in Lists,
         \A i \in DOMAIN l.entries : l.entries[i].removed => l.dirty,
         \A i \in DOMAIN l.entries : Made(l.entries[i].listener, fresh),
         \A i, j : IsLive(l, i) /\ IsLive(l, j)
                     /\ Alike(l.entries[i].listener, l.entries[j].listener) => i = j
  PROVE  /\ ListOK(Compact(l), fresh) /\ Compact(l).depth = l.depth
         /\ l.depth # 0 => Compact(l) = l
         /\ Range(LiveSlots(Compact(l))) = Range(LiveSlots(l))
PROOF
  <1>1. CASE ~(l.depth = 0 /\ l.dirty)
    <2>1. Compact(l) = l
      BY <1>1 DEF Compact
    <2>2. QED
      BY <1>1, <2>1 DEF ListOK
  <1>2. CASE l.depth = 0 /\ l.dirty
    <2> DEFINE es == l.entries
               gone == {e \in Range(es) : e.removed}
               new == Without(es, gone)
               m == Compact(l)
    <2>1. /\ es \in Seq(Entries) /\ Len(es) \in Nat /\ DOMAIN es = 1..Len(es)
          /\ \A i \in DOMAIN es : es[i] \in Entries /\ es[i].removed \in BOOLEAN
      BY EntriesAre
    <2>2. m = [l EXCEPT !.entries = new, !.dirty = FALSE]
      BY <1>2 DEF Compact
    <2>3. new \in Seq(Entries)
      BY <2>1, WithoutKeeps
    <2>4. PICK g : KeptAt(es, gone, Len(es), new, g)
      BY <2>1, WithoutPlaces
    <2>5. m \in Lists /\ m.entries = new /\ m.dirty = FALSE /\ m.depth = l.depth
      BY <2>2, <2>3 DEF Lists
    <2>6. \A i \in DOMAIN es : es[i] \in gone <=> es[i].removed
      BY <2>1 DEF Range
    <2>7. Len(new) \in Nat /\ DOMAIN new = 1..Len(new)
      BY <2>3, LenProperties
    <2> HIDE DEF es, gone, new, m
    <2>8. \A i \in DOMAIN new :
            g[i] \in DOMAIN es /\ new[i] = es[g[i]] /\ ~new[i].removed
      BY <2>1, <2>4, <2>6, <2>7 DEF KeptAt
    <2>9. \A i, j \in DOMAIN new : g[i] = g[j] => i = j
      <3>1. \A i, j \in DOMAIN new : i < j => g[i] < g[j]
        BY <2>4, <2>7 DEF KeptAt
      <3>2. \A i \in DOMAIN new : g[i] \in 1..Len(es)
        BY <2>1, <2>8
      <3>3. ASSUME NEW i \in DOMAIN new, NEW j \in DOMAIN new, g[i] = g[j]
            PROVE  i = j
        <4>1. ~(i < j) /\ ~(j < i)
          BY <2>1, <3>1, <3>2, <3>3
        <4>2. QED
          BY <2>7, <4>1
      <3>4. QED
        BY <3>3
    <2>10. \A k \in DOMAIN es : ~es[k].removed => \E i \in DOMAIN new : g[i] = k
      BY <2>1, <2>4, <2>6, <2>7 DEF KeptAt
    <2>11. \A i : IsLive(m, i) <=> i \in DOMAIN new
      BY <2>5, <2>8 DEF IsLive
    <2>12. \A i \in DOMAIN new :
             IsLive(l, g[i]) /\ m.entries[i].listener = l.entries[g[i]].listener
      BY <2>5, <2>8 DEF IsLive, es
    <2>13. Range(LiveSlots(m)) = Range(LiveSlots(l))
      <3>1. ASSUME NEW r, r \in Range(LiveSlots(m)) PROVE r \in Range(LiveSlots(l))
        <4>1. PICK i : IsLive(m, i) /\ m.entries[i].listener = r
          BY <3>1, LiveIs
        <4>2. QED
          BY <2>11, <2>12, <4>1, LiveIs
      <3>2. ASSUME NEW r, r \in Range(LiveSlots(l)) PROVE r \in Range(LiveSlots(m))
        <4>1. PICK k : IsLive(l, k) /\ l.entries[k].listener = r
          BY <3>2, LiveIs
        <4>2. PICK i \in DOMAIN new : g[i] = k
          BY <2>10, <4>1 DEF IsLive, es
        <4>3. IsLive(m, i) /\ m.entries[i].listener = r
          BY <2>11, <2>12, <4>1, <4>2
        <4>4. QED
          BY <4>3, LiveIs
      <3>3. QED
        BY <3>1, <3>2
    <2>14. ListOK(m, fresh)
      <3>1. \A i \in DOMAIN m.entries : m.entries[i].removed => m.dirty
        BY <2>5, <2>8
      <3>2. \A i \in DOMAIN m.entries : Made(m.entries[i].listener, fresh)
        BY <2>5, <2>8 DEF es
      <3>3. ASSUME NEW i, NEW j, IsLive(m, i), IsLive(m, j),
                   Alike(m.entries[i].listener, m.entries[j].listener)
            PROVE  i = j
        <4>1. i \in DOMAIN new /\ j \in DOMAIN new
          BY <2>11, <3>3
        <4>2. g[i] = g[j]
          BY <2>12, <3>3, <4>1
        <4>3. QED
          BY <2>9, <4>1, <4>2
      <3>4. QED
        BY <2>5, <3>1, <3>2, <3>3 DEF ListOK
    <2>15. QED
      BY <1>2, <2>5, <2>13, <2>14 DEF m
  <1>3. QED
    BY <1>1, <1>2

\* removed: entries stay where they are.
LEMMA RemovingIs ==
  ASSUME NEW l \in Lists, NEW slots
  PROVE  LET m == Removing(l, slots)
         IN  /\ m \in Lists /\ m.depth = l.depth /\ m.dirty = (l.dirty \/ slots # {})
             /\ DOMAIN m.entries = DOMAIN l.entries
             /\ \A i \in DOMAIN l.entries :
                  /\ m.entries[i].listener = l.entries[i].listener
                  /\ m.entries[i].removed = (l.entries[i].removed \/ i \in slots)
             /\ \A i : IsLive(m, i) <=> IsLive(l, i) /\ i \notin slots
PROOF
  <1> DEFINE es == l.entries
             new == [i \in DOMAIN es |-> [listener |-> es[i].listener,
                                         removed |-> es[i].removed \/ i \in slots]]
             m == Removing(l, slots)
  <1>1. /\ es \in Seq(Entries) /\ l.depth \in Nat /\ l.dirty \in BOOLEAN
        /\ Len(es) \in Nat /\ DOMAIN es = 1..Len(es)
        /\ \A i \in DOMAIN es :
             es[i] \in Entries /\ es[i].removed \in BOOLEAN
    BY EntriesAre
  <1>2. m = [l EXCEPT !.entries = new, !.dirty = l.dirty \/ slots # {}]
    BY DEF Removing
  <1>3. \A i \in DOMAIN es : /\ new[i] \in Entries /\ new[i].listener = es[i].listener
                             /\ new[i].removed = (es[i].removed \/ i \in slots)
    BY <1>1 DEF Entries
  <1>4. DOMAIN new = 1..Len(es)
    BY <1>1
  <1> HIDE DEF es, new, m
  <1>5. new \in Seq(Entries)
    <2>1. new = [i \in 1..Len(es) |-> new[i]]
      BY <1>1, <1>4 DEF new
    <2>2. \A i \in 1..Len(es) : new[i] \in Entries
      BY <1>1, <1>3
    <2>3. QED
      BY <1>1, <2>1, <2>2
  <1>6. /\ m \in Lists /\ m.entries = new /\ m.depth = l.depth
        /\ m.dirty = (l.dirty \/ slots # {})
    BY <1>1, <1>2, <1>5 DEF Lists
  <1>7. QED
    BY <1>1, <1>3, <1>4, <1>6 DEF m, IsLive, es

\* What a change of a list leaves to the dispatches that walk it.
Kept(l, m) ==
  /\ m.depth = l.depth
  /\ l.depth # 0 =>
       \A i \in DOMAIN l.entries :
         i \in DOMAIN m.entries /\ m.entries[i].listener.id = l.entries[i].listener.id

\* removeEventListener, a cleared handler attribute, and `once'.
LEMMA RemovingOK ==
  ASSUME NEW fresh, NEW l, ListOK(l, fresh), NEW slots
  PROVE  LET m == Compact(Removing(l, slots))
         IN  /\ ListOK(m, fresh) /\ Kept(l, m)
             /\ l.depth # 0 => m = Removing(l, slots)
             /\ \A r : r \in Range(LiveSlots(m)) <=>
                  \E i : IsLive(l, i) /\ i \notin slots /\ l.entries[i].listener = r
PROOF
  <1> DEFINE m == Removing(l, slots)
  <1>1. /\ l \in Lists
        /\ \A i \in DOMAIN l.entries : l.entries[i].removed => l.dirty
        /\ \A i \in DOMAIN l.entries : Made(l.entries[i].listener, fresh)
        /\ \A i, j : IsLive(l, i) /\ IsLive(l, j)
                       /\ Alike(l.entries[i].listener, l.entries[j].listener) => i = j
    BY DEF ListOK
  <1>2. /\ m \in Lists /\ m.depth = l.depth /\ m.dirty = (l.dirty \/ slots # {})
        /\ DOMAIN m.entries = DOMAIN l.entries
        /\ \A i \in DOMAIN l.entries :
             /\ m.entries[i].listener = l.entries[i].listener
             /\ m.entries[i].removed = (l.entries[i].removed \/ i \in slots)
        /\ \A i : IsLive(m, i) <=> IsLive(l, i) /\ i \notin slots
    BY <1>1, RemovingIs
  <1> HIDE DEF m
  <1>3. \A i : IsLive(m, i) => i \in DOMAIN l.entries /\ IsLive(l, i)
    BY <1>2 DEF IsLive
  <1>4. \A i \in DOMAIN m.entries : m.entries[i].removed => m.dirty
    BY <1>1, <1>2
  <1>5. \A i \in DOMAIN m.entries : Made(m.entries[i].listener, fresh)
    BY <1>1, <1>2
  <1>6. \A i, j : IsLive(m, i) /\ IsLive(m, j)
                    /\ Alike(m.entries[i].listener, m.entries[j].listener) => i = j
    BY <1>1, <1>2, <1>3
  <1>7. /\ ListOK(Compact(m), fresh) /\ Compact(m).depth = m.depth
        /\ m.depth # 0 => Compact(m) = m
        /\ Range(LiveSlots(Compact(m))) = Range(LiveSlots(m))
    BY <1>2, <1>4, <1>5, <1>6, CompactOK
  <1>8. Kept(l, Compact(m))
    BY <1>2, <1>7 DEF Kept
  <1>9. \A r : r \in Range(LiveSlots(m)) <=>
          \E i : IsLive(l, i) /\ i \notin slots /\ l.entries[i].listener = r
    BY <1>2, <1>3, LiveIs
  <1>10. QED
    BY <1>2, <1>7, <1>8, <1>9 DEF m

\* addEventListener, and a handler attribute assigned for the first time.
LEMMA AppendOK ==
  ASSUME NEW fresh \in Nat, NEW l, ListOK(l, fresh), NEW r \in Registrations,
         r.id = fresh, r.handler => ~r.capture,
         \A i : IsLive(l, i) => ~Alike(r, l.entries[i].listener)
  PROVE  LET m == AppendEntry(l, r)
         IN  /\ ListOK(m, fresh + 1) /\ Kept(l, m)
             /\ Range(LiveSlots(m)) = Range(LiveSlots(l)) \cup {r}
PROOF
  <1> DEFINE es == l.entries
             e == [listener |-> r, removed |-> FALSE]
             n == Len(es)
             new == Append(es, e)
             m == AppendEntry(l, r)
  <1>1. /\ l \in Lists
        /\ \A i \in DOMAIN es : es[i].removed => l.dirty
        /\ l.depth = 0 => ~l.dirty
        /\ \A i \in DOMAIN es : Made(es[i].listener, fresh)
        /\ \A i, j : IsLive(l, i) /\ IsLive(l, j)
                       /\ Alike(es[i].listener, es[j].listener) => i = j
    BY DEF ListOK
  <1>2. /\ es \in Seq(Entries) /\ l.depth \in Nat /\ l.dirty \in BOOLEAN
        /\ n \in Nat /\ DOMAIN es = 1..n
        /\ \A i \in DOMAIN es : es[i].listener \in Registrations
    BY <1>1, EntriesAre
  <1>3. e \in Entries /\ e.listener = r /\ ~e.removed
    BY DEF Entries
  <1>4. /\ new \in Seq(Entries) /\ DOMAIN new = 1..(n + 1) /\ new[n + 1] = e
        /\ \A i \in 1..n : new[i] = es[i]
    BY <1>2, <1>3, AppendProperties, LenProperties
  <1>5. m = [l EXCEPT !.entries = new]
    BY DEF AppendEntry
  <1>6. m \in Lists /\ m.entries = new /\ m.depth = l.depth /\ m.dirty = l.dirty
    BY <1>1, <1>2, <1>4, <1>5 DEF Lists
  <1>7. \A i \in DOMAIN es : es[i].listener.id \in Nat
    BY <1>2 DEF Registrations, Ids
  <1> HIDE DEF es, e, n, new, m
  <1>8. \A i : IsLive(m, i) <=> IsLive(l, i) \/ i = n + 1
    BY <1>2, <1>3, <1>4, <1>6 DEF IsLive, es
  <1>9. \A i : IsLive(l, i) => i \in 1..n /\ i # n + 1 /\ new[i].listener = es[i].listener
    BY <1>2, <1>4 DEF IsLive, es
  <1>10. ListOK(m, fresh + 1)
    <2>1. \A i \in DOMAIN m.entries : m.entries[i].removed => m.dirty
      BY <1>1, <1>2, <1>3, <1>4, <1>6
    <2>2. \A i \in DOMAIN m.entries : Made(m.entries[i].listener, fresh + 1)
      <3>1. ASSUME NEW i \in 1..n
            PROVE  Made(new[i].listener, fresh + 1)
        <4>1. Made(es[i].listener, fresh) /\ new[i] = es[i] /\ es[i].listener.id \in Nat
          BY <1>1, <1>2, <1>4, <1>7
        <4>2. QED
          BY <4>1 DEF Made
      <3>2. Made(new[n + 1].listener, fresh + 1)
        BY <1>3, <1>4 DEF Made
      <3>3. QED
        BY <1>2, <1>4, <1>6, <3>1, <3>2
    <2>3. ASSUME NEW i, NEW j, IsLive(m, i), IsLive(m, j),
                 Alike(m.entries[i].listener, m.entries[j].listener)
          PROVE  i = j
      <3>1. CASE i = n + 1 /\ j # n + 1
        BY <1>3, <1>4, <1>6, <1>8, <1>9, <2>3, <3>1 DEF Alike, es
      <3>2. CASE i # n + 1 /\ j = n + 1
        BY <1>3, <1>4, <1>6, <1>8, <1>9, <2>3, <3>2 DEF Alike, es
      <3>3. CASE i # n + 1 /\ j # n + 1
        BY <1>1, <1>6, <1>8, <1>9, <2>3, <3>3
      <3>4. QED
        BY <3>1, <3>2, <3>3
    <2>4. QED
      BY <1>1, <1>6, <2>1, <2>2, <2>3 DEF ListOK
  <1>11. Kept(l, m)
    BY <1>2, <1>4, <1>6 DEF Kept, es
  <1>12. Range(LiveSlots(m)) = Range(LiveSlots(l)) \cup {r}
    <2>1. ASSUME NEW s, s \in Range(LiveSlots(m)) PROVE s \in Range(LiveSlots(l)) \cup {r}
      <3>1. PICK i : IsLive(m, i) /\ m.entries[i].listener = s
        BY <2>1, LiveIs
      <3>2. CASE i = n + 1
        BY <1>3, <1>4, <1>6, <3>1, <3>2
      <3>3. CASE IsLive(l, i)
        BY <1>6, <1>9, <3>1, <3>3, LiveIs DEF es
      <3>4. QED
        BY <1>8, <3>1, <3>2, <3>3
    <2>2. ASSUME NEW s, s \in Range(LiveSlots(l)) PROVE s \in Range(LiveSlots(m))
      <3>1. PICK i : IsLive(l, i) /\ l.entries[i].listener = s
        BY <2>2, LiveIs
      <3>2. IsLive(m, i) /\ m.entries[i].listener = s
        BY <1>6, <1>8, <1>9, <3>1 DEF es
      <3>3. QED
        BY <3>2, LiveIs
    <2>3. r \in Range(LiveSlots(m))
      <3>1. IsLive(m, n + 1) /\ m.entries[n + 1].listener = r
        BY <1>3, <1>4, <1>6, <1>8
      <3>2. QED
        BY <3>1, LiveIs
    <2>4. QED
      BY <2>1, <2>2, <2>3
  <1>13. QED
    BY <1>10, <1>11, <1>12 DEF m

\* A handler attribute assigned again: its listener is replaced in its slot.
Assigned(l, i, c) == [l EXCEPT !.entries[i].listener.callback = c]

LEMMA AssignOK ==
  ASSUME NEW fresh, NEW l, ListOK(l, fresh), NEW c \in Callbacks,
         NEW i, IsLive(l, i), l.entries[i].listener.handler
  PROVE  LET r == l.entries[i].listener
             m == Assigned(l, i, c)
         IN  /\ ListOK(m, fresh) /\ Kept(l, m)
             /\ r \in Range(LiveSlots(l)) /\ r \in Registrations
             /\ Range(LiveSlots(m)) = (Range(LiveSlots(l)) \ {r}) \cup {[r EXCEPT !.callback = c]}
PROOF
  <1> DEFINE es == l.entries
             r == es[i].listener
             s == [r EXCEPT !.callback = c]
             e == [es[i] EXCEPT !.listener = s]
             new == [es EXCEPT ![i] = e]
             m == Assigned(l, i, c)
  <1>1. /\ l \in Lists
        /\ \A j \in DOMAIN es : es[j].removed => l.dirty
        /\ l.depth = 0 => ~l.dirty
        /\ \A j \in DOMAIN es : Made(es[j].listener, fresh)
        /\ \A j, k : IsLive(l, j) /\ IsLive(l, k)
                       /\ Alike(es[j].listener, es[k].listener) => j = k
    BY DEF ListOK
  <1>2. /\ es \in Seq(Entries) /\ l.depth \in Nat /\ l.dirty \in BOOLEAN
        /\ Len(es) \in Nat /\ DOMAIN es = 1..Len(es)
        /\ \A j \in DOMAIN es : es[j] \in Entries /\ es[j].listener \in Registrations
    BY <1>1, EntriesAre
  <1>3. i \in DOMAIN es /\ ~es[i].removed /\ r.handler
    BY DEF IsLive
  <1>4. r \in Registrations /\ es[i] \in Entries
    BY <1>2, <1>3
  <1>5. /\ s \in Registrations /\ s.id = r.id /\ s.kind = r.kind
        /\ s.capture = r.capture /\ s.handler = r.handler
    BY <1>4 DEF Registrations
  <1>6. e \in Entries /\ e.listener = s /\ e.removed = es[i].removed
    BY <1>4, <1>5 DEF Entries
  <1>7. m = [l EXCEPT !.entries = new]
    BY DEF Assigned
  <1> HIDE DEF s, e, m
  <1>8. /\ new \in Seq(Entries) /\ DOMAIN new = DOMAIN es /\ new[i] = e
        /\ \A j \in DOMAIN es : j # i => new[j] = es[j]
    <2>1. new \in Seq(Entries)
      BY <1>2, <1>3, <1>6, ExceptSeq
    <2>2. QED
      BY <1>3, <2>1
  <1> HIDE DEF new
  <1>9. m \in Lists /\ m.entries = new /\ m.depth = l.depth /\ m.dirty = l.dirty
    BY <1>1, <1>2, <1>7, <1>8 DEF Lists
  <1>10. \A j \in DOMAIN es :
           /\ new[j].removed = es[j].removed
           /\ new[j].listener = (IF j = i THEN s ELSE es[j].listener)
    BY <1>6, <1>8
  <1> HIDE DEF es, r
  <1>11. \A j : IsLive(m, j) <=> IsLive(l, j)
    BY <1>8, <1>9, <1>10 DEF IsLive, es
  <1>12. \A j : IsLive(l, j) => j \in DOMAIN es
    BY DEF IsLive, es
  <1>13. ListOK(m, fresh)
    <2>1. \A j \in DOMAIN es : Made(es[j].listener, fresh) => Made(new[j].listener, fresh)
      BY <1>5, <1>10 DEF r, Made
    <2>2. \A j \in DOMAIN es :
            /\ new[j].listener.kind = es[j].listener.kind
            /\ new[j].listener.capture = es[j].listener.capture
            /\ new[j].listener.handler = es[j].listener.handler
            /\ es[j].listener.handler \/ new[j].listener.callback = es[j].listener.callback
      BY <1>3, <1>5, <1>10 DEF r
    <2>3. ASSUME NEW j, NEW k, IsLive(m, j), IsLive(m, k),
                 Alike(m.entries[j].listener, m.entries[k].listener)
          PROVE  j = k
      <3>1. IsLive(l, j) /\ IsLive(l, k) /\ j \in DOMAIN es /\ k \in DOMAIN es
        BY <1>11, <1>12, <2>3
      <3>2. Alike(es[j].listener, es[k].listener)
        BY <1>9, <2>2, <2>3, <3>1 DEF Alike
      <3>3. QED
        BY <1>1, <3>1, <3>2 DEF es
    <2>4. \A j \in DOMAIN m.entries : m.entries[j].removed => m.dirty
      BY <1>1, <1>8, <1>9, <1>10 DEF es
    <2>5. \A j \in DOMAIN m.entries : Made(m.entries[j].listener, fresh)
      BY <1>1, <1>8, <1>9, <2>1 DEF es
    <2>6. QED
      BY <1>1, <1>9, <2>3, <2>4, <2>5 DEF ListOK
  <1>14. Kept(l, m)
    <2>1. \A j \in DOMAIN es : j \in DOMAIN new /\ new[j].listener.id = es[j].listener.id
      BY <1>5, <1>8, <1>10 DEF r
    <2>2. QED
      BY <1>9, <2>1 DEF Kept, es
  <1>15. r \in Range(LiveSlots(l))
    BY LiveIs DEF r, es
  <1>16. \A j : IsLive(l, j) /\ es[j].listener = r => j = i
    BY <1>1 DEF Alike, r, es
  <1>17. Range(LiveSlots(m)) = (Range(LiveSlots(l)) \ {r}) \cup {s}
    <2>1. ASSUME NEW t, t \in Range(LiveSlots(m)) PROVE t \in (Range(LiveSlots(l)) \ {r}) \cup {s}
      <3>1. PICK j : IsLive(m, j) /\ m.entries[j].listener = t
        BY <2>1, LiveIs
      <3>2. IsLive(l, j) /\ j \in DOMAIN es
        BY <1>11, <1>12, <3>1
      <3>3. CASE j = i
        BY <1>9, <1>10, <3>1, <3>2, <3>3
      <3>4. CASE j # i
        <4>1. t = es[j].listener
          BY <1>9, <1>10, <3>1, <3>2, <3>4
        <4>2. t # r
          BY <1>16, <3>2, <3>4, <4>1
        <4>3. QED
          BY <3>2, <4>1, <4>2, LiveIs DEF es
      <3>5. QED
        BY <3>3, <3>4
    <2>2. ASSUME NEW t, t \in Range(LiveSlots(l)) \ {r} PROVE t \in Range(LiveSlots(m))
      <3>1. PICK j : IsLive(l, j) /\ es[j].listener = t
        BY <2>2, LiveIs DEF es
      <3>2. j # i /\ j \in DOMAIN es
        BY <1>12, <2>2, <3>1 DEF r
      <3>3. IsLive(m, j) /\ m.entries[j].listener = t
        BY <1>9, <1>10, <1>11, <3>1, <3>2
      <3>4. QED
        BY <3>3, LiveIs
    <2>3. s \in Range(LiveSlots(m))
      <3>1. IsLive(m, i) /\ m.entries[i].listener = s
        BY <1>3, <1>9, <1>10, <1>11 DEF es
      <3>2. QED
        BY <3>1, LiveIs
    <2>4. QED
      BY <2>1, <2>2, <2>3
  <1>18. QED
    BY <1>4, <1>13, <1>14, <1>15, <1>17 DEF m, s, r, es

\* An invocation begins to walk a list.
LEMMA BegunOK ==
  ASSUME NEW fresh, NEW l, ListOK(l, fresh)
  PROVE  LET m == Begun(l)
         IN  /\ ListOK(m, fresh) /\ m.depth = l.depth + 1 /\ m.entries = l.entries
             /\ Range(LiveSlots(m)) = Range(LiveSlots(l))
PROOF
  <1> DEFINE m == Begun(l)
  <1>1. l \in Lists /\ l.depth \in Nat
    BY EntriesAre DEF ListOK
  <1>2. m = [l EXCEPT !.depth = l.depth + 1]
    BY DEF Begun
  <1>3. /\ m \in Lists /\ m.depth = l.depth + 1 /\ m.depth # 0
        /\ m.entries = l.entries /\ m.dirty = l.dirty
    BY <1>1, <1>2 DEF Lists
  <1> HIDE DEF m
  <1>4. ListOK(m, fresh)
    BY <1>3 DEF ListOK, IsLive
  <1>5. LiveSlots(m) = LiveSlots(l)
    BY <1>3 DEF LiveSlots
  <1>6. QED
    BY <1>3, <1>4, <1>5 DEF m

\* The list is walked once less, and compacted when that was the last walk.
LEMMA FinishedOK ==
  ASSUME NEW fresh, NEW l, ListOK(l, fresh), l.depth # 0
  PROVE  LET m == Finished(l)
         IN  /\ ListOK(m, fresh) /\ m.depth = l.depth - 1
             /\ m.depth # 0 => m.entries = l.entries
             /\ Range(LiveSlots(m)) = Range(LiveSlots(l))
PROOF
  <1> DEFINE k == [l EXCEPT !.depth = l.depth - 1]
             m == Compact(k)
  <1>1. l \in Lists /\ l.depth \in Nat
    BY EntriesAre DEF ListOK
  <1>2. /\ k \in Lists /\ k.depth = l.depth - 1
        /\ k.entries = l.entries /\ k.dirty = l.dirty
    BY <1>1 DEF Lists
  <1>3. m = Finished(l)
    BY DEF Finished
  <1> HIDE DEF k
  <1>4. /\ \A i \in DOMAIN k.entries : k.entries[i].removed => k.dirty
        /\ \A i \in DOMAIN k.entries : Made(k.entries[i].listener, fresh)
        /\ \A i, j : IsLive(k, i) /\ IsLive(k, j)
                       /\ Alike(k.entries[i].listener, k.entries[j].listener) => i = j
    BY <1>2 DEF ListOK, IsLive
  <1>5. /\ ListOK(m, fresh) /\ m.depth = k.depth
        /\ k.depth # 0 => m = k
        /\ Range(LiveSlots(m)) = Range(LiveSlots(k))
    BY <1>2, <1>4, CompactOK
  <1>6. LiveSlots(k) = LiveSlots(l)
    BY <1>2 DEF LiveSlots
  <1> HIDE DEF m
  <1>7. QED
    BY <1>2, <1>3, <1>5, <1>6

LEMMA LaterOK ==
  ASSUME NEW fresh \in Nat, NEW l, ListOK(l, fresh)
  PROVE  ListOK(l, fresh + 1)
PROOF
  <1>1. \A i \in DOMAIN l.entries :
          l.entries[i].listener.id \in Nat /\ Made(l.entries[i].listener, fresh)
    BY EntriesAre DEF ListOK, Registrations, Ids
  <1>2. \A i \in DOMAIN l.entries : Made(l.entries[i].listener, fresh + 1)
    BY <1>1 DEF Made
  <1>3. QED
    BY <1>2 DEF ListOK

\* begin: what an invocation walks is in the list, by slot and by identity.
Walks(s, l) ==
  /\ s \in Seq([slot : Nat, id : Ids])
  /\ \A k \in DOMAIN s : /\ s[k].slot \in DOMAIN l.entries
                         /\ l.entries[s[k].slot].listener.id = s[k].id

LEMMA SnapshotHeld ==
  ASSUME NEW fresh, NEW l, ListOK(l, fresh), NEW kind, NEW capture
  PROVE  Walks(Snapshot(l, kind, capture), l)
PROOF
  <1> DEFINE live == LiveSlots(l)
             D == DOMAIN l.entries
             slots == {i \in DOMAIN live : live[i].kind = kind /\ live[i].capture = capture}
             all == [i \in D |-> i]
             walked == Without(all, D \ slots)
             s == [k \in DOMAIN walked |-> [slot |-> walked[k], id |-> live[walked[k]].id]]
  <1>1. /\ Len(l.entries) \in Nat /\ D = 1..Len(l.entries)
        /\ \A i \in D : l.entries[i].listener \in Registrations
    BY EntriesAre DEF ListOK
  <1>2. s = Snapshot(l, kind, capture)
    BY DEF Snapshot
  <1>3. \A i \in slots : i \in D /\ live[i] = l.entries[i].listener
    BY LiveIs DEF IsLive
  <1> HIDE DEF live, slots, D
  <1>4. all \in Seq(D) /\ DOMAIN all = D /\ Len(all) = Len(l.entries)
    BY <1>1
  <1>5. walked \in Seq(D)
    BY <1>4, WithoutKeeps
  <1>6. PICK g : KeptAt(all, D \ slots, Len(all), walked, g)
    BY <1>4, WithoutPlaces
  <1> HIDE DEF walked
  <1>7. Len(walked) \in Nat /\ DOMAIN walked = 1..Len(walked)
    BY <1>5, LenProperties
  <1>8. \A k \in 1..Len(walked) : walked[k] \in slots
    <2>1. ASSUME NEW k \in 1..Len(walked) PROVE walked[k] \in slots
      <3>1. g[k] \in D /\ walked[k] = all[g[k]] /\ all[g[k]] \notin D \ slots
        BY <1>1, <1>4, <1>6 DEF KeptAt
      <3>2. all[g[k]] \in D
        BY <3>1
      <3>3. QED
        BY <3>1, <3>2
    <2>2. QED
      BY <2>1
  <1>9. \A k \in 1..Len(walked) :
          /\ s[k].slot \in D /\ l.entries[s[k].slot].listener.id = s[k].id
          /\ s[k] \in [slot : Nat, id : Ids]
    <2>1. ASSUME NEW k \in 1..Len(walked)
          PROVE  /\ s[k].slot \in D /\ l.entries[s[k].slot].listener.id = s[k].id
                 /\ s[k] \in [slot : Nat, id : Ids]
      <3>1. s[k] = [slot |-> walked[k], id |-> live[walked[k]].id]
        BY <1>7
      <3>2. /\ walked[k] \in D /\ walked[k] \in Nat
            /\ live[walked[k]] = l.entries[walked[k]].listener
        BY <1>1, <1>3, <1>8
      <3>3. l.entries[walked[k]].listener.id \in Ids
        BY <1>1, <3>2 DEF Registrations
      <3> HIDE DEF s
      <3>4. QED
        BY <3>1, <3>2, <3>3
    <2>2. QED
      BY <2>1
  <1>10. DOMAIN s = 1..Len(walked)
    BY <1>7
  <1> HIDE DEF s
  <1>11. s \in Seq([slot : Nat, id : Ids])
    <2>1. s = [k \in 1..Len(walked) |-> s[k]]
      BY <1>7, <1>10 DEF s
    <2>2. QED
      BY <1>7, <1>9, <2>1
  <1>12. QED
    BY <1>2, <1>9, <1>10, <1>11 DEF Walks, D

----------------------------------------------------------------------------
(* The lists and the dispatches that walk them. *)

LEMMA SamePlace ==
  ASSUME NEW f, NEW g, g.path = f.path, g.visit = f.visit, g.event = f.event
  PROVE  Visited(g) = Visited(f) /\ LastVisit(g) = LastVisit(f)
BY DEF Visited, LastVisit

LEMMA WalkingIs ==
  ASSUME NEW ls, NEW st, NEW fresh, Walking(ls, st, fresh)
  PROVE  /\ st \in Seq(Frames) /\ Len(st) \in Nat /\ DOMAIN st = 1..Len(st)
         /\ \A n \in Nodes : ListOK(ls[n], fresh) /\ ls[n].depth = Cardinality(At(st, n))
         /\ \A i \in DOMAIN st :
              /\ st[i] \in Frames /\ FrameOK(st[i]) /\ Visited(st[i]) \in Nodes
              /\ Held(ls[Visited(st[i])], st[i]) /\ ls[Visited(st[i])].depth # 0
PROOF
  <1>1. st \in Seq(Frames) /\ Len(st) \in Nat /\ DOMAIN st = 1..Len(st)
    BY LenProperties DEF Walking
  <1>2. ASSUME NEW i \in DOMAIN st
        PROVE  /\ st[i] \in Frames /\ FrameOK(st[i]) /\ Visited(st[i]) \in Nodes
               /\ Held(ls[Visited(st[i])], st[i]) /\ ls[Visited(st[i])].depth # 0
    <2> DEFINE n == Visited(st[i])
    <2>1. FrameOK(st[i]) /\ Held(ls[n], st[i])
      BY <1>2 DEF Walking
    <2>2. n \in Nodes /\ st[i] \in Frames
      BY <2>1, VisitedType DEF FrameOK
    <2>3. ls[n].depth = Cardinality(At(st, n)) /\ i \in At(st, n)
      BY <2>2 DEF Walking, At
    <2>4. Cardinality(At(st, n)) # 0
      BY <1>1, <2>3, AtFinite, FS_EmptySet
    <2>5. QED
      BY <2>1, <2>2, <2>3, <2>4
  <1>3. \A n \in Nodes : ListOK(ls[n], fresh) /\ ls[n].depth = Cardinality(At(st, n))
    BY DEF Walking
  <1>4. QED
    BY <1>1, <1>2, <1>3

\* A script changes the registrations of one target.
LEMMA ListChanged ==
  ASSUME NEW ls, NEW st, NEW fresh \in Nat, Walking(ls, st, fresh),
         NEW n \in Nodes, NEW m, NEW later \in {fresh, fresh + 1},
         ListOK(m, later), Kept(ls[n], m)
  PROVE  Walking([ls EXCEPT ![n] = m], st, later)
PROOF
  <1> DEFINE lt == [ls EXCEPT ![n] = m]
  <1>1. ls \in [Nodes -> Lists] /\ m \in Lists
    BY DEF Walking, ListOK
  <1>2. /\ lt \in [Nodes -> Lists] /\ lt[n] = m
        /\ \A k \in Nodes : k # n => lt[k] = ls[k]
    BY <1>1
  <1> HIDE DEF lt
  <1>3. ASSUME NEW k \in Nodes
        PROVE  ListOK(lt[k], later) /\ lt[k].depth = Cardinality(At(st, k))
    <2>1. ListOK(ls[k], fresh) /\ ls[k].depth = Cardinality(At(st, k))
      BY WalkingIs
    <2>2. ListOK(ls[k], later)
      BY <2>1, LaterOK
    <2>3. QED
      BY <1>2, <2>1, <2>2 DEF Kept
  <1>4. ASSUME NEW i \in DOMAIN st
        PROVE  FrameOK(st[i]) /\ Held(lt[Visited(st[i])], st[i])
    <2>1. /\ FrameOK(st[i]) /\ Visited(st[i]) \in Nodes
          /\ Held(ls[Visited(st[i])], st[i]) /\ ls[Visited(st[i])].depth # 0
      BY WalkingIs
    <2>2. CASE Visited(st[i]) = n
      BY <1>2, <2>1, <2>2 DEF Kept, Held
    <2>3. CASE Visited(st[i]) # n
      BY <1>2, <2>1, <2>3
    <2>4. QED
      BY <2>1, <2>2, <2>3
  <1>5. QED
    BY <1>2, <1>3, <1>4 DEF Walking, lt

\* The innermost dispatch goes on with its invocation.
LEMMA TopChanged ==
  ASSUME NEW ls, NEW st, NEW fresh, Walking(ls, st, fresh), st # <<>>,
         NEW f \in Frames, f.path = st[Len(st)].path, f.visit = st[Len(st)].visit,
         f.event = st[Len(st)].event, Held(ls[Visited(f)], f)
  PROVE  Walking(ls, [st EXCEPT ![Len(st)] = f], fresh)
PROOF
  <1> DEFINE k == Len(st)
             t == [st EXCEPT ![k] = f]
  <1>1. /\ st \in Seq(Frames) /\ k \in Nat /\ DOMAIN st = 1..k
        /\ \A n \in Nodes : ListOK(ls[n], fresh) /\ ls[n].depth = Cardinality(At(st, n))
        /\ \A i \in DOMAIN st : FrameOK(st[i]) /\ Held(ls[Visited(st[i])], st[i])
    BY WalkingIs
  <1>2. k # 0 /\ k \in 1..k
    BY <1>1, EmptySeq
  <1>3. /\ t \in Seq(Frames) /\ DOMAIN t = 1..k /\ t[k] = f
        /\ \A i \in 1..k : i # k => t[i] = st[i]
    BY <1>1, <1>2, ExceptSeq
  <1>4. /\ Visited(f) = Visited(st[k]) /\ LastVisit(f) = LastVisit(st[k])
    BY SamePlace
  <1> HIDE DEF t, k
  <1>5. FrameOK(f)
    BY <1>1, <1>2, <1>4 DEF FrameOK, k
  <1>6. \A n : At(t, n) = At(st, n)
    BY <1>1, <1>2, <1>3, <1>4 DEF At
  <1>7. \A i \in DOMAIN t : FrameOK(t[i]) /\ Held(ls[Visited(t[i])], t[i])
    BY <1>1, <1>2, <1>3, <1>4, <1>5 DEF k
  <1>8. QED
    BY <1>1, <1>3, <1>6, <1>7 DEF Walking, t, k

\* A dispatch enters an invocation.
LEMMA Entered ==
  ASSUME NEW ls, NEW st, NEW fresh, Walking(ls, st, fresh),
         NEW f, FrameOK(f), Held(ls[Visited(f)], f)
  PROVE  LET lt == [ls EXCEPT ![Visited(f)] = Begun(ls[Visited(f)])]
         IN  /\ Walking(lt, Append(st, f), fresh)
             /\ \A n \in Nodes : Range(LiveSlots(lt[n])) = Range(LiveSlots(ls[n]))
PROOF
  <1> DEFINE v == Visited(f)
             lt == [ls EXCEPT ![v] = Begun(ls[v])]
             t == Append(st, f)
             k == Len(st)
  <1>1. /\ st \in Seq(Frames) /\ k \in Nat /\ DOMAIN st = 1..k
        /\ \A n \in Nodes : ListOK(ls[n], fresh) /\ ls[n].depth = Cardinality(At(st, n))
        /\ \A i \in DOMAIN st :
             /\ FrameOK(st[i]) /\ Held(ls[Visited(st[i])], st[i]) /\ Visited(st[i]) \in Nodes
    BY WalkingIs
  <1>2. v \in Nodes /\ f \in Frames
    BY VisitedType DEF FrameOK
  <1>3. ls \in [Nodes -> Lists]
    BY DEF Walking
  <1>4. /\ ListOK(Begun(ls[v]), fresh) /\ Begun(ls[v]).depth = ls[v].depth + 1
        /\ Begun(ls[v]).entries = ls[v].entries
        /\ Range(LiveSlots(Begun(ls[v]))) = Range(LiveSlots(ls[v]))
    BY <1>1, <1>2, BegunOK
  <1>5. Begun(ls[v]) \in Lists
    BY <1>4 DEF ListOK
  <1>6. /\ t \in Seq(Frames) /\ DOMAIN t = 1..(k + 1) /\ t[k + 1] = f
        /\ \A i \in 1..k : t[i] = st[i]
    BY <1>1, <1>2, AppendProperties, LenProperties
  <1>7. /\ lt \in [Nodes -> Lists] /\ lt[v] = Begun(ls[v])
        /\ \A n \in Nodes : n # v => lt[n] = ls[n]
    BY <1>2, <1>3, <1>5
  <1>8. \A n \in Nodes : Cardinality(At(t, n)) = IF v = n THEN Cardinality(At(st, n)) + 1
                                                         ELSE Cardinality(At(st, n))
    BY <1>1, <1>2, AtPushed
  <1> HIDE DEF lt, t, k, v
  <1>9. \A n \in Nodes :
          lt[n].entries = ls[n].entries /\ Range(LiveSlots(lt[n])) = Range(LiveSlots(ls[n]))
    BY <1>4, <1>7
  <1>10. \A n \in Nodes : ListOK(lt[n], fresh) /\ lt[n].depth = Cardinality(At(t, n))
    BY <1>1, <1>4, <1>7, <1>8
  <1>11. \A n \in Nodes : \A g : Held(ls[n], g) => Held(lt[n], g)
    BY <1>9 DEF Held
  <1>12. ASSUME NEW i \in DOMAIN t PROVE FrameOK(t[i]) /\ Held(lt[Visited(t[i])], t[i])
    <2>1. CASE i = k + 1
      BY <1>2, <1>6, <1>11, <2>1 DEF v
    <2>2. CASE i \in 1..k
      BY <1>1, <1>6, <1>11, <2>2
    <2>3. QED
      BY <1>1, <1>6, <2>1, <2>2
  <1>13. QED
    BY <1>6, <1>7, <1>9, <1>10, <1>12 DEF Walking, lt, t, v

\* A dispatch leaves its invocation.
LEMMA Left ==
  ASSUME NEW ls, NEW st, NEW fresh, Walking(ls, st, fresh), st # <<>>
  PROVE  LET v == Visited(st[Len(st)])
             lt == [ls EXCEPT ![v] = Finished(ls[v])]
         IN  /\ Walking(lt, SubSeq(st, 1, Len(st) - 1), fresh)
             /\ \A n \in Nodes : Range(LiveSlots(lt[n])) = Range(LiveSlots(ls[n]))
PROOF
  <1> DEFINE k == Len(st)
             v == Visited(st[k])
             lt == [ls EXCEPT ![v] = Finished(ls[v])]
             t == SubSeq(st, 1, k - 1)
  <1>1. /\ st \in Seq(Frames) /\ k \in Nat /\ DOMAIN st = 1..k
        /\ \A n \in Nodes : ListOK(ls[n], fresh) /\ ls[n].depth = Cardinality(At(st, n))
        /\ \A i \in DOMAIN st :
             /\ FrameOK(st[i]) /\ Held(ls[Visited(st[i])], st[i])
             /\ Visited(st[i]) \in Nodes /\ ls[Visited(st[i])].depth # 0
    BY WalkingIs
  <1>2. /\ k \in Nat \ {0} /\ t \in Seq(Frames) /\ DOMAIN t = 1..(k - 1)
        /\ \A i \in 1..(k - 1) : t[i] = st[i]
    BY <1>1, PoppedIs
  <1>3. k \in DOMAIN st
    BY <1>1, <1>2
  <1>4. ls \in [Nodes -> Lists] /\ v \in Nodes /\ ls[v].depth # 0
    BY <1>1, <1>3 DEF Walking
  <1>5. /\ ListOK(Finished(ls[v]), fresh) /\ Finished(ls[v]).depth = ls[v].depth - 1
        /\ Finished(ls[v]).depth # 0 => Finished(ls[v]).entries = ls[v].entries
        /\ Range(LiveSlots(Finished(ls[v]))) = Range(LiveSlots(ls[v]))
    BY <1>1, <1>4, FinishedOK
  <1>6. Finished(ls[v]) \in Lists
    BY <1>5 DEF ListOK
  <1>7. /\ lt \in [Nodes -> Lists] /\ lt[v] = Finished(ls[v])
        /\ \A n \in Nodes : n # v => lt[n] = ls[n]
    BY <1>4, <1>6
  <1>8. \A n \in Nodes : Cardinality(At(t, n)) = IF v = n THEN Cardinality(At(st, n)) - 1
                                                         ELSE Cardinality(At(st, n))
    BY <1>1, AtPopped
  <1> HIDE DEF lt, t, v, k
  <1>9. \A n \in Nodes : ListOK(lt[n], fresh) /\ lt[n].depth = Cardinality(At(t, n))
    BY <1>1, <1>4, <1>5, <1>7, <1>8
  <1>10. \A n \in Nodes : Range(LiveSlots(lt[n])) = Range(LiveSlots(ls[n]))
    BY <1>5, <1>7
  <1>11. \A n \in Nodes : lt[n].depth # 0 => lt[n].entries = ls[n].entries
    BY <1>5, <1>7
  <1>12. ASSUME NEW i \in DOMAIN t
         PROVE  FrameOK(t[i]) /\ Held(lt[Visited(t[i])], t[i])
    <2>1. i \in DOMAIN st /\ t[i] = st[i]
      BY <1>1, <1>2
    <2>2. /\ FrameOK(t[i]) /\ Held(ls[Visited(t[i])], t[i]) /\ Visited(t[i]) \in Nodes
      BY <1>1, <2>1
    <2>3. lt[Visited(t[i])].depth # 0
      <3>1. i \in At(t, Visited(t[i]))
        BY DEF At
      <3>2. Cardinality(At(t, Visited(t[i]))) # 0
        BY <1>2, <3>1, AtFinite, FS_EmptySet
      <3>3. QED
        BY <1>9, <2>2, <3>2
    <2>4. QED
      BY <1>11, <2>2, <2>3 DEF Held
  <1>13. QED
    BY <1>2, <1>7, <1>9, <1>10, <1>12 DEF Walking, lt, t, v, k

----------------------------------------------------------------------------
(* What a script does to the registrations of a target. *)

RegistersAs(l, m, id) ==
  \E r \in Registrations :
    /\ r.id = id /\ \A s \in Range(LiveSlots(l)) : ~Alike(r, s)
    /\ Range(LiveSlots(m)) = Range(LiveSlots(l)) \cup {r}

Unregisters(l, m) == \E r \in Range(LiveSlots(l)) : Range(LiveSlots(m)) = Range(LiveSlots(l)) \ {r}

Reassigns(l, m) ==
  \E r \in Range(LiveSlots(l)), c \in Callbacks :
    /\ r.handler /\ r \in Registrations
    /\ Range(LiveSlots(m)) = (Range(LiveSlots(l)) \ {r}) \cup {[r EXCEPT !.callback = c]}

Edited(l, m, fresh, later) ==
  /\ ListOK(m, later) /\ Kept(l, m)
  /\ \/ fresh \in Ids /\ later = fresh + 1 /\ RegistersAs(l, m, fresh)
     \/ later = fresh /\ (Unregisters(l, m) \/ Reassigns(l, m))

\* Slots with registrations that are alike are one slot.
LEMMA OneSlot ==
  ASSUME NEW fresh, NEW l, ListOK(l, fresh), NEW slots, slots # {},
         \A i \in slots : IsLive(l, i),
         \A i, j \in slots : Alike(l.entries[i].listener, l.entries[j].listener)
  PROVE  Edited(l, Compact(Removing(l, slots)), fresh, fresh)
PROOF
  <1> DEFINE m == Compact(Removing(l, slots))
  <1>1. PICK i : i \in slots
    OBVIOUS
  <1> DEFINE r == l.entries[i].listener
  <1>2. \A j, k : IsLive(l, j) /\ IsLive(l, k)
                    /\ Alike(l.entries[j].listener, l.entries[k].listener) => j = k
    BY DEF ListOK
  <1>3. slots = {i}
    BY <1>1, <1>2
  <1>4. /\ ListOK(m, fresh) /\ Kept(l, m)
        /\ \A s : s \in Range(LiveSlots(m)) <=>
             \E j : IsLive(l, j) /\ j \notin slots /\ l.entries[j].listener = s
    BY RemovingOK
  <1>5. IsLive(l, i) /\ r \in Range(LiveSlots(l))
    BY <1>1, LiveIs
  <1>6. \A j : IsLive(l, j) /\ l.entries[j].listener = r => j = i
    BY <1>2, <1>5 DEF Alike
  <1> HIDE DEF m
  <1>7. Range(LiveSlots(m)) = Range(LiveSlots(l)) \ {r}
    <2>1. ASSUME NEW s, s \in Range(LiveSlots(m)) PROVE s \in Range(LiveSlots(l)) \ {r}
      <3>1. PICK j : IsLive(l, j) /\ j \notin slots /\ l.entries[j].listener = s
        BY <1>4, <2>1
      <3>2. QED
        BY <1>3, <1>6, <3>1, LiveIs
    <2>2. ASSUME NEW s, s \in Range(LiveSlots(l)) \ {r} PROVE s \in Range(LiveSlots(m))
      <3>1. PICK j : IsLive(l, j) /\ l.entries[j].listener = s
        BY <2>2, LiveIs
      <3>2. QED
        BY <1>3, <1>4, <2>2, <3>1
    <2>3. QED
      BY <2>1, <2>2
  <1>8. Unregisters(l, m)
    BY <1>5, <1>7 DEF Unregisters
  <1>9. QED
    BY <1>4, <1>8 DEF Edited, m

LEMMA AddListenerEdits ==
  ASSUME nextId \in Nat, NEW n \in Nodes, ListOK(lists[n], nextId),
         NEW kind \in Kinds, NEW c \in Callbacks, NEW capture \in BOOLEAN, NEW o \in Options,
         AddListener(n, kind, c, capture, o)
  PROVE  \E m : /\ Edited(lists[n], m, nextId, nextId')
                /\ ScriptRuns /\ Set(n, m)
PROOF
  <1> DEFINE l == lists[n]
             r == Registration(kind, c, capture, o, FALSE)
             m == AppendEntry(l, r)
  <1>1. /\ ScriptRuns /\ nextId \in Ids /\ Same(l, r) = {}
        /\ Set(n, m) /\ nextId' = nextId + 1
    BY DEF AddListener
  <1>2. /\ r \in Registrations /\ r.id = nextId /\ ~r.handler
    BY <1>1, DispatchAssumption DEF Registration, Registrations
  <1> HIDE DEF r
  <1>3. \A i : IsLive(l, i) => ~Alike(r, l.entries[i].listener)
    BY <1>1, <1>2, LiveIs DEF Same, Alike
  <1>4. /\ ListOK(m, nextId + 1) /\ Kept(l, m)
        /\ Range(LiveSlots(m)) = Range(LiveSlots(l)) \cup {r}
    BY <1>2, <1>3, AppendOK
  <1>5. RegistersAs(l, m, nextId)
    BY <1>2, <1>3, <1>4, LiveIs DEF RegistersAs
  <1> HIDE DEF m, l
  <1>6. QED
    BY <1>1, <1>4, <1>5 DEF Edited, l

LEMMA RemoveListenerEdits ==
  ASSUME NEW n \in Nodes, ListOK(lists[n], nextId),
         NEW kind, NEW c, NEW capture, RemoveListener(n, kind, c, capture)
  PROVE  \E m : /\ Edited(lists[n], m, nextId, nextId')
                /\ ScriptRuns /\ Set(n, m)
PROOF
  <1> DEFINE l == lists[n]
             r == [kind |-> kind, callback |-> c, capture |-> capture]
             slots == Same(l, r)
             m == Compact(Removing(l, slots))
  <1>1. ScriptRuns /\ slots # {} /\ Set(n, m) /\ nextId' = nextId
    BY DEF RemoveListener
  <1>2. \A i \in slots :
          /\ IsLive(l, i) /\ l.entries[i].listener.kind = kind
          /\ l.entries[i].listener.capture = capture
          /\ l.entries[i].listener.callback = c /\ ~l.entries[i].listener.handler
    BY LiveIs DEF Same
  <1>3. \A i \in slots : l.entries[i].listener.handler \in BOOLEAN
    BY <1>2, EntriesAre DEF ListOK, IsLive, Registrations
  <1> HIDE DEF slots
  <1>4. \A i, j \in slots : Alike(l.entries[i].listener, l.entries[j].listener)
    BY <1>2, <1>3 DEF Alike
  <1>5. Edited(l, m, nextId, nextId)
    BY <1>1, <1>2, <1>4, OneSlot
  <1>6. QED
    BY <1>1, <1>5

\* An event handler attribute has one slot.
LEMMA HandlerIs ==
  ASSUME NEW fresh, NEW l, ListOK(l, fresh), NEW kind
  PROVE  /\ \A i \in Handler(l, kind) :
              /\ IsLive(l, i) /\ l.entries[i].listener.kind = kind
              /\ l.entries[i].listener.handler = TRUE /\ l.entries[i].listener.capture = FALSE
         /\ \A i, j \in Handler(l, kind) :
              Alike(l.entries[i].listener, l.entries[j].listener)
PROOF
  <1>1. \A i \in Handler(l, kind) :
          /\ IsLive(l, i) /\ l.entries[i].listener.kind = kind
          /\ l.entries[i].listener.handler
    BY LiveIs DEF Handler
  <1>2. \A i \in Handler(l, kind) :
          /\ i \in DOMAIN l.entries
          /\ l.entries[i].listener \in Registrations /\ Made(l.entries[i].listener, fresh)
    BY <1>1, EntriesAre DEF ListOK, IsLive
  <1>3. \A i \in Handler(l, kind) :
          l.entries[i].listener.handler = TRUE /\ l.entries[i].listener.capture = FALSE
    BY <1>1, <1>2 DEF Made, Registrations
  <1>4. QED
    BY <1>1, <1>3 DEF Alike

LEMMA ClearHandlerEdits ==
  ASSUME NEW n \in Nodes, ListOK(lists[n], nextId), NEW kind, ClearHandler(n, kind)
  PROVE  \E m : /\ Edited(lists[n], m, nextId, nextId')
                /\ ScriptRuns /\ Set(n, m)
PROOF
  <1> DEFINE l == lists[n]
             slots == Handler(l, kind)
             m == Compact(Removing(l, slots))
  <1>1. ScriptRuns /\ slots # {} /\ Set(n, m) /\ nextId' = nextId
    BY DEF ClearHandler
  <1>2. /\ \A i \in slots : IsLive(l, i)
        /\ \A i, j \in slots : Alike(l.entries[i].listener, l.entries[j].listener)
    BY HandlerIs
  <1> HIDE DEF slots
  <1>3. Edited(l, m, nextId, nextId)
    BY <1>1, <1>2, OneSlot
  <1>4. QED
    BY <1>1, <1>3

LEMMA AssignHandlerEdits ==
  ASSUME nextId \in Nat, NEW n \in Nodes, ListOK(lists[n], nextId), NEW kind \in Kinds,
         NEW c \in Callbacks, AssignHandler(n, kind, c)
  PROVE  \E m : /\ Edited(lists[n], m, nextId, nextId')
                /\ ScriptRuns /\ Set(n, m)
PROOF
  <1> DEFINE l == lists[n]
             slots == Handler(l, kind)
             i == CHOOSE j \in slots : TRUE
             r == Registration(kind, c, FALSE, [once |-> FALSE, passive |-> FALSE], TRUE)
  <1>0. ListOK(l, nextId)
    OBVIOUS
  <1> HIDE DEF l
  <1>1. \A j \in slots : IsLive(l, j) /\ l.entries[j].listener.handler
    BY <1>0, HandlerIs
  <1>2. CASE slots # {}
    <2> DEFINE m == Assigned(l, i, c)
    <2>1. ScriptRuns /\ Set(n, m) /\ nextId' = nextId
      BY <1>2 DEF AssignHandler, Assigned, l
    <2>2. i \in slots
      BY <1>2
    <2> HIDE DEF slots, i
    <2>3. IsLive(l, i) /\ l.entries[i].listener.handler
      BY <1>1, <2>2
    <2> DEFINE s == l.entries[i].listener
    <2>4. /\ ListOK(m, nextId) /\ Kept(l, m) /\ s \in Range(LiveSlots(l)) /\ s \in Registrations
          /\ Range(LiveSlots(m)) = (Range(LiveSlots(l)) \ {s}) \cup {[s EXCEPT !.callback = c]}
      BY <1>0, <2>3, AssignOK
    <2> HIDE DEF m
    <2>5. Reassigns(l, m)
      <3>1. s.handler
        BY <2>3
      <3> HIDE DEF s
      <3>2. QED
        BY <2>4, <3>1 DEF Reassigns
    <2>6. QED
      BY <2>1, <2>4, <2>5 DEF Edited, l
  <1>3. CASE slots = {}
    <2> DEFINE m == AppendEntry(l, r)
    <2>1. ScriptRuns /\ nextId \in Ids /\ Set(n, m) /\ nextId' = nextId + 1
      BY <1>3 DEF AssignHandler, l
    <2>2. /\ r \in Registrations /\ r.id = nextId /\ r.handler /\ ~r.capture /\ r.kind = kind
      BY <2>1 DEF Registration, Registrations
    <2> HIDE DEF r
    <2>3. \A j : IsLive(l, j) => ~Alike(r, l.entries[j].listener)
      <3>1. ASSUME NEW j, IsLive(l, j), l.entries[j].listener.handler,
                   l.entries[j].listener.kind = kind
            PROVE  FALSE
        BY <1>3, <3>1, LiveIs DEF Handler
      <3>2. QED
        BY <2>2, <3>1 DEF Alike
    <2>4. /\ ListOK(m, nextId + 1) /\ Kept(l, m)
          /\ Range(LiveSlots(m)) = Range(LiveSlots(l)) \cup {r}
      BY <1>0, <2>2, <2>3, AppendOK
    <2>5. RegistersAs(l, m, nextId)
      BY <2>2, <2>3, <2>4, LiveIs DEF RegistersAs
    <2> HIDE DEF m
    <2>6. QED
      BY <2>1, <2>4, <2>5 DEF Edited, l
  <1>4. QED
    BY <1>2, <1>3

----------------------------------------------------------------------------
(* The marks of the events under dispatch, and what the dispatches call. *)

Marked(evs, st) ==
  /\ evs \in [AllEvents -> Flags]
  /\ \A e \in AllEvents : evs[e].dispatched <=> \E i \in DOMAIN st : st[i].event = e
  /\ \A i, j \in DOMAIN st : st[i].event = st[j].event => i = j

LEMMA FlagsChanged ==
  ASSUME NEW evs, NEW st, Marked(evs, st), NEW e \in AllEvents,
         NEW flags \in Flags, flags.dispatched = evs[e].dispatched
  PROVE  Marked([evs EXCEPT ![e] = flags], st)
PROOF
  <1> DEFINE ew == [evs EXCEPT ![e] = flags]
  <1>1. /\ ew \in [AllEvents -> Flags] /\ ew[e] = flags
        /\ \A x \in AllEvents : x # e => ew[x] = evs[x]
    BY DEF Marked
  <1> HIDE DEF ew
  <1>2. \A x \in AllEvents : ew[x].dispatched = evs[x].dispatched
    BY <1>1
  <1>3. QED
    BY <1>1, <1>2 DEF Marked, ew

LEMMA MarkedTop ==
  ASSUME NEW evs, NEW st \in Seq(Frames), st # <<>>, Marked(evs, st),
         NEW f \in Frames, f.event = st[Len(st)].event
  PROVE  Marked(evs, [st EXCEPT ![Len(st)] = f])
PROOF
  <1> DEFINE k == Len(st)
             t == [st EXCEPT ![k] = f]
  <1>1. DOMAIN st = 1..k /\ k \in DOMAIN st
    BY PoppedIs
  <1>2. DOMAIN t = DOMAIN st /\ \A i \in DOMAIN st : t[i].event = st[i].event
    BY <1>1
  <1> HIDE DEF t
  <1>3. QED
    BY <1>2 DEF Marked, t

LEMMA MarkedPush ==
  ASSUME NEW evs, NEW st \in Seq(Frames), Marked(evs, st), NEW f \in Frames,
         ~evs[f.event].dispatched, NEW flags \in Flags, flags.dispatched
  PROVE  Marked([evs EXCEPT ![f.event] = flags], Append(st, f))
PROOF
  <1> DEFINE k == Len(st)
             t == Append(st, f)
             e == f.event
             ew == [evs EXCEPT ![e] = flags]
  <1>1. /\ k \in Nat /\ DOMAIN st = 1..k /\ DOMAIN t = 1..(k + 1) /\ t[k + 1] = f
        /\ \A i \in 1..k : t[i] = st[i]
    BY AppendProperties, LenProperties
  <1>2. e \in AllEvents
    BY DEF Frames
  <1>3. /\ ew \in [AllEvents -> Flags] /\ ew[e] = flags
        /\ \A x \in AllEvents : x # e => ew[x] = evs[x]
    BY <1>2 DEF Marked
  <1>4. \A i \in 1..k : st[i].event # e
    BY <1>1, <1>2 DEF Marked
  <1> HIDE DEF t, ew, k
  <1>5. k + 1 \in DOMAIN t /\ k + 1 \notin 1..k /\ DOMAIN t = (1..k) \cup {k + 1}
    BY <1>1
  <1>6. \A x \in AllEvents : ew[x].dispatched <=> \E i \in DOMAIN t : t[i].event = x
    BY <1>1, <1>3, <1>4, <1>5 DEF Marked
  <1>7. \A i, j \in DOMAIN t : t[i].event = t[j].event => i = j
    BY <1>1, <1>4, <1>5 DEF Marked
  <1>8. QED
    BY <1>3, <1>6, <1>7 DEF Marked, t, ew

LEMMA MarkedPop ==
  ASSUME NEW evs, NEW st \in Seq(Frames), st # <<>>, Marked(evs, st),
         NEW flags \in Flags, ~flags.dispatched
  PROVE  Marked([evs EXCEPT ![st[Len(st)].event] = flags], SubSeq(st, 1, Len(st) - 1))
PROOF
  <1> DEFINE k == Len(st)
             t == SubSeq(st, 1, k - 1)
             e == st[k].event
             ew == [evs EXCEPT ![e] = flags]
  <1>1. /\ k \in Nat \ {0} /\ DOMAIN st = 1..k /\ DOMAIN t = 1..(k - 1) /\ st[k] \in Frames
        /\ \A i \in 1..(k - 1) : t[i] = st[i]
    BY PoppedIs
  <1>2. e \in AllEvents
    BY <1>1 DEF Frames
  <1>3. /\ ew \in [AllEvents -> Flags] /\ ew[e] = flags
        /\ \A x \in AllEvents : x # e => ew[x] = evs[x]
    BY <1>2 DEF Marked
  <1> HIDE DEF t, ew, k
  <1>4. DOMAIN st = (DOMAIN t) \cup {k} /\ k \notin DOMAIN t
    BY <1>1
  <1>5. \A i \in DOMAIN t : t[i] = st[i] /\ t[i].event # e
    BY <1>1, <1>4 DEF Marked, k
  <1>6. \A x \in AllEvents : ew[x].dispatched <=> \E i \in DOMAIN t : t[i].event = x
    BY <1>1, <1>3, <1>4, <1>5 DEF Marked
  <1>7. \A i, j \in DOMAIN t : t[i].event = t[j].event => i = j
    BY <1>4, <1>5 DEF Marked
  <1>8. QED
    BY <1>3, <1>6, <1>7 DEF Marked, t, ew, k

CallsOf(st) == [i \in DOMAIN st |-> st[i].call]

LEMMA CallsAre ==
  ASSUME NEW st \in Seq(Frames)
  PROVE  /\ CallsOf(st) \in Seq(Registrations \cup {NoCall}) /\ Len(CallsOf(st)) = Len(st)
         /\ DOMAIN CallsOf(st) = DOMAIN st
         /\ CallsOf(st) = <<>> <=> st = <<>>
         /\ st # <<>> => CallsOf(st)[Len(st)] = st[Len(st)].call
PROOF
  <1>1. Len(st) \in Nat /\ DOMAIN st = 1..Len(st) /\ \A i \in DOMAIN st : st[i] \in Frames
    BY LenProperties, ElementOfSeq
  <1>2. \A i \in DOMAIN st : st[i].call \in Registrations \cup {NoCall}
    BY <1>1 DEF Frames
  <1>3. CallsOf(st) \in Seq(Registrations \cup {NoCall}) /\ Len(CallsOf(st)) = Len(st)
        /\ DOMAIN CallsOf(st) = DOMAIN st
    BY <1>1, <1>2 DEF CallsOf
  <1>4. st # <<>> => Len(st) \in DOMAIN st
    BY <1>1, EmptySeq
  <1>5. CallsOf(st) = <<>> <=> st = <<>>
    BY <1>1, <1>3, EmptySeq
  <1>6. QED
    BY <1>3, <1>4, <1>5 DEF CallsOf

LEMMA CallsPush ==
  ASSUME NEW st \in Seq(Frames), NEW f \in Frames
  PROVE  CallsOf(Append(st, f)) = Append(CallsOf(st), f.call)
PROOF
  <1> DEFINE k == Len(st)
             t == Append(st, f)
             c == CallsOf(st)
  <1>1. /\ k \in Nat /\ DOMAIN st = 1..k /\ t \in Seq(Frames) /\ DOMAIN t = 1..(k + 1)
        /\ Len(t) = k + 1 /\ t[k + 1] = f /\ \A i \in 1..k : t[i] = st[i]
    BY AppendProperties, LenProperties
  <1>2. /\ c \in Seq(Registrations \cup {NoCall}) /\ Len(c) = k
        /\ \A i \in 1..k : c[i] = st[i].call
    BY <1>1, CallsAre DEF CallsOf
  <1>3. f.call \in Registrations \cup {NoCall}
    BY DEF Frames
  <1> DEFINE d == Append(c, f.call)
  <1>4. /\ d \in Seq(Registrations \cup {NoCall}) /\ Len(d) = k + 1 /\ d[k + 1] = f.call
        /\ \A i \in 1..k : d[i] = c[i]
    BY <1>2, <1>3, AppendProperties
  <1>5. /\ CallsOf(t) \in Seq(Registrations \cup {NoCall}) /\ Len(CallsOf(t)) = k + 1
        /\ \A i \in 1..(k + 1) : CallsOf(t)[i] = t[i].call
    BY <1>1, CallsAre DEF CallsOf
  <1> HIDE DEF d, c, t, k
  <1>6. \A i \in 1..(k + 1) : CallsOf(t)[i] = d[i]
    <2>1. \A i \in 1..(k + 1) : i \in 1..k \/ i = k + 1
      BY <1>1
    <2>2. QED
      BY <1>1, <1>2, <1>4, <1>5, <2>1
  <1>7. CallsOf(t) = d
    BY <1>4, <1>5, <1>6, SeqEqual
  <1>8. QED
    BY <1>7 DEF t, d, c

LEMMA CallsTop ==
  ASSUME NEW st \in Seq(Frames), st # <<>>, NEW f \in Frames
  PROVE  CallsOf([st EXCEPT ![Len(st)] = f]) = [CallsOf(st) EXCEPT ![Len(CallsOf(st))] = f.call]
PROOF
  <1>1. Len(CallsOf(st)) = Len(st) /\ Len(st) \in DOMAIN st
    BY CallsAre, PoppedIs
  <1>2. QED
    BY <1>1 DEF CallsOf

LEMMA CallsPop ==
  ASSUME NEW st \in Seq(Frames), st # <<>>
  PROVE  CallsOf(SubSeq(st, 1, Len(st) - 1)) = SubSeq(CallsOf(st), 1, Len(CallsOf(st)) - 1)
PROOF
  <1> DEFINE k == Len(st)
             t == SubSeq(st, 1, k - 1)
             c == CallsOf(st)
             d == SubSeq(c, 1, k - 1)
             R == Registrations \cup {NoCall}
  <1>1. /\ k \in Nat \ {0} /\ DOMAIN st = 1..k /\ t \in Seq(Frames) /\ DOMAIN t = 1..(k - 1)
        /\ Len(t) = k - 1 /\ \A i \in 1..(k - 1) : t[i] = st[i]
    BY PoppedIs
  <1>2. c \in Seq(R) /\ Len(c) = k /\ \A i \in 1..k : c[i] = st[i].call
    BY <1>1, CallsAre DEF CallsOf
  <1>3. d \in Seq(R) /\ Len(d) = k - 1 /\ \A i \in 1..(k - 1) : d[i] = c[i]
    BY <1>1, <1>2, SubSeqProperties
  <1>4. /\ CallsOf(t) \in Seq(R) /\ Len(CallsOf(t)) = k - 1
        /\ \A i \in 1..(k - 1) : CallsOf(t)[i] = t[i].call
    BY <1>1, CallsAre DEF CallsOf
  <1> HIDE DEF d, c, t, k, R
  <1>5. ASSUME NEW i \in 1..(k - 1)
        PROVE  CallsOf(t)[i] = d[i]
    <2>1. i \in 1..k
      BY <1>1
    <2>2. CallsOf(t)[i] = t[i].call /\ t[i] = st[i] /\ d[i] = c[i]
      BY <1>1, <1>3, <1>4
    <2>3. QED
      BY <1>2, <2>1, <2>2
  <1>6. CallsOf(t) = d
    BY <1>3, <1>4, <1>5, SeqEqual
  <1>7. QED
    BY <1>2, <1>6 DEF t, d, c, k

----------------------------------------------------------------------------
(* The invariant. *)

Counted ==
  /\ depth \in 0..MaxDepth /\ reporting \in BOOLEAN /\ aborted \in BOOLEAN
  /\ uncaught \in Nat /\ thrown \in Nat /\ handled \in Nat
  /\ nextId \in 1..(MaxRegistrations + 1)
  /\ NoErrorLost

DispatchIInv == Walking(lists, stack, nextId) /\ Marked(events, stack) /\ Counted

\* What EventTargets sees of a state.
RegisteredIn(ls) == [n \in Nodes |-> Range(LiveSlots(ls[n]))]

TargetsStep == [Targets!Next]_(Targets!vars)

LEMMA SameForTargets ==
  ASSUME \A n \in Nodes : Range(LiveSlots(lists'[n])) = Range(LiveSlots(lists[n])),
         CallsOf(stack') = CallsOf(stack)
  PROVE  UNCHANGED Targets!vars
PROOF
  <1>1. RegisteredIn(lists') = RegisteredIn(lists)
    BY DEF RegisteredIn
  <1>2. QED
    BY <1>1 DEF RegisteredIn, Targets!vars, CallsOf

LEMMA TypeOfIInv ==
  ASSUME DispatchIInv
  PROVE  /\ nextId \in Nat /\ nextId \in 1..(MaxRegistrations + 1)
         /\ MaxRegistrations \in Nat /\ MaxDepth \in Nat
         /\ \A n \in Nodes : ListOK(lists[n], nextId)
         /\ stack \in Seq(Frames) /\ Len(stack) \in Nat /\ DOMAIN stack = 1..Len(stack)
         /\ stack # <<>> => Top \in Frames /\ FrameOK(Top) /\ Visited(Top) \in Nodes
                            /\ Held(lists[Visited(Top)], Top) /\ Top.event \in AllEvents
         /\ lists \in [Nodes -> Lists]
         /\ events \in [AllEvents -> Flags]
PROOF
  <1>1. nextId \in Nat /\ nextId \in 1..(MaxRegistrations + 1)
        /\ MaxRegistrations \in Nat /\ MaxDepth \in Nat
    BY DispatchAssumption DEF DispatchIInv, Counted
  <1>2. /\ stack \in Seq(Frames) /\ Len(stack) \in Nat /\ DOMAIN stack = 1..Len(stack)
        /\ \A n \in Nodes : ListOK(lists[n], nextId)
        /\ \A i \in DOMAIN stack :
             /\ stack[i] \in Frames /\ FrameOK(stack[i]) /\ Visited(stack[i]) \in Nodes
             /\ Held(lists[Visited(stack[i])], stack[i])
    BY WalkingIs DEF DispatchIInv
  <1>3. ASSUME stack # <<>>
        PROVE  /\ Top \in Frames /\ FrameOK(Top) /\ Visited(Top) \in Nodes
               /\ Held(lists[Visited(Top)], Top) /\ Top.event \in AllEvents
    <2>1. Len(stack) \in DOMAIN stack
      BY <1>2, <1>3, EmptySeq
    <2>2. Top \in Frames
      BY <1>2, <2>1 DEF Top
    <2>3. QED
      BY <1>2, <2>1, <2>2 DEF Top, Frames
  <1>4. lists \in [Nodes -> Lists]
    BY DEF DispatchIInv, Walking
  <1>5. events \in [AllEvents -> Flags]
    BY DEF DispatchIInv, Marked
  <1>6. QED
    BY <1>1, <1>2, <1>3, <1>4, <1>5

LEMMA Initially == ASSUME DispatchInit PROVE DispatchIInv
PROOF
  <1>1. MaxRegistrations \in Nat /\ MaxDepth \in Nat
    BY DispatchAssumption
  <1>2. stack = <<>> /\ stack \in Seq(Frames) /\ Len(stack) = 0 /\ DOMAIN stack = {}
    BY DEF DispatchInit
  <1>3. /\ NoListeners \in Lists /\ NoListeners.entries = <<>> /\ NoListeners.depth = 0
        /\ NoListeners.dirty = FALSE /\ DOMAIN NoListeners.entries = {}
    BY DEF NoListeners, Lists
  <1>4. ListOK(NoListeners, 1)
    BY <1>3 DEF ListOK, IsLive
  <1>5. \A n \in Nodes : lists[n] = NoListeners
    BY DEF DispatchInit
  <1>6. \A n : Cardinality(At(stack, n)) = 0
    <2>1. \A n : At(stack, n) = {}
      BY <1>2 DEF At
    <2>2. QED
      BY <2>1, FS_EmptySet
  <1>7. Walking(lists, stack, nextId)
    <2>1. lists \in [Nodes -> Lists]
      BY <1>3 DEF DispatchInit
    <2>2. \A n \in Nodes :
            ListOK(lists[n], nextId) /\ lists[n].depth = Cardinality(At(stack, n))
      BY <1>3, <1>4, <1>5, <1>6 DEF DispatchInit
    <2>3. QED
      BY <1>2, <2>1, <2>2 DEF Walking
  <1>8. /\ events \in [AllEvents -> Flags]
        /\ \A e \in AllEvents : ~events[e].dispatched
    BY DEF DispatchInit, Flags
  <1>9. Marked(events, stack)
    BY <1>2, <1>8 DEF Marked
  <1>10. ErrorEvent \in AllEvents
    BY DEF AllEvents
  <1>11. Counted
    <2>1. NoErrorLost
      BY <1>2, <1>8, <1>10 DEF DispatchInit, NoErrorLost
    <2>2. /\ depth = 0 /\ ~reporting /\ ~aborted /\ nextId = 1
          /\ reporting \in BOOLEAN /\ aborted \in BOOLEAN
          /\ uncaught = 0 /\ thrown = 0 /\ handled = 0
      BY DEF DispatchInit
    <2>3. QED
      BY <1>1, <2>1, <2>2 DEF Counted
  <1>12. QED
    BY <1>7, <1>9, <1>11 DEF DispatchIInv

\* A script registers, unregisters or assigns a listener.
LEMMA EditStep ==
  ASSUME DispatchIInv, NEW n \in Nodes, NEW m, Edited(lists[n], m, nextId, nextId'),
         ScriptRuns, Set(n, m)
  PROVE  DispatchIInv' /\ TargetsStep
PROOF
  <1>1. /\ nextId \in Nat /\ nextId \in 1..(MaxRegistrations + 1) /\ MaxRegistrations \in Nat
        /\ lists \in [Nodes -> Lists] /\ stack \in Seq(Frames)
    BY TypeOfIInv
  <1>2. /\ lists' = [lists EXCEPT ![n] = m]
        /\ UNCHANGED <<events, stack, depth, errors, aborted>>
    BY DEF Set
  <1>3. ListOK(m, nextId') /\ Kept(lists[n], m)
    BY DEF Edited
  <1>4. nextId' \in {nextId, nextId + 1} /\ nextId' \in 1..(MaxRegistrations + 1)
    BY <1>1 DEF Edited, Ids
  <1>5. Walking(lists', stack', nextId')
    <2>1. Walking([lists EXCEPT ![n] = m], stack, nextId')
      BY <1>1, <1>3, <1>4, ListChanged DEF DispatchIInv
    <2>2. QED
      BY <1>2, <2>1
  <1>6. Marked(events', stack')
    BY <1>2 DEF DispatchIInv
  <1>7. Counted'
    BY <1>2, <1>4 DEF DispatchIInv, Counted, NoErrorLost, errors
  <1>8. DispatchIInv'
    BY <1>5, <1>6, <1>7 DEF DispatchIInv
  <1> DEFINE reg == RegisteredIn(lists)
             calls == CallsOf(stack)
  <1>9. /\ reg' = [reg EXCEPT ![n] = Range(LiveSlots(m))] /\ calls' = calls
        /\ reg = [x \in Nodes |-> reg[x]] /\ reg[n] = Range(LiveSlots(lists[n]))
    BY <1>1, <1>2 DEF RegisteredIn, CallsOf
  <1>10. calls # <<>> => calls[Len(calls)] # NoCall
    BY <1>1, CallsAre DEF ScriptRuns, Top
  <1> HIDE DEF reg, calls
  <1>11. CASE nextId \in Ids /\ RegistersAs(lists[n], m, nextId)
    <2>1. PICK r \in Registrations :
            /\ r.id = nextId /\ \A s \in Range(LiveSlots(lists[n])) : ~Alike(r, s)
            /\ Range(LiveSlots(m)) = Range(LiveSlots(lists[n])) \cup {r}
      BY <1>11 DEF RegistersAs
    <2>2. ~ \E s \in reg[n] : Targets!SameListener(r, s)
      BY <1>9, <2>1 DEF Alike, Targets!SameListener
    <2>3. \A x \in Nodes : \A s \in reg[x] : s.id # r.id
      <3>1. ASSUME NEW x \in Nodes, NEW s \in Range(LiveSlots(lists[x])) PROVE s.id # r.id
        <4>1. ListOK(lists[x], nextId)
          BY TypeOfIInv
        <4>2. PICK i : IsLive(lists[x], i) /\ lists[x].entries[i].listener = s
          BY LiveIs
        <4>3. s \in Registrations /\ s.id < nextId
          BY <4>1, <4>2, EntriesAre DEF ListOK, IsLive, Made
        <4>4. s.id \in Nat /\ s.id < nextId
          BY <4>3 DEF Registrations, Ids
        <4>5. QED
          BY <1>1, <2>1, <4>4
      <3>2. QED
        BY <3>1 DEF reg, RegisteredIn
    <2>4. reg' = [reg EXCEPT ![n] = reg[n] \cup {r}]
      BY <1>9, <2>1
    <2>5. Targets!Register(n, r)
      BY <1>9, <1>10, <2>2, <2>3, <2>4
      DEF Targets!Register, Targets!Has, Targets!ScriptRuns, reg, calls, RegisteredIn, CallsOf
    <2>6. QED
      BY <1>8, <2>5 DEF TargetsStep, Targets!Next
  <1>12. CASE Unregisters(lists[n], m)
    <2>1. PICK r \in reg[n] : reg' = [reg EXCEPT ![n] = reg[n] \ {r}]
      BY <1>9, <1>12 DEF Unregisters
    <2>2. Targets!Unregister(n, r)
      BY <1>9, <1>10, <2>1
      DEF Targets!Unregister, Targets!ScriptRuns, reg, calls, RegisteredIn, CallsOf
    <2>3. QED
      BY <1>8, <2>1, <2>2 DEF TargetsStep, Targets!Next, reg, RegisteredIn
  <1>13. CASE Reassigns(lists[n], m)
    <2>1. PICK r \in reg[n], c \in Callbacks :
            /\ r.handler
            /\ reg' = [reg EXCEPT ![n] = (reg[n] \ {r}) \cup {[r EXCEPT !.callback = c]}]
      BY <1>9, <1>13 DEF Reassigns
    <2>2. Targets!Reassign(n, r, c)
      BY <1>9, <1>10, <2>1
      DEF Targets!Reassign, Targets!ScriptRuns, reg, calls, RegisteredIn, CallsOf
    <2>3. QED
      BY <1>8, <2>1, <2>2 DEF TargetsStep, Targets!Next, reg, RegisteredIn
  <1>14. QED
    BY <1>11, <1>12, <1>13 DEF Edited

\* A flag of an event changes, and no dispatch begins or ends.
LEMMA FlagStep ==
  ASSUME DispatchIInv, NEW e \in AllEvents, NEW flags \in Flags,
         flags.dispatched = events[e].dispatched, SetFlags(e, flags)
  PROVE  DispatchIInv' /\ TargetsStep
PROOF
  <1>1. /\ events' = [events EXCEPT ![e] = flags]
        /\ UNCHANGED <<lists, stack, depth, errors, aborted, nextId>>
    BY DEF SetFlags
  <1>2. events \in [AllEvents -> Flags] /\ ErrorEvent \in AllEvents
    BY TypeOfIInv DEF AllEvents
  <1>3. events'[ErrorEvent].dispatched = events[ErrorEvent].dispatched
    BY <1>1, <1>2
  <1>4. Walking(lists', stack', nextId')
    BY <1>1 DEF DispatchIInv
  <1>5. Marked(events', stack')
    BY <1>1, FlagsChanged DEF DispatchIInv
  <1>6. Counted'
    BY <1>1, <1>3 DEF DispatchIInv, Counted, NoErrorLost, errors
  <1>7. UNCHANGED Targets!vars
    BY <1>1, SameForTargets
  <1>8. QED
    BY <1>4, <1>5, <1>6, <1>7 DEF DispatchIInv, TargetsStep

LEMMA StopPropagationStep ==
  ASSUME DispatchIInv, NEW e \in AllEvents, NEW immediately \in BOOLEAN,
         StopPropagation(e, immediately)
  PROVE  DispatchIInv' /\ TargetsStep
PROOF
  <1> DEFINE was == events[e]
             flags == [was EXCEPT !.stop = TRUE, !.stopNow = was.stopNow \/ immediately]
  <1>1. was \in Flags
    BY TypeOfIInv
  <1>2. SetFlags(e, flags)
    BY DEF StopPropagation
  <1>3. flags \in Flags /\ flags.dispatched = was.dispatched
    BY <1>1 DEF Flags
  <1> HIDE DEF flags
  <1>4. QED
    BY <1>2, <1>3, FlagStep

LEMMA PreventDefaultStep ==
  ASSUME DispatchIInv, NEW e \in AllEvents, PreventDefault(e)
  PROVE  DispatchIInv' /\ TargetsStep
PROOF
  <1> DEFINE was == events[e]
             flags == [was EXCEPT !.prevented = TRUE]
  <1>1. was \in Flags
    BY TypeOfIInv
  <1>2. SetFlags(e, flags)
    BY DEF PreventDefault
  <1>3. flags \in Flags /\ flags.dispatched = was.dispatched
    BY <1>1 DEF Flags
  <1> HIDE DEF flags
  <1>4. QED
    BY <1>2, <1>3, FlagStep

\* A frame enters an invocation of the list l.
EntersAt(f, s) == [f EXCEPT !.pending = s, !.ran = FALSE]

LEMMA EnteringOK ==
  ASSUME NEW f, FrameOK(f), NEW fresh, NEW l, ListOK(l, fresh), NEW kind, NEW capture
  PROVE  LET g == EntersAt(f, Snapshot(l, kind, capture))
         IN  /\ FrameOK(g) /\ Held(l, g) /\ Visited(g) = Visited(f)
             /\ g.event = f.event /\ g.call = f.call
PROOF
  <1> DEFINE s == Snapshot(l, kind, capture)
             g == EntersAt(f, s)
  <1>1. Walks(s, l)
    BY SnapshotHeld
  <1> HIDE DEF s
  <1>2. /\ g \in Frames /\ g.pending = s /\ g.path = f.path /\ g.visit = f.visit
        /\ g.event = f.event /\ g.call = f.call
    BY <1>1 DEF FrameOK, Frames, Walks, EntersAt
  <1> HIDE DEF g
  <1>3. Visited(g) = Visited(f) /\ LastVisit(g) = LastVisit(f)
    BY <1>2, SamePlace
  <1>4. FrameOK(g)
    BY <1>2, <1>3 DEF FrameOK
  <1>5. Held(l, g)
    BY <1>1, <1>2 DEF Held, Walks
  <1>6. QED
    BY <1>2, <1>3, <1>4, <1>5 DEF g, s

LEMMA FrameBegins ==
  ASSUME NEW e \in AllEvents, NEW n \in Nodes
  PROVE  LET f == Frame(e, n)
         IN  FrameOK(f) /\ f.event = e /\ f.call = NoCall
PROOF
  <1> DEFINE p == Path(e, n)
             f == Frame(e, n)
             k == Len(p)
  <1>1. Window \in Nodes /\ Chain[n] \in Seq(Nodes) /\ Chain[n] # <<>>
    BY DispatchAssumption
  <1>2. p \in Seq(Nodes) /\ p # <<>>
    <2>1. CASE n = Window
      BY <1>1, <2>1 DEF Path
    <2>2. CASE n # Window /\ n \in Connected /\ Kind[e] # "load"
      <3>1. p = Append(Chain[n], Window)
        BY <2>2 DEF Path
      <3>2. QED
        BY <1>1, <3>1, AppendProperties
    <2>3. CASE n # Window /\ ~(n \in Connected /\ Kind[e] # "load")
      BY <1>1, <2>3 DEF Path
    <2>4. QED
      BY <2>1, <2>2, <2>3
  <1> HIDE DEF p
  <1>3. f = [event |-> e, path |-> p, visit |-> 1, pending |-> <<>>,
             ran |-> FALSE, call |-> NoCall]
    BY DEF Frame, p
  <1>4. f \in Frames /\ f.path = p /\ f.visit = 1 /\ f.event = e /\ f.call = NoCall
    BY <1>2, <1>3 DEF Frames
  <1>5. k \in Nat /\ k # 0
    BY <1>2, EmptySeq
  <1>6. LastVisit(f) \in {2 * k, k + 1}
    BY <1>4 DEF LastVisit
  <1> HIDE DEF k, f
  <1>7. 1 \in 1..LastVisit(f)
    BY <1>5, <1>6
  <1>8. QED
    BY <1>2, <1>4, <1>7 DEF FrameOK, f

\* A dispatch begins on top of `below'.
LEMMA BeginsOK ==
  ASSUME DispatchIInv, NEW e \in AllEvents, NEW n \in Nodes, NEW below,
         Walking(lists, below, nextId),
         Begins(e, n, below), ~(depth >= MaxDepth)
  PROVE  \E f \in Frames :
           /\ f.event = e /\ f.call = NoCall /\ stack' = Append(below, f)
           /\ Walking(lists', stack', nextId)
           /\ \A x \in Nodes : Range(LiveSlots(lists'[x])) = Range(LiveSlots(lists[x]))
           /\ depth' = depth + 1 /\ aborted' = aborted
PROOF
  <1> DEFINE g == Frame(e, n)
             l == lists[Visited(g)]
             f == Entering(g)
  <1>1. FrameOK(g) /\ g.event = e /\ g.call = NoCall
    BY FrameBegins
  <1>2. ListOK(l, nextId)
    BY <1>1, VisitedType, TypeOfIInv
  <1>3. f = EntersAt(g, Snapshot(l, Kind[g.event], Capturing(g)))
    BY DEF Entering, EntersAt
  <1> HIDE DEF g, f, l
  <1>4. /\ FrameOK(f) /\ Held(l, f) /\ Visited(f) = Visited(g)
        /\ f.event = e /\ f.call = NoCall
    BY <1>1, <1>2, <1>3, EnteringOK
  <1>5. /\ stack' = Append(below, f) /\ depth' = depth + 1 /\ aborted' = aborted
        /\ lists' = [lists EXCEPT ![Visited(f)] = Begun(lists[Visited(f)])]
    BY <1>4 DEF Begins, f, g, l
  <1>6. /\ Walking(lists', stack', nextId)
        /\ \A x \in Nodes : Range(LiveSlots(lists'[x])) = Range(LiveSlots(lists[x]))
    BY <1>4, <1>5, Entered DEF DispatchIInv, l
  <1>7. QED
    BY <1>4, <1>5, <1>6 DEF FrameOK

\* What errors and depth come to while dispatches begin and end.
LEMMA CountedStays ==
  ASSUME DispatchIInv, UNCHANGED <<errors, nextId>>, aborted' \in BOOLEAN, aborted => aborted',
         depth' \in 0..MaxDepth, ErrorEvent \in AllEvents,
         ~aborted' => /\ depth' = Len(stack')
                      /\ events'[ErrorEvent].dispatched <=> events[ErrorEvent].dispatched
  PROVE  Counted'
PROOF
  <1>1. Counted
    BY DEF DispatchIInv
  <1>2. aborted' = FALSE => aborted = FALSE
    BY <1>1 DEF Counted
  <1>3. NoErrorLost'
    BY <1>1, <1>2 DEF Counted, NoErrorLost, errors
  <1>4. QED
    BY <1>1, <1>3 DEF Counted, errors

LEMMA DispatchStep ==
  ASSUME DispatchIInv, NEW e \in Events, NEW n \in Nodes, Dispatch(e, n)
  PROVE  DispatchIInv' /\ TargetsStep
PROOF
  <1>1. /\ ~aborted /\ ~events[e].dispatched /\ Begins(e, n, stack)
        /\ events' = IF depth >= MaxDepth THEN events ELSE [events EXCEPT ![e] = Fresh(e)]
        /\ UNCHANGED <<errors, nextId>>
    BY DEF Dispatch, ScriptRuns, MayDispatch
  <1>2. /\ e \in AllEvents /\ ErrorEvent \in AllEvents /\ e # ErrorEvent
    BY DispatchAssumption DEF AllEvents
  <1>3. /\ depth \in 0..MaxDepth /\ MaxDepth \in Nat /\ aborted \in BOOLEAN
        /\ ~aborted => depth = Len(stack)
        /\ nextId' = nextId /\ events \in [AllEvents -> Flags] /\ stack \in Seq(Frames)
    BY <1>1, TypeOfIInv DEF DispatchIInv, Counted, NoErrorLost
  <1>4. CASE depth >= MaxDepth
    <2>1. /\ UNCHANGED <<lists, events, stack, depth, errors, nextId>> /\ aborted' = TRUE
      BY <1>1, <1>4 DEF Begins
    <2>2. Counted'
      BY <1>2, <1>3, <2>1, CountedStays
    <2>3. Walking(lists', stack', nextId') /\ Marked(events', stack')
      BY <2>1 DEF DispatchIInv
    <2>4. UNCHANGED Targets!vars
      BY <2>1, SameForTargets
    <2>5. QED
      BY <2>2, <2>3, <2>4 DEF DispatchIInv, TargetsStep
  <1>5. CASE ~(depth >= MaxDepth)
    <2>1. PICK f \in Frames :
            /\ f.event = e /\ f.call = NoCall /\ stack' = Append(stack, f)
            /\ Walking(lists', stack', nextId)
            /\ \A x \in Nodes : Range(LiveSlots(lists'[x])) = Range(LiveSlots(lists[x]))
            /\ depth' = depth + 1 /\ aborted' = aborted
      BY <1>1, <1>2, <1>5, BeginsOK DEF DispatchIInv
    <2>2. events' = [events EXCEPT ![f.event] = Fresh(e)]
      BY <1>1, <1>5, <2>1
    <2>3. Fresh(e) \in Flags /\ Fresh(e).dispatched
      BY <1>2, <1>3 DEF Fresh, Flags
    <2>4. Marked(events', stack')
      <3>1. ~events[f.event].dispatched /\ Marked(events, stack)
        BY <1>1, <2>1 DEF DispatchIInv
      <3>2. Marked([events EXCEPT ![f.event] = Fresh(e)], Append(stack, f))
        BY <1>3, <2>3, <3>1, MarkedPush
      <3>3. QED
        BY <2>1, <2>2, <3>2
    <2>5. events'[ErrorEvent] = events[ErrorEvent]
      BY <1>2, <1>3, <2>1, <2>2
    <2>6. Len(stack') = Len(stack) + 1
      BY <1>3, <2>1, AppendProperties
    <2>7. Counted'
      <3>1. depth' \in 0..MaxDepth
        BY <1>3, <1>5, <2>1
      <3>2. QED
        BY <1>1, <1>2, <1>3, <2>1, <2>5, <2>6, <3>1, CountedStays
    <2>8. Targets!Enter
      <3>1. CallsOf(stack') = Append(CallsOf(stack), NoCall)
        BY <1>3, <2>1, CallsPush
      <3>2. RegisteredIn(lists') = RegisteredIn(lists)
        BY <2>1 DEF RegisteredIn
      <3>3. QED
        BY <3>1, <3>2 DEF Targets!Enter, CallsOf, RegisteredIn
    <2>9. QED
      BY <1>3, <2>1, <2>4, <2>7, <2>8 DEF DispatchIInv, TargetsStep, Targets!Next
  <1>6. QED
    BY <1>4, <1>5

\* The listener called last is over: what is left below.
LEMMA EndedOK ==
  ASSUME DispatchIInv, stack # <<>>, ScriptRuns
  PROVE  LET st == Replaced(Ended(Top))
             evs == [events EXCEPT ![Top.event] = NotPassive(Top.event)]
         IN  /\ st \in Seq(Frames) /\ Walking(lists, st, nextId) /\ Marked(evs, st)
             /\ Len(st) = Len(stack)
             /\ \A e \in AllEvents : evs[e].dispatched = events[e].dispatched
             /\ CallsOf(stack) # <<>> /\ CallsOf(stack)[Len(CallsOf(stack))] # NoCall
             /\ CallsOf(st) = [CallsOf(stack) EXCEPT ![Len(CallsOf(stack))] = NoCall]
PROOF
  <1> DEFINE f == Ended(Top)
             e == Top.event
             flags == NotPassive(e)
             st == Replaced(f)
             evs == [events EXCEPT ![e] = flags]
  <1>1. /\ stack \in Seq(Frames) /\ Top \in Frames /\ FrameOK(Top) /\ e \in AllEvents
        /\ Held(lists[Visited(Top)], Top) /\ events \in [AllEvents -> Flags]
    BY TypeOfIInv
  <1>2. /\ f \in Frames /\ f.path = Top.path /\ f.visit = Top.visit /\ f.event = e
        /\ f.pending = Top.pending /\ f.call = NoCall
    BY <1>1 DEF Ended, Frames
  <1>3. flags \in Flags /\ flags.dispatched = events[e].dispatched
    BY <1>1 DEF NotPassive, Flags
  <1>4. st = [stack EXCEPT ![Len(stack)] = f]
    BY DEF Replaced
  <1> HIDE DEF f, flags, st
  <1>5. Held(lists[Visited(f)], f)
    <2>1. Visited(f) = Visited(Top)
      BY <1>2, SamePlace
    <2>2. QED
      BY <1>1, <1>2, <2>1 DEF Held
  <1>6. Walking(lists, st, nextId)
    BY <1>2, <1>4, <1>5, TopChanged DEF DispatchIInv, Top
  <1>7. Marked(evs, stack)
    BY <1>1, <1>3, FlagsChanged DEF DispatchIInv
  <1>8. Marked(evs, st)
    BY <1>1, <1>2, <1>4, <1>7, MarkedTop DEF Top
  <1>9. st \in Seq(Frames) /\ Len(st) = Len(stack)
    <2>1. Len(stack) \in 1..Len(stack)
      BY <1>1, PoppedIs
    <2>2. QED
      BY <1>1, <1>2, <1>4, <2>1, ExceptSeq
  <1>10. \A x \in AllEvents : evs[x].dispatched = events[x].dispatched
    BY <1>1, <1>3
  <1>11. CallsOf(stack) # <<>> /\ CallsOf(stack)[Len(CallsOf(stack))] # NoCall
    BY <1>1, CallsAre DEF ScriptRuns, Top
  <1>12. CallsOf(st) = [CallsOf(stack) EXCEPT ![Len(CallsOf(stack))] = NoCall]
    BY <1>1, <1>2, <1>4, CallsTop
  <1>13. QED
    BY <1>6, <1>8, <1>9, <1>10, <1>11, <1>12 DEF st, flags, f

LEMMA ListenerReturnsStep ==
  ASSUME DispatchIInv, ListenerReturns
  PROVE  DispatchIInv' /\ TargetsStep
PROOF
  <1> DEFINE st == Replaced(Ended(Top))
             evs == [events EXCEPT ![Top.event] = NotPassive(Top.event)]
  <1>1. /\ stack # <<>> /\ ScriptRuns /\ ~aborted /\ stack' = st /\ events' = evs
        /\ UNCHANGED <<lists, depth, errors, aborted, nextId>>
    BY DEF ListenerReturns, ScriptRuns
  <1>2. /\ st \in Seq(Frames) /\ Walking(lists, st, nextId) /\ Marked(evs, st)
        /\ Len(st) = Len(stack)
        /\ \A e \in AllEvents : evs[e].dispatched = events[e].dispatched
        /\ CallsOf(stack) # <<>> /\ CallsOf(stack)[Len(CallsOf(stack))] # NoCall
        /\ CallsOf(st) = [CallsOf(stack) EXCEPT ![Len(CallsOf(stack))] = NoCall]
    BY <1>1, EndedOK
  <1> HIDE DEF st, evs
  <1>3. ErrorEvent \in AllEvents
    BY DEF AllEvents
  <1>4. Counted'
    <2>1. /\ depth \in 0..MaxDepth /\ aborted \in BOOLEAN
          /\ ~aborted => depth = Len(stack)
      BY DEF DispatchIInv, Counted, NoErrorLost
    <2>2. QED
      BY <1>1, <1>2, <1>3, <2>1, CountedStays
  <1>5. DispatchIInv'
    BY <1>1, <1>2, <1>4 DEF DispatchIInv
  <1>6. Targets!End
    <2>1. CallsOf(stack') = [CallsOf(stack) EXCEPT ![Len(CallsOf(stack))] = NoCall]
      BY <1>1, <1>2
    <2>2. QED
      BY <1>1, <1>2, <2>1 DEF Targets!End, Targets!ScriptRuns, CallsOf
  <1>7. QED
    BY <1>5, <1>6 DEF TargetsStep, Targets!Next

LEMMA ThrowsStep ==
  ASSUME DispatchIInv, Throws
  PROVE  DispatchIInv' /\ TargetsStep
PROOF
  <1> DEFINE below == IF stack = <<>> THEN <<>> ELSE Replaced(Ended(Top))
             calm == IF stack = <<>> THEN events
                     ELSE [events EXCEPT ![Top.event] = NotPassive(Top.event)]
             made == [dispatched |-> TRUE, stop |-> FALSE, stopNow |-> FALSE,
                      passive |-> FALSE, prevented |-> FALSE]
             calls == CallsOf(stack)
  <1>1. /\ ~aborted /\ ScriptRuns /\ thrown' = thrown + 1
        /\ UNCHANGED <<handled, nextId>>
        /\ \/ /\ reporting /\ uncaught' = uncaught + 1 /\ stack' = below /\ events' = calm
              /\ UNCHANGED <<lists, depth, reporting, aborted>>
           \/ /\ ~reporting /\ reporting' = TRUE /\ uncaught' = uncaught
              /\ Begins(ErrorEvent, Window, below)
              /\ events' = IF depth >= MaxDepth THEN calm
                           ELSE [calm EXCEPT ![ErrorEvent] = made]
    BY DEF Throws, ScriptRuns
  <1>2. /\ below \in Seq(Frames) /\ Walking(lists, below, nextId) /\ Marked(calm, below)
        /\ Len(below) = Len(stack)
        /\ \A e \in AllEvents : calm[e].dispatched = events[e].dispatched
        /\ CallsOf(below) = IF stack = <<>> THEN <<>> ELSE [calls EXCEPT ![Len(calls)] = NoCall]
        /\ stack = <<>> => calls = <<>>
        /\ stack # <<>> => calls # <<>> /\ calls[Len(calls)] # NoCall
    <2>1. CASE stack = <<>>
      <3>1. below = <<>> /\ calm = events /\ stack \in Seq(Frames)
        BY <2>1
      <3>2. calls = <<>>
        BY <2>1, <3>1, CallsAre
      <3> HIDE DEF below, calm, calls
      <3>3. QED
        BY <2>1, <3>1, <3>2 DEF DispatchIInv, calls
    <2>2. CASE stack # <<>>
      <3> DEFINE st == Replaced(Ended(Top))
                 evs == [events EXCEPT ![Top.event] = NotPassive(Top.event)]
      <3>1. below = st /\ calm = evs
        BY <2>2
      <3>2. /\ st \in Seq(Frames) /\ Walking(lists, st, nextId) /\ Marked(evs, st)
            /\ Len(st) = Len(stack)
            /\ \A e \in AllEvents : evs[e].dispatched = events[e].dispatched
            /\ calls # <<>> /\ calls[Len(calls)] # NoCall
            /\ CallsOf(st) = [calls EXCEPT ![Len(calls)] = NoCall]
        BY <1>1, <2>2, EndedOK
      <3> HIDE DEF below, calm, calls, st, evs
      <3>3. QED
        BY <2>2, <3>1, <3>2
    <2>3. QED
      BY <2>1, <2>2
  <1> HIDE DEF below, calm
  <1>3. ErrorEvent \in AllEvents /\ Window \in Nodes
    BY DispatchAssumption DEF AllEvents
  <1>4. /\ depth \in 0..MaxDepth /\ MaxDepth \in Nat /\ depth = Len(stack)
        /\ reporting \in BOOLEAN /\ aborted \in BOOLEAN
        /\ reporting <=> events[ErrorEvent].dispatched
        /\ uncaught \in Nat /\ thrown \in Nat /\ handled \in Nat
        /\ thrown = uncaught + handled + (IF reporting THEN 1 ELSE 0)
        /\ nextId' = nextId /\ nextId \in 1..(MaxRegistrations + 1)
    BY <1>1, TypeOfIInv DEF DispatchIInv, Counted, NoErrorLost
  <1>5. ASSUME stack' = below, lists' = lists
        PROVE  TargetsStep
    <2>1. RegisteredIn(lists') = RegisteredIn(lists)
      BY <1>5
    <2>2. CASE stack = <<>>
      <3>1. CallsOf(stack') = CallsOf(stack)
        BY <1>2, <1>5, <2>2
      <3>2. UNCHANGED Targets!vars
        BY <1>5, <3>1, SameForTargets
      <3>3. QED
        BY <3>2 DEF TargetsStep
    <2>3. CASE stack # <<>>
      <3>1. Targets!End
        BY <1>2, <1>5, <2>3 DEF Targets!End, Targets!ScriptRuns, CallsOf, calls
      <3>2. QED
        BY <3>1 DEF TargetsStep, Targets!Next
    <2>4. QED
      BY <2>2, <2>3
  <1>6. CASE reporting
    <2>1. /\ uncaught' = uncaught + 1 /\ stack' = below /\ events' = calm
          /\ UNCHANGED <<lists, depth, reporting, aborted>>
      BY <1>1, <1>6
    <2>2. NoErrorLost'
      <3>1. events'[ErrorEvent].dispatched = events[ErrorEvent].dispatched
        BY <1>2, <1>3, <2>1
      <3>2. thrown' = uncaught' + handled' + (IF reporting' THEN 1 ELSE 0)
        BY <1>1, <1>4, <1>6, <2>1
      <3>3. QED
        BY <1>2, <1>4, <2>1, <3>1, <3>2 DEF NoErrorLost
    <2>3. Counted'
      BY <1>1, <1>4, <2>1, <2>2 DEF Counted
    <2>4. QED
      BY <1>2, <1>4, <1>5, <2>1, <2>3 DEF DispatchIInv
  <1>7. CASE ~reporting /\ depth >= MaxDepth
    <2>1. /\ uncaught' = uncaught /\ reporting' = TRUE /\ stack' = below /\ events' = calm
          /\ aborted' = TRUE /\ UNCHANGED <<lists, depth>>
      BY <1>1, <1>7 DEF Begins
    <2>2. Counted'
      <3>1. NoErrorLost'
        BY <2>1 DEF NoErrorLost
      <3>2. QED
        BY <1>1, <1>4, <2>1, <3>1 DEF Counted
    <2>3. QED
      BY <1>2, <1>4, <1>5, <2>1, <2>2 DEF DispatchIInv
  <1>8. CASE ~reporting /\ ~(depth >= MaxDepth)
    <2>1. /\ uncaught' = uncaught /\ reporting' = TRUE
          /\ events' = [calm EXCEPT ![ErrorEvent] = made]
      BY <1>1, <1>8
    <2>2. PICK f \in Frames :
            /\ f.event = ErrorEvent /\ f.call = NoCall /\ stack' = Append(below, f)
            /\ Walking(lists', stack', nextId)
            /\ \A x \in Nodes : Range(LiveSlots(lists'[x])) = Range(LiveSlots(lists[x]))
            /\ depth' = depth + 1 /\ aborted' = aborted
      <3>1. Begins(ErrorEvent, Window, below)
        BY <1>1, <1>8
      <3>2. QED
        BY <1>2, <1>3, <1>8, <3>1, BeginsOK
    <2>3. made \in Flags /\ made.dispatched
      BY DEF Flags
    <2> HIDE DEF made
    <2>4. Marked(events', stack')
      <3>1. ~calm[f.event].dispatched
        BY <1>2, <1>3, <1>4, <1>8, <2>2
      <3>2. Marked([calm EXCEPT ![f.event] = made], Append(below, f))
        BY <1>2, <2>3, <3>1, MarkedPush
      <3>3. QED
        BY <2>1, <2>2, <3>2
    <2>5. events'[ErrorEvent].dispatched
      BY <1>2, <1>3, <2>1, <2>3 DEF Marked
    <2>6. Len(stack') = Len(stack) + 1
      BY <1>2, <2>2, AppendProperties
    <2>7. Counted'
      <3>1. depth' \in 0..MaxDepth
        BY <1>4, <1>8, <2>2
      <3>2. thrown' = uncaught' + handled' + (IF reporting' THEN 1 ELSE 0)
        BY <1>1, <1>4, <1>8, <2>1
      <3>3. NoErrorLost'
        BY <1>4, <2>1, <2>2, <2>5, <2>6, <3>2 DEF NoErrorLost
      <3>4. QED
        BY <1>1, <1>4, <2>1, <2>2, <3>1, <3>3 DEF Counted
    <2>8. DispatchIInv'
      BY <1>4, <2>2, <2>4, <2>7 DEF DispatchIInv
    <2>9. CallsOf(stack') = Append(CallsOf(below), NoCall)
      BY <1>2, <2>2, CallsPush
    <2>10. RegisteredIn(lists') = RegisteredIn(lists)
      BY <2>2 DEF RegisteredIn
    <2>11. CASE stack = <<>>
      <3>1. Targets!Enter
        BY <1>2, <2>9, <2>10, <2>11 DEF Targets!Enter, CallsOf, RegisteredIn, calls
      <3>2. QED
        BY <2>8, <3>1 DEF TargetsStep, Targets!Next
    <2>12. CASE stack # <<>>
      <3>1. Targets!EndAndEnter
        BY <1>2, <2>9, <2>10, <2>12
        DEF Targets!EndAndEnter, Targets!ScriptRuns, CallsOf, RegisteredIn, calls
      <3>2. QED
        BY <2>8, <3>1 DEF TargetsStep, Targets!Next
    <2>13. QED
      BY <2>11, <2>12
  <1>9. QED
    BY <1>4, <1>6, <1>7, <1>8

LEMMA LimitMetStep ==
  ASSUME DispatchIInv, LimitMet
  PROVE  DispatchIInv' /\ TargetsStep
PROOF
  <1>1. aborted' = TRUE /\ UNCHANGED <<lists, events, stack, depth, errors, nextId>>
    BY DEF LimitMet
  <1>2. Counted'
    BY <1>1 DEF DispatchIInv, Counted, NoErrorLost, errors
  <1>3. UNCHANGED Targets!vars
    BY <1>1, SameForTargets
  <1>4. QED
    BY <1>1, <1>2, <1>3 DEF DispatchIInv, TargetsStep

\* The next slot of the innermost invocation, and the frame after it.
LEMMA NextSlot ==
  ASSUME DispatchIInv, stack # <<>>, Top.pending # <<>>, NEW call \in Registrations \cup {NoCall}
  PROVE  LET p == Head(Top.pending)
             l == lists[Visited(Top)]
             f == [Top EXCEPT !.pending = Tail(Top.pending), !.ran = FALSE, !.call = call]
         IN  /\ p.slot \in DOMAIN l.entries
             /\ f \in Frames /\ f.path = Top.path /\ f.visit = Top.visit
             /\ f.event = Top.event /\ f.call = call /\ Visited(f) = Visited(Top)
             /\ Held(l, f)
PROOF
  <1> DEFINE s == Top.pending
             t == Tail(s)
             l == lists[Visited(Top)]
             P == [slot : Nat, id : Ids]
             f == [Top EXCEPT !.pending = t, !.ran = FALSE, !.call = call]
  <1>1. Top \in Frames /\ Held(l, Top) /\ s \in Seq(P)
    BY TypeOfIInv DEF Frames
  <1>2. /\ Len(s) \in Nat \ {0} /\ DOMAIN s = 1..Len(s) /\ Head(s) = s[1]
        /\ t \in Seq(P) /\ Len(t) = Len(s) - 1
        /\ \A k \in 1..Len(t) : t[k] = s[k + 1]
    BY <1>1, EmptySeq, LenProperties, HeadTailProperties
  <1>3. /\ f \in Frames /\ f.path = Top.path /\ f.visit = Top.visit /\ f.event = Top.event
        /\ f.pending = t /\ f.call = call
    BY <1>1, <1>2 DEF Frames
  <1> HIDE DEF t, f
  <1>4. Visited(f) = Visited(Top)
    BY <1>3, SamePlace
  <1>5. 1 \in DOMAIN s /\ DOMAIN t = 1..Len(t) /\ \A k \in DOMAIN t : k + 1 \in DOMAIN s
    <2>1. DOMAIN t = 1..Len(t)
      BY <1>2, LenProperties
    <2>2. QED
      BY <1>2, <2>1
  <1>6. Head(s).slot \in DOMAIN l.entries
    BY <1>1, <1>2, <1>5 DEF Held
  <1>7. Held(l, f)
    <2>1. \A k \in DOMAIN t : t[k] = s[k + 1] /\ k + 1 \in DOMAIN s
      BY <1>2, <1>5
    <2>2. QED
      BY <1>1, <1>3, <2>1 DEF Held
  <1>8. QED
    BY <1>3, <1>4, <1>6, <1>7 DEF f, t

\* current: what a `once' listener leaves.
LEMMA CurrentOK ==
  ASSUME NEW fresh, NEW l, ListOK(l, fresh), l.depth # 0, NEW i, IsLive(l, i)
  PROVE  LET r == l.entries[i].listener
             m == Current(l, i)
         IN  /\ ListOK(m, fresh) /\ Kept(l, m)
             /\ r \in Range(LiveSlots(l)) /\ r \in Registrations
             /\ Range(LiveSlots(m)) = IF r.once THEN Range(LiveSlots(l)) \ {r}
                                      ELSE Range(LiveSlots(l))
PROOF
  <1> DEFINE r == l.entries[i].listener
             m == Current(l, i)
  <1>1. r \in Range(LiveSlots(l)) /\ r \in Registrations
    BY LiveIs, EntriesAre DEF ListOK, IsLive
  <1>2. CASE ~r.once
    <2>1. m = l
      BY <1>2 DEF Current
    <2>2. QED
      BY <1>1, <1>2, <2>1 DEF Kept
  <1>3. CASE r.once
    <2> DEFINE k == Compact(Removing(l, {i}))
    <2>1. /\ ListOK(k, fresh) /\ Kept(l, k) /\ k = Removing(l, {i})
          /\ \A s : s \in Range(LiveSlots(k)) <=>
               \E j : IsLive(l, j) /\ j \notin {i} /\ l.entries[j].listener = s
      BY RemovingOK
    <2>2. m = k
      BY <1>3, <2>1 DEF Current
    <2> HIDE DEF k, m
    <2>3. \A j : IsLive(l, j) /\ l.entries[j].listener = r => j = i
      BY DEF ListOK, Alike
    <2>4. Range(LiveSlots(k)) = Range(LiveSlots(l)) \ {r}
      <3>1. ASSUME NEW s, s \in Range(LiveSlots(k)) PROVE s \in Range(LiveSlots(l)) \ {r}
        <4>1. PICK j : IsLive(l, j) /\ j # i /\ l.entries[j].listener = s
          BY <2>1, <3>1
        <4>2. QED
          BY <2>3, <4>1, LiveIs
      <3>2. ASSUME NEW s, s \in Range(LiveSlots(l)) \ {r} PROVE s \in Range(LiveSlots(k))
        <4>1. PICK j : IsLive(l, j) /\ l.entries[j].listener = s
          BY <3>2, LiveIs
        <4>2. QED
          BY <2>1, <3>2, <4>1
      <3>3. QED
        BY <3>1, <3>2
    <2>5. QED
      BY <1>1, <1>3, <2>1, <2>2, <2>4 DEF m
  <1>4. QED
    BY <1>2, <1>3

LEMMA CallNextStep ==
  ASSUME DispatchIInv, CallNext
  PROVE  DispatchIInv' /\ TargetsStep
PROOF
  <1> DEFINE v == Visited(Top)
             l == lists[v]
             slot == Head(Top.pending).slot
             entry == l.entries[slot]
             next == [Top EXCEPT !.pending = Tail(Top.pending), !.ran = FALSE]
             f == [next EXCEPT !.call = entry.listener]
             flags == [events[Top.event] EXCEPT
                         !.passive = events[Top.event].passive \/ entry.listener.passive]
  <1>1. /\ ~aborted /\ stack # <<>> /\ Top.call = NoCall /\ Top.pending # <<>>
        /\ UNCHANGED <<depth, errors, aborted, nextId>>
        /\ \/ /\ entry.removed /\ stack' = Replaced(next) /\ UNCHANGED <<lists, events>>
           \/ /\ ~entry.removed /\ stack' = Replaced(f)
              /\ lists' = [lists EXCEPT ![v] = Current(l, slot)]
              /\ events' = [events EXCEPT ![Top.event] = flags]
    BY DEF CallNext, DispatchRuns
  <1>2. /\ stack \in Seq(Frames) /\ Top \in Frames /\ v \in Nodes /\ ListOK(l, nextId)
        /\ Top.event \in AllEvents /\ events \in [AllEvents -> Flags]
        /\ lists \in [Nodes -> Lists] /\ l.depth # 0
    <2>1. Len(stack) \in DOMAIN stack
      BY <1>1, TypeOfIInv, TopIsThere
    <2>2. l.depth # 0
      BY <2>1, WalkingIs DEF DispatchIInv, Top
    <2>3. QED
      BY <1>1, <2>2, TypeOfIInv
  <1>3. ErrorEvent \in AllEvents
    BY DEF AllEvents
  <1>4. /\ depth \in 0..MaxDepth /\ depth = Len(stack) /\ aborted \in BOOLEAN
    BY <1>1 DEF DispatchIInv, Counted, NoErrorLost
  <1>5. \A g \in Frames : /\ Replaced(g) = [stack EXCEPT ![Len(stack)] = g]
                          /\ Len(Replaced(g)) = Len(stack)
    <2>1. Len(stack) \in 1..Len(stack)
      BY <1>1, <1>2, TopIsThere
    <2>2. QED
      BY <1>2, <2>1, ExceptSeq DEF Replaced
  <1>6. CASE entry.removed
    <2> DEFINE g == [Top EXCEPT !.pending = Tail(Top.pending), !.ran = FALSE, !.call = NoCall]
    <2>1. /\ g \in Frames /\ g.path = Top.path /\ g.visit = Top.visit
          /\ g.event = Top.event /\ g.call = NoCall /\ Visited(g) = v /\ Held(l, g)
      BY <1>1, NextSlot
    <2>2. g = next
      BY <1>1, <1>2 DEF Frames
    <2>3. stack' = [stack EXCEPT ![Len(stack)] = g] /\ UNCHANGED <<lists, events>>
          /\ Len(stack') = Len(stack)
      BY <1>1, <1>5, <1>6, <2>1, <2>2
    <2> HIDE DEF g, next, v
    <2>4. Walking(lists', stack', nextId')
      BY <1>1, <2>1, <2>3, TopChanged DEF DispatchIInv, Top
    <2>5. Marked(events', stack')
      BY <1>1, <1>2, <2>1, <2>3, MarkedTop DEF DispatchIInv, Top
    <2>6. Counted'
      BY <1>1, <1>3, <1>4, <2>3, CountedStays
    <2>7. CallsOf(stack') = CallsOf(stack)
      <3>1. CallsOf(stack') = [CallsOf(stack) EXCEPT ![Len(CallsOf(stack))] = NoCall]
        <4>1. CallsOf([stack EXCEPT ![Len(stack)] = g]) =
                [CallsOf(stack) EXCEPT ![Len(CallsOf(stack))] = g.call]
          BY <1>1, <1>2, <2>1, CallsTop
        <4>2. QED
          BY <2>1, <2>3, <4>1
      <3>2. CallsOf(stack)[Len(CallsOf(stack))] = NoCall
        BY <1>1, <1>2, CallsAre DEF Top
      <3>3. QED
        BY <1>2, <3>1, <3>2, CallsAre DEF CallsOf
    <2>8. UNCHANGED Targets!vars
      BY <2>3, <2>7, SameForTargets
    <2>9. QED
      BY <2>4, <2>5, <2>6, <2>8 DEF DispatchIInv, TargetsStep
  <1>7. CASE ~entry.removed
    <2> DEFINE r == entry.listener
               m == Current(l, slot)
    <2>1. slot \in DOMAIN l.entries
      BY <1>1, NextSlot
    <2>2. IsLive(l, slot)
      BY <1>7, <2>1 DEF IsLive
    <2>3. /\ ListOK(m, nextId) /\ Kept(l, m) /\ r \in Range(LiveSlots(l)) /\ r \in Registrations
          /\ Range(LiveSlots(m)) = IF r.once THEN Range(LiveSlots(l)) \ {r} ELSE Range(LiveSlots(l))
      BY <1>2, <2>2, CurrentOK
    <2> DEFINE g == [Top EXCEPT !.pending = Tail(Top.pending), !.ran = FALSE, !.call = r]
    <2>4. /\ g \in Frames /\ g.path = Top.path /\ g.visit = Top.visit
          /\ g.event = Top.event /\ g.call = r /\ Visited(g) = v /\ Held(l, g)
      BY <1>1, <2>3, NextSlot
    <2>5. /\ stack' = [stack EXCEPT ![Len(stack)] = g] /\ Len(stack') = Len(stack)
          /\ lists' = [lists EXCEPT ![v] = m]
          /\ events' = [events EXCEPT ![Top.event] = flags]
      BY <1>1, <1>5, <1>7, <2>4
    <2>6. flags \in Flags /\ flags.dispatched = events[Top.event].dispatched
      <3>1. events[Top.event] \in Flags
        BY <1>2
      <3>2. r.passive \in BOOLEAN
        BY <2>3 DEF Registrations
      <3>3. QED
        BY <3>1, <3>2 DEF Flags
    <2> HIDE DEF g, flags, m, r, v, l
    <2>7. Walking(lists', stack, nextId)
      <3>1. nextId \in Nat /\ Kept(lists[v], m)
        BY <2>3, TypeOfIInv DEF l
      <3>2. QED
        BY <1>2, <2>3, <2>5, <3>1, ListChanged DEF DispatchIInv
    <2>8. Held(lists'[v], g)
      <3>1. lists'[v] = m
        BY <1>2, <2>3, <2>5 DEF ListOK
      <3>2. QED
        BY <1>2, <2>3, <2>4, <3>1 DEF Held, Kept
    <2>9. Walking(lists', stack', nextId')
      BY <1>1, <2>4, <2>5, <2>7, <2>8, TopChanged DEF Top
    <2>10. Marked(events', stack')
      <3>1. Marked(events', stack)
        BY <1>2, <2>5, <2>6, FlagsChanged DEF DispatchIInv
      <3>2. QED
        BY <1>1, <1>2, <2>4, <2>5, <3>1, MarkedTop DEF Top
    <2>11. Counted'
      <3>1. events'[ErrorEvent].dispatched = events[ErrorEvent].dispatched
        BY <1>2, <1>3, <2>5, <2>6
      <3>2. QED
        BY <1>1, <1>3, <1>4, <2>5, <3>1, CountedStays
    <2>12. CallsOf(stack') = [CallsOf(stack) EXCEPT ![Len(CallsOf(stack))] = r]
      BY <1>1, <1>2, <2>4, <2>5, CallsTop
    <2>13. CallsOf(stack) # <<>> /\ CallsOf(stack)[Len(CallsOf(stack))] = NoCall
      BY <1>1, <1>2, CallsAre DEF Top
    <2> DEFINE reg == RegisteredIn(lists)
    <2>14. /\ reg[v] = Range(LiveSlots(l)) /\ r \in reg[v]
           /\ reg' = IF r.once THEN [reg EXCEPT ![v] = reg[v] \ {r}] ELSE reg
      <3>1. reg[v] = Range(LiveSlots(l))
        BY <1>2 DEF RegisteredIn, l
      <3>2. reg' = [reg EXCEPT ![v] = Range(LiveSlots(m))]
        BY <1>2, <2>3, <2>5 DEF RegisteredIn, ListOK
      <3>3. reg = [reg EXCEPT ![v] = reg[v]]
        BY DEF RegisteredIn
      <3>4. QED
        BY <2>3, <3>1, <3>2, <3>3
    <2> HIDE DEF reg
    <2>15. PICK n, s : n \in Nodes /\ s \in reg[n] /\ n = v /\ s = r
      BY <1>2, <2>14
    <2>16. DispatchIInv'
      BY <2>9, <2>10, <2>11 DEF DispatchIInv
    <2>17. Targets!Next
      <3>1. Targets!Start(n, s)
        BY <2>12, <2>13, <2>14, <2>15
        DEF Targets!Start, Targets!ScriptRuns, reg, RegisteredIn, CallsOf
      <3>2. QED
        BY <2>15, <3>1 DEF Targets!Next, reg, RegisteredIn
    <2>18. QED
      BY <2>16, <2>17 DEF TargetsStep
  <1>8. QED
    BY <1>6, <1>7

\* The innermost dispatch is over: what EventTargets sees.
LEMMA LeaveForTargets ==
  ASSUME stack \in Seq(Frames), stack # <<>>, stack' = Popped,
         \A n \in Nodes : Range(LiveSlots(lists'[n])) = Range(LiveSlots(lists[n]))
  PROVE  TargetsStep
PROOF
  <1>1. CallsOf(stack') = SubSeq(CallsOf(stack), 1, Len(CallsOf(stack)) - 1)
    BY CallsPop DEF Popped
  <1>2. CallsOf(stack) # <<>>
    BY CallsAre
  <1>3. RegisteredIn(lists') = RegisteredIn(lists)
    BY DEF RegisteredIn
  <1>4. Targets!Leave
    BY <1>1, <1>2, <1>3 DEF Targets!Leave, CallsOf, RegisteredIn
  <1>5. QED
    BY <1>4 DEF TargetsStep, Targets!Next

LEMMA EndInvocationStep ==
  ASSUME DispatchIInv, EndInvocation
  PROVE  DispatchIInv' /\ TargetsStep
PROOF
  <1> DEFINE e == Top.event
             here == Visited(Top)
             left == [lists EXCEPT ![here] = Finished(lists[here])]
             next == [Top EXCEPT !.visit = Top.visit + 1]
             there == Visited(next)
             f == EntersAt(next, Snapshot(left[there], Kind[e], Capturing(next)))
             last == Top.visit = LastVisit(Top) \/ events[e].stop
  <1>1. /\ ~aborted /\ stack # <<>> /\ Top.call = NoCall
        /\ UNCHANGED <<aborted, nextId>>
        /\ IF last
           THEN /\ lists' = left /\ stack' = Popped /\ depth' = depth - 1
                /\ events' = Off(e) /\ Reported(Top)
           ELSE /\ lists' = [left EXCEPT ![there] = Begun(left[there])]
                /\ stack' = Replaced(f) /\ UNCHANGED <<depth, events, errors>>
    BY DEF EndInvocation, DispatchRuns, EntersAt
  <1>2. /\ stack \in Seq(Frames) /\ Len(stack) \in Nat /\ Top \in Frames /\ FrameOK(Top)
        /\ e \in AllEvents /\ events \in [AllEvents -> Flags]
    BY <1>1, TypeOfIInv
  <1>3. /\ Walking(left, Popped, nextId)
        /\ \A n \in Nodes : Range(LiveSlots(left[n])) = Range(LiveSlots(lists[n]))
    BY <1>1, Left DEF DispatchIInv, Popped, Top
  <1>4. /\ Len(stack) \in Nat \ {0} /\ Popped \in Seq(Frames) /\ Len(Popped) = Len(stack) - 1
        /\ DOMAIN Popped = 1..(Len(stack) - 1)
        /\ \A i \in 1..(Len(stack) - 1) : Popped[i] = stack[i]
    BY <1>1, <1>2, PoppedIs DEF Popped
  <1>5. /\ depth \in 0..MaxDepth /\ MaxDepth \in Nat /\ depth = Len(stack)
        /\ reporting \in BOOLEAN /\ aborted \in BOOLEAN
        /\ reporting <=> events[ErrorEvent].dispatched
        /\ uncaught \in Nat /\ thrown \in Nat /\ handled \in Nat
        /\ thrown = uncaught + handled + (IF reporting THEN 1 ELSE 0)
        /\ nextId' = nextId /\ nextId \in 1..(MaxRegistrations + 1)
        /\ ErrorEvent \in AllEvents
    BY <1>1, TypeOfIInv DEF DispatchIInv, Counted, NoErrorLost, AllEvents
  <1> HIDE DEF left, next
  <1>6. CASE last
    <2>1. /\ lists' = left /\ stack' = Popped /\ depth' = depth - 1
          /\ events' = Off(e) /\ Reported(Top)
      BY <1>1, <1>6
    <2> DEFINE flags == [events[e] EXCEPT !.dispatched = FALSE]
    <2>2. flags \in Flags /\ ~flags.dispatched
      BY <1>2 DEF Flags
    <2>3. events' = [events EXCEPT ![e] = flags]
      BY <2>1 DEF Off
    <2> HIDE DEF flags
    <2>4. Marked(events', stack')
      <3>1. Marked([events EXCEPT ![stack[Len(stack)].event] = flags],
                   SubSeq(stack, 1, Len(stack) - 1))
        BY <1>1, <1>2, <2>2, MarkedPop DEF DispatchIInv
      <3>2. QED
        BY <2>1, <2>3, <3>1 DEF Top, Popped
    <2>5. events[e].dispatched
      BY <1>2, <1>4 DEF DispatchIInv, Marked, Top
    <2>6. Counted'
      <3>1. depth' \in 0..MaxDepth /\ depth' = Len(stack')
        BY <1>4, <1>5, <2>1
      <3>2. CASE e = ErrorEvent
        <4>1. /\ reporting' = FALSE /\ thrown' = thrown /\ reporting = TRUE
              /\ \/ handled' = handled + 1 /\ uncaught' = uncaught
                 \/ uncaught' = uncaught + 1 /\ handled' = handled
          BY <1>5, <2>1, <2>5, <3>2 DEF Reported
        <4>2. ~events'[ErrorEvent].dispatched
          BY <1>2, <2>2, <2>3, <3>2
        <4>3. /\ thrown' = uncaught' + handled' + (IF reporting' THEN 1 ELSE 0)
              /\ thrown' \in Nat /\ uncaught' \in Nat /\ handled' \in Nat
          BY <1>5, <4>1
        <4>4. NoErrorLost'
          BY <3>1, <4>1, <4>2, <4>3 DEF NoErrorLost
        <4>5. QED
          BY <1>1, <1>5, <3>1, <4>1, <4>3, <4>4 DEF Counted
      <3>3. CASE e # ErrorEvent
        <4>1. UNCHANGED errors
          BY <2>1, <3>3 DEF Reported
        <4>2. events'[ErrorEvent] = events[ErrorEvent]
          BY <1>2, <1>5, <2>3, <3>3
        <4>3. QED
          BY <1>1, <1>5, <3>1, <4>1, <4>2, CountedStays
      <3>4. QED
        BY <3>2, <3>3
    <2>7. DispatchIInv'
      BY <1>3, <1>5, <2>1, <2>4, <2>6 DEF DispatchIInv
    <2>8. TargetsStep
      BY <1>1, <1>2, <1>3, <2>1, LeaveForTargets
    <2>9. QED
      BY <2>7, <2>8
  <1>7. CASE ~last
    <2>1. /\ lists' = [left EXCEPT ![there] = Begun(left[there])]
          /\ stack' = Replaced(f) /\ UNCHANGED <<depth, events, errors, aborted, nextId>>
      BY <1>1, <1>7
    <2>2. /\ next \in Frames /\ next.path = Top.path /\ next.visit = Top.visit + 1
          /\ next.event = e /\ next.call = NoCall
      <3>1. Top \in Frames /\ Top.call = NoCall
        BY <1>1, <1>2
      <3>2. QED
        BY <3>1 DEF Frames, next
    <2>3. FrameOK(next)
      <3>1. LastVisit(next) = LastVisit(Top)
        BY <2>2 DEF LastVisit
      <3>2. Top.visit \in 1..LastVisit(Top) /\ Top.visit # LastVisit(Top)
        BY <1>2, <1>7 DEF FrameOK
      <3> DEFINE v == Top.visit
                 w == LastVisit(Top)
      <3>3. w \in Nat
        <4>1. Len(Top.path) \in Nat
          BY <1>2, VisitedType
        <4>2. QED
          BY <4>1 DEF LastVisit
      <3>4. v \in 1..w /\ v # w
        BY <3>2
      <3> HIDE DEF v, w
      <3>5. v + 1 \in 1..w
        BY <3>3, <3>4
      <3>6. QED
        BY <1>2, <2>2, <3>1, <3>5 DEF FrameOK, v, w
    <2>4. ListOK(left[there], nextId)
      BY <1>3, <2>3, VisitedType, WalkingIs
    <2>5. /\ FrameOK(f) /\ Held(left[there], f) /\ Visited(f) = there
          /\ f.event = e /\ f.call = NoCall
      BY <2>2, <2>3, <2>4, EnteringOK
    <2> HIDE DEF f, there
    <2>6. stack' = Append(Popped, f)
      <3>1. f \in Frames
        BY <2>5 DEF FrameOK
      <3> DEFINE s == [stack EXCEPT ![Len(stack)] = f]
                 t == Append(Popped, f)
                 k == Len(stack)
      <3>2. /\ s \in Seq(Frames) /\ Len(s) = k
            /\ \A i \in 1..k : s[i] = IF i = k THEN f ELSE stack[i]
        <4>1. k \in 1..k
          BY <1>4
        <4>2. QED
          BY <1>2, <3>1, <4>1, ExceptSeq
      <3>3. /\ t \in Seq(Frames) /\ Len(t) = k /\ t[k] = f
            /\ \A i \in 1..(k - 1) : t[i] = stack[i]
        <4>1. /\ t \in Seq(Frames) /\ Len(t) = Len(Popped) + 1 /\ t[Len(Popped) + 1] = f
              /\ \A i \in 1..Len(Popped) : t[i] = Popped[i]
          BY <1>4, <3>1, AppendProperties
        <4> HIDE DEF t
        <4>2. QED
          BY <1>4, <4>1
      <3> HIDE DEF s, t, k
      <3>4. \A i \in 1..k : s[i] = t[i]
        <4>1. \A i \in 1..k : i = k \/ i \in 1..(k - 1)
          BY <1>4 DEF k
        <4>2. QED
          BY <3>2, <3>3, <4>1
      <3>5. s = t
        BY <3>2, <3>3, <3>4, SeqEqual
      <3>6. QED
        BY <2>1, <3>5 DEF Replaced, s, t
    <2>7. /\ Walking(lists', stack', nextId)
          /\ \A n \in Nodes : Range(LiveSlots(lists'[n])) = Range(LiveSlots(left[n]))
      <3>1. /\ lists' = [left EXCEPT ![Visited(f)] = Begun(left[Visited(f)])]
            /\ Held(left[Visited(f)], f) /\ FrameOK(f) /\ Walking(left, Popped, nextId)
        BY <1>3, <2>1, <2>5
      <3>2. /\ Walking(lists', Append(Popped, f), nextId)
            /\ \A n \in Nodes : Range(LiveSlots(lists'[n])) = Range(LiveSlots(left[n]))
        BY <3>1, Entered
      <3>3. QED
        BY <2>6, <3>2
    <2>8. f \in Frames /\ stack' = [stack EXCEPT ![Len(stack)] = f]
      BY <2>1, <2>5 DEF FrameOK, Replaced
    <2>9. Marked(events', stack')
      <3>1. f.event = stack[Len(stack)].event /\ Marked(events, stack) /\ stack # <<>>
        BY <1>1, <2>5 DEF DispatchIInv, Top
      <3>2. Marked(events, [stack EXCEPT ![Len(stack)] = f])
        BY <1>2, <2>8, <3>1, MarkedTop
      <3>3. QED
        BY <2>1, <2>8, <3>2
    <2>10. Counted'
      <3>1. Len(stack') = Len(stack)
        BY <1>2, <1>4, <2>8, ExceptSeq
      <3>2. QED
        BY <1>1, <1>5, <2>1, <3>1, CountedStays
    <2>11. CallsOf(stack') = CallsOf(stack)
      <3>1. CallsOf(stack') = [CallsOf(stack) EXCEPT ![Len(CallsOf(stack))] = NoCall]
        <4>1. CallsOf([stack EXCEPT ![Len(stack)] = f]) =
                [CallsOf(stack) EXCEPT ![Len(CallsOf(stack))] = f.call]
          BY <1>1, <1>2, <2>8, CallsTop
        <4>2. QED
          BY <2>5, <2>8, <4>1
      <3>2. CallsOf(stack)[Len(CallsOf(stack))] = NoCall
        BY <1>1, <1>2, CallsAre DEF Top
      <3>3. QED
        BY <1>2, <3>1, <3>2, CallsAre DEF CallsOf
    <2>12. UNCHANGED Targets!vars
      BY <1>3, <2>7, <2>11, SameForTargets
    <2>13. QED
      BY <2>1, <2>7, <2>9, <2>10, <2>12 DEF DispatchIInv, TargetsStep
  <1>8. QED
    BY <1>6, <1>7

LEMMA UnwindsStep ==
  ASSUME DispatchIInv, Unwinds
  PROVE  DispatchIInv' /\ TargetsStep
PROOF
  <1> DEFINE e == Top.event
             here == Visited(Top)
             left == [lists EXCEPT ![here] = Finished(lists[here])]
             flags == [events[e] EXCEPT !.dispatched = FALSE, !.passive = FALSE]
  <1>1. /\ aborted /\ stack # <<>> /\ lists' = left /\ stack' = Popped
        /\ events' = [events EXCEPT ![e] = flags]
        /\ UNCHANGED <<depth, errors, aborted, nextId>>
    BY DEF Unwinds
  <1>2. stack \in Seq(Frames) /\ e \in AllEvents /\ events \in [AllEvents -> Flags]
    BY <1>1, TypeOfIInv
  <1>3. /\ Walking(left, Popped, nextId)
        /\ \A n \in Nodes : Range(LiveSlots(left[n])) = Range(LiveSlots(lists[n]))
    BY <1>1, Left DEF DispatchIInv, Popped, Top
  <1>4. flags \in Flags /\ ~flags.dispatched
    BY <1>2 DEF Flags
  <1> HIDE DEF left, flags
  <1>5. Marked(events', stack')
    <2>1. Marked([events EXCEPT ![stack[Len(stack)].event] = flags],
                 SubSeq(stack, 1, Len(stack) - 1))
      BY <1>1, <1>2, <1>4, MarkedPop DEF DispatchIInv
    <2>2. QED
      BY <1>1, <2>1 DEF Top, Popped
  <1>6. Counted'
    BY <1>1 DEF DispatchIInv, Counted, NoErrorLost, errors
  <1>7. TargetsStep
    BY <1>1, <1>2, <1>3, LeaveForTargets
  <1>8. QED
    BY <1>1, <1>3, <1>5, <1>6, <1>7 DEF DispatchIInv

----------------------------------------------------------------------------
LEMMA DispatchMoves ==
  ASSUME DispatchIInv, [DispatchNext]_dispatchVars
  PROVE  DispatchIInv' /\ TargetsStep
PROOF
  <1>1. ASSUME NEW n \in Nodes, NEW kind \in Kinds, NEW c \in Callbacks,
               NEW capture \in BOOLEAN, NEW o \in Options, AddListener(n, kind, c, capture, o)
        PROVE  DispatchIInv' /\ TargetsStep
    BY <1>1, TypeOfIInv, AddListenerEdits, EditStep
  <1>2. ASSUME NEW n \in Nodes, NEW kind \in Kinds, NEW c \in Callbacks,
               NEW capture \in BOOLEAN, RemoveListener(n, kind, c, capture)
        PROVE  DispatchIInv' /\ TargetsStep
    BY <1>2, TypeOfIInv, RemoveListenerEdits, EditStep
  <1>3. ASSUME NEW n \in Nodes, NEW kind \in Kinds, NEW c \in Callbacks,
               AssignHandler(n, kind, c)
        PROVE  DispatchIInv' /\ TargetsStep
    BY <1>3, TypeOfIInv, AssignHandlerEdits, EditStep
  <1>4. ASSUME NEW n \in Nodes, NEW kind \in Kinds, ClearHandler(n, kind)
        PROVE  DispatchIInv' /\ TargetsStep
    BY <1>4, TypeOfIInv, ClearHandlerEdits, EditStep
  <1>5. ASSUME NEW e \in AllEvents, NEW immediately \in BOOLEAN,
               StopPropagation(e, immediately)
        PROVE  DispatchIInv' /\ TargetsStep
    BY <1>5, StopPropagationStep
  <1>6. ASSUME NEW e \in AllEvents, PreventDefault(e)
        PROVE  DispatchIInv' /\ TargetsStep
    BY <1>6, PreventDefaultStep
  <1>7. ASSUME NEW e \in Events, NEW n \in Nodes, Dispatch(e, n)
        PROVE  DispatchIInv' /\ TargetsStep
    BY <1>7, DispatchStep
  <1>8. CASE ListenerReturns
    BY <1>8, ListenerReturnsStep
  <1>9. CASE Throws
    BY <1>9, ThrowsStep
  <1>10. CASE LimitMet
    BY <1>10, LimitMetStep
  <1>11. CASE CallNext
    BY <1>11, CallNextStep
  <1>12. CASE EndInvocation
    BY <1>12, EndInvocationStep
  <1>13. CASE Unwinds
    BY <1>13, UnwindsStep
  <1>14. CASE UNCHANGED dispatchVars
    <2>1. UNCHANGED <<lists, events, stack, depth, errors, aborted, nextId>>
      BY <1>14 DEF dispatchVars
    <2>2. DispatchIInv'
      BY <2>1 DEF DispatchIInv, Counted, NoErrorLost, errors
    <2>3. UNCHANGED Targets!vars
      BY <2>1, SameForTargets
    <2>4. QED
      BY <2>2, <2>3 DEF TargetsStep
  <1>15. CASE Over
    BY <1>14, <1>15 DEF Over
  <1>16. QED
    BY <1>1, <1>2, <1>3, <1>4, <1>5, <1>6, <1>7, <1>8, <1>9, <1>10, <1>11, <1>12, <1>13,
       <1>14, <1>15 DEF DispatchNext, Script

LEMMA Implied == ASSUME DispatchIInv PROVE SlotsHeld /\ NoErrorLost
PROOF
  <1>1. DispatchTypeOK
    <2>1. /\ lists \in [Nodes -> Lists] /\ stack \in Seq(Frames)
      BY DEF DispatchIInv, Walking
    <2>2. /\ events \in [AllEvents -> Flags]
          /\ \A e \in AllEvents :
               events[e].dispatched <=> \E i \in DOMAIN stack : stack[i].event = e
          /\ \A i, j \in DOMAIN stack : stack[i].event = stack[j].event => i = j
      BY DEF DispatchIInv, Marked
    <2>3. /\ depth \in 0..MaxDepth /\ reporting \in BOOLEAN /\ aborted \in BOOLEAN
          /\ uncaught \in Nat /\ thrown \in Nat /\ handled \in Nat
          /\ nextId \in 1..(MaxRegistrations + 1)
      BY DEF DispatchIInv, Counted
    <2>4. QED
      BY <2>1, <2>2, <2>3 DEF DispatchTypeOK
  <1>2. ASSUME NEW i \in DOMAIN stack, NEW p \in Range(stack[i].pending)
        PROVE  LET list == lists[Visited(stack[i])]
               IN  p.slot \in Slots(list) /\ list.entries[p.slot].listener.id = p.id
    <2>1. Held(lists[Visited(stack[i])], stack[i])
      BY WalkingIs DEF DispatchIInv
    <2>2. PICK k \in DOMAIN stack[i].pending : stack[i].pending[k] = p
      BY DEF Range
    <2>3. QED
      BY <2>1, <2>2 DEF Held, Slots
  <1>3. ASSUME NEW n \in Nodes
        PROVE  /\ lists[n].depth = Cardinality({i \in DOMAIN stack : Visited(stack[i]) = n})
               /\ lists[n].depth = 0 =>
                    \A i \in Slots(lists[n]) : ~lists[n].entries[i].removed
    <2>1. ListOK(lists[n], nextId) /\ lists[n].depth = Cardinality(At(stack, n))
      BY DEF DispatchIInv, Walking
    <2>2. QED
      BY <2>1 DEF ListOK, At, Slots
  <1>4. SlotsHeld
    BY <1>1, <1>2, <1>3 DEF SlotsHeld
  <1>5. NoErrorLost
    BY DEF DispatchIInv, Counted
  <1>6. QED
    BY <1>4, <1>5

\* SlotsHeld: whatever listeners, nested dispatches and aborts do to a list,
\* the slots that a dispatch has still to visit hold the registrations they
\* held when it began to walk the list, and a list that nobody walks has been
\* compacted (ListenerList::begin, finish and compact).
THEOREM SlotsAlwaysHeld == DispatchSpec => []SlotsHeld
  BY Initially, DispatchMoves, Implied, PTL DEF DispatchSpec

\* NoErrorLost: every exception of a listener is recorded, cancelled or being
\* reported, and report_exception's flag is set exactly while the ErrorEvent of
\* a report is under dispatch (report_exception, dispatch_depth).
THEOREM NoErrorIsLost == DispatchSpec => []NoErrorLost
  BY Initially, DispatchMoves, Implied, PTL DEF DispatchSpec

\* CallsWhatIsRegistered: tombstones, compaction and snapshots of slots
\* implement the set of registrations that scripts are promised.
THEOREM DispatchImplementsTargets == DispatchSpec => CallsWhatIsRegistered
PROOF
  <1>1. ASSUME DispatchInit
        PROVE  Targets!Init
    <2>1. \A n \in Nodes : Range(LiveSlots(lists[n])) = {}
      BY <1>1, LiveIs DEF DispatchInit, NoListeners, IsLive
    <2>2. stack = <<>> /\ \A n \in Nodes : lists[n] = NoListeners
      BY <1>1 DEF DispatchInit
    <2>3. CallsOf(stack) = <<>>
      BY <2>2 DEF CallsOf
    <2>4. RegisteredIn(lists) = [n \in Nodes |-> {}]
      BY <2>1 DEF RegisteredIn
    <2>5. QED
      BY <2>3, <2>4 DEF Targets!Init, CallsOf, RegisteredIn
  <1>2. ASSUME DispatchIInv, [DispatchNext]_dispatchVars
        PROVE  [Targets!Next]_(Targets!vars)
    BY <1>2, DispatchMoves DEF TargetsStep
  <1>3. QED
    BY <1>1, <1>2, Initially, DispatchMoves, PTL
      DEF DispatchSpec, CallsWhatIsRegistered, Targets!Spec
=============================================================================
