\* Timers, frames, microtasks and native tasks under tight limits.
CONSTANTS
  MaxVirtualTime = 3
  MaxTasks = 3
  MaxEnqueued = 3
  NestedLevels = 1
  NestedTimeout = 2
  FrameMs = 2
  MaxFixups = 1
  MaxTimerId = 100
  Timeouts <- TimerWaits
  Delays <- NativeWaits
SPECIFICATION FairSpec
INVARIANTS NothingLeft TimersFollowTasks FrameComes QueueBounded
PROPERTIES TasksInOrder KeepsCalls
