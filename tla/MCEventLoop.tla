---------------------------- MODULE MCEventLoop ----------------------------
(***************************************************************************)
(* Instances of EventLoop for TLC.  Frames fall on every second            *)
(* millisecond and timers are clamped from the second level on, so that    *)
(* the few registrations a run allows reach both.                          *)
(***************************************************************************)
EXTENDS EventLoop

\* A timeout raised to zero, which nesting raises to NestedTimeout, and one
\* past the horizon.
TimerWaits == {-1, 4}

\* A task behind the ones due now, and one past the horizon.
NativeWaits == {0, 4}
=============================================================================
