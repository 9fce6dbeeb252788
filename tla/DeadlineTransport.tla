------------------------- MODULE DeadlineTransport -------------------------
(***************************************************************************)
(* The TCP connector and transport of raikiri-net (deadline_transport.rs)  *)
(* under the HTTP client that drives them.                                 *)
(*                                                                         *)
(* The client gives every logical operation (the TLS handshake, a write of *)
(* the request, a read of the response) the time left until its own        *)
(* deadline, and repeats that value, frozen, at every raw call of the      *)
(* operation.  The transport anchors a deadline when it first sees a value.*)
(* Time is counted in ticks and passes while a call blocks, between the    *)
(* calls of an operation and between operations; the client computes a     *)
(* value right before the first call that carries it.                      *)
(***************************************************************************)
EXTENDS Integers

CONSTANTS
  FetchTicks,   \* FETCH_TIMEOUT: a request, to the end of its response
  ConnectTicks, \* CONNECT_TIMEOUT: TCP connect and TLS handshake
  Addresses,    \* bound: addresses a host name resolves to
  MaxClock      \* bound: the last tick

ASSUME TicksAssumption ==
  /\ FetchTicks \in Nat \ {0} /\ ConnectTicks \in 1..FetchTicks
  /\ Addresses \in Nat \ {0} /\ MaxClock \in Nat

VARIABLES
  clock,
  phase,    \* the client: no connection, pooled, connecting, between or in an operation
  state,    \* the thread: blocked in a connect, read or write, or running
  requestDue, connectDue, \* the client's deadlines
  addrs,    \* connect: addresses not yet tried
  lastErr,  \* connect: why the last address failed
  next,     \* NextTimeout of the operation: ticks and reason
  fresh,    \* no raw call has carried `next' yet
  lastSeen, \* DeadlineTcpTransport::last_seen
  deadline, \* DeadlineTcpTransport::deadline
  applied,  \* the socket timeout of the call that blocks
  until,    \* when that call times out
  failed    \* the last operation failed with a timeout

client == <<phase, requestDue, connectDue>>
transport == <<lastSeen, deadline>>
socket == <<state, applied, until>>
connect == <<addrs, lastErr>>
transportVars == <<clock, client, connect, next, fresh, transport, socket, failed>>

Unset == -1
NoTimeout == [after |-> Unset, reason |-> "none"]

\* The deadline of the operation under way.
Due == IF next.reason = "connect" THEN connectDue ELSE requestDue

Block(call, ticks) ==
  state' = call /\ applied' = ticks /\ until' = clock + ticks

----------------------------------------------------------------------------
TransportInit ==
  /\ clock = 0 /\ phase = "none" /\ state = "running"
  /\ requestDue = 0 /\ connectDue = 0 /\ addrs = 0 /\ lastErr = "none"
  /\ next = NoTimeout /\ fresh = FALSE
  /\ lastSeen = NoTimeout /\ deadline = Unset
  /\ applied = 1 /\ until = 0 /\ failed = FALSE

\* An error, a timeout or another, ends the request and its connection.
EndRequest(timedOut) ==
  /\ failed' = timedOut /\ phase' = "none" /\ state' = "running" /\ fresh' = FALSE

\* remaining_or_timeout: a socket timeout must not be zero.
Passed(due) == clock >= due

\* The client starts a request that needs a new connection; the connector
\* anchors the deadline for all addresses.
StartConnect ==
  /\ phase = "none" /\ phase' = "connecting"
  /\ requestDue' = clock + FetchTicks /\ connectDue' = clock + ConnectTicks
  /\ addrs' \in 1..Addresses /\ lastErr' = "none" /\ failed' = FALSE
  /\ next' = [after |-> ConnectTicks, reason |-> "connect"]
  /\ deadline' = clock + ConnectTicks
  /\ UNCHANGED <<clock, fresh, lastSeen, socket>>

AddressTicks == deadline - clock

\* connect: the next address, with what is left of the deadline; without an
\* address or time left, the last address's error ends the request.
TryAddress ==
  /\ phase = "connecting" /\ state = "running"
  /\ IF addrs = 0 \/ Passed(deadline)
     THEN EndRequest(lastErr # "refused") /\ UNCHANGED <<addrs, applied, until>>
     ELSE /\ addrs' = addrs - 1 /\ Block("connect", AddressTicks)
          /\ UNCHANGED <<phase, fresh, failed>>
  /\ UNCHANGED <<clock, requestDue, connectDue, lastErr, next, transport>>

\* An address refuses or times out, and the next one is tried.
AddressFails ==
  /\ state = "connect" /\ state' = "running"
  /\ lastErr' \in {"refused"} \cup IF clock >= until THEN {"timeout"} ELSE {}
  /\ UNCHANGED <<clock, client, addrs, next, fresh, transport, applied, until, failed>>

\* A connection: a new transport has seen nothing.
Connected ==
  /\ state = "connect" /\ state' = "running" /\ phase' = "idle"
  /\ lastSeen' = NoTimeout /\ deadline' = Unset
  /\ UNCHANGED <<clock, requestDue, connectDue, connect, next, fresh, applied, until,
                 failed>>

----------------------------------------------------------------------------
(* The client's operations and requests. *)

\* An operation begins: what is left of the earlier deadline that applies.
StartOperation ==
  /\ phase = "idle" /\ clock < requestDue
  /\ \E reason \in {"connect", "global"} :
       LET due == IF reason = "connect" THEN connectDue ELSE requestDue
       IN  /\ clock < due
           /\ next' = [after |-> due - clock, reason |-> reason]
  /\ phase' = "operation" /\ fresh' = TRUE
  /\ UNCHANGED <<clock, requestDue, connectDue, connect, transport, socket, failed>>

EndOperation ==
  /\ phase = "operation" /\ state = "running" /\ ~fresh
  /\ phase' = "idle"
  /\ UNCHANGED <<clock, requestDue, connectDue, connect, next, fresh, transport, socket,
                 failed>>

\* Mutant: is_open only probes the socket.
ForgetNothing == UNCHANGED transport

\* is_open resets the tracking before it probes the socket.
Forget == lastSeen' = NoTimeout /\ deadline' = Unset

\* The connection goes back to the pool, or is closed if the probe fails.
CheckIn ==
  /\ phase = "idle" /\ Forget /\ phase' \in {"pooled", "none"}
  /\ UNCHANGED <<clock, requestDue, connectDue, connect, next, fresh, socket, failed>>

\* Another request on the pooled connection, without a handshake, or none if
\* the probe fails.
CheckOut ==
  /\ phase = "pooled" /\ Forget /\ phase' \in {"idle", "none"}
  /\ requestDue' = clock + FetchTicks /\ connectDue' = 0
  /\ UNCHANGED <<clock, connect, next, fresh, socket, failed>>

----------------------------------------------------------------------------
(* Raw calls of an operation. *)

\* Mutant: the frozen value is applied again at every call.
AnchoredEveryTime == clock + next.after

\* remaining: a value not seen before starts an operation; its repetition
\* does not move the deadline.
Anchored == IF lastSeen = next THEN deadline ELSE clock + next.after

\* await_input and transmit_output up to the system call.
RawCall ==
  /\ phase = "operation" /\ state = "running"
  /\ lastSeen' = next /\ deadline' = Anchored
  /\ IF Passed(deadline')
     THEN EndRequest(TRUE) /\ UNCHANGED <<applied, until>>
     ELSE /\ \E call \in {"read", "write"} : Block(call, deadline' - clock)
          /\ fresh' = FALSE /\ UNCHANGED <<phase, failed>>
  /\ UNCHANGED <<clock, requestDue, connectDue, connect, next>>

\* Bytes arrive, or the last byte was written.
CallReturns ==
  /\ state \in {"read", "write"} /\ state' = "running"
  /\ UNCHANGED <<clock, client, connect, next, fresh, transport, applied, until, failed>>

\* write_all writes what was accepted and calls write again, with the socket
\* timeout set before the first write.
WritesOn ==
  /\ state = "write" /\ Block("write", applied)
  /\ UNCHANGED <<clock, client, connect, next, fresh, transport, failed>>

CallTimesOut ==
  /\ state \in {"read", "write"} /\ clock >= until
  /\ EndRequest(TRUE)
  /\ UNCHANGED <<clock, requestDue, connectDue, connect, next, transport, applied, until>>

\* Any other error of a system call ends the request: of a connect, unless it
\* concerns only the address.
CallFails ==
  /\ state # "running" /\ EndRequest(FALSE)
  /\ UNCHANGED <<clock, requestDue, connectDue, connect, next, transport, applied, until>>

\* Time passes, in a blocking call until its timeout.
Tick ==
  /\ clock < MaxClock /\ ~fresh
  /\ state # "running" => clock < until
  /\ clock' = clock + 1
  /\ UNCHANGED <<client, connect, next, fresh, transport, socket, failed>>

\* The end of the modelled time.
Stop == clock = MaxClock /\ UNCHANGED transportVars

TransportNext ==
  \/ StartConnect \/ TryAddress \/ AddressFails \/ Connected
  \/ StartOperation \/ EndOperation \/ CheckIn \/ CheckOut
  \/ RawCall \/ CallReturns \/ WritesOn \/ CallTimesOut \/ CallFails
  \/ Tick \/ Stop

TransportSpec == TransportInit /\ [][TransportNext]_transportVars

----------------------------------------------------------------------------
(* Properties. *)

Timeouts == [after : 1..FetchTicks, reason : {"connect", "global"}] \cup {NoTimeout}

\* Every variable has its type, and no deadline lies further ahead than a
\* whole request.
TransportTypeOK ==
  /\ clock \in 0..MaxClock
  /\ phase \in {"none", "connecting", "idle", "operation", "pooled"}
  /\ state \in {"running", "connect", "read", "write"}
  /\ requestDue \in 0..(clock + FetchTicks) /\ connectDue \in 0..(clock + ConnectTicks)
  /\ addrs \in 0..Addresses /\ lastErr \in {"none", "refused", "timeout"}
  /\ next \in Timeouts /\ fresh \in BOOLEAN
  /\ lastSeen \in Timeouts /\ deadline \in Unset..(clock + FetchTicks)
  /\ applied \in 1..FetchTicks /\ until \in 0..(clock + FetchTicks)
  /\ failed \in BOOLEAN

\* However many raw connects and reads an operation takes, none blocks past
\* the deadline the client gave the operation; a socket timeout is never the
\* zero that the socket would read as none.
ReadsKeepDeadline ==
  /\ TransportTypeOK
  /\ state \in {"connect", "read"} => until <= Due

\* An operation, on a reused connection too, is given all of its own time: a
\* call never times out before the deadline of its own operation.
TimesOutWhenDue == [][failed' /\ ~failed /\ phase = "operation" => clock >= Due]_transportVars

\* The same of raw writes.  deadline_transport.rs:1 and http_provider.rs:73
\* say that the deadline is re-derived on every raw read and write; write_all
\* repeats the write with the timeout set before the first.
WritesKeepDeadline == state = "write" => until <= Due
=============================================================================
