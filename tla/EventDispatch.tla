--------------------------- MODULE EventDispatch ---------------------------
(***************************************************************************)
(* DOM events of the script runtime (raikiri-js, runtime/events.rs and     *)
(* runtime/dispatch.rs): listener lists with stable slots, dispatches that *)
(* nest inside the listeners they call, `once` and `passive` listeners,    *)
(* event handler attributes, and the exceptions listeners throw.           *)
(*                                                                         *)
(* Listeners and the scripts between dispatches make any sequence of calls *)
(* of the bindings.  The tree does not change: a dispatch reads its path   *)
(* once, when it begins.  A registration's id is its identity and belongs  *)
(* to the model, not to the code.                                          *)
(***************************************************************************)
EXTENDS Naturals, SequencesExt, Retain

CONSTANTS
  Nodes, Window,   \* event targets; Window is one of them
  Chain,           \* a node and its ancestors, nearest first
  Connected,       \* the nodes below the document
  Events,          \* event objects of scripts and of the host
  ErrorEvent,      \* the event object of the exception being reported
  Kind, Bubbling, Cancelable, \* what each event object was made with
  Callbacks, NoCall,
  Options,         \* the once and passive flags scripts register with
  MaxDepth,        \* MAX_DISPATCH_DEPTH
  MaxRegistrations, \* bound: registrations of a run
  MaxErrors        \* bound: exceptions of a run

AllEvents == Events \cup {ErrorEvent}
Kinds == {Kind[e] : e \in AllEvents}
Ids == 1..MaxRegistrations

Registrations ==
  [id : Ids, kind : Kinds, callback : Callbacks, capture : BOOLEAN,
   once : BOOLEAN, passive : BOOLEAN, handler : BOOLEAN]

ASSUME DispatchAssumption ==
  /\ Window \in Nodes /\ Connected \subseteq Nodes
  /\ Chain \in [Nodes -> Seq(Nodes)]
  /\ \A n \in Nodes : Chain[n] # <<>> /\ Chain[n][1] = n
  /\ ErrorEvent \notin Events
  /\ DOMAIN Kind = AllEvents
  /\ Bubbling \subseteq Events /\ Cancelable \subseteq AllEvents
  /\ NoCall \notin Registrations
  /\ Options \subseteq [once : BOOLEAN, passive : BOOLEAN]
  /\ MaxDepth \in Nat /\ MaxRegistrations \in Nat /\ MaxErrors \in Nat

VARIABLES
  lists,     \* ListenerList of each target
  events,    \* the flags of each event object
  stack,     \* the dispatches under way, the innermost last
  depth,     \* State::dispatch_depth
  reporting, \* State::reporting_exception
  uncaught,  \* EventLoop::uncaught_errors, counted
  aborted,   \* a limit stopped the runtime
  nextId,    \* the id of the next registration
  thrown,    \* exceptions thrown so far
  handled    \* reported exceptions that a listener cancelled

errors == <<reporting, uncaught, thrown, handled>>
dispatchVars == <<lists, events, stack, depth, errors, aborted, nextId>>

----------------------------------------------------------------------------
(* ListenerList. *)

NoListeners == [entries |-> <<>>, depth |-> 0, dirty |-> FALSE]

\* Mutant: compacts under the invocations that walk the list.
CompactAtOnce(list) ==
  [list EXCEPT !.entries = Without(@, {e \in Range(@) : e.removed}), !.dirty = FALSE]

\* Removed entries go only when no invocation of the list is active.
Compact(list) ==
  IF list.depth = 0 /\ list.dirty
  THEN [list EXCEPT !.entries = Without(@, {e \in Range(@) : e.removed}),
                    !.dirty = FALSE]
  ELSE list

\* The listener of each slot that is not removed.
LiveSlots(list) ==
  [i \in {j \in DOMAIN list.entries : ~list.entries[j].removed} |->
     list.entries[i].listener]

AppendEntry(list, r) ==
  [list EXCEPT !.entries = Append(@, [listener |-> r, removed |-> FALSE])]

Removing(list, slots) ==
  [list EXCEPT !.entries = [i \in DOMAIN @ |->
                              [listener |-> @[i].listener,
                               removed |-> @[i].removed \/ i \in slots]],
               !.dirty = @ \/ slots # {}]

\* The slots a registration made with addEventListener occupies.
Same(list, r) ==
  {i \in DOMAIN LiveSlots(list) :
     LET l == LiveSlots(list)[i]
     IN /\ ~l.handler /\ l.kind = r.kind
        /\ l.capture = r.capture /\ l.callback = r.callback}

Handler(list, kind) ==
  {i \in DOMAIN LiveSlots(list) : LiveSlots(list)[i].handler /\ LiveSlots(list)[i].kind = kind}

\* begin: the snapshot an invocation walks.
Snapshot(list, kind, capture) ==
  LET live == LiveSlots(list)
      slots == {i \in DOMAIN live : live[i].kind = kind /\ live[i].capture = capture}
      walked == Without([i \in DOMAIN list.entries |-> i], DOMAIN list.entries \ slots)
  IN [k \in DOMAIN walked |-> [slot |-> walked[k], id |-> live[walked[k]].id]]

Begun(list) == [list EXCEPT !.depth = @ + 1]

Finished(list) == Compact([list EXCEPT !.depth = @ - 1])

----------------------------------------------------------------------------
(* The path of a dispatch and its visits: in reverse for capturing listeners, *)
(* then forward for the others. *)

Path(e, n) ==
  IF n = Window THEN <<Window>>
  ELSE IF n \in Connected /\ Kind[e] # "load" THEN Append(Chain[n], Window)
  ELSE Chain[n]

Visited(f) ==
  LET n == Len(f.path)
  IN IF f.visit <= n THEN f.path[n + 1 - f.visit] ELSE f.path[f.visit - n]

Capturing(f) == f.visit <= Len(f.path)

LastVisit(f) ==
  IF f.event \in Bubbling THEN 2 * Len(f.path) ELSE Len(f.path) + 1

Top == stack[Len(stack)]
Replaced(f) == [stack EXCEPT ![Len(stack)] = f]
Popped == SubSeq(stack, 1, Len(stack) - 1)

\* The innermost dispatch enters an invocation of the listeners of one target.
Entering(f) ==
  [f EXCEPT !.pending = Snapshot(lists[Visited(f)], Kind[f.event], Capturing(f)),
            !.ran = FALSE]

----------------------------------------------------------------------------
DispatchInit ==
  /\ lists = [n \in Nodes |-> NoListeners]
  /\ events = [e \in AllEvents |->
       [dispatched |-> FALSE, stop |-> FALSE, stopNow |-> FALSE,
        passive |-> FALSE, prevented |-> FALSE]]
  /\ stack = <<>> /\ depth = 0
  /\ reporting = FALSE /\ uncaught = 0 /\ thrown = 0 /\ handled = 0
  /\ aborted = FALSE /\ nextId = 1

\* A script runs: between dispatches or inside the listener called last.
ScriptRuns == ~aborted /\ (stack # <<>> => Top.call # NoCall)

Set(n, list) ==
  /\ lists' = [lists EXCEPT ![n] = list]
  /\ UNCHANGED <<events, stack, depth, errors, aborted>>

Registration(kind, c, capture, o, handler) ==
  [id |-> nextId, kind |-> kind, callback |-> c, capture |-> capture,
   once |-> o.once, passive |-> o.passive, handler |-> handler]

AddListener(n, kind, c, capture, o) ==
  LET r == Registration(kind, c, capture, o, FALSE)
  IN /\ ScriptRuns /\ nextId \in Ids
     /\ Same(lists[n], r) = {}
     /\ Set(n, AppendEntry(lists[n], r))
     /\ nextId' = nextId + 1

RemoveListener(n, kind, c, capture) ==
  LET r == [kind |-> kind, callback |-> c, capture |-> capture]
  IN /\ ScriptRuns /\ Same(lists[n], r) # {}
     /\ Set(n, Compact(Removing(lists[n], Same(lists[n], r))))
     /\ UNCHANGED nextId

\* on<kind> = callback: the one slot of the attribute is kept.
AssignHandler(n, kind, c) ==
  LET slots == Handler(lists[n], kind)
      r == Registration(kind, c, FALSE, [once |-> FALSE, passive |-> FALSE], TRUE)
  IN /\ ScriptRuns
     /\ IF slots # {}
        THEN /\ Set(n, [lists[n] EXCEPT
                      !.entries[CHOOSE i \in slots : TRUE].listener.callback = c])
             /\ UNCHANGED nextId
        ELSE /\ nextId \in Ids
             /\ Set(n, AppendEntry(lists[n], r))
             /\ nextId' = nextId + 1

ClearHandler(n, kind) ==
  /\ ScriptRuns /\ Handler(lists[n], kind) # {}
  /\ Set(n, Compact(Removing(lists[n], Handler(lists[n], kind))))
  /\ UNCHANGED nextId

SetFlags(e, flags) ==
  /\ events' = [events EXCEPT ![e] = flags]
  /\ UNCHANGED <<lists, stack, depth, errors, aborted, nextId>>

\* A flag set between dispatches is reset by the next one, so only events
\* under dispatch are stopped here.
StopPropagation(e, immediately) ==
  /\ ScriptRuns /\ events[e].dispatched
  /\ SetFlags(e, [events[e] EXCEPT !.stop = TRUE, !.stopNow = @ \/ immediately])

\* preventDefault(), and the return value of an event handler attribute.
PreventDefault(e) ==
  /\ ScriptRuns /\ events[e].dispatched
  /\ e \in Cancelable /\ ~events[e].passive
  /\ SetFlags(e, [events[e] EXCEPT !.prevented = TRUE])

----------------------------------------------------------------------------
(* dispatch *)

Fresh(e) == [events[e] EXCEPT !.dispatched = TRUE, !.stop = FALSE, !.stopNow = FALSE]

Frame(e, n) ==
  [event |-> e, path |-> Path(e, n), visit |-> 1, pending |-> <<>>,
   ran |-> FALSE, call |-> NoCall]

\* The dispatch of e begins on top of the dispatches `below`.
Begins(e, n, below) ==
  LET f == Frame(e, n)
  IN IF depth >= MaxDepth
     THEN /\ aborted' = TRUE /\ stack' = below
          /\ UNCHANGED <<lists, depth>>
     ELSE /\ stack' = Append(below, Entering(f))
          /\ lists' = [lists EXCEPT ![Visited(f)] = Begun(@)]
          /\ depth' = depth + 1
          /\ UNCHANGED aborted

\* An event under dispatch is refused.
MayDispatch(e) == ~events[e].dispatched

Dispatch(e, n) ==
  /\ ScriptRuns /\ MayDispatch(e)
  /\ Begins(e, n, stack)
  /\ events' = IF depth >= MaxDepth THEN events ELSE [events EXCEPT ![e] = Fresh(e)]
  /\ UNCHANGED <<errors, nextId>>

\* The listener the innermost dispatch called is over.
Ended(f) == [f EXCEPT !.call = NoCall, !.ran = TRUE]
NotPassive(e) == [events[e] EXCEPT !.passive = FALSE]

ListenerReturns ==
  /\ ScriptRuns /\ stack # <<>>
  /\ stack' = Replaced(Ended(Top))
  /\ events' = [events EXCEPT ![Top.event] = NotPassive(Top.event)]
  /\ UNCHANGED <<lists, depth, errors, aborted, nextId>>

\* report_exception: an ErrorEvent at the window, unless one is under way.
Throws ==
  LET below == IF stack = <<>> THEN <<>> ELSE Replaced(Ended(Top))
      calm == IF stack = <<>> THEN events
              ELSE [events EXCEPT ![Top.event] = NotPassive(Top.event)]
      made == [dispatched |-> TRUE, stop |-> FALSE, stopNow |-> FALSE,
               passive |-> FALSE, prevented |-> FALSE]
  IN /\ ScriptRuns /\ thrown < MaxErrors
     /\ thrown' = thrown + 1
     /\ IF reporting
        THEN /\ uncaught' = uncaught + 1
             /\ stack' = below /\ events' = calm
             /\ UNCHANGED <<lists, depth, reporting, aborted>>
        ELSE /\ reporting' = TRUE
             /\ Begins(ErrorEvent, Window, below)
             /\ events' = IF depth >= MaxDepth THEN calm
                          ELSE [calm EXCEPT ![ErrorEvent] = made]
             /\ UNCHANGED uncaught
     /\ UNCHANGED <<handled, nextId>>

\* The engine meets one of its limits in a script.
LimitMet ==
  /\ ScriptRuns
  /\ aborted' = TRUE
  /\ UNCHANGED <<lists, events, stack, depth, errors, nextId>>

----------------------------------------------------------------------------
(* invoke and run_dispatch: the innermost dispatch goes on. *)

DispatchRuns == ~aborted /\ stack # <<>> /\ Top.call = NoCall

StoppedNow(f) == f.ran /\ events[f.event].stopNow

\* Mutant: a `once` listener stays registered while it runs.
CurrentKeepsOnce(list, slot) == list

\* current: a `once` listener is removed before it is called.
Current(list, slot) ==
  IF list.entries[slot].listener.once THEN Removing(list, {slot}) ELSE list

CallNext ==
  LET f == Top
      list == lists[Visited(f)]
      entry == list.entries[Head(f.pending).slot]
      next == [f EXCEPT !.pending = Tail(@), !.ran = FALSE]
  IN /\ DispatchRuns /\ f.pending # <<>> /\ ~StoppedNow(f)
     /\ IF entry.removed
        THEN /\ stack' = Replaced(next)
             /\ UNCHANGED <<lists, events>>
        ELSE /\ stack' = Replaced([next EXCEPT !.call = entry.listener])
             /\ lists' = [lists EXCEPT ![Visited(f)] = Current(@, Head(f.pending).slot)]
             /\ events' = [events EXCEPT ![f.event].passive =
                             @ \/ entry.listener.passive]
     /\ UNCHANGED <<depth, errors, aborted, nextId>>

\* Mutant: the flag stays set when the report is over.
ReportedForEver(f) ==
  IF f.event = ErrorEvent THEN uncaught' = uncaught + 1 /\ UNCHANGED <<reporting, thrown, handled>>
  ELSE UNCHANGED errors

\* What report_exception does when its dispatch is over.
Reported(f) ==
  IF f.event = ErrorEvent
  THEN /\ reporting' = FALSE
       /\ IF events[ErrorEvent].prevented
          THEN handled' = handled + 1 /\ UNCHANGED uncaught
          ELSE uncaught' = uncaught + 1 /\ UNCHANGED handled
       /\ UNCHANGED thrown
  ELSE UNCHANGED errors

Off(e) == [events EXCEPT ![e].dispatched = FALSE]

EndInvocation ==
  LET f == Top
      here == Visited(f)
      next == [f EXCEPT !.visit = @ + 1]
      left == [lists EXCEPT ![here] = Finished(@)]
  IN /\ DispatchRuns /\ (f.pending = <<>> \/ StoppedNow(f))
     /\ IF f.visit = LastVisit(f) \/ events[f.event].stop
        THEN /\ lists' = left
             /\ stack' = Popped /\ depth' = depth - 1
             /\ events' = Off(f.event)
             /\ Reported(f)
        ELSE LET there == Visited(next)
             IN /\ lists' = [left EXCEPT ![there] = Begun(@)]
                /\ stack' = Replaced([next EXCEPT
                     !.pending = Snapshot(left[there], Kind[f.event], Capturing(next)),
                     !.ran = FALSE])
                /\ UNCHANGED <<depth, events, errors>>
     /\ UNCHANGED <<aborted, nextId>>

\* An abort leaves every listener list and event as a finished dispatch does;
\* State is out of reach by then.
Unwinds ==
  /\ aborted /\ stack # <<>>
  /\ lists' = [lists EXCEPT ![Visited(Top)] = Finished(@)]
  /\ stack' = Popped
  /\ events' = [events EXCEPT ![Top.event] =
                  [@ EXCEPT !.dispatched = FALSE, !.passive = FALSE]]
  /\ UNCHANGED <<depth, errors, aborted, nextId>>

\* An aborted runtime runs no more scripts.
Over == aborted /\ stack = <<>> /\ UNCHANGED dispatchVars

Script ==
  \/ \E n \in Nodes, kind \in Kinds :
       \/ \E c \in Callbacks :
            \/ \E capture \in BOOLEAN :
                 \/ \E o \in Options : AddListener(n, kind, c, capture, o)
                 \/ RemoveListener(n, kind, c, capture)
            \/ AssignHandler(n, kind, c)
       \/ ClearHandler(n, kind)
  \/ \E e \in AllEvents :
       \/ \E immediately \in BOOLEAN : StopPropagation(e, immediately)
       \/ PreventDefault(e)
  \/ \E e \in Events, n \in Nodes : Dispatch(e, n)
  \/ ListenerReturns \/ Throws \/ LimitMet

DispatchNext == Script \/ CallNext \/ EndInvocation \/ Unwinds \/ Over

DispatchSpec == DispatchInit /\ [][DispatchNext]_dispatchVars

----------------------------------------------------------------------------
(* Properties *)

Slots(list) == DOMAIN list.entries

Entries == [listener : Registrations, removed : BOOLEAN]
Lists == [entries : Seq(Entries), depth : Nat, dirty : BOOLEAN]
Flags == [dispatched : BOOLEAN, stop : BOOLEAN, stopNow : BOOLEAN,
          passive : BOOLEAN, prevented : BOOLEAN]
Frames ==
  [event : AllEvents, path : Seq(Nodes), visit : Nat,
   pending : Seq([slot : Nat, id : Ids]), ran : BOOLEAN,
   call : Registrations \cup {NoCall}]

\* Every variable keeps its type, and an event is marked as dispatched while
\* exactly one dispatch of it is under way.
DispatchTypeOK ==
  /\ lists \in [Nodes -> Lists]
  /\ events \in [AllEvents -> Flags]
  /\ stack \in Seq(Frames)
  /\ depth \in 0..MaxDepth
  /\ reporting \in BOOLEAN /\ aborted \in BOOLEAN
  /\ uncaught \in Nat /\ thrown \in Nat /\ handled \in Nat
  /\ nextId \in 1..(MaxRegistrations + 1)
  /\ \A e \in AllEvents :
       events[e].dispatched <=> \E i \in DOMAIN stack : stack[i].event = e
  /\ \A i, j \in DOMAIN stack : stack[i].event = stack[j].event => i = j

\* The slots an invocation still has to visit hold the registrations they
\* held when it began, however listeners and nested dispatches change the
\* list; a list knows how many invocations walk it, and once none does, no
\* removed registration is left in it, whether they ended or were aborted.
SlotsHeld ==
  /\ DispatchTypeOK
  /\ \A i \in DOMAIN stack : \A p \in Range(stack[i].pending) :
       LET list == lists[Visited(stack[i])]
       IN p.slot \in Slots(list) /\ list.entries[p.slot].listener.id = p.id
  /\ \A n \in Nodes :
       /\ lists[n].depth = Cardinality({i \in DOMAIN stack : Visited(stack[i]) = n})
       /\ lists[n].depth = 0 =>
            \A i \in Slots(lists[n]) : ~lists[n].entries[i].removed

\* report_exception: while the runtime is not aborted, every exception is
\* recorded, was cancelled by a listener, or is the one being reported.
NoErrorLost ==
  ~aborted =>
    /\ reporting <=> events[ErrorEvent].dispatched
    /\ thrown = uncaught + handled + (IF reporting THEN 1 ELSE 0)
    /\ depth = Len(stack)

Targets == INSTANCE EventTargets WITH
  registered <- [n \in Nodes |-> Range(LiveSlots(lists[n]))],
  calls <- [i \in DOMAIN stack |-> stack[i].call]

\* Lists with stable slots, tombstones and compaction behave as the set of
\* registrations scripts are promised: what is called is registered at that
\* moment, `once` registrations are gone when they are called, duplicates are
\* refused, and an event handler attribute has one registration.
CallsWhatIsRegistered == Targets!Spec
=============================================================================
