-------------------------- MODULE MCEventDispatch --------------------------
(***************************************************************************)
(* One element in the document and the window, a bubbling event and the    *)
(* error event of a report, which can be cancelled, two registrations and  *)
(* dispatches nested two deep.                                             *)
(***************************************************************************)
EXTENDS EventDispatch

CONSTANTS elem, win

Targets2 == {elem, win}
ChainOf == [n \in Targets2 |-> <<n>>]
KindOf == [e \in AllEvents |-> IF e = "click" THEN "click" ELSE "error"]
Flags2 == {[once |-> TRUE, passive |-> FALSE], [once |-> FALSE, passive |-> TRUE]}
=============================================================================
