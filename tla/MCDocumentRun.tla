--------------------------- MODULE MCDocumentRun ---------------------------
(***************************************************************************)
(* Three parsed scripts that write up to four more, and two kinds of limit.*)
(***************************************************************************)
EXTENDS DocumentRun

LimitKinds == {"Tasks", "Recursion"}
=============================================================================
