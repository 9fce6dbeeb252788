------------------------ MODULE MCDeadlineTransport ------------------------
(***************************************************************************)
(* One connection at a time, over two requests' time: a request of four    *)
(* ticks, two of them for the connection, and two addresses.               *)
(***************************************************************************)
EXTENDS DeadlineTransport
=============================================================================
