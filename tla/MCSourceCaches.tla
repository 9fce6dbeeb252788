--------------------------- MODULE MCSourceCaches ---------------------------
(***************************************************************************)
(* Instances of SourceCaches for TLC: boxes of few sizes, one of which may *)
(* hold a NaN, that ask one SVG source.                                    *)
(***************************************************************************)
EXTENDS SourceCaches
=============================================================================
