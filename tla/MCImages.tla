------------------------------ MODULE MCImages ------------------------------
(***************************************************************************)
(* Small instances of SvgPictures on BackgroundImages.                     *)
(***************************************************************************)
EXTENDS SvgPictures

CONSTANTS t1, t2, s1, s2

\* Two renders share a set; one of them asks for URL pictures of its SVG
\* documents, which take turns, and has a set of its own.
SharedAndOwn ==
  ({t1, t2} \X {s1} \X {"css", "data", "paint"}) \cup {<<t2, s1, "url">>, <<t2, s2, "css">>}
OneAndTwo == [t \in Threads |-> IF t = t1 THEN 1 ELSE 2]
=============================================================================
