------------------------------- MODULE Retain -------------------------------
(***************************************************************************)
(* Vec::retain, which the components use to drop entries of a list: a      *)
(* recursive function, so that it can be reasoned about.                   *)
(***************************************************************************)
EXTENDS Naturals, Sequences

\* What is not in `gone' is kept, in its order.
Without(kept, gone) ==
  LET upto[n \in 0..Len(kept)] ==
        IF n = 0 THEN <<>>
        ELSE IF kept[n] \in gone THEN upto[n - 1] ELSE Append(upto[n - 1], kept[n])
  IN upto[Len(kept)]
=============================================================================
