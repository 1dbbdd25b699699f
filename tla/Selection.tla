------------------------------ MODULE Selection ------------------------------
(***************************************************************************)
(* The loop that filters a slice: the elements that pass, in their order.  *)
(***************************************************************************)
EXTENDS Naturals, SequencesExt

\* The elements of s that are in T.
Selected(s, T) ==
  LET upTo[i \in 0 .. Len(s)] ==
        IF i = 0 THEN << >>
        ELSE IF s[i] \in T THEN Append(upTo[i - 1], s[i]) ELSE upTo[i - 1]
  IN  upTo[Len(s)]
=============================================================================
