------------------------------ MODULE Filters ------------------------------
(* The part of a sequence that is in a set, in the same order: what a filter *)
(* over a list computes.                                                    *)
EXTENDS Naturals, Sequences

\* kept[i] is what the first i elements contribute.
Kept(s, keep) ==
  LET kept[i \in 0..Len(s)] ==
        IF i = 0 THEN <<>>
        ELSE IF s[i] \in keep THEN Append(kept[i - 1], s[i]) ELSE kept[i - 1]
  IN  kept[Len(s)]
=============================================================================
