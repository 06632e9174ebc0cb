-------------------------------- MODULE Picks --------------------------------
(* Filters: sequences with some of their elements left out, in order.        *)
EXTENDS Integers, Sequences

\* The elements of s at the positions K.
Pick(s, K) ==
  LET kept[n \in 0 .. Len(s)] ==
        IF n = 0 THEN <<>>
        ELSE IF n \in K THEN Append(kept[n - 1], s[n]) ELSE kept[n - 1]
  IN kept[Len(s)]
==============================================================================
