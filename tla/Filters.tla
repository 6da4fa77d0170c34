------------------------------- MODULE Filters -------------------------------
(***************************************************************************)
(* Vec::retain, and the iterator's filter, on sequences.  The elements to  *)
(* keep are given as a set, so that what the operator computes can be      *)
(* stated and proved for every sequence (DataInduction).                   *)
(***************************************************************************)
EXTENDS Integers, Sequences

\* The elements of s that lie in keep, in their order.
Filter(s, keep) ==
  LET kept[i \in 0..Len(s)] ==
        IF i = 0 THEN <<>>
        ELSE IF s[i] \in keep THEN Append(kept[i - 1], s[i])
        ELSE kept[i - 1]
  IN  kept[Len(s)]
=============================================================================
