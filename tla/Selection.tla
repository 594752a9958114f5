------------------------------ MODULE Selection ------------------------------
(***************************************************************************)
(* A loop over a slice, or over the rows of a table, that keeps some of    *)
(* the elements and their order.                                           *)
(***************************************************************************)
EXTENDS Integers, Sequences

\* The elements of s that are in S.
Selected(s, S) ==
    LET kept[n \in 0..Len(s)] ==
            IF n = 0 THEN <<>>
            ELSE IF s[n] \in S THEN Append(kept[n - 1], s[n]) ELSE kept[n - 1]
    IN  kept[Len(s)]
=============================================================================
