----------------------------- MODULE Selection -----------------------------
(***************************************************************************)
(* What the readers do to sequences of rows.  Their filters keep the rows  *)
(* that pass a test, in their order: Select is SelectSeq with the set of   *)
(* the values to keep in place of the test, so that what it does can be    *)
(* stated, and proved, for every test at once (SelectionProofs).  Batches  *)
(* are put end to end: Joined.                                             *)
(***************************************************************************)
EXTENDS Naturals, Sequences

(* What is kept of the first n elements, for every n. *)
Kept(s, keep) ==
    LET F[n \in 0 .. Len(s)] ==
            IF n = 0 THEN <<>>
            ELSE IF s[n] \in keep THEN Append(F[n - 1], s[n]) ELSE F[n - 1]
    IN  F

Select(s, keep) == Kept(s, keep)[Len(s)]

(* The first n sequences of q, one after the other, for every n. *)
Joins(q) ==
    LET F[n \in 0 .. Len(q)] == IF n = 0 THEN <<>> ELSE F[n - 1] \o q[n]
    IN  F

Joined(q) == Joins(q)[Len(q)]
=============================================================================
