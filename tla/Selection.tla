------------------------------ MODULE Selection ------------------------------
(***************************************************************************)
(* Some of the elements of a sequence, in the order they have there.       *)
(***************************************************************************)
EXTENDS Integers, FiniteSets, Sequences

\* The members of a finite set of integers in ascending order: the one at
\* place k has k - 1 members below it.
Ascending(S) ==
    [k \in 1..Cardinality(S) |->
        CHOOSE x \in S : Cardinality({y \in S : y < x}) = k - 1]

\* The elements of s at the positions in S.
Selected(s, S) == [k \in 1..Cardinality(S) |-> s[Ascending(S)[k]]]
=============================================================================
