------------------------------ MODULE Filtering ------------------------------
(***************************************************************************)
(* A list comprehension with a condition, [x for x in s if ...], and the     *)
(* query that is one over the rows of a table; and sorted() of numbers.       *)
(***************************************************************************)
EXTENDS Integers, Sequences, FiniteSets, SequencesExt

\* The members of s that are in T, in their order.
Among(s, T) == FlattenSeq([i \in DOMAIN s |-> IF s[i] \in T THEN <<s[i]>> ELSE <<>>])

\* Numbers in order.
InOrder(S) == CHOOSE s \in [1..Cardinality(S) -> S] : \A i, j \in DOMAIN s : i < j => s[i] < s[j]

=============================================================================
