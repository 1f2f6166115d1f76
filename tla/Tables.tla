------------------------------- MODULE Tables -------------------------------
(***************************************************************************)
(* What is made of the rows of a table: the first of them in the order of  *)
(* their ids (ORDER BY, LIMIT), the sum of a number for each, and what a   *)
(* loop over a slice keeps of it.                                          *)
(***************************************************************************)
EXTENDS Integers, Sequences, FiniteSetsExt

\* The sum of f's values.
Total(f) == MapThenSumSet(LAMBDA x : f[x], DOMAIN f)

\* ORDER BY id, ascending or descending.
Ascending == TRUE
Precedes(i, j, asc) == IF asc THEN i < j ELSE i > j
Ahead(S, i, asc) == {j \in S : Precedes(j, i, asc)}
InOrder(S, asc) ==
    [n \in 1..Cardinality(S) |-> CHOOSE i \in S : Cardinality(Ahead(S, i, asc)) = n - 1]

\* LIMIT: the first n of them.
FirstOf(S, n, asc) == {i \in S : Cardinality(Ahead(S, i, asc)) < n}

\* The elements of a slice that a loop keeps: those at the given positions.
Kept(s, positions) ==
    LET order == InOrder(positions, Ascending) IN [n \in 1..Len(order) |-> s[order[n]]]
=============================================================================
