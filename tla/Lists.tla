------------------------------- MODULE Lists -------------------------------
(* Lists made from sets and from other lists, in an order of their own. *)
EXTENDS Integers, Sequences, FiniteSets

Elements(s) == {s[i] : i \in 1 .. Len(s)}

\* How many elements of S are not above s.
Rank(S, s) == Cardinality({t \in S : t <= s})

\* The elements of a finite set of numbers in ascending order.
Ascending(S) == [n \in 1 .. Cardinality(S) |-> CHOOSE s \in S : Rank(S, s) = n]

\* The entries of s at the positions in I, in their order.
Sublist(s, I) == [n \in 1 .. Cardinality(I) |-> s[Ascending(I)[n]]]

\* The entries of s that are in S.
Filtered(s, S) == Sublist(s, {i \in 1 .. Len(s) : s[i] \in S})

\* The first occurrences in s of the members of S.
Firsts(s, S) ==
    Sublist(s, {i \in 1 .. Len(s) : s[i] \in S /\ \A j \in 1 .. i - 1 : s[j] # s[i]})

=============================================================================
