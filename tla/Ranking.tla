-------------------------------- MODULE Ranking --------------------------------
(***************************************************************************)
(* Lists: of a set in an order, and of chosen places of a sequence.  Who   *)
(* stands where is said by counting those that stand before.               *)
(***************************************************************************)
EXTENDS Integers, FiniteSets

\* A set in an order: the k-th is the one that k - 1 others stand before.
Listed(S, Before(_, _)) ==
    [k \in 1 .. Cardinality(S) |-> CHOOSE i \in S : Cardinality({j \in S : Before(j, i)}) = k - 1]

\* A set of numbers, the least first.
Ascending(S) == Listed(S, <)

\* What a sequence holds at some of its places, in their order.
Picked(s, places) == LET line == Ascending(places) IN [k \in DOMAIN line |-> s[line[k]]]

\* Intervals by their start, then by their end.
Earlier(a, b) == a.start < b.start \/ (a.start = b.start /\ a.end < b.end)
=============================================================================
