---------------------------- MODULE TwoWayReads ----------------------------
(* What TwoWay reports about itself: sum_all_values and memory_usage, in a   *)
(* module of their own because they add numbers up.                          *)
EXTENDS TwoWay, FiniteSetsExt

\* sum_all_values adds values up, so a program that calls it has numbers for them.
ASSUME ValueAssumption == Value \subseteq Int

\* Every slot, from its first place to its first EMPTY key.
Walked(array) == {ip \in (DOMAIN array) \X Pos : ip[2] \in Prefix(array[ip[1]])}

sum_all_values ==
    MapThenSumSet(LAMBDA ip : heap[data][ip[1]].values[ip[2]], Walked(heap[data]))

\* Between calls the sum the walk computes is the sum over the entries the caller
\* put in: the benchmark prints it as a checksum, and no value that erase or clear
\* left behind is counted.
SumIsExact ==
    Idle => sum_all_values = MapThenSumSet(LAMBDA e : e[2], Content)

\* No entry is held twice, and every way to look at the table shows the entries its
\* caller put in and no other: find and find_indexed, contains, and the checksum.
LookUpsExact == KeysUnique /\ FindHits /\ ContainsExact /\ SumIsExact
=============================================================================
