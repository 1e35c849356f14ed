----------------------------- MODULE MCFlatWalk -----------------------------
(* The hash words of MCFlatTables: 1, 2 and 4 begin in the same group.        *)
EXTENDS FlatWalk

MCHashOf == [h |-> <<0, 0, 768, 3, 264>>]
MCPolicies == {[transfer |-> "nothrow", propagate |-> FALSE, hashers |-> Hasher, values |-> Value,
                 ranges |-> {}, archives |-> FALSE]}
MCMaxLoad == <<7, 8>>
=============================================================================
