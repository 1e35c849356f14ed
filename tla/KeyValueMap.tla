---------------------------- MODULE KeyValueMap ----------------------------
(* What a hash table of the benchmark promises its caller: a finite set of   *)
(* key/value entries, at most one per key, changed by insert, erase and      *)
(* clear, one call at a time.  Nothing here knows about slots, capacities or *)
(* growing: an insert takes effect when it is called and may take a while to *)
(* return.                                                                   *)
CONSTANTS Key, Value

VARIABLES
    entries,    \* the set of <<key, value>> pairs the table holds
    busy        \* an insert has not returned

vars == <<entries, busy>>

-----------------------------------------------------------------------------
KeysOf(E) == {e[1] : e \in E}

Init == entries = {} /\ busy = FALSE

\* "assumes key is not in the map"
Insert(k, v) ==
    /\ ~ busy
    /\ k \notin KeysOf(entries)
    /\ entries' = entries \cup {<<k, v>>}
    /\ busy' = TRUE

Return == busy /\ busy' = FALSE /\ UNCHANGED entries

Erase(k) ==
    /\ ~ busy
    /\ k \in KeysOf(entries)
    /\ entries' = {e \in entries : e[1] # k}
    /\ UNCHANGED busy

Clear == ~ busy /\ entries' = {} /\ UNCHANGED busy

Next == \/ \E k \in Key, v \in Value : Insert(k, v)
        \/ Return
        \/ \E k \in Key : Erase(k)
        \/ Clear

Spec == Init /\ [][Next]_vars
=============================================================================
