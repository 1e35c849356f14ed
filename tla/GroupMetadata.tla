--------------------------- MODULE GroupMetadata ----------------------------
(***************************************************************************)
(* The life of one group as table_core uses it: slots are set when they    *)
(* are available and reset when they hold an element, a hash that finds    *)
(* the group full is noted, and clear wipes everything.                    *)
(***************************************************************************)
EXTENDS Group15, FiniteSets

CONSTANT Hash

VARIABLES m,          \* the group
          stored,     \* the hash set in each slot, as it was given
          overflowed  \* the hashes that found the group full

vars == <<m, stored, overflowed>>

Init ==
  /\ m \in {initialize, set_sentinel(initialize)}
  /\ stored = [n \in SlotNo |-> 0]
  /\ overflowed = {}

Insert(hash) ==
  \E pos \in match_available(m) :
    /\ m' = set(m, pos, hash)
    /\ stored' = [stored EXCEPT ![pos] = hash]
    /\ UNCHANGED overflowed

Overflow(hash) ==
  /\ match_available(m) = {}
  /\ m' = mark_overflow(m, hash)
  /\ overflowed' = overflowed \cup {hash}
  /\ UNCHANGED stored

Erase(pos) ==
  /\ is_occupied(m, pos) /\ ~is_sentinel(m, pos)
  /\ m' = reset(m, pos)
  /\ stored' = [stored EXCEPT ![pos] = 0]
  /\ UNCHANGED overflowed

Clear ==
  /\ m' = IF is_sentinel(m, N - 1) THEN set_sentinel(initialize) ELSE initialize
  /\ stored' = [n \in SlotNo |-> 0]
  /\ overflowed' = {}

Next == \/ \E hash \in Hash : Insert(hash) \/ Overflow(hash)
        \/ \E pos \in SlotNo : Erase(pos)
        \/ Clear

Spec == Init /\ [][Next]_vars

(***************************************************************************)
(* recover_slot lowers the maximum load only for an element that shares    *)
(* its bit with a hash that overflowed here.  It asks the byte, not the    *)
(* hash, which is why reduction must keep a hash modulo 8 (the comment on  *)
(* group15 calls that critical).                                           *)
(***************************************************************************)
OverflowBlamed ==
  \A pos \in match_occupied(m) : ~is_sentinel(m, pos) =>
    (maybe_caused_overflow(m, pos)
       <=> \E hash \in overflowed : hash % 8 = stored[pos] % 8)

(***************************************************************************)
(* The Neon build sees the same slots: no lane's bit lands on another's in *)
(* the emulated movemask, and the overflow byte, which is compared along   *)
(* with the slots, is masked out.                                          *)
(***************************************************************************)
NeonAgrees ==
  /\ match_available_neon(m) = Number(match_available(m))
  /\ match_occupied_neon(m) = Number(match_occupied(m))
  /\ \A hash \in Hash : match_neon(m, hash) = Number(match(m, hash))
  /\ \A pos \in SlotNo : is_sentinel_neon(m, pos) = is_sentinel(m, pos)
=============================================================================
