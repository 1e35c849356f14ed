------------------------------ MODULE Group15 -------------------------------
(***************************************************************************)
(* group15 of boost_unordered.hpp in its regular layout: the metadata of a *)
(* group of N element slots, one byte per slot and one overflow byte.      *)
(*                                                                         *)
(* A group is a record: byte[n] is 0 for an available slot, 1 for the      *)
(* sentinel, else the reduced hash of the element in slot n; over is the   *)
(* set of bits set in the overflow byte.  Masks are sets of slots.         *)
(***************************************************************************)
EXTENDS Naturals, FiniteSetsExt

CONSTANT N

SlotNo == 0..(N - 1)

available_ == 0
sentinel_  == 1

initialize == [byte |-> [n \in SlotNo |-> available_], over |-> {}]

set_sentinel(g) == [g EXCEPT !.byte[N - 1] = sentinel_]

(* The low byte of the hash, with the two reserved values moved up by 8:   *)
(* reduction leaves a hash modulo 8 as it was.                             *)
reduced_hash(hash) == IF hash % 256 < 2 THEN (hash % 256) + 8 ELSE hash % 256

set(g, pos, hash) == [g EXCEPT !.byte[pos] = reduced_hash(hash)]
reset(g, pos)     == [g EXCEPT !.byte[pos] = available_]

match(g, hash)     == {n \in SlotNo : g.byte[n] = reduced_hash(hash)}
match_available(g) == {n \in SlotNo : g.byte[n] = available_}
match_occupied(g)  == SlotNo \ match_available(g)

is_occupied(g, pos) == g.byte[pos] # available_
is_sentinel(g, pos) == g.byte[pos] = sentinel_

is_not_overflowed(g, hash) == hash % 8 \notin g.over
mark_overflow(g, hash)     == [g EXCEPT !.over = @ \cup {hash % 8}]

(* The slot's byte stands in for the hash it was reduced from.             *)
maybe_caused_overflow(g, pos) == ~is_not_overflowed(g, g.byte[pos])
-----------------------------------------------------------------------------
(***************************************************************************)
(* The same layout read with Neon, which has no movemask: lanes all ones   *)
(* or all zeros are cut to one bit each by their place in their half, the  *)
(* halves are zipped into words twice as wide, and the words are added.    *)
(* Here masks are numbers.  N + 1 is even, 16 in the code.                 *)
(***************************************************************************)
W == (N + 1) \div 2

Pow2[n \in Nat] == IF n = 0 THEN 1 ELSE 2 * Pow2[n - 1]

(* The mask with the bits S set, as a number.                              *)
Number(S) == MapThenSumSet(LAMBDA n : Pow2[n], S)

\* Mutant: the upper half of a zipped pair has the weight of the lower.
simde_mm_movemask_epi8_flat(a) ==
  LET masked(i) == IF i \in a THEN Pow2[i % W] ELSE 0
  IN  MapThenSumSet(LAMBDA i : masked(i) + masked(i + W), 0..(W - 1))

simde_mm_movemask_epi8(a) ==
  LET masked(i) == IF i \in a THEN Pow2[i % W] ELSE 0
      x(i)      == masked(i) + Pow2[W] * masked(i + W)
  IN  MapThenSumSet(x, 0..(W - 1))

(* Lanes 0 to N - 1 are slots and lane N is the overflow byte.             *)
LaneByte(g, i) == IF i = N THEN Number(g.over) ELSE g.byte[i]

match_neon(g, hash) ==
  simde_mm_movemask_epi8({i \in 0..N : LaneByte(g, i) = reduced_hash(hash)}) % Pow2[N]
match_available_neon(g) ==
  simde_mm_movemask_epi8({i \in 0..N : LaneByte(g, i) = available_}) % Pow2[N]
match_occupied_neon(g) ==
  simde_mm_movemask_epi8({i \in 0..N : LaneByte(g, i) > 0}) % Pow2[N]
is_sentinel_neon(g, pos) == pos = N - 1 /\ g.byte[N - 1] = sentinel_
=============================================================================
