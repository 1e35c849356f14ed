-------------------------- MODULE InterleavedGroup --------------------------
(***************************************************************************)
(* group15 without SIMD: the same bytes in two 64-bit words, bit by bit.   *)
(* The words are four lanes of N + 1 bits each; lane i of m[0] holds bit i *)
(* of every slot's byte, lane i of m[1] bit i + 4, and the last bit of the *)
(* eight lanes is the overflow byte.  A word is the set of its set bits.   *)
(***************************************************************************)
EXTENDS Naturals, FiniteSets

CONSTANTS N, Hash

\* With one slot the lanes are so near that maybe_caused_overflow would mix their bits.
ASSUME NAssumption == N \in Nat /\ N >= 2
ASSUME HashAssumption == Hash \subseteq Nat

Lane == N + 1
Bit  == 0..(4 * Lane - 1)

VARIABLES m, stored, overflowed

vars == <<m, stored, overflowed>>

Layout == INSTANCE Group15
SlotNo == Layout!SlotNo

Weight        == <<1, 2, 4, 8>>
BitsOf(n)     == {i \in 0..3 : (n \div Weight[i + 1]) % 2 = 1}
ShiftR(x, s)  == {b - s : b \in {c \in x : c >= s}}
Xor(x, y)     == (x \ y) \cup (y \ x)
LastBits      == {i * Lane + N : i \in 0..3}
-----------------------------------------------------------------------------

initialize == <<{}, {}>>

\* Mutant: bits are set but those that should be zero are not cleared.
put_nibble_or(x, pos, n) == x \cup {i * Lane + pos : i \in BitsOf(n)}

(* set_impl on one word: mask[n] and imask[n], shifted to the slot.        *)
put_nibble(x, pos, n) ==
  (x \cup {i * Lane + pos : i \in BitsOf(n)})
     \ {i * Lane + pos : i \in 0..3 \ BitsOf(n)}

set_impl(g, pos, byte) ==
  <<put_nibble(g[1], pos, byte % 16), put_nibble(g[2], pos, byte \div 16)>>

set(g, pos, hash) == set_impl(g, pos, Layout!reduced_hash(hash))
set_sentinel(g)   == set_impl(g, N - 1, Layout!sentinel_)
reset(g, pos)     == set_impl(g, pos, Layout!available_)

is_sentinel(g, pos) ==
  LET last == {i * Lane + N - 1 : i \in 0..3}
  IN  pos = N - 1 /\ g[1] \cap last = {N - 1} /\ g[2] \cap last = {}

(* Both halves of the word, then both lanes of the half.                   *)
Fold(x) ==
  LET y == x \cap ShiftR(x, 2 * Lane)
  IN  y \cap ShiftR(y, Lane) \cap SlotNo

LanesOf(n) == {b \in Bit : b \div Lane \in BitsOf(n)}

match(g, hash) ==
  LET n == Layout!reduced_hash(hash)
      x == Xor(g[1], LanesOf(n % 16)) \cup Xor(g[2], LanesOf(n \div 16))
  IN  Fold(Bit \ x)

match_available(g) == Fold(Bit \ (g[1] \cup g[2]))

\* Mutant: the upper half of the word is not folded in.
match_occupied_half(g) ==
  LET x == g[1] \cup g[2]
  IN  (x \cup ShiftR(x, Lane)) \cap SlotNo

match_occupied(g) ==
  LET x == g[1] \cup g[2]
      y == x \cup ShiftR(x, 2 * Lane)
  IN  (y \cup ShiftR(y, Lane)) \cap SlotNo

is_occupied(g, pos) == (g[1] \cup g[2]) \cap {i * Lane + pos : i \in 0..3} # {}

OverflowBit(hash) == ((hash % 8) % 4) * Lane + N
Half(hash)        == (hash % 8) \div 4 + 1

is_not_overflowed(g, hash) == OverflowBit(hash) \notin g[Half(hash)]
mark_overflow(g, hash)     == [g EXCEPT ![Half(hash)] = @ \cup {OverflowBit(hash)}]

(* The low three bits of the slot's byte, gathered from their lanes.       *)
maybe_caused_overflow(g, pos) ==
  LET x == ShiftR(g[1], pos) \cap {0, Lane, 2 * Lane}
      y == x \cup ShiftR(x, Lane - 1) \cup ShiftR(x, 2 * Lane - 2)
      Bit3(i) == IF i \in y THEN Weight[i + 1] ELSE 0
  IN  ~is_not_overflowed(g, Bit3(0) + Bit3(1) + Bit3(2))
-----------------------------------------------------------------------------

Init ==
  /\ m \in {initialize, set_sentinel(initialize)}
  /\ stored = [n \in SlotNo |-> 0]
  /\ overflowed = {}

Insert(hash) ==
  \E pos \in match_available(m) :
    /\ m' = set(m, pos, hash)
    /\ stored' = [stored EXCEPT ![pos] = hash]
    /\ UNCHANGED overflowed

Overflow(hash) ==
  /\ match_available(m) = {}
  /\ m' = mark_overflow(m, hash)
  /\ overflowed' = overflowed \cup {hash}
  /\ UNCHANGED stored

Erase(pos) ==
  /\ is_occupied(m, pos) /\ ~is_sentinel(m, pos)
  /\ m' = reset(m, pos)
  /\ stored' = [stored EXCEPT ![pos] = 0]
  /\ UNCHANGED overflowed

Clear ==
  /\ m' = IF is_sentinel(m, N - 1) THEN set_sentinel(initialize) ELSE initialize
  /\ stored' = [n \in SlotNo |-> 0]
  /\ overflowed' = {}

Next == \/ \E hash \in Hash : Insert(hash) \/ Overflow(hash)
        \/ \E pos \in SlotNo : Erase(pos)
        \/ Clear

Spec == Init /\ [][Next]_vars
-----------------------------------------------------------------------------

TypeOK ==
  /\ m \in (SUBSET Bit) \X (SUBSET Bit)
  /\ stored \in [SlotNo -> Hash \cup {0}]
  /\ overflowed \subseteq Hash

(* The group that the two words spell, byte by byte.                       *)
ByteAt(g, pos) ==
  LET Part(w, i, v) == IF i * Lane + pos \in g[w] THEN v ELSE 0
  IN  Part(1, 0, 1)  + Part(1, 1, 2)  + Part(1, 2, 4)  + Part(1, 3, 8)
    + Part(2, 0, 16) + Part(2, 1, 32) + Part(2, 2, 64) + Part(2, 3, 128)

AsBytes(g) == [byte |-> [n \in SlotNo |-> ByteAt(g, n)],
               over |-> {i \in 0..7 : ~is_not_overflowed(g, i)}]

(* The interleaved group lives the life of the regular one.                *)
Regular == INSTANCE GroupMetadata WITH m <- AsBytes(m)
IsRegularGroup == Regular!Spec

(***************************************************************************)
(* Every question has the same answer in both layouts, whatever is beside  *)
(* the slot it is about: masks, shifts and lanes do not leak into each     *)
(* other, nor the overflow bits into the slots.                            *)
(***************************************************************************)
AnswersAgree ==
  LET g == AsBytes(m)
  IN  /\ match_available(m) = Layout!match_available(g)
      /\ match_occupied(m) = Layout!match_occupied(g)
      /\ \A hash \in Hash : match(m, hash) = Layout!match(g, hash)
      /\ \A pos \in SlotNo :
           /\ is_occupied(m, pos) = Layout!is_occupied(g, pos)
           /\ is_sentinel(m, pos) = Layout!is_sentinel(g, pos)
           /\ maybe_caused_overflow(m, pos) = Layout!maybe_caused_overflow(g, pos)

(* What is said of the regular group holds of this one.                    *)
OverflowBlamed == Regular!OverflowBlamed
NeonAgrees     == Regular!NeonAgrees

(* The three builds of the group, and the hashes it was given, agree.      *)
SameAnswers == TypeOK /\ AnswersAgree /\ OverflowBlamed /\ NeonAgrees
=============================================================================
