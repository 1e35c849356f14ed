----------------------------- MODULE FlatArrays -----------------------------
(***************************************************************************)
(* The paired arrays of foa::table_core: a power of two of groups and an   *)
(* element slot for each byte of their metadata but the last, which is the *)
(* sentinel.  These are the pure parts: sizes, probing, look-up, insertion *)
(* and iteration.                                                          *)
(*                                                                         *)
(* Arrays are a record: al is the allocator they came from, group[g] the   *)
(* metadata, elem[g * N + n] the element in slot n of group g.  Elements   *)
(* that do not exist are NoElement; elem is empty in the static groups of  *)
(* a table without capacity.  size = 2^log is the number of groups.        *)
(***************************************************************************)
EXTENDS Group15, Sequences, SequencesExt

CONSTANTS
  HashBits,     \* width of size_t
  MaxLoad,      \* mlf, as <<numerator, denominator>>
  FloatBits     \* digits of a float: 24 in the code

ASSUME SlotsAssumption == N \in Nat \ {0}
ASSUME HashBitsAssumption == HashBits \in Nat /\ HashBits > 8
ASSUME MaxLoadAssumption == MaxLoad \in (Nat \ {0}) \X (Nat \ {0}) /\ MaxLoad[1] < MaxLoad[2]

NoElement == [key |-> "none"]
NoSlot    == -1

bit_width(n) == IF n = 0 THEN 0 ELSE CHOOSE b \in 1..HashBits : Pow2[b - 1] <= n /\ n < Pow2[b]

RoundHalfEven(n, d) ==
  LET f == n \div d
      r == 2 * (n % d)
  IN  IF r > d \/ (r = d /\ f % 2 = 1) THEN f + 1 ELSE f

(* n / d, at least 1, rounded to a float, again as <<numerator, denominator>>. *)
Float(n, d) ==
  LET w == bit_width(n \div d)
  IN  IF w >= FloatBits
      THEN LET unit == Pow2[w - FloatBits] IN <<RoundHalfEven(n, d * unit) * unit, 1>>
      ELSE LET unit == Pow2[FloatBits - w] IN <<RoundHalfEven(n * unit, d), unit>>

(* std::size_t(std::ceil(float(n)/mlf))                                    *)
CeilLoad(n) ==
  LET x == Float(n, 1)
      q == Float(x[1] * MaxLoad[2], x[2] * MaxLoad[1])
  IN  IF n = 0 THEN 0 ELSE (q[1] + q[2] - 1) \div q[2]

(* (std::size_t)(mlf*(float)(n))                                           *)
FloorLoad(n) ==
  LET x == Float(n, 1)
      q == Float(x[1] * MaxLoad[1], x[2] * MaxLoad[2])
  IN  q[1] \div q[2]

(* The log of the number of groups for n elements and the sentinel.        *)
size_log_for(n) ==
  LET groups == (n \div N) + 1 IN IF groups <= 2 THEN 1 ELSE bit_width(groups - 1)

\* Mutant: room for the elements that are there, not for one more.
growth_exact(size) == CeilLoad(size)

(* The element count asked for when a table of size elements must grow.    *)
GrowthFor(size) == CeilLoad(size + size \div 61 + 1)

capacity_for(n) == Pow2[size_log_for(n)] * N - 1

position(hash, log) == hash \div Pow2[HashBits - log]

Groups(a) == 0..(Pow2[a.log] - 1)

(* Where the prober is after i turns; it gives up after as many turns as   *)
(* there are groups.                                                       *)
probe(a, hash, i) == (position(hash, a.log) + ((i * (i + 1)) \div 2)) % Pow2[a.log]

-----------------------------------------------------------------------------

(* new_ for a positive number of elements.                                 *)
set_arrays(al, log) ==
  [al |-> al, log |-> log,
   group |-> [g \in 0..(Pow2[log] - 1) |->
                IF g = Pow2[log] - 1 THEN set_sentinel(initialize) ELSE initialize],
   elem |-> [p \in 0..(Pow2[log] * N - 2) |-> NoElement]]

dummy_groups == [al |-> "static", log |-> 1,
                 group |-> [g \in 0..1 |-> set_sentinel(initialize)],
                 elem |-> <<>>]

capacity(a) == IF a.elem = <<>> THEN 0 ELSE Pow2[a.log] * N - 1

max_load_for(c) == IF c <= 2 * N - 1 THEN c ELSE FloorLoad(c)

initial_max_load(a) == max_load_for(capacity(a))

-----------------------------------------------------------------------------

\* Mutant: a look-up stops where the group has room, whoever overflowed it.
reached_until_room(a, hash) ==
  {i \in Groups(a) : \A j \in 0..(i - 1) : match_available(a.group[probe(a, hash, j)]) = {}}

(* The turns a look-up makes: it goes on past groups that hash overflowed. *)
reached(a, hash) ==
  {i \in Groups(a) :
     \A j \in 0..(i - 1) : ~is_not_overflowed(a.group[probe(a, hash, j)], hash)}

(* The first slot on the way whose byte matches and whose key is k.        *)
find(a, hash, k) ==
  LET At(i, n) == probe(a, hash, i) * N + n
      hits == {h \in reached(a, hash) \X SlotNo :
                 /\ h[2] \in match(a.group[probe(a, hash, h[1])], hash)
                 /\ a.elem[At(h[1], h[2])].key = k}
  IN  IF hits = {} THEN NoSlot
      ELSE LET first == CHOOSE h \in hits : \A o \in hits : h[1] * N + h[2] <= o[1] * N + o[2]
           IN  At(first[1], first[2])

HasRoom(a) == \E g \in Groups(a) : match_available(a.group[g]) # {}

(* The turn at which an insertion finds an available slot.                 *)
turn_with_room(a, hash) ==
  Min({i \in Groups(a) : match_available(a.group[probe(a, hash, i)]) # {}})

\* Mutant: the group with room is marked, not the full ones before it.
marked_last(a, hash) ==
  LET pos == probe(a, hash, turn_with_room(a, hash))
  IN  [a EXCEPT !.group[pos] = mark_overflow(@, hash)]

(* The full groups on the way are marked, whether or not the construction  *)
(* of the element then succeeds.                                           *)
marked(a, hash) ==
  LET passed == {probe(a, hash, j) : j \in 0..(turn_with_room(a, hash) - 1)}
  IN  [a EXCEPT !.group = [g \in Groups(a) |->
         IF g \in passed THEN mark_overflow(@[g], hash) ELSE @[g]]]

nosize_unchecked_emplace_at(a, hash, e) ==
  LET pos == probe(a, hash, turn_with_room(a, hash))
      n   == Min(match_available(a.group[pos]))
  IN  [marked(a, hash) EXCEPT !.group[pos] = set(@, n, hash), !.elem[pos * N + n] = e]

-----------------------------------------------------------------------------

(* The slots for_all_elements visits, in its order.                        *)
for_all_elements(a) ==
  SetToSortSeq({p \in DOMAIN a.elem : is_occupied(a.group[p \div N], p % N)}, <)

\* Mutant: the walk takes the first slot of the group that is occupied.
increment_in_group_from_start(a, p) ==
  LET g    == p \div N
      rest == {n \in match_occupied(a.group[g]) : n # p % N}
      q    == IF rest # {} THEN g ELSE Min({o \in Groups(a) : o > g /\ match_occupied(a.group[o]) # {}})
      n    == IF rest # {} THEN Min(rest) ELSE Min(match_occupied(a.group[q]))
  IN  IF is_sentinel(a.group[q], n) THEN NoSlot ELSE q * N + n

(* An iterator at slot p, which need not be occupied any more, moves to    *)
(* the next occupied slot of its group or of a later one; the sentinel     *)
(* makes it end().                                                         *)
increment(a, p) ==
  LET g    == p \div N
      rest == {n \in match_occupied(a.group[g]) : n > p % N}
      q    == IF rest # {} THEN g ELSE Min({o \in Groups(a) : o > g /\ match_occupied(a.group[o]) # {}})
      n    == IF rest # {} THEN Min(rest) ELSE Min(match_occupied(a.group[q]))
  IN  IF is_sentinel(a.group[q], n) THEN NoSlot ELSE q * N + n

begin(a) ==
  IF a.elem = <<>> THEN NoSlot
  ELSE IF 0 \in match_occupied(a.group[0]) THEN 0 ELSE increment(a, 0)
=============================================================================
