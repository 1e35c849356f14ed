----------------------------- MODULE FlatSizes -----------------------------
(***************************************************************************)
(* The arithmetic of sizes in a flat table, for every number of elements   *)
(* up to a bound: load factors are floats, so counts above 2^FloatBits are *)
(* rounded; and elements and groups share one allocation counted in        *)
(* elements, in which the groups are aligned to their own size.  And the    *)
(* arithmetic of hashes: the mixer multiplies words to twice their width   *)
(* and folds the product, with or without a type that holds it.            *)
(***************************************************************************)
EXTENDS FlatArrays, Bitwise

CONSTANTS MaxCount, ElementSizes, BaseStep,
  HalfBits      \* half the width of the words that mulx64 multiplies (32 in the code)

VARIABLE n

Init == n = 0
Next == n < MaxCount /\ n' = n + 1
Spec == Init /\ [][Next]_n

GroupSize == N + 1

buffer_size(groups, element) ==
  LET bytes == element * (groups * N - 1) + GroupSize * (groups + 1) - 1
  IN  (bytes + element - 1) \div element

(* Where the groups begin in a block that begins at base.                  *)
groups_at(base, groups, element) ==
  LET p == base + element * (groups * N - 1)
  IN  p + ((GroupSize - (p % GroupSize)) % GroupSize)

Half == Pow2[HalfBits]
Full == Half * Half

(* With __uint128_t.                                                       *)
mulx64(x, y) == ((x * y) % Full) ^^ ((x * y) \div Full)

\* Mutant: the carry out of the middle is lost.
mulx64_uncarried(x, y) ==
  LET r2a == (x % Half) * (y \div Half)
      r2b == (x \div Half) * (y % Half)
      r1  == (x % Half) * (y % Half)
      r2  == (r1 \div Half) + (r2a % Half) + (r2b % Half)
      r3  == (x \div Half) * (y \div Half) + (r2a \div Half) + (r2b \div Half)
  IN  (((r2 * Half) % Full) + (r1 % Half)) ^^ r3

(* Without: four products of halves; no sum of them exceeds a word.         *)
mulx64_by_halves(x, y) ==
  LET r2a == (x % Half) * (y \div Half)
      r2b == (x \div Half) * (y % Half)
      r1  == (x % Half) * (y % Half)
      r2  == (r1 \div Half) + (r2a % Half) + (r2b % Half)
      r3  == ((x \div Half) * (y \div Half) + (r2a \div Half) + (r2b \div Half) + (r2 \div Half)) % Full
  IN  ((((r2 * Half) % Full) + (r1 % Half)) % Full) ^^ r3

(***************************************************************************)
(* reserve(n) makes room for n elements, and a table of n elements that    *)
(* grows gets room for one more, although n is rounded on the way.         *)
(***************************************************************************)
ReserveSuffices == max_load_for(capacity_for(CeilLoad(n))) >= n
GrowthSuffices  == max_load_for(capacity_for(GrowthFor(n))) > n

(* A table at its maximum load has a free slot left for the next probe,    *)
(* unless it has two groups only, which may be full.                       *)
LoadBelowCapacity ==
  LET c == capacity_for(n) IN c > 2 * N - 1 => max_load_for(c) < c

(* Wherever the allocator puts the block, the groups are aligned, behind   *)
(* the elements and inside it.                                             *)
BufferFits ==
  \A element \in ElementSizes : \A base \in {element * b : b \in 0..BaseStep} :
    LET groups == Pow2[size_log_for(n)]
        at == groups_at(base, groups, element)
    IN  /\ at % GroupSize = 0
        /\ at + groups * GroupSize <= base + element * buffer_size(groups, element)

(* Whatever is asked for, there is room for it.                            *)
SizesSuffice == ReserveSuffices /\ GrowthSuffices /\ LoadBelowCapacity /\ BufferFits

(* A hash is mixed to the same word in every 64-bit build: no carry of the  *)
(* partial products is lost, so the bits that choose groups are the same.  *)
MixesAlike ==
  n < Full => \A y \in 0..Full - 1 : mulx64_by_halves(n, y) = mulx64(n, y)
=============================================================================
