----------------------------- MODULE FlatProofs ------------------------------
(* The arrays of a flat table, for every number of slots in a group, hash    *)
(* function and number of groups: probing comes to every group, and arrays   *)
(* that are Good stay so and answer look-ups exactly.                        *)
EXTENDS FlatTables, NumberLemmas

-----------------------------------------------------------------------------
(* Probing.  The turns of a prober are triangular numbers apart, and these   *)
(* differ modulo a power of two as long as there are fewer turns than that.  *)

LEMMA Pow2Doubles == Doubling(Pow2)
  BY DoublingExists DEF Pow2, Doubling

LEMMA Pow2Is ==
    /\ \A n \in Nat : Pow2[n] \in Nat \ {0}
    /\ Pow2[0] = 1
    /\ \A n \in Nat : Pow2[n + 1] = 2 * Pow2[n]
  BY Pow2Doubles, DoublingIs

\* An odd factor does not help a number to be divided by a power of two.
LEMMA OddFactor ==
    ASSUME NEW n \in Nat
    PROVE  \A u, x, q \in Nat : (2 * u + 1) * x = Pow2[n] * q => \E r \in Nat : x = Pow2[n] * r
<1> DEFINE Holds(k) == \A u, x, q \in Nat :
                         (2 * u + 1) * x = Pow2[k] * q => \E r \in Nat : x = Pow2[k] * r
           T == {k \in Nat : ~ Holds(k)}
<1>1. Holds(0)
  <2> SUFFICES ASSUME NEW x \in Nat PROVE \E r \in Nat : x = Pow2[0] * r
    OBVIOUS
  <2>1. x = Pow2[0] * x
    BY Pow2Is
  <2> QED BY <2>1
<1>2. ASSUME NEW k \in Nat, Holds(k) PROVE Holds(k + 1)
  <2> SUFFICES ASSUME NEW u \in Nat, NEW x \in Nat, NEW q \in Nat,
                      (2 * u + 1) * x = Pow2[k + 1] * q
               PROVE  \E r \in Nat : x = Pow2[k + 1] * r
    OBVIOUS
  <2> DEFINE P == Pow2[k]
  <2>1. P \in Nat \ {0} /\ Pow2[k + 1] = 2 * P
    BY Pow2Is
  <2> HIDE DEF P
  <2>2. PICK y \in Nat : x = 2 * y
    <3>1. x = 2 * (P * q - u * x)
      <4>1. u * x \in Int /\ P * q \in Int /\ (2 * u + 1) * x = 2 * (u * x) + x /\ (2 * P) * q = 2 * (P * q)
        BY <2>1
      <4> QED BY <2>1, <4>1
    <3>2. P * q - u * x \in Int
      BY <2>1
    <3>3. P * q - u * x \in Nat
      BY <3>1, <3>2
    <3> QED BY <3>1, <3>3
  <2>3. (2 * u + 1) * y = P * q
    <3>1. (2 * u + 1) * (2 * y) = 2 * ((2 * u + 1) * y) /\ (2 * P) * q = 2 * (P * q)
      BY <2>1
    <3>2. (2 * u + 1) * y \in Int /\ P * q \in Int
      BY <2>1
    <3> QED BY <2>1, <2>2, <3>1, <3>2
  <2>4. PICK r \in Nat : y = P * r
    BY <1>2, <2>3 DEF P
  <2>5. x = (2 * P) * r
    BY <2>1, <2>2, <2>4
  <2> QED BY <2>1, <2>5
<1>3. T = {}
  <2> HIDE DEF Holds
  <2> SUFFICES ASSUME T # {} PROVE FALSE
    OBVIOUS
  <2>1. PICK k \in T : \A j \in T : k <= j
    BY LeastNatural
  <2>2. k # 0
    BY <1>1, <2>1
  <2>3. k - 1 \in Nat /\ k - 1 \notin T /\ (k - 1) + 1 = k
    BY <2>1, <2>2
  <2> QED BY <1>2, <2>1, <2>3
<1>4. Holds(n)
  <2> HIDE DEF Holds
  <2> QED BY <1>3
<1> QED BY <1>4

Triangle(i) == (i * (i + 1)) \div 2

LEMMA TriangleIs ==
    ASSUME NEW i \in Nat
    PROVE  Triangle(i) \in Nat /\ 2 * Triangle(i) = i * (i + 1)
<1> DEFINE Whole(k) == Triangle(k) \in Nat /\ 2 * Triangle(k) = k * (k + 1)
           T == {k \in Nat : ~ Whole(k)}
<1>1. Whole(0)
  BY DEF Triangle
<1>2. ASSUME NEW k \in Nat, Whole(k) PROVE Whole(k + 1)
  <2>1. Triangle(k) \in Nat /\ 2 * Triangle(k) = k * (k + 1)
    BY <1>2
  <2>2. (k + 1) * ((k + 1) + 1) = k * (k + 1) + 2 * (k + 1)
    OBVIOUS
  <2> DEFINE t == Triangle(k) + (k + 1)
  <2>3. t \in Nat /\ (k + 1) * ((k + 1) + 1) = 2 * t
    BY <2>1, <2>2
  <2> HIDE DEF t
  <2>4. (2 * t) \div 2 = t
    BY <2>3
  <2> QED BY <2>3, <2>4 DEF Triangle
<1>3. T = {}
  <2> HIDE DEF Whole
  <2> SUFFICES ASSUME T # {} PROVE FALSE
    OBVIOUS
  <2>1. PICK k \in T : \A j \in T : k <= j
    BY LeastNatural
  <2>2. k # 0
    BY <1>1, <2>1
  <2>3. k - 1 \in Nat /\ k - 1 \notin T /\ (k - 1) + 1 = k
    BY <2>1, <2>2
  <2> QED BY <1>2, <2>1, <2>3
<1>4. Whole(i)
  <2> HIDE DEF Whole
  <2> QED BY <1>3
<1> QED BY <1>4

LEMMA TurnsDiffer ==
    ASSUME NEW n \in Nat, NEW c \in Nat,
           NEW i \in 0 .. Pow2[n] - 1, NEW j \in 0 .. Pow2[n] - 1, i < j
    PROVE  (c + Triangle(i)) % Pow2[n] # (c + Triangle(j)) % Pow2[n]
<1> DEFINE M == Pow2[n]
<1>1. M \in Nat \ {0} /\ Pow2[n + 1] = 2 * M /\ i \in Nat /\ j \in Nat /\ i < M /\ j < M
  BY Pow2Is
<1>2. /\ Triangle(i) \in Nat /\ 2 * Triangle(i) = i * (i + 1)
      /\ Triangle(j) \in Nat /\ 2 * Triangle(j) = j * (j + 1)
  BY <1>1, TriangleIs
<1> SUFFICES ASSUME (c + Triangle(i)) % M = (c + Triangle(j)) % M
             PROVE  FALSE
  OBVIOUS
<1> HIDE DEF M
<1> DEFINE x == c + Triangle(i)
           y == c + Triangle(j)
<1>3. x \in Nat /\ y \in Nat /\ x % M = y % M /\ 2 * (y - x) = j * (j + 1) - i * (i + 1)
  <2>1. x \in Nat /\ y \in Nat
    BY <1>2
  <2>2. 2 * (y - x) = 2 * Triangle(j) - 2 * Triangle(i)
    BY <1>2
  <2>3. 2 * (y - x) = j * (j + 1) - i * (i + 1)
    BY <1>2, <2>2
  <2>4. x % M = y % M
    OBVIOUS
  <2> QED BY <2>1, <2>3, <2>4
<1>4. j * (j + 1) - i * (i + 1) = (j - i) * (i + j + 1)
  BY <1>1
<1>5. (j - i) * (i + j + 1) \in Nat
  <2>1. j - i \in Nat /\ i + j + 1 \in Nat
    BY <1>1
  <2> QED BY <2>1
<1> HIDE DEF x, y
<1>6. PICK q \in Nat : y - x = M * q
  <2> DEFINE q == (y \div M) - (x \div M)
  <2>1. /\ x = M * (x \div M) + (x % M) /\ x \div M \in Int
        /\ y = M * (y \div M) + (y % M) /\ y \div M \in Int
    BY <1>1, <1>3
  <2>2. y - x = M * q /\ q \in Int
    BY <1>1, <1>3, <2>1
  <2>3. y - x \in Nat
    BY <1>3, <1>4, <1>5
  <2> HIDE DEF q
  <2>4. q \in Nat
    BY <1>1, <2>2, <2>3
  <2> QED BY <2>2, <2>4
<1>7. (j - i) * (i + j + 1) = Pow2[n + 1] * q
  <2>1. 2 * (M * q) = (2 * M) * q
    BY <1>1
  <2> QED BY <1>1, <1>3, <1>4, <1>6, <2>1
<1>8. (j - i) % 2 = 1 \/ (j - i) % 2 = 0
  BY <1>1
<1>9. n + 1 \in Nat /\ i + j + 1 \in Nat /\ j - i \in Nat
  BY <1>1
<1>10. \A u, x1, q1 \in Nat :
         (2 * u + 1) * x1 = Pow2[n + 1] * q1 => \E r \in Nat : x1 = Pow2[n + 1] * r
  BY <1>9, OddFactor
<1>11. CASE (j - i) % 2 = 1
  <2> DEFINE u == (j - i) \div 2
  <2>1. u \in Nat /\ j - i = 2 * u + 1
    BY <1>9, <1>11
  <2> HIDE DEF u
  <2>2. (2 * u + 1) * (i + j + 1) = Pow2[n + 1] * q
    BY <1>7, <2>1
  <2>3. PICK r \in Nat : i + j + 1 = Pow2[n + 1] * r
    <3> DEFINE d == i + j + 1
    <3>1. d \in Nat /\ (2 * u + 1) * d = Pow2[n + 1] * q
      BY <1>9, <2>2
    <3> HIDE DEF d
    <3>2. \E r \in Nat : d = Pow2[n + 1] * r
      BY ONLY <1>10, <2>1, <3>1, q \in Nat
    <3> QED BY <3>2 DEF d
  <2>4. i + j + 1 = (2 * M) * r
    BY <1>1, <2>3
  <2>5. r # 0
    BY <1>1, <2>4
  <2>6. (2 * M) * r >= 2 * M
    BY <1>1, <2>5
  <2> QED BY <1>1, <2>4, <2>6
<1>12. CASE (j - i) % 2 = 0
  <2> DEFINE u == (i + j + 1) \div 2
  <2>1. u \in Nat /\ i + j + 1 = 2 * u + 1
    <3>1. j - i = 2 * ((j - i) \div 2) /\ (j - i) \div 2 \in Int
      BY <1>9, <1>12
    <3>2. i + j + 1 = 2 * (((j - i) \div 2) + i) + 1
      BY <1>1, <3>1
    <3> QED BY <1>9, <3>1, <3>2
  <2> HIDE DEF u
  <2>2. (2 * u + 1) * (j - i) = Pow2[n + 1] * q
    <3>1. (i + j + 1) * (j - i) = (j - i) * (i + j + 1)
      BY <1>9
    <3> QED BY <1>7, <2>1, <3>1
  <2>3. PICK r \in Nat : j - i = Pow2[n + 1] * r
    <3> DEFINE d == j - i
    <3>1. d \in Nat /\ (2 * u + 1) * d = Pow2[n + 1] * q
      BY <1>9, <2>2
    <3> HIDE DEF d
    <3>2. \E r \in Nat : d = Pow2[n + 1] * r
      BY ONLY <1>10, <2>1, <3>1, q \in Nat
    <3> QED BY <3>2 DEF d
  <2>4. j - i = (2 * M) * r
    BY <1>1, <2>3
  <2>5. r # 0
    BY <1>1, <2>4
  <2>6. (2 * M) * r >= 2 * M
    BY <1>1, <2>5
  <2> QED BY <1>1, <2>4, <2>6
<1> QED BY <1>8, <1>11, <1>12

\* So as many turns as there are groups come to all of them.
LEMMA TurnsCover ==
    ASSUME NEW n \in Nat, NEW c \in Nat, NEW g \in 0 .. Pow2[n] - 1
    PROVE  \E i \in 0 .. Pow2[n] - 1 : (c + Triangle(i)) % Pow2[n] = g
<1> DEFINE M == Pow2[n]
           S == 0 .. M - 1
           f == [i \in S |-> (c + Triangle(i)) % M]
<1>1. M \in Nat \ {0}
  BY Pow2Is
<1>2. f \in [S -> S]
  <2> SUFFICES ASSUME NEW i \in S PROVE (c + Triangle(i)) % M \in S
    OBVIOUS
  <2>1. c + Triangle(i) \in Nat
    <3>1. i \in Nat
      BY <1>1
    <3>2. Triangle(i) \in Nat
      BY <3>1, TriangleIs
    <3> QED BY <3>2
  <2> HIDE DEF M
  <2> QED BY <1>1, <2>1
<1>3. \A i, j \in S : f[i] = f[j] => i = j
  <2> SUFFICES ASSUME NEW i \in S, NEW j \in S, i # j PROVE f[i] # f[j]
    OBVIOUS
  <2>1. i < j \/ j < i
    BY <1>1
  <2>2. i < j => f[i] # f[j]
    BY TurnsDiffer
  <2>3. j < i => f[i] # f[j]
    BY TurnsDiffer
  <2> QED BY <2>1, <2>2, <2>3
<1>4. IsFiniteSet(S)
  BY <1>1, FirstNumbers
<1> HIDE DEF S, f
<1>5. f \in Injection(S, S)
  BY <1>2, <1>3 DEF Injection, IsInjective
<1>6. f \in Surjection(S, S)
  BY <1>4, <1>5, FS_Injection
<1>7. \A h \in S : \E i \in S : f[i] = h
  BY <1>6 DEF Surjection
<1> QED BY <1>7 DEF S, f

-----------------------------------------------------------------------------
(* The arrays.                                                               *)

Elem == [key : Key, value : Value]
GroupType == [byte : [SlotNo -> 0 .. 255], over : SUBSET (0 .. 7)]
Slots(a) == 0 .. (Pow2[a.log] * N - 2)

Shaped(a) ==
    /\ a.log \in 0 .. HashBits
    /\ a = [al |-> a.al, log |-> a.log, group |-> a.group, elem |-> a.elem]
    /\ a.group \in [Groups(a) -> GroupType]
    /\ a.elem \in [Slots(a) -> Elem \cup {NoElement}]

\* Group and place of a slot.
GroupOf(p) == p \div N
PlaceOf(p) == p % N

LEMMA SlotSplits ==
    ASSUME NEW M \in Nat \ {0}, NEW p \in 0 .. (M * N - 2)
    PROVE  /\ p \div N \in 0 .. M - 1 /\ p % N \in SlotNo
           /\ p = (p \div N) * N + (p % N)
           /\ ~ (p \div N = M - 1 /\ p % N = N - 1)
<1> DEFINE g == p \div N
           n == p % N
<1>1. N \in Nat \ {0} /\ p \in Nat /\ p + 2 <= M * N
  <2>1. N \in Nat \ {0} /\ M * N \in Nat
    BY SlotsAssumption
  <2> QED BY <2>1
<1>2. g \in Nat /\ n \in 0 .. N - 1 /\ p = g * N + n
  BY <1>1
<1> HIDE DEF g, n
<1>3. g <= M - 1
  <2> SUFFICES ASSUME g >= M PROVE FALSE
    BY <1>2
  <2>1. g * N >= M * N
    BY <1>1, <1>2
  <2>2. g * N \in Nat /\ M * N \in Nat
    BY <1>1, <1>2
  <2> QED BY <1>1, <1>2, <2>1, <2>2
<1>4. ~ (g = M - 1 /\ n = N - 1)
  <2> SUFFICES ASSUME g = M - 1, n = N - 1 PROVE FALSE
    OBVIOUS
  <2>1. (M - 1) * N = M * N - N /\ M * N \in Nat
    BY <1>1
  <2> QED BY <1>1, <1>2, <2>1
<1>5. g \in 0 .. M - 1
  BY <1>2, <1>3
<1> QED BY <1>2, <1>4, <1>5 DEF g, n, SlotNo

LEMMA SlotAt ==
    ASSUME NEW M \in Nat \ {0}, NEW g \in 0 .. M - 1, NEW n \in SlotNo
    PROVE  /\ (g * N + n) \div N = g /\ (g * N + n) % N = n
           /\ ~ (g = M - 1 /\ n = N - 1) => g * N + n \in 0 .. (M * N - 2)
<1>1. N \in Nat \ {0} /\ n \in 0 .. N - 1 /\ g \in Nat
  BY SlotsAssumption DEF SlotNo
<1>2. (g * N + n) \div N = g /\ (g * N + n) % N = n
  BY <1>1
<1>3. g * N \in Nat /\ M * N \in Nat
  BY <1>1
<1>4. ASSUME ~ (g = M - 1 /\ n = N - 1) PROVE g * N + n <= M * N - 2
  <2>1. CASE g = M - 1
    <3>1. g * N = M * N - N
      BY <1>1, <2>1
    <3>2. n <= N - 2
      BY <1>1, <1>4, <2>1
    <3> QED BY <1>1, <1>3, <3>1, <3>2
  <2>2. CASE g <= M - 2
    <3>1. g * N <= (M - 2) * N /\ (M - 2) * N = M * N - 2 * N
      BY <1>1, <2>2
    <3>2. n <= N - 1 /\ N >= 1
      BY <1>1
    <3>3. g * N <= M * N - 2 * N
      BY <3>1
    <3> QED BY <1>1, <1>3, <3>2, <3>3
  <2> QED BY <1>1, <2>1, <2>2
<1> QED BY <1>1, <1>2, <1>3, <1>4

LEMMA ReducedType ==
    ASSUME NEW hash \in Nat
    PROVE  reduced_hash(hash) \in 2 .. 255 /\ hash % 8 \in 0 .. 7
  BY DEF reduced_hash

LEMMA HashType ==
    ASSUME NEW h \in Hasher, NEW k \in Key
    PROVE  HashOf[h][k] \in Nat
<1>1. HashBits \in Nat /\ HashOf[h][k] \in 0 .. Pow2[HashBits] - 1
  BY HashAssumption, HashBitsAssumption
<1>2. Pow2[HashBits] \in Nat
  BY <1>1, Pow2Is
<1> QED BY <1>1, <1>2

LEMMA ShapedIs ==
    ASSUME NEW a, Shaped(a)
    PROVE  /\ a.log \in Nat /\ HashBits - a.log \in Nat
           /\ Pow2[a.log] \in Nat \ {0} /\ Pow2[HashBits - a.log] \in Nat \ {0}
           /\ Groups(a) = 0 .. Pow2[a.log] - 1
           /\ \A p \in Slots(a) : GroupOf(p) \in Groups(a) /\ PlaceOf(p) \in SlotNo
<1>1. a.log \in Nat /\ HashBits \in Nat /\ HashBits - a.log \in Nat
  BY HashBitsAssumption DEF Shaped
<1>2. Pow2[a.log] \in Nat \ {0} /\ Pow2[HashBits - a.log] \in Nat \ {0}
  BY <1>1, Pow2Is
<1>3. \A p \in Slots(a) : GroupOf(p) \in 0 .. Pow2[a.log] - 1 /\ PlaceOf(p) \in SlotNo
  BY <1>2, SlotSplits DEF Slots, GroupOf, PlaceOf
<1> QED BY <1>1, <1>2, <1>3 DEF Groups

\* The quadratic prober, from any start, comes to every group before it gives up, so a
\* look-up that follows overflow bits and an insertion that needs room miss none.
THEOREM ProbingVisitsAll ==
    ASSUME NEW a, Shaped(a), NEW hash \in Nat
    PROVE  /\ \A i \in Groups(a) : probe(a, hash, i) \in Groups(a)
           /\ \A g \in Groups(a) : \E i \in Groups(a) : probe(a, hash, i) = g
<1> DEFINE M == Pow2[a.log]
           c == hash \div Pow2[HashBits - a.log]
<1>1. M \in Nat \ {0} /\ Groups(a) = 0 .. M - 1 /\ a.log \in Nat
  BY ShapedIs
<1>2. c \in Nat
  <2>1. Pow2[HashBits - a.log] \in Nat \ {0}
    BY ShapedIs
  <2> QED BY <2>1
<1>3. \A i : probe(a, hash, i) = (c + Triangle(i)) % M
  BY DEF probe, position, Triangle
<1> HIDE DEF c
<1>4. ASSUME NEW i \in Groups(a) PROVE probe(a, hash, i) \in Groups(a)
  <2>1. Triangle(i) \in Nat
    <3>1. i \in Nat
      BY <1>1
    <3> QED BY <3>1, TriangleIs
  <2>2. c + Triangle(i) \in Nat
    BY <1>2, <2>1
  <2> HIDE DEF M
  <2>3. (c + Triangle(i)) % M \in 0 .. M - 1
    BY <1>1, <2>2
  <2> QED BY <1>1, <1>3, <2>3
<1>5. ASSUME NEW g \in Groups(a) PROVE \E i \in Groups(a) : probe(a, hash, i) = g
  <2>1. \E i \in 0 .. M - 1 : (c + Triangle(i)) % M = g
    BY <1>1, <1>2, TurnsCover
  <2> QED BY <1>1, <1>3, <2>1
<1> QED BY <1>4, <1>5

\* Min chooses a least number.
LEMMA MinIs ==
    ASSUME NEW S \in SUBSET Nat, S # {}
    PROVE  Min(S) \in S /\ \A x \in S : Min(S) <= x
<1>1. \E m \in S : \A x \in S : m <= x
  BY LeastNatural
<1> QED BY <1>1 DEF Min

\* An insertion into arrays with room finds it, after turns that found none.
LEMMA TurnIs ==
    ASSUME NEW a, Shaped(a), HasRoom(a), NEW hash \in Nat
    PROVE  LET i == turn_with_room(a, hash)
           IN  /\ i \in Groups(a)
               /\ match_available(a.group[probe(a, hash, i)]) # {}
               /\ \A j \in 0 .. i - 1 : match_available(a.group[probe(a, hash, j)]) = {}
<1> DEFINE S == {i \in Groups(a) : match_available(a.group[probe(a, hash, i)]) # {}}
           i == turn_with_room(a, hash)
<1>1. PICK g \in Groups(a) : match_available(a.group[g]) # {}
  BY DEF HasRoom
<1>2. PICK j \in Groups(a) : probe(a, hash, j) = g
  BY ProbingVisitsAll
<1>3. S # {}
  BY <1>1, <1>2
<1>4. Groups(a) = 0 .. Pow2[a.log] - 1 /\ Pow2[a.log] \in Nat
  BY ShapedIs
<1>5. S \in SUBSET Nat
  BY <1>4
<1>6. i \in S /\ \A x \in S : i <= x
  <2>1. i = Min(S)
    BY DEF turn_with_room
  <2> HIDE DEF S, i
  <2> QED BY <1>3, <1>5, <2>1, MinIs
<1> HIDE DEF i
<1>7. ASSUME NEW k \in 0 .. i - 1 PROVE match_available(a.group[probe(a, hash, k)]) = {}
  <2>1. i \in 0 .. Pow2[a.log] - 1
    BY <1>4, <1>6
  <2>2. k \in Groups(a) /\ ~ (i <= k)
    BY <1>4, <2>1
  <2> QED BY <1>6, <2>2
<1> QED BY <1>6, <1>7 DEF i

-----------------------------------------------------------------------------
(* Good arrays.  The metadata tell the truth, a look-up for the key of an    *)
(* element comes to its group, and no key is there twice.                    *)

ByteIn(a, p) == a.group[GroupOf(p)].byte[PlaceOf(p)]

MetaTrue(a, h) ==
    /\ \A p \in Slots(a) :
         ByteIn(a, p) = IF a.elem[p] = NoElement THEN 0 ELSE reduced_hash(HashOf[h][a.elem[p].key])
    /\ a.group[Pow2[a.log] - 1].byte[N - 1] = 1

OnWay(a, h) ==
    \A p \in Slots(a) : a.elem[p] # NoElement =>
      \E i \in reached(a, HashOf[h][a.elem[p].key]) :
        probe(a, HashOf[h][a.elem[p].key], i) = GroupOf(p)

KeysOnce(a) ==
    \A p, q \in Slots(a) :
      a.elem[p] # NoElement /\ a.elem[q] # NoElement /\ a.elem[p].key = a.elem[q].key => p = q

Good(a, h) == Shaped(a) /\ MetaTrue(a, h) /\ OnWay(a, h) /\ KeysOnce(a)

Occupied(a) == {p \in Slots(a) : a.elem[p] # NoElement}
With(f, x, v) == [f EXCEPT ![x] = v]
Lacks(a, k) == \A p \in Slots(a) : a.elem[p] # NoElement => a.elem[p].key # k

LEMMA ElementIs ==
    ASSUME NEW a, Shaped(a), NEW p \in Slots(a), a.elem[p] # NoElement
    PROVE  a.elem[p] \in Elem /\ a.elem[p].key \in Key
  BY DEF Shaped, Elem

LEMMA SlotIs ==
    ASSUME NEW a, Shaped(a), NEW g \in Groups(a), NEW n \in SlotNo
    PROVE  /\ GroupOf(g * N + n) = g /\ PlaceOf(g * N + n) = n
           /\ ~ (g = Pow2[a.log] - 1 /\ n = N - 1) => g * N + n \in Slots(a)
  BY ShapedIs, SlotAt DEF GroupOf, PlaceOf, Slots

LEMMA SlotHas ==
    ASSUME NEW a, Shaped(a), NEW p \in Slots(a)
    PROVE  /\ p = GroupOf(p) * N + PlaceOf(p)
           /\ ~ (GroupOf(p) = Pow2[a.log] - 1 /\ PlaceOf(p) = N - 1)
  BY ShapedIs, SlotSplits DEF GroupOf, PlaceOf, Slots

\* New arrays are Good.
LEMMA FreshGood ==
    ASSUME NEW al, NEW log \in 0 .. HashBits, NEW h
    PROVE  /\ Good(set_arrays(al, log), h)
           /\ Occupied(set_arrays(al, log)) = {}
<1> DEFINE a == set_arrays(al, log)
           M == Pow2[log]
<1>1. M \in Nat \ {0} /\ log \in Nat /\ N \in Nat \ {0} /\ M - 1 \in 0 .. M - 1 /\ N - 1 \in SlotNo
  <2>1. log \in Nat /\ N \in Nat \ {0}
    BY HashBitsAssumption, SlotsAssumption
  <2>2. M \in Nat \ {0}
    BY <2>1, Pow2Is
  <2> QED BY <2>1, <2>2 DEF SlotNo
<1>2. /\ a.log = log /\ a.al = al
      /\ a.group = [g \in 0 .. M - 1 |-> IF g = M - 1 THEN set_sentinel(initialize) ELSE initialize]
      /\ a.elem = [p \in 0 .. (M * N - 2) |-> NoElement]
      /\ a = [al |-> a.al, log |-> a.log, group |-> a.group, elem |-> a.elem]
      /\ Groups(a) = 0 .. M - 1 /\ Slots(a) = 0 .. (M * N - 2)
  BY DEF set_arrays, Groups, Slots
<1>3. initialize \in GroupType /\ initialize.byte = [n \in SlotNo |-> 0]
  BY DEF initialize, GroupType, available_
<1>4. /\ set_sentinel(initialize) \in GroupType
      /\ set_sentinel(initialize).byte = [n \in SlotNo |-> IF n = N - 1 THEN 1 ELSE 0]
  BY <1>1, <1>3 DEF set_sentinel, sentinel_, GroupType
<1> HIDE DEF a, M
<1>5. Shaped(a)
  <2>1. a.group \in [0 .. M - 1 -> GroupType]
    BY <1>2, <1>3, <1>4
  <2>2. a.elem \in [0 .. (M * N - 2) -> Elem \cup {NoElement}]
    BY <1>2
  <2> QED BY <1>2, <2>1, <2>2 DEF Shaped
<1>6. \A p \in Slots(a) : a.elem[p] = NoElement
  BY <1>2
<1>7. MetaTrue(a, h)
  <2>1. a.group[M - 1].byte[N - 1] = 1
    BY <1>1, <1>2, <1>4
  <2>2. ASSUME NEW p \in Slots(a) PROVE ByteIn(a, p) = 0
    <3>1. GroupOf(p) \in 0 .. M - 1 /\ PlaceOf(p) \in SlotNo /\ ~ (GroupOf(p) = M - 1 /\ PlaceOf(p) = N - 1)
      BY <1>2, <1>5, ShapedIs, SlotHas DEF M
    <3> QED BY <1>2, <1>3, <1>4, <3>1 DEF ByteIn
  <2> QED BY <1>2, <1>6, <2>1, <2>2 DEF MetaTrue, M
<1>8. OnWay(a, h) /\ KeysOnce(a) /\ Occupied(a) = {}
  BY <1>6 DEF OnWay, KeysOnce, Occupied
<1> QED BY <1>5, <1>7, <1>8 DEF Good, a

\* What a byte says.
Tells(a, h, g, n) ==
    LET byte == a.group[g].byte[n]
        p == g * N + n
    IN  /\ byte # 1 => p \in Slots(a)
        /\ byte = 0 => a.elem[p] = NoElement
        /\ byte \in 2 .. 255 => a.elem[p] # NoElement /\ byte = reduced_hash(HashOf[h][a.elem[p].key])
        /\ byte = 1 => g = Pow2[a.log] - 1 /\ n = N - 1

LEMMA ByteTells ==
    ASSUME NEW h \in Hasher, NEW a, Shaped(a), MetaTrue(a, h), NEW g \in Groups(a), NEW n \in SlotNo
    PROVE  Tells(a, h, g, n)
<1> DEFINE byte == a.group[g].byte[n]
           p == g * N + n
<1>1. a.group[Pow2[a.log] - 1].byte[N - 1] = 1
  BY DEF MetaTrue
<1>2. byte # 1 => p \in Slots(a)
  BY <1>1, SlotIs
<1>3. p \in Slots(a) => byte = ByteIn(a, p)
  BY SlotIs DEF ByteIn
<1> DEFINE reduced == reduced_hash(HashOf[h][a.elem[p].key])
<1>4. p \in Slots(a) => byte = IF a.elem[p] = NoElement THEN 0 ELSE reduced
  BY <1>3 DEF MetaTrue
<1>5. p \in Slots(a) /\ a.elem[p] # NoElement => reduced \in 2 .. 255
  BY ElementIs, HashType, ReducedType
<1> HIDE DEF byte, p, reduced
<1>6. byte = 0 => a.elem[p] = NoElement
  BY ONLY <1>2, <1>4, <1>5
<1>7. byte \in 2 .. 255 => a.elem[p] # NoElement /\ byte = reduced
  BY ONLY <1>2, <1>4, <1>5
<1>8. byte = 1 => p \notin Slots(a)
  BY ONLY <1>4, <1>5
<1>9. p \notin Slots(a) => g = Pow2[a.log] - 1 /\ n = N - 1
  BY SlotIs DEF p
<1> QED BY <1>2, <1>6, <1>7, <1>8, <1>9 DEF byte, p, reduced, Tells

\* A look-up in Good arrays finds the element with the key, and nothing if there is none.
LEMMA FindGood ==
    ASSUME NEW h \in Hasher, NEW a, Good(a, h), NEW k \in Key
    PROVE  /\ \A p \in Slots(a) : a.elem[p] # NoElement /\ a.elem[p].key = k =>
                find(a, HashOf[h][k], k) = p
           /\ (\A p \in Slots(a) : a.elem[p] # NoElement => a.elem[p].key # k) =>
                find(a, HashOf[h][k], k) = NoSlot
<1> DEFINE hash == HashOf[h][k]
           At(i, n) == probe(a, hash, i) * N + n
           hits == {x \in reached(a, hash) \X SlotNo :
                     /\ x[2] \in match(a.group[probe(a, hash, x[1])], hash)
                     /\ a.elem[At(x[1], x[2])].key = k}
           first == CHOOSE x \in hits : \A o \in hits : x[1] * N + x[2] <= o[1] * N + o[2]
<1>1. find(a, hash, k) = IF hits = {} THEN NoSlot ELSE At(first[1], first[2])
  BY DEF find
<1>2. hash \in Nat /\ reduced_hash(hash) \in 2 .. 255
  BY HashType, ReducedType
<1>3. Shaped(a) /\ MetaTrue(a, h) /\ OnWay(a, h) /\ KeysOnce(a)
  BY DEF Good
<1>4. Groups(a) \in SUBSET Nat /\ SlotNo \in SUBSET Nat /\ N \in Nat
  <2>1. Groups(a) = 0 .. Pow2[a.log] - 1 /\ Pow2[a.log] \in Nat
    BY <1>3, ShapedIs
  <2> QED BY <2>1, SlotsAssumption DEF SlotNo
<1>5. reached(a, hash) \in SUBSET Groups(a)
  BY DEF reached
<1> HIDE DEF hash
<1>6. ASSUME NEW x \in hits
      PROVE  /\ x[1] * N + x[2] \in Nat
             /\ At(x[1], x[2]) \in Slots(a)
             /\ a.elem[At(x[1], x[2])] # NoElement /\ a.elem[At(x[1], x[2])].key = k
  <2>1. x[1] \in Groups(a) /\ x[2] \in SlotNo
    BY <1>5
  <2>2. probe(a, hash, x[1]) \in Groups(a)
    BY <1>2, <1>3, <2>1, ProbingVisitsAll
  <2>3. a.group[probe(a, hash, x[1])].byte[x[2]] = reduced_hash(hash)
    BY DEF match
  <2>4. At(x[1], x[2]) \in Slots(a) /\ a.elem[At(x[1], x[2])] # NoElement
    <3> DEFINE g == probe(a, hash, x[1])
    <3>1. a.group[g].byte[x[2]] \in 2 .. 255 /\ a.group[g].byte[x[2]] # 1
      BY <1>2, <2>3
    <3> HIDE DEF g
    <3>2. g * N + x[2] \in Slots(a) /\ a.elem[g * N + x[2]] # NoElement
      <4>1. Tells(a, h, g, x[2])
        BY <1>3, <2>1, <2>2, ByteTells DEF g
      <4> QED BY ONLY <4>1, <3>1 DEF Tells
    <3> QED BY <3>2 DEF g
  <2>5. x[1] * N + x[2] \in Nat
    <3>1. \A g, n \in Nat : g * N + n \in Nat
      BY <1>4
    <3> QED BY <1>4, <2>1, <3>1
  <2> QED BY <2>4, <2>5
<1>7. ASSUME NEW p \in Slots(a), a.elem[p] # NoElement, a.elem[p].key = k
      PROVE  find(a, hash, k) = p
  <2>1. PICK i \in reached(a, hash) : probe(a, hash, i) = GroupOf(p)
    BY <1>3, <1>7 DEF OnWay, hash
  <2>2. PlaceOf(p) \in SlotNo /\ p = GroupOf(p) * N + PlaceOf(p)
    BY <1>3, ShapedIs, SlotHas
  <2>3. ByteIn(a, p) = reduced_hash(hash)
    BY <1>3, <1>7 DEF MetaTrue, hash
  <2>4. <<i, PlaceOf(p)>> \in hits
    BY <1>7, <2>1, <2>2, <2>3 DEF match, ByteIn
  <2> HIDE DEF hits
  <2>5. \A x \in hits : At(x[1], x[2]) = p
    BY <1>3, <1>6, <1>7 DEF KeysOnce
  <2>6. \E x \in hits : \A o \in hits : x[1] * N + x[2] <= o[1] * N + o[2]
    <3> DEFINE V == {x[1] * N + x[2] : x \in hits}
    <3>1. V \in SUBSET Nat /\ V # {}
      BY <1>6, <2>4
    <3>2. PICK v \in V : \A u \in V : v <= u
      BY <3>1, LeastNatural
    <3>3. PICK x \in hits : v = x[1] * N + x[2]
      OBVIOUS
    <3> QED BY <3>2, <3>3
  <2>7. first \in hits
    BY <2>6
  <2> HIDE DEF first
  <2> QED BY <1>1, <2>4, <2>5, <2>7
<1>8. ASSUME \A p \in Slots(a) : a.elem[p] # NoElement => a.elem[p].key # k
      PROVE  find(a, hash, k) = NoSlot
  <2>1. hits = {}
    <3> HIDE DEF hits
    <3> QED BY <1>6, <1>8
  <2> QED BY <1>1, <2>1
<1> QED BY <1>7, <1>8 DEF hash

\* Marking adds to the overflow bits and touches nothing else.
Marks(b, a) ==
    /\ b.log = a.log /\ b.al = a.al
    /\ \A g \in Groups(a) : a.group[g].over \subseteq b.group[g].over

\* Whoever was on the way of a look-up stays there.
LEMMA ReachedGrows ==
    ASSUME NEW a, NEW b, Marks(b, a), Shaped(a), NEW hash \in Nat
    PROVE  /\ reached(a, hash) \subseteq reached(b, hash)
           /\ \A i : probe(b, hash, i) = probe(a, hash, i)
<1>1. \A i : probe(b, hash, i) = probe(a, hash, i)
  BY DEF probe, position, Marks
<1>2. Groups(b) = Groups(a)
  BY DEF Groups, Marks
<1>3. Groups(a) = 0 .. Pow2[a.log] - 1 /\ Pow2[a.log] \in Nat
  BY ShapedIs
<1>4. ASSUME NEW i \in reached(a, hash) PROVE i \in reached(b, hash)
  <2>1. i \in Groups(a) /\ \A j \in 0 .. i - 1 : hash % 8 \in a.group[probe(a, hash, j)].over
    BY DEF reached, is_not_overflowed
  <2>2. ASSUME NEW j \in 0 .. i - 1 PROVE hash % 8 \in b.group[probe(b, hash, j)].over
    <3>1. j \in Groups(a)
      BY <1>3, <2>1
    <3>2. probe(a, hash, j) \in Groups(a)
      BY <3>1, ProbingVisitsAll
    <3> QED BY <1>1, <2>1, <3>2 DEF Marks
  <2> QED BY <1>2, <2>1, <2>2 DEF reached, is_not_overflowed
<1> QED BY <1>1, <1>4

LEMMA MarkedIs ==
    ASSUME NEW a, Shaped(a), HasRoom(a), NEW hash \in Nat
    PROVE  LET b == marked(a, hash)
               i == turn_with_room(a, hash)
           IN  /\ Shaped(b) /\ Marks(b, a) /\ b.elem = a.elem
               /\ \A g \in Groups(a) : b.group[g].byte = a.group[g].byte
               /\ \A j \in 0 .. i - 1 : hash % 8 \in b.group[probe(a, hash, j)].over
               /\ i \in reached(b, hash)
<1> DEFINE b == marked(a, hash)
           i == turn_with_room(a, hash)
           passed == {probe(a, hash, j) : j \in 0 .. i - 1}
<1>1. i \in Groups(a)
  BY TurnIs
<1>2. hash % 8 \in 0 .. 7
  OBVIOUS
<1>3. Groups(a) = 0 .. Pow2[a.log] - 1 /\ Pow2[a.log] \in Nat
  BY ShapedIs
<1>4. b = [a EXCEPT !.group = [g \in Groups(a) |->
             IF g \in passed THEN mark_overflow(a.group[g], hash) ELSE a.group[g]]]
  BY DEF marked
<1> HIDE DEF passed, i
<1>5. \A g \in Groups(a) : a.group[g] \in GroupType
  BY DEF Shaped
<1>6. ASSUME NEW g \in Groups(a)
      PROVE  /\ mark_overflow(a.group[g], hash) \in GroupType
             /\ mark_overflow(a.group[g], hash).byte = a.group[g].byte
             /\ mark_overflow(a.group[g], hash).over = a.group[g].over \cup {hash % 8}
  BY <1>2, <1>5 DEF mark_overflow, GroupType
<1>7. /\ b = [al |-> b.al, log |-> b.log, group |-> b.group, elem |-> b.elem]
      /\ b.al = a.al /\ b.log = a.log /\ b.elem = a.elem
      /\ b.group = [g \in Groups(a) |->
             IF g \in passed THEN mark_overflow(a.group[g], hash) ELSE a.group[g]]
  <2>1. a = [al |-> a.al, log |-> a.log, group |-> a.group, elem |-> a.elem]
    BY DEF Shaped
  <2> HIDE DEF b
  <2> QED BY <1>4, <2>1
<1> HIDE DEF b
<1>8. Groups(b) = Groups(a) /\ Slots(b) = Slots(a)
  BY <1>7 DEF Groups, Slots
<1>9. b.group \in [Groups(a) -> GroupType]
  BY <1>5, <1>6, <1>7
<1>10. Shaped(b)
  BY <1>7, <1>8, <1>9 DEF Shaped
<1>11. \A g \in Groups(a) : b.group[g].byte = a.group[g].byte /\ a.group[g].over \subseteq b.group[g].over
  BY <1>6, <1>7
<1>12. ASSUME NEW j \in 0 .. i - 1 PROVE hash % 8 \in b.group[probe(a, hash, j)].over
  <2>1. j \in Groups(a)
    BY <1>1, <1>3
  <2>2. probe(a, hash, j) \in Groups(a) /\ probe(a, hash, j) \in passed
    BY <2>1, ProbingVisitsAll DEF passed
  <2> QED BY <1>6, <1>7, <2>2
<1>13. i \in reached(b, hash)
  <2>1. \A j : probe(b, hash, j) = probe(a, hash, j)
    BY <1>7 DEF probe, position
  <2> QED BY <1>1, <1>8, <1>12, <2>1 DEF reached, is_not_overflowed
<1> QED BY <1>7, <1>10, <1>11, <1>12, <1>13 DEF Marks, b, i

\* Only slot q's byte and element change, and overflow bits are only added.
Changed(b, a, q, byte, e) ==
    /\ Shaped(b) /\ Marks(b, a) /\ q \in Slots(a)
    /\ b.elem = [a.elem EXCEPT ![q] = e]
    /\ \A g \in Groups(a), n \in SlotNo :
         b.group[g].byte[n] = IF g * N + n = q THEN byte ELSE a.group[g].byte[n]

\* c is a with at most more overflow bits.
Overflowed(c, a) ==
    /\ Shaped(a) /\ Shaped(c) /\ Marks(c, a) /\ c.elem = a.elem
    /\ \A g \in Groups(a) : c.group[g].byte = a.group[g].byte

Written(b, c, g, n, byte, e) ==
    b = [c EXCEPT !.group[g] = [@ EXCEPT !.byte[n] = byte], !.elem[g * N + n] = e]

\* b is c with a byte and an element written at a place that both have.
Writes(a, b, c, g, n, byte, e) ==
    /\ Overflowed(c, a) /\ Written(b, c, g, n, byte, e)
    /\ g \in Groups(a) /\ n \in SlotNo /\ g * N + n \in Slots(a)
    /\ byte \in 0 .. 255 /\ e \in Elem \cup {NoElement}

LEMMA ChangedIs ==
    ASSUME NEW a, NEW b, NEW c, NEW g0, NEW n0, NEW byte, NEW e,
           Writes(a, b, c, g0, n0, byte, e)
    PROVE  Changed(b, a, g0 * N + n0, byte, e) /\ \A g \in Groups(a) : b.group[g].over = c.group[g].over
<1> /\ Overflowed(c, a) /\ Written(b, c, g0, n0, byte, e)
    /\ g0 \in Groups(a) /\ n0 \in SlotNo /\ g0 * N + n0 \in Slots(a)
    /\ byte \in 0 .. 255 /\ e \in Elem \cup {NoElement}
  BY DEF Writes
<1> DEFINE q == g0 * N + n0
           new == [c.group[g0] EXCEPT !.byte[n0] = byte]
<1> USE DEF Overflowed
<1>1. /\ Groups(c) = Groups(a) /\ Slots(c) = Slots(a)
      /\ c.group \in [Groups(a) -> GroupType] /\ c.elem \in [Slots(a) -> Elem \cup {NoElement}]
  BY DEF Groups, Slots, Marks, Shaped
<1>2. /\ b = [al |-> b.al, log |-> b.log, group |-> b.group, elem |-> b.elem]
      /\ b.al = c.al /\ b.log = c.log
      /\ b.group = [c.group EXCEPT ![g0] = new]
      /\ b.elem = [c.elem EXCEPT ![q] = e]
  <2>1. c = [al |-> c.al, log |-> c.log, group |-> c.group, elem |-> c.elem]
    BY DEF Shaped
  <2> QED BY <2>1 DEF Written
<1>3. /\ new \in GroupType /\ new.over = c.group[g0].over
      /\ \A n \in SlotNo : new.byte[n] = IF n = n0 THEN byte ELSE c.group[g0].byte[n]
  <2>1. c.group[g0] \in GroupType
    BY <1>1
  <2> QED BY <2>1 DEF GroupType
<1> HIDE DEF new
<1>4. b.group \in [Groups(a) -> GroupType] /\ b.elem \in [Slots(a) -> Elem \cup {NoElement}]
  BY <1>1, <1>2, <1>3
<1>5. Groups(b) = Groups(a) /\ Slots(b) = Slots(a) /\ b.log = a.log /\ b.al = a.al
  BY <1>2 DEF Groups, Slots, Marks
<1>6. Shaped(b)
  BY <1>2, <1>4, <1>5 DEF Shaped
<1>7. \A g \in Groups(a) : b.group[g].over = c.group[g].over
  BY <1>1, <1>2, <1>3
<1>8. Marks(b, a)
  BY <1>5, <1>7 DEF Marks
<1>9. ASSUME NEW g \in Groups(a), NEW n \in SlotNo
      PROVE  b.group[g].byte[n] = IF g * N + n = q THEN byte ELSE a.group[g].byte[n]
  <2>1. g * N + n = q <=> g = g0 /\ n = n0
    <3>1. GroupOf(g * N + n) = g /\ PlaceOf(g * N + n) = n
      BY SlotIs
    <3>2. GroupOf(q) = g0 /\ PlaceOf(q) = n0
      BY SlotIs
    <3> QED BY <3>1, <3>2
  <2>2. CASE g = g0
    <3>1. b.group[g0] = new
      BY <1>1, <1>2
    <3>2. c.group[g0].byte[n] = a.group[g0].byte[n]
      OBVIOUS
    <3>3. b.group[g0].byte[n] = IF n = n0 THEN byte ELSE a.group[g0].byte[n]
      BY <1>3, <3>1, <3>2
    <3> QED BY <2>1, <2>2, <3>3
  <2>3. CASE g # g0
    <3>1. b.group[g] = c.group[g]
      BY <1>1, <1>2, <2>3
    <3> QED BY <2>1, <2>3, <3>1
  <2> QED BY <2>2, <2>3
<1>10. b.elem = [a.elem EXCEPT ![q] = e]
  BY <1>2
<1> QED BY <1>6, <1>7, <1>8, <1>9, <1>10 DEF Changed

\* One slot of Good arrays changes to what fits there: they stay Good.
LEMMA ChangedGood ==
    ASSUME NEW h \in Hasher, NEW a, Good(a, h), NEW b, NEW q, NEW byte,
           NEW e \in Elem \cup {NoElement}, Changed(b, a, q, byte, e),
           byte = IF e = NoElement THEN 0 ELSE reduced_hash(HashOf[h][e.key]),
           e # NoElement =>
             \A p \in Slots(a) : a.elem[p] # NoElement /\ a.elem[p].key = e.key => p = q,
           e # NoElement =>
             \E i \in reached(b, HashOf[h][e.key]) : probe(b, HashOf[h][e.key], i) = GroupOf(q)
    PROVE  Good(b, h)
<1>1. Shaped(a) /\ MetaTrue(a, h) /\ OnWay(a, h) /\ KeysOnce(a) /\ Shaped(b) /\ Marks(b, a) /\ q \in Slots(a)
  BY DEF Good, Changed
<1>2. Slots(b) = Slots(a) /\ Groups(b) = Groups(a) /\ b.log = a.log
  BY <1>1 DEF Marks, Slots, Groups
<1>3. \A p \in Slots(a) : b.elem[p] = IF p = q THEN e ELSE a.elem[p]
  <2>1. a.elem \in [Slots(a) -> Elem \cup {NoElement}]
    BY <1>1 DEF Shaped
  <2> QED BY <1>1, <2>1 DEF Changed
<1>4. \A p \in Slots(a) : ByteIn(b, p) = IF p = q THEN byte ELSE ByteIn(a, p)
  <2> SUFFICES ASSUME NEW p \in Slots(a)
               PROVE  ByteIn(b, p) = IF p = q THEN byte ELSE ByteIn(a, p)
    OBVIOUS
  <2>1. GroupOf(p) \in Groups(a) /\ PlaceOf(p) \in SlotNo /\ p = GroupOf(p) * N + PlaceOf(p)
    BY <1>1, ShapedIs, SlotHas
  <2> QED BY <2>1 DEF ByteIn, Changed
<1>5. MetaTrue(b, h)
  <2>1. Pow2[a.log] - 1 \in Groups(a) /\ N - 1 \in SlotNo
    <3>1. Pow2[a.log] \in Nat \ {0} /\ N \in Nat \ {0}
      BY <1>1, ShapedIs, SlotsAssumption
    <3> QED BY <1>1, <3>1, ShapedIs DEF SlotNo
  <2>2. (Pow2[a.log] - 1) * N + (N - 1) # q
    BY <1>1, <2>1, SlotIs, SlotHas
  <2>3. b.group[Pow2[a.log] - 1].byte[N - 1] = a.group[Pow2[a.log] - 1].byte[N - 1]
    BY <2>1, <2>2 DEF Changed
  <2>4. \A p \in Slots(b) :
          ByteIn(b, p) = IF b.elem[p] = NoElement THEN 0 ELSE reduced_hash(HashOf[h][b.elem[p].key])
    BY <1>1, <1>2, <1>3, <1>4 DEF MetaTrue
  <2> QED BY <1>1, <1>2, <2>3, <2>4 DEF MetaTrue
<1>6. OnWay(b, h)
  <2> SUFFICES ASSUME NEW p \in Slots(a), b.elem[p] # NoElement
               PROVE  \E i \in reached(b, HashOf[h][b.elem[p].key]) :
                        probe(b, HashOf[h][b.elem[p].key], i) = GroupOf(p)
    BY <1>2 DEF OnWay
  <2>1. CASE p = q
    BY <1>3, <2>1
  <2>2. CASE p # q
    <3>1. b.elem[p] = a.elem[p]
      BY <1>3, <2>2
    <3>2. HashOf[h][a.elem[p].key] \in Nat
      BY <1>1, <3>1, ElementIs, HashType
    <3>3. PICK i \in reached(a, HashOf[h][a.elem[p].key]) :
            probe(a, HashOf[h][a.elem[p].key], i) = GroupOf(p)
      BY <1>1, <3>1 DEF OnWay
    <3>4. /\ i \in reached(b, HashOf[h][a.elem[p].key])
          /\ probe(b, HashOf[h][a.elem[p].key], i) = GroupOf(p)
      BY <1>1, <3>2, <3>3, ReachedGrows
    <3> QED BY <3>1, <3>4
  <2> QED BY <2>1, <2>2
<1>7. KeysOnce(b)
  BY <1>1, <1>2, <1>3 DEF KeysOnce
<1> QED BY <1>1, <1>5, <1>6, <1>7 DEF Good

LEMMA ElementsExist == \A e \in Elem : e # NoElement
<1> SUFFICES ASSUME NEW e \in Elem, e = NoElement PROVE FALSE
  OBVIOUS
<1>1. DOMAIN e = {"key", "value"}
  BY DEF Elem
<1>2. DOMAIN e = {"key"}
  BY DEF NoElement
<1>3. "value" \in DOMAIN e
  BY <1>1
<1> QED BY <1>2, <1>3

\* nosize_unchecked_emplace_at: into arrays that have room and not the key it puts
\* the element into an empty slot, touches no other, and leaves them Good.
THEOREM EmplaceGood ==
    ASSUME NEW h \in Hasher, NEW a, Good(a, h), HasRoom(a), NEW e \in Elem, Lacks(a, e.key)
    PROVE  LET b == nosize_unchecked_emplace_at(a, HashOf[h][e.key], e)
           IN  /\ Good(b, h) /\ Marks(b, a)
               /\ \E q \in Slots(a) : a.elem[q] = NoElement /\ b.elem = With(a.elem, q, e)
<1> DEFINE hash == HashOf[h][e.key]
           b == nosize_unchecked_emplace_at(a, hash, e)
           c == marked(a, hash)
           i == turn_with_room(a, hash)
           g == probe(a, hash, i)
           room == match_available(a.group[g])
           n == Min(room)
           q == g * N + n
<1>1. hash \in Nat /\ reduced_hash(hash) \in 0 .. 255 /\ e # NoElement
  <2>1. hash \in Nat
    BY HashType DEF Elem
  <2> QED BY <2>1, ReducedType, ElementsExist
<1>2. Shaped(a) /\ MetaTrue(a, h)
  BY DEF Good
<1>3. b = [c EXCEPT !.group[g] = set(@, n, hash), !.elem[q] = e]
  BY DEF nosize_unchecked_emplace_at
<1> HIDE DEF hash, b, c
<1>4. i \in Groups(a) /\ room # {}
  BY <1>1, <1>2, TurnIs
<1>5. g \in Groups(a)
  BY <1>1, <1>2, <1>4, ProbingVisitsAll
<1>6. n \in SlotNo /\ a.group[g].byte[n] = 0
  <2>1. room \in SUBSET SlotNo /\ SlotNo \in SUBSET Nat
    BY SlotsAssumption DEF match_available, SlotNo
  <2>2. n \in room
    <3> HIDE DEF room
    <3> QED BY <1>4, <2>1, MinIs
  <2> QED BY <2>2 DEF match_available, available_
<1>7. q \in Slots(a) /\ a.elem[q] = NoElement /\ GroupOf(q) = g
  <2>1. Tells(a, h, g, n)
    BY <1>2, <1>5, <1>6, ByteTells
  <2>2. q \in Slots(a) /\ a.elem[q] = NoElement
    BY <1>6, <2>1 DEF Tells
  <2>3. GroupOf(q) = g
    BY <1>2, <1>5, <1>6, SlotIs
  <2> QED BY <2>2, <2>3
<1>8. /\ Shaped(c) /\ Marks(c, a) /\ c.elem = a.elem
      /\ \A o \in Groups(a) : c.group[o].byte = a.group[o].byte
      /\ i \in reached(c, hash)
  BY <1>1, <1>2, MarkedIs DEF c
<1> HIDE DEF g, n, i
<1>9. Written(b, c, g, n, reduced_hash(hash), e)
  BY <1>3 DEF set, Written
<1>10. Changed(b, a, q, reduced_hash(hash), e) /\ \A o \in Groups(a) : b.group[o].over = c.group[o].over
  <2>1. reduced_hash(hash) \in 0 .. 255 /\ e \in Elem \cup {NoElement}
    BY <1>1
  <2>2. g \in Groups(a) /\ n \in SlotNo /\ g * N + n \in Slots(a)
    BY <1>5, <1>6, <1>7
  <2>3. Overflowed(c, a)
    BY <1>2, <1>8 DEF Overflowed
  <2>4. Writes(a, b, c, g, n, reduced_hash(hash), e)
    BY ONLY <1>9, <2>1, <2>2, <2>3 DEF Writes
  <2>5. Changed(b, a, g * N + n, reduced_hash(hash), e) /\ \A o \in Groups(a) : b.group[o].over = c.group[o].over
    BY ONLY <2>4, ChangedIs
  <2> QED BY <2>5
<1>11. Marks(b, c)
  BY <1>8, <1>10 DEF Marks, Changed, Groups
<1>12. i \in reached(b, hash) /\ probe(b, hash, i) = GroupOf(q)
  <2>1. i \in reached(b, hash) /\ probe(b, hash, i) = probe(c, hash, i)
    BY <1>1, <1>8, <1>11, ReachedGrows
  <2>2. probe(c, hash, i) = probe(a, hash, i)
    BY <1>1, <1>2, <1>8, ReachedGrows
  <2> QED BY <1>7, <2>1, <2>2 DEF g
<1>13. Good(b, h)
  <2>1. reduced_hash(hash) = IF e = NoElement THEN 0 ELSE reduced_hash(HashOf[h][e.key])
    BY <1>1 DEF hash
  <2>2. \E j \in reached(b, HashOf[h][e.key]) : probe(b, HashOf[h][e.key], j) = GroupOf(q)
    BY <1>12 DEF hash
  <2>3. \A p \in Slots(a) : a.elem[p] # NoElement /\ a.elem[p].key = e.key => p = q
    BY DEF Lacks
  <2> HIDE DEF q
  <2> QED BY <1>10, <2>1, <2>2, <2>3, ChangedGood
<1> QED BY <1>7, <1>10, <1>13 DEF Changed, With, b, hash

LEMMA OverflowedSelf == ASSUME NEW a, Shaped(a) PROVE Overflowed(a, a)
  BY DEF Overflowed, Marks

Freed(b, a, p) == b = [a EXCEPT !.group[p \div N] = reset(@, p % N), !.elem[p] = NoElement]

\* erase resets the byte of the slot and nothing else of the metadata: the overflow
\* bits stay, and with them the way of every look-up that passed the slot's group.
THEOREM EraseGood ==
    ASSUME NEW h \in Hasher, NEW a, Good(a, h), NEW p \in Slots(a),
           NEW b, Freed(b, a, p)
    PROVE  Good(b, h) /\ Marks(b, a) /\ b.elem = With(a.elem, p, NoElement)
<1> DEFINE g == p \div N
           n == p % N
<1>1. Shaped(a) /\ Overflowed(a, a)
  BY OverflowedSelf DEF Good
<1>2. g \in Groups(a) /\ n \in SlotNo /\ g * N + n = p
  BY <1>1, ShapedIs, SlotHas DEF GroupOf, PlaceOf
<1>3. b = [a EXCEPT !.group[g] = [@ EXCEPT !.byte[n] = 0], !.elem[p] = NoElement]
  BY DEF Freed, reset, available_
<1> HIDE DEF g, n
<1>4. Written(b, a, g, n, 0, NoElement)
  BY <1>2, <1>3 DEF Written
<1>5. Changed(b, a, p, 0, NoElement)
  <2>1. 0 \in 0 .. 255 /\ NoElement \in Elem \cup {NoElement} /\ g * N + n \in Slots(a)
    BY <1>2
  <2>2. Changed(b, a, g * N + n, 0, NoElement)
    <3>1. Writes(a, b, a, g, n, 0, NoElement)
      BY ONLY <1>1, <1>2, <1>4, <2>1 DEF Writes
    <3> QED BY ONLY <3>1, ChangedIs
  <2> QED BY <1>2, <2>2
<1>6. Good(b, h)
  BY <1>5, ChangedGood
<1> QED BY <1>5, <1>6 DEF Changed, With

Valued(b, a, p, v) == b = [a EXCEPT !.elem[p].value = v]
Revalue(e, v) == [e EXCEPT !.value = v]

\* Writing the value of an element.
LEMMA AssignGood ==
    ASSUME NEW h \in Hasher, NEW a, Good(a, h), NEW p \in Slots(a), a.elem[p] # NoElement,
           NEW v \in Value, NEW b, Valued(b, a, p, v)
    PROVE  /\ Good(b, h) /\ Marks(b, a) /\ b.elem = With(a.elem, p, Revalue(a.elem[p], v))
           /\ Revalue(a.elem[p], v) \in Elem
<1> DEFINE e == Revalue(a.elem[p], v)
<1>1. Shaped(a) /\ MetaTrue(a, h) /\ OnWay(a, h) /\ KeysOnce(a)
  BY DEF Good
<1>2. a.elem[p] \in Elem
  BY <1>1, ElementIs
<1>3. e \in Elem /\ e.key = a.elem[p].key
  BY <1>2 DEF Elem, Revalue
<1>4. e # NoElement
  BY <1>3, ElementsExist
<1>5. /\ b = [al |-> b.al, log |-> b.log, group |-> b.group, elem |-> b.elem]
      /\ b.al = a.al /\ b.log = a.log /\ b.group = a.group
      /\ b.elem = [a.elem EXCEPT ![p] = e]
  <2>1. a = [al |-> a.al, log |-> a.log, group |-> a.group, elem |-> a.elem]
    BY <1>1 DEF Shaped
  <2> QED BY <2>1 DEF Valued, Revalue
<1> HIDE DEF e
<1>6. Groups(b) = Groups(a) /\ Slots(b) = Slots(a) /\ Marks(b, a)
  BY <1>5 DEF Groups, Slots, Marks
<1>7. Shaped(b)
  BY <1>1, <1>3, <1>5, <1>6 DEF Shaped
<1>8. Changed(b, a, p, ByteIn(a, p), e)
  <2> SUFFICES ASSUME NEW g \in Groups(a), NEW n \in SlotNo, g * N + n = p
               PROVE  a.group[g].byte[n] = ByteIn(a, p)
    BY <1>5, <1>6, <1>7 DEF Changed
  <2> QED BY <1>1, SlotIs DEF ByteIn
<1>9. Good(b, h)
  <2>1. ByteIn(a, p) = IF e = NoElement THEN 0 ELSE reduced_hash(HashOf[h][e.key])
    BY <1>1, <1>3, <1>4 DEF MetaTrue
  <2>2. \A o \in Slots(a) : a.elem[o] # NoElement /\ a.elem[o].key = e.key => o = p
    BY <1>1, <1>3 DEF KeysOnce
  <2>3. \E i \in reached(b, HashOf[h][e.key]) : probe(b, HashOf[h][e.key], i) = GroupOf(p)
    <3>1. PICK i \in reached(a, HashOf[h][e.key]) : probe(a, HashOf[h][e.key], i) = GroupOf(p)
      BY <1>1, <1>3 DEF OnWay
    <3>2. HashOf[h][e.key] \in Nat
      BY <1>3, HashType DEF Elem
    <3> QED BY <1>1, <1>6, <3>1, <3>2, ReachedGrows
  <2> QED BY <1>3, <1>8, <2>1, <2>2, <2>3, ChangedGood
<1> QED BY <1>3, <1>5, <1>6, <1>9 DEF e, With

\* Arrays with fewer elements than slots have room: the loop of an insertion ends.
THEOREM RoomLeft ==
    ASSUME NEW h \in Hasher, NEW a, Good(a, h), Cardinality(Occupied(a)) < Pow2[a.log] * N - 1
    PROVE  HasRoom(a)
<1>1. Shaped(a) /\ MetaTrue(a, h)
  BY DEF Good
<1>2. Pow2[a.log] * N - 1 \in Nat
  <2>1. Pow2[a.log] \in Nat \ {0} /\ N \in Nat \ {0}
    BY <1>1, ShapedIs, SlotsAssumption
  <2>2. Pow2[a.log] * N >= 1 /\ Pow2[a.log] * N \in Nat
    BY <2>1
  <2> QED BY <2>2
<1>3. Cardinality(Slots(a)) = Pow2[a.log] * N - 1
  <2> DEFINE m == Pow2[a.log] * N
  <2>1. m - 1 \in Nat /\ m \in Nat
    <3>1. Pow2[a.log] \in Nat /\ N \in Nat
      BY <1>1, ShapedIs, SlotsAssumption
    <3> QED BY <1>2, <3>1
  <2> HIDE DEF m
  <2>2. Cardinality(0 .. (m - 2)) = m - 1
    <3>1. m \in Nat /\ m - 2 \in Int
      BY <2>1
    <3> QED BY <2>1, <3>1, FS_Interval
  <2> QED BY <2>2 DEF Slots, m
<1>4. PICK p \in Slots(a) : a.elem[p] = NoElement
  <2> SUFFICES ASSUME \A p \in Slots(a) : a.elem[p] # NoElement PROVE FALSE
    OBVIOUS
  <2>1. Occupied(a) = Slots(a)
    BY DEF Occupied
  <2> QED BY <1>2, <1>3, <2>1
<1>5. a.group[GroupOf(p)].byte[PlaceOf(p)] = 0
  BY <1>1, <1>4 DEF MetaTrue, ByteIn
<1>6. GroupOf(p) \in Groups(a) /\ PlaceOf(p) \in SlotNo
  BY <1>1, ShapedIs
<1> QED BY <1>5, <1>6 DEF HasRoom, match_available, available_

-----------------------------------------------------------------------------
(* The calls on one table.                                                   *)

Pairs(a) == {<<a.elem[p].key, a.elem[p].value>> : p \in Occupied(a)}

LEMMA ElemIs == \A e \in Elem : e.key \in Key /\ e.value \in Value /\ e = [key |-> e.key, value |-> e.value]
  BY DEF Elem

LEMMA OccupiedFinite ==
    ASSUME NEW a, Shaped(a)
    PROVE  IsFiniteSet(Occupied(a)) /\ Cardinality(Occupied(a)) \in Nat
<1>1. Pow2[a.log] * N - 2 \in Int
  <2>1. Pow2[a.log] \in Nat /\ N \in Nat
    BY ShapedIs, SlotsAssumption
  <2>2. Pow2[a.log] * N \in Nat
    BY <2>1
  <2> QED BY <2>2
<1>2. IsFiniteSet(Slots(a))
  <2> DEFINE m == Pow2[a.log] * N - 2
  <2> HIDE DEF m
  <2>1. m \in Int => IsFiniteSet(0 .. m)
    BY FS_Interval
  <2> QED BY <1>1, <2>1 DEF Slots, m
<1>3. Occupied(a) \in SUBSET Slots(a)
  BY DEF Occupied
<1> QED BY <1>2, <1>3, FS_Subset, FS_CardinalityType

\* What becomes of the contents when one slot's element changes.
LEMMA ContentsChanged ==
    ASSUME NEW a, Shaped(a), KeysOnce(a), NEW b, Slots(b) = Slots(a),
           NEW q \in Slots(a), NEW e \in Elem \cup {NoElement}, b.elem = With(a.elem, q, e)
    PROVE  /\ a.elem[q] = NoElement /\ e # NoElement =>
                /\ Pairs(b) = Pairs(a) \cup {<<e.key, e.value>>}
                /\ Cardinality(Occupied(b)) = Cardinality(Occupied(a)) + 1
           /\ a.elem[q] # NoElement /\ e = NoElement =>
                /\ Pairs(b) = {x \in Pairs(a) : x[1] # a.elem[q].key}
                /\ Cardinality(Occupied(b)) = Cardinality(Occupied(a)) - 1
           /\ a.elem[q] # NoElement /\ e # NoElement /\ e.key = a.elem[q].key =>
                /\ Pairs(b) = {x \in Pairs(a) : x[1] # e.key} \cup {<<e.key, e.value>>}
                /\ Cardinality(Occupied(b)) = Cardinality(Occupied(a))
<1>1. \A p \in Slots(a) : b.elem[p] = IF p = q THEN e ELSE a.elem[p]
  BY DEF Shaped, With
<1>2. Occupied(b) = IF e = NoElement THEN Occupied(a) \ {q} ELSE Occupied(a) \cup {q}
  BY <1>1 DEF Occupied
<1>3. \A p \in Occupied(a) : p \in Slots(a) /\ a.elem[p] # NoElement
  BY DEF Occupied
<1>4. q \in Occupied(a) <=> a.elem[q] # NoElement
  BY DEF Occupied
<1>5. \A p \in Occupied(a) : a.elem[q] # NoElement /\ a.elem[p].key = a.elem[q].key => p = q
  BY <1>3 DEF KeysOnce
<1>6. IsFiniteSet(Occupied(a)) /\ Cardinality(Occupied(a)) \in Nat
  BY OccupiedFinite
<1>7. ASSUME a.elem[q] = NoElement, e # NoElement
      PROVE  /\ Pairs(b) = Pairs(a) \cup {<<e.key, e.value>>}
             /\ Cardinality(Occupied(b)) = Cardinality(Occupied(a)) + 1
  <2>1. Occupied(b) = Occupied(a) \cup {q} /\ q \notin Occupied(a)
    BY <1>2, <1>4, <1>7
  <2>2. Cardinality(Occupied(b)) = Cardinality(Occupied(a)) + 1
    BY <1>6, <2>1, FS_AddElement
  <2>3. \A p \in Occupied(a) : b.elem[p] = a.elem[p]
    BY <1>1, <1>3, <2>1
  <2>4. b.elem[q] = e
    BY <1>1
  <2> QED BY <2>1, <2>2, <2>3, <2>4 DEF Pairs
<1>8. ASSUME a.elem[q] # NoElement, e = NoElement
      PROVE  /\ Pairs(b) = {x \in Pairs(a) : x[1] # a.elem[q].key}
             /\ Cardinality(Occupied(b)) = Cardinality(Occupied(a)) - 1
  <2>1. Occupied(b) = Occupied(a) \ {q} /\ q \in Occupied(a)
    BY <1>2, <1>4, <1>8
  <2>2. Cardinality(Occupied(b)) = Cardinality(Occupied(a)) - 1
    BY ONLY <1>6, <2>1, FS_RemoveElement
  <2>3. \A p \in Occupied(b) : b.elem[p] = a.elem[p] /\ a.elem[p].key # a.elem[q].key
    BY <1>1, <1>3, <1>5, <1>8, <2>1
  <2>4. \A p \in Occupied(a) : a.elem[p].key # a.elem[q].key => p \in Occupied(b)
    BY <2>1
  <2> QED BY <2>1, <2>2, <2>3, <2>4 DEF Pairs
<1>9. ASSUME a.elem[q] # NoElement, e # NoElement, e.key = a.elem[q].key
      PROVE  /\ Pairs(b) = {x \in Pairs(a) : x[1] # e.key} \cup {<<e.key, e.value>>}
             /\ Cardinality(Occupied(b)) = Cardinality(Occupied(a))
  <2>1. Occupied(b) = Occupied(a) /\ q \in Occupied(a)
    BY <1>2, <1>4, <1>9
  <2>2. \A p \in Occupied(a) : p # q => b.elem[p] = a.elem[p] /\ a.elem[p].key # e.key
    BY <1>1, <1>3, <1>5, <1>9
  <2>3. b.elem[q] = e
    BY <1>1
  <2> QED BY <1>9, <2>1, <2>2, <2>3 DEF Pairs
<1> QED BY <1>7, <1>8, <1>9

\* Table i of world w has arrays of its own that are Good, and knows their elements' number.
Sound(w, i) ==
    /\ w = [heap |-> w.heap, tab |-> w.tab, bad |-> w.bad]
    /\ w.heap = [a \in Address |-> w.heap[a]] /\ w.tab = [o \in Object |-> w.tab[o]]
    /\ w.tab[i] = [arrays |-> w.tab[i].arrays, ml |-> w.tab[i].ml, size |-> w.tab[i].size,
                   hash |-> w.tab[i].hash, al |-> w.tab[i].al]
    /\ w.tab[i].arrays \in Address /\ w.tab[i].hash \in Hasher
    /\ Good(ArraysOf(w, i), w.tab[i].hash)
    /\ w.tab[i].size = Cardinality(Occupied(ArraysOf(w, i)))

\* Between w and x nothing changed but table i's elements, metadata and counts.
Only(x, w, i) ==
    /\ x.bad = w.bad /\ \A o \in Object \ {i} : x.tab[o] = w.tab[o]
    /\ \A a \in Address \ {w.tab[i].arrays} : x.heap[a] = w.heap[a]
    /\ x.tab[i].arrays = w.tab[i].arrays /\ x.tab[i].hash = w.tab[i].hash /\ x.tab[i].al = w.tab[i].al

LEMMA SoundIs ==
    ASSUME NEW w, NEW i \in Object, Sound(w, i)
    PROVE  /\ ArraysOf(w, i) = w.heap[w.tab[i].arrays]
           /\ Shaped(ArraysOf(w, i)) /\ KeysOnce(ArraysOf(w, i))
           /\ EntriesIn(w, i) = Pairs(ArraysOf(w, i))
<1>1. w.tab[i].arrays # Static
  BY AddressAssumption DEF Sound, Static
<1>2. ArraysOf(w, i) = w.heap[w.tab[i].arrays]
  BY <1>1 DEF ArraysOf, Arrays
<1>3. Shaped(ArraysOf(w, i)) /\ KeysOnce(ArraysOf(w, i))
  BY DEF Sound, Good
<1>4. DOMAIN ArraysOf(w, i).elem = Slots(ArraysOf(w, i))
  BY <1>3 DEF Shaped
<1>5. EntriesIn(w, i) = Pairs(ArraysOf(w, i))
  BY <1>4 DEF EntriesIn, Pairs, Occupied
<1> QED BY <1>2, <1>3, <1>5

\* A table's record with other counts.
IsTable(t, at, m, s, h, d) == t = [arrays |-> at, ml |-> m, size |-> s, hash |-> h, al |-> d]
Recount(t, n, l) == [t EXCEPT !.size = n, !.ml = l]
Resized(t, n) == [t EXCEPT !.size = n]

\* x is w with arrays b, size n and maximum load l for table i.
Put(w, i, b, n, l) ==
    [heap |-> [w.heap EXCEPT ![w.tab[i].arrays] = b],
     tab  |-> [w.tab EXCEPT ![i] = Recount(w.tab[i], n, l)],
     bad  |-> w.bad]

LEMMA Recounted ==
    ASSUME NEW at, NEW m, NEW s, NEW h, NEW d, NEW n, NEW l, NEW t, IsTable(t, at, m, s, h, d)
    PROVE  /\ IsTable(Recount(t, n, l), at, l, n, h, d)
           /\ t.arrays = at /\ t.hash = h /\ t.al = d
<1> DEFINE u == [t EXCEPT !.size = n]
           v == [arrays |-> at, ml |-> m, size |-> n, hash |-> h, al |-> d]
<1>1. u = v
  BY DEF IsTable
<1>2. [v EXCEPT !.ml = l] = [arrays |-> at, ml |-> l, size |-> n, hash |-> h, al |-> d]
  OBVIOUS
<1>3. t.arrays = at /\ t.hash = h /\ t.al = d
  BY DEF IsTable
<1> HIDE DEF v
<1>4. [u EXCEPT !.ml = l] = [v EXCEPT !.ml = l]
  BY <1>1
<1> QED BY <1>2, <1>3, <1>4 DEF IsTable, Recount

\* The same, in the order erase and clear write the counts.
CountBack(t, n, l) == [[t EXCEPT !.ml = l] EXCEPT !.size = n]

LEMMA CountedBack ==
    ASSUME NEW at, NEW m, NEW s, NEW h, NEW d, NEW n, NEW l, NEW t, IsTable(t, at, m, s, h, d)
    PROVE  CountBack(t, n, l) = Recount(t, n, l) /\ t.ml = m /\ t.size = s
<1> DEFINE u == [t EXCEPT !.ml = l]
           v == [arrays |-> at, ml |-> l, size |-> s, hash |-> h, al |-> d]
<1>1. u = v /\ t.ml = m /\ t.size = s
  BY DEF IsTable
<1>2. IsTable([v EXCEPT !.size = n], at, l, n, h, d)
  BY DEF IsTable
<1> HIDE DEF u, v
<1>3. [u EXCEPT !.size = n] = [v EXCEPT !.size = n]
  BY <1>1
<1>4. IsTable(CountBack(t, n, l), at, l, n, h, d)
  BY <1>2, <1>3 DEF CountBack, u
<1>5. IsTable(Recount(t, n, l), at, l, n, h, d)
  BY Recounted
<1> QED BY <1>1, <1>4, <1>5 DEF IsTable

LEMMA PutIs ==
    ASSUME NEW w, NEW i \in Object, Sound(w, i), NEW b, Good(b, w.tab[i].hash),
           NEW n, n = Cardinality(Occupied(b)), NEW l
    PROVE  LET x == Put(w, i, b, n, l)
           IN  /\ Sound(x, i) /\ Only(x, w, i) /\ ArraysOf(x, i) = b
               /\ EntriesIn(x, i) = Pairs(b) /\ x.tab[i].size = n
<1> DEFINE x == Put(w, i, b, n, l)
           at == w.tab[i].arrays
           t == Recount(w.tab[i], n, l)
<1>1. /\ w = [heap |-> w.heap, tab |-> w.tab, bad |-> w.bad]
      /\ w.heap = [a \in Address |-> w.heap[a]] /\ w.tab = [o \in Object |-> w.tab[o]]
      /\ w.tab[i] = [arrays |-> w.tab[i].arrays, ml |-> w.tab[i].ml, size |-> w.tab[i].size,
                     hash |-> w.tab[i].hash, al |-> w.tab[i].al]
      /\ at \in Address /\ w.tab[i].hash \in Hasher
  BY DEF Sound
<1>2. t = [arrays |-> at, ml |-> l, size |-> n, hash |-> w.tab[i].hash, al |-> w.tab[i].al]
  <2>1. PICK m, s, h, d : IsTable(w.tab[i], at, m, s, h, d)
    BY <1>1 DEF IsTable
  <2>2. IsTable(t, at, l, n, h, d) /\ w.tab[i].hash = h /\ w.tab[i].al = d
    BY <2>1, Recounted
  <2> QED BY <2>2 DEF IsTable
<1>3. x = [heap |-> [w.heap EXCEPT ![at] = b], tab |-> [w.tab EXCEPT ![i] = t], bad |-> w.bad]
  BY DEF Put
<1> HIDE DEF x, t
<1>4. /\ x.heap = [a \in Address |-> IF a = at THEN b ELSE w.heap[a]]
      /\ x.tab = [o \in Object |-> IF o = i THEN t ELSE w.tab[o]]
      /\ x.bad = w.bad /\ x = [heap |-> x.heap, tab |-> x.tab, bad |-> x.bad]
  BY <1>1, <1>3
<1>5. x.tab[i] = t /\ x.heap[at] = b
  BY <1>1, <1>4
<1>6. ArraysOf(x, i) = b
  BY <1>1, <1>2, <1>5, AddressAssumption DEF ArraysOf, Arrays, Static
<1>7. Only(x, w, i)
  BY <1>2, <1>4, <1>5 DEF Only
<1>8. x.heap = [a \in Address |-> x.heap[a]] /\ x.tab = [o \in Object |-> x.tab[o]]
  BY <1>4
<1>9. Sound(x, i)
  BY <1>1, <1>2, <1>4, <1>5, <1>6, <1>8 DEF Sound
<1>10. EntriesIn(x, i) = Pairs(b)
  BY <1>6, <1>9, SoundIs
<1> QED BY <1>2, <1>5, <1>6, <1>7, <1>9, <1>10 DEF x

\* find, contains and at: in a sound table the element with the key is found, exactly
\* then, and with its value.
THEOREM LookUpsSound ==
    ASSUME NEW w, NEW i \in Object, Sound(w, i), NEW k \in Key
    PROVE  /\ contains(w, i, k) <=> \E x \in EntriesIn(w, i) : x[1] = k
           /\ at_(w, i, k) = {x[2] : x \in {y \in EntriesIn(w, i) : y[1] = k}}
           /\ contains(w, i, k) => /\ Find(w, i, k) \in Slots(ArraysOf(w, i))
                                   /\ Element(w, i, Find(w, i, k)) # NoElement
                                   /\ Element(w, i, Find(w, i, k)).key = k
<1> DEFINE a == ArraysOf(w, i)
           h == w.tab[i].hash
<1>1. Good(a, h) /\ h \in Hasher
  BY DEF Sound
<1>2. Shaped(a) /\ KeysOnce(a) /\ EntriesIn(w, i) = Pairs(a)
  BY SoundIs
<1>3. Find(w, i, k) = find(a, HashOf[h][k], k)
  BY DEF Find, HashIn
<1>4. \A p \in Slots(a) : p # NoSlot
  <2>1. Slots(a) \in SUBSET Nat
    BY DEF Slots
  <2> QED BY <2>1 DEF NoSlot
<1> HIDE DEF a, h
<1>5. \A p \in Slots(a) : a.elem[p] # NoElement /\ a.elem[p].key = k => Find(w, i, k) = p
  BY <1>1, <1>3, FindGood
<1>6. (\A p \in Slots(a) : a.elem[p] # NoElement => a.elem[p].key # k) => Find(w, i, k) = NoSlot
  BY <1>1, <1>3, FindGood
<1>7. \A p : Element(w, i, p) = a.elem[p]
  BY DEF Element, a
<1>8. CASE \E p \in Slots(a) : a.elem[p] # NoElement /\ a.elem[p].key = k
  <2>1. PICK p \in Slots(a) : a.elem[p] # NoElement /\ a.elem[p].key = k
    BY <1>8
  <2>2. Find(w, i, k) = p /\ contains(w, i, k)
    BY <1>4, <1>5, <2>1 DEF contains
  <2>3. at_(w, i, k) = {a.elem[p].value}
    BY <1>7, <2>2 DEF at_, contains
  <2>4. \A o \in Occupied(a) : a.elem[o].key = k => o = p
    BY <1>2, <2>1 DEF Occupied, KeysOnce
  <2>5. p \in Occupied(a)
    BY <2>1 DEF Occupied
  <2>6. {y \in Pairs(a) : y[1] = k} = {<<k, a.elem[p].value>>}
    BY <2>1, <2>4, <2>5 DEF Pairs
  <2>7. {x[2] : x \in {y \in Pairs(a) : y[1] = k}} = {a.elem[p].value}
    <3> DEFINE Y == {y \in Pairs(a) : y[1] = k}
    <3> HIDE DEF Y
    <3>1. Y = {<<k, a.elem[p].value>>} => {x[2] : x \in Y} = {a.elem[p].value}
      OBVIOUS
    <3> QED BY <2>6, <3>1 DEF Y
  <2>8. \E x \in Pairs(a) : x[1] = k
    BY <2>6
  <2> QED BY <1>2, <1>7, <2>1, <2>2, <2>3, <2>7, <2>8 DEF a
<1>9. CASE ~ \E p \in Slots(a) : a.elem[p] # NoElement /\ a.elem[p].key = k
  <2>1. Find(w, i, k) = NoSlot /\ ~ contains(w, i, k) /\ at_(w, i, k) = {}
    BY <1>6, <1>9 DEF contains, at_
  <2>2. {y \in Pairs(a) : y[1] = k} = {}
    BY <1>9 DEF Pairs, Occupied
  <2> QED BY <1>2, <2>1, <2>2
<1> QED BY <1>8, <1>9

LEMMA RecountSame ==
    ASSUME NEW at, NEW m, NEW s, NEW h, NEW d, NEW n, NEW t, IsTable(t, at, m, s, h, d)
    PROVE  /\ Resized(t, n) = Recount(t, n, t.ml) /\ Recount(t, t.size, t.ml) = t
           /\ t.ml = m /\ t.size = s
<1> DEFINE u == Resized(t, n)
<1>1. t.ml = m /\ t.size = s
  BY DEF IsTable
<1>2. IsTable(u, at, m, n, h, d)
  BY DEF IsTable, Resized
<1>3. IsTable(Recount(t, n, m), at, m, n, h, d) /\ IsTable(Recount(t, s, m), at, m, s, h, d)
  BY Recounted
<1> HIDE DEF u
<1>4. u = Recount(t, n, m) /\ Recount(t, s, m) = t
  BY <1>2, <1>3 DEF IsTable
<1> QED BY <1>1, <1>4 DEF u

LEMMA TableIs ==
    ASSUME NEW w, NEW i \in Object, Sound(w, i), NEW n
    PROVE  /\ Resized(w.tab[i], n) = Recount(w.tab[i], n, w.tab[i].ml)
           /\ Recount(w.tab[i], w.tab[i].size, w.tab[i].ml) = w.tab[i]
           /\ With(w.tab, i, w.tab[i]) = w.tab
<1>1. PICK at, m, s, h, d : IsTable(w.tab[i], at, m, s, h, d)
  BY DEF Sound, IsTable
<1>2. With(w.tab, i, w.tab[i]) = w.tab
  BY DEF Sound, With
<1> QED BY <1>1, <1>2, RecountSame

\* unchecked_emplace_at: a new element into a sound table that is not full.  Its entry
\* is added, nothing else in the world changes, and the table stays sound.
THEOREM InsertSound ==
    ASSUME NEW w, NEW i \in Object, Sound(w, i), NEW e \in Elem,
           \A x \in EntriesIn(w, i) : x[1] # e.key,
           w.tab[i].size < Pow2[ArraysOf(w, i).log] * N - 1
    PROVE  LET x == Insert(w, i, e)
           IN  /\ Sound(x, i) /\ Only(x, w, i)
               /\ EntriesIn(x, i) = EntriesIn(w, i) \cup {<<e.key, e.value>>}
               /\ x.tab[i].size = w.tab[i].size + 1
<1> DEFINE x == Insert(w, i, e)
           a == ArraysOf(w, i)
           h == w.tab[i].hash
           at == w.tab[i].arrays
           b == nosize_unchecked_emplace_at(a, HashOf[h][e.key], e)
           n == w.tab[i].size + 1
<1>1. /\ Good(a, h) /\ h \in Hasher /\ Shaped(a) /\ KeysOnce(a) /\ a = w.heap[at]
      /\ EntriesIn(w, i) = Pairs(a) /\ w.tab[i].size = Cardinality(Occupied(a))
  BY SoundIs DEF Sound
<1>2. Lacks(a, e.key)
  <2> SUFFICES ASSUME NEW p \in Slots(a), a.elem[p] # NoElement PROVE a.elem[p].key # e.key
    BY DEF Lacks
  <2> HIDE DEF a
  <2>1. <<a.elem[p].key, a.elem[p].value>> \in Pairs(a)
    BY DEF Pairs, Occupied
  <2>2. <<a.elem[p].key, a.elem[p].value>> \in EntriesIn(w, i)
    BY <1>1, <2>1
  <2>3. <<a.elem[p].key, a.elem[p].value>>[1] # e.key
    BY <2>2
  <2> QED BY ONLY <2>3
<1>3. Good(b, h) /\ Marks(b, a) /\ \E q \in Slots(a) : a.elem[q] = NoElement /\ b.elem = With(a.elem, q, e)
  <2>1. HasRoom(a)
    <3> HIDE DEF a, h
    <3> QED BY <1>1, RoomLeft DEF a
  <2> HIDE DEF a, h
  <2> QED BY <1>1, <1>2, <2>1, EmplaceGood
<1>4. x = [w EXCEPT !.heap[at] = b, !.tab[i].size = n]
  BY <1>1 DEF Insert, HashIn
<1> HIDE DEF x, a, b
<1>5. x = Put(w, i, b, n, w.tab[i].ml)
  <2>1. w = [heap |-> w.heap, tab |-> w.tab, bad |-> w.bad]
    BY DEF Sound
  <2>2. x = [heap |-> [w.heap EXCEPT ![at] = b], tab |-> [w.tab EXCEPT ![i] = [w.tab[i] EXCEPT !.size = n]],
             bad |-> w.bad]
    BY <1>4, <2>1
  <2> HIDE DEF n
  <2>3. Resized(w.tab[i], n) = Recount(w.tab[i], n, w.tab[i].ml)
    BY TableIs
  <2> QED BY <2>2, <2>3 DEF Put, Resized
<1>6. Pairs(b) = Pairs(a) \cup {<<e.key, e.value>>} /\ Cardinality(Occupied(b)) = Cardinality(Occupied(a)) + 1
  <2>1. PICK q \in Slots(a) : a.elem[q] = NoElement /\ b.elem = With(a.elem, q, e)
    BY <1>3
  <2>2. Slots(b) = Slots(a) /\ e # NoElement
    BY <1>3, ElementsExist DEF Marks, Slots
  <2>3. Shaped(a) /\ KeysOnce(a) /\ e \in Elem \cup {NoElement}
    BY <1>1
  <2> QED BY ONLY <2>1, <2>2, <2>3, ContentsChanged
<1>7. n = Cardinality(Occupied(b))
  BY <1>1, <1>6
<1>8. Sound(x, i) /\ Only(x, w, i) /\ EntriesIn(x, i) = Pairs(b) /\ x.tab[i].size = n
  <2> HIDE DEF n
  <2> QED BY <1>3, <1>5, <1>7, PutIs
<1> QED BY <1>1, <1>6, <1>8 DEF x

\* erase and recover_slot: the element of a key that is there.  Its entry goes, every
\* other stays, and so does the rest of the world.
THEOREM EraseSound ==
    ASSUME NEW w, NEW i \in Object, Sound(w, i), NEW k \in Key, contains(w, i, k)
    PROVE  LET x == erase(w, i, k)
           IN  /\ Sound(x, i) /\ Only(x, w, i)
               /\ EntriesIn(x, i) = {y \in EntriesIn(w, i) : y[1] # k}
               /\ x.tab[i].size = w.tab[i].size - 1
<1> DEFINE x == erase(w, i, k)
           a == ArraysOf(w, i)
           h == w.tab[i].hash
           at == w.tab[i].arrays
           p == Find(w, i, k)
           n == w.tab[i].size - 1
           drift == IF maybe_caused_overflow(w.heap[at].group[p \div N], p % N) THEN 1 ELSE 0
           l == w.tab[i].ml - drift
           b == [a EXCEPT !.group[p \div N] = reset(@, p % N), !.elem[p] = NoElement]
<1>1. /\ Good(a, h) /\ h \in Hasher /\ Shaped(a) /\ KeysOnce(a) /\ a = w.heap[at]
      /\ EntriesIn(w, i) = Pairs(a) /\ w.tab[i].size = Cardinality(Occupied(a))
  BY SoundIs DEF Sound
<1>2. p \in Slots(a) /\ a.elem[p] # NoElement /\ a.elem[p].key = k
  BY LookUpsSound DEF Element
<1>3. Freed(b, a, p)
  BY DEF Freed
<1>4. x = recover_slot(w, i, p)
  BY DEF erase
<1> HIDE DEF p, x, a, b, h
<1>5. Good(b, h) /\ Marks(b, a) /\ b.elem = With(a.elem, p, NoElement)
  <2>1. h \in Hasher /\ Good(a, h) /\ p \in Slots(a) /\ Freed(b, a, p)
    BY <1>1, <1>2, <1>3
  <2> QED BY ONLY <2>1, EraseGood
<1>6. x = Put(w, i, b, n, l)
  <2> HIDE DEF drift
  <2>1. w = [heap |-> w.heap, tab |-> w.tab, bad |-> w.bad] /\ w.tab = [o \in Object |-> w.tab[o]]
        /\ w.heap = [o \in Address |-> w.heap[o]] /\ at \in Address
    BY DEF Sound
  <2>2. b = [w.heap[at] EXCEPT !.group[p \div N] = reset(@, p % N), !.elem[p] = NoElement]
    BY <1>1 DEF b
  <2>3. x = [w EXCEPT !.tab[i].ml = @ - drift, !.tab[i].size = @ - 1,
                      !.heap[at].group[p \div N] = reset(@, p % N), !.heap[at].elem[p] = NoElement]
    BY <1>4 DEF recover_slot, drift
  <2>4. x.bad = w.bad /\ x = [heap |-> x.heap, tab |-> x.tab, bad |-> x.bad]
    BY <2>1, <2>3
  <2>5. x.heap = [w.heap EXCEPT ![at] = b]
    <3> DEFINE c == [w.heap[at] EXCEPT !.group[p \div N] = reset(@, p % N)]
    <3>1. x.heap = [[w.heap EXCEPT ![at] = c] EXCEPT ![at].elem[p] = NoElement]
      BY <2>1, <2>3
    <3>2. b = [c EXCEPT !.elem[p] = NoElement]
      BY <2>2
    <3> HIDE DEF c
    <3>3. [w.heap EXCEPT ![at] = c][at] = c
      BY <2>1
    <3>4. x.heap = [[w.heap EXCEPT ![at] = c] EXCEPT ![at] = b]
      BY <3>1, <3>2, <3>3
    <3> QED BY <2>1, <3>4
  <2>6. x.tab = [w.tab EXCEPT ![i] = Recount(w.tab[i], n, l)]
    <3>1. PICK m, s, o, d : IsTable(w.tab[i], at, m, s, o, d)
      BY DEF Sound, IsTable
    <3>2. x.tab = [w.tab EXCEPT ![i] = CountBack(w.tab[i], n, l)]
      <4> DEFINE u == [w.tab[i] EXCEPT !.ml = l]
                 T == [w.tab EXCEPT ![i] = u]
      <4>1. x.tab = [T EXCEPT ![i].size = @ - 1]
        BY <2>1, <2>3
      <4>2. T[i] = u /\ u.size = w.tab[i].size
        BY <2>1, <3>1 DEF IsTable
      <4>3. CountBack(w.tab[i], n, l) = [u EXCEPT !.size = n]
        BY DEF CountBack
      <4>4. T = [w.tab EXCEPT ![i] = u]
        OBVIOUS
      <4> HIDE DEF u, T
      <4>5. x.tab = [T EXCEPT ![i] = [u EXCEPT !.size = n]]
        BY <4>1, <4>2
      <4> QED BY <2>1, <4>3, <4>4, <4>5
    <3>3. CountBack(w.tab[i], n, l) = Recount(w.tab[i], n, l)
      <4> HIDE DEF n, l
      <4> QED BY <3>1, CountedBack
    <3> QED BY <3>2, <3>3
  <2> QED BY <2>4, <2>5, <2>6 DEF Put
<1>7. Pairs(b) = {y \in Pairs(a) : y[1] # k} /\ Cardinality(Occupied(b)) = Cardinality(Occupied(a)) - 1
  <2>1. Slots(b) = Slots(a)
    BY <1>5 DEF Marks, Slots
  <2>2. /\ Shaped(a) /\ KeysOnce(a) /\ p \in Slots(a) /\ NoElement \in Elem \cup {NoElement}
        /\ b.elem = With(a.elem, p, NoElement) /\ a.elem[p] # NoElement /\ k = a.elem[p].key
    BY <1>1, <1>2, <1>5
  <2> QED BY ONLY <2>1, <2>2, ContentsChanged
<1>8. n = Cardinality(Occupied(b))
  BY <1>1, <1>7
<1>9. Sound(x, i) /\ Only(x, w, i) /\ EntriesIn(x, i) = Pairs(b) /\ x.tab[i].size = n
  <2> HIDE DEF n, l
  <2> QED BY <1>5, <1>6, <1>8, PutIs DEF h
<1> QED BY <1>1, <1>7, <1>9 DEF x

\* operator[] and insert_or_assign: the value of an element is written.
THEOREM AssignSound ==
    ASSUME NEW w, NEW i \in Object, Sound(w, i), NEW k \in Key, contains(w, i, k), NEW v \in Value
    PROVE  LET x == assign(w, i, k, v)
           IN  /\ Sound(x, i) /\ Only(x, w, i)
               /\ EntriesIn(x, i) = {y \in EntriesIn(w, i) : y[1] # k} \cup {<<k, v>>}
               /\ x.tab[i].size = w.tab[i].size
<1> DEFINE x == assign(w, i, k, v)
           a == ArraysOf(w, i)
           h == w.tab[i].hash
           at == w.tab[i].arrays
           p == Find(w, i, k)
           b == [a EXCEPT !.elem[p].value = v]
           e == Revalue(a.elem[p], v)
<1>1. /\ Good(a, h) /\ h \in Hasher /\ Shaped(a) /\ KeysOnce(a) /\ a = w.heap[at]
      /\ EntriesIn(w, i) = Pairs(a) /\ w.tab[i].size = Cardinality(Occupied(a))
  BY SoundIs DEF Sound
<1>2. p \in Slots(a) /\ a.elem[p] # NoElement /\ a.elem[p].key = k
  BY LookUpsSound DEF Element
<1>3. Valued(b, a, p, v) /\ x = [w EXCEPT !.heap[at].elem[p].value = v]
  BY DEF Valued, assign
<1> HIDE DEF p, x, a, b, h
<1>4. Good(b, h) /\ Marks(b, a) /\ b.elem = With(a.elem, p, e) /\ e \in Elem
  <2>1. h \in Hasher /\ Good(a, h) /\ p \in Slots(a) /\ a.elem[p] # NoElement /\ Valued(b, a, p, v)
    BY <1>1, <1>2, <1>3
  <2> QED BY ONLY <2>1, v \in Value, AssignGood
<1>5. e.key = k /\ e.value = v /\ e # NoElement
  <2>1. a.elem[p] \in Elem
    BY <1>1, <1>2, ElementIs
  <2> QED BY <1>2, <1>4, <2>1, ElementsExist DEF Revalue, Elem
<1> HIDE DEF e
<1>6. x = Put(w, i, b, w.tab[i].size, w.tab[i].ml)
  <2>1. w = [heap |-> w.heap, tab |-> w.tab, bad |-> w.bad]
    BY DEF Sound
  <2>2. b = [w.heap[at] EXCEPT !.elem[p].value = v]
    BY <1>1 DEF b
  <2>3. x = [heap |-> [w.heap EXCEPT ![at] = b], tab |-> w.tab, bad |-> w.bad]
    BY <1>3, <2>1, <2>2
  <2>4. With(w.tab, i, w.tab[i]) = w.tab /\ Recount(w.tab[i], w.tab[i].size, w.tab[i].ml) = w.tab[i]
    BY TableIs
  <2> QED BY <2>3, <2>4 DEF Put, With
<1>7. Pairs(b) = {y \in Pairs(a) : y[1] # k} \cup {<<k, v>>} /\ Cardinality(Occupied(b)) = Cardinality(Occupied(a))
  <2>1. Slots(b) = Slots(a)
    BY <1>4 DEF Marks, Slots
  <2>2. /\ Shaped(a) /\ KeysOnce(a) /\ p \in Slots(a) /\ e \in Elem \cup {NoElement}
        /\ b.elem = With(a.elem, p, e) /\ a.elem[p] # NoElement /\ e # NoElement /\ e.key = a.elem[p].key
    BY <1>1, <1>2, <1>4, <1>5
  <2>3. /\ Pairs(b) = {y \in Pairs(a) : y[1] # e.key} \cup {<<e.key, e.value>>}
        /\ Cardinality(Occupied(b)) = Cardinality(Occupied(a))
    BY ONLY <2>1, <2>2, ContentsChanged
  <2> QED BY ONLY <1>5, <2>3
<1>8. Sound(x, i) /\ Only(x, w, i) /\ EntriesIn(x, i) = Pairs(b) /\ x.tab[i].size = w.tab[i].size
  <2>1. w.tab[i].size = Cardinality(Occupied(b))
    BY <1>1, <1>7
  <2>2. Good(b, w.tab[i].hash)
    BY <1>4 DEF h
  <2> QED BY ONLY Sound(w, i), <1>6, <2>1, <2>2, i \in Object, PutIs
<1> QED BY <1>1, <1>7, <1>8 DEF x

\* clear: every element is destroyed, the metadata are those of new arrays.
THEOREM ClearSound ==
    ASSUME NEW w, NEW i \in Object, Sound(w, i)
    PROVE  LET x == clear(w, i)
           IN  /\ Sound(x, i) /\ Only(x, w, i)
               /\ EntriesIn(x, i) = {} /\ x.tab[i].size = 0
<1> DEFINE x == clear(w, i)
           a == ArraysOf(w, i)
           h == w.tab[i].hash
           at == w.tab[i].arrays
           b == set_arrays(a.al, a.log)
           c == [a EXCEPT !.elem = [p \in DOMAIN @ |-> NoElement]]
           l == initial_max_load(c)
<1>1. Shaped(a) /\ a = w.heap[at] /\ h \in Hasher /\ a.log \in 0 .. HashBits
  BY SoundIs DEF Sound, Shaped
<1>2. Good(b, h) /\ Occupied(b) = {}
  <2> HIDE DEF a, h
  <2> QED BY <1>1, FreshGood
<1>3. Pairs(b) = {} /\ Cardinality(Occupied(b)) = 0
  <2> HIDE DEF b
  <2> QED BY <1>2, FS_EmptySet DEF Pairs
<1>4. /\ w = [heap |-> w.heap, tab |-> w.tab, bad |-> w.bad] /\ w.tab = [o \in Object |-> w.tab[o]]
      /\ w.heap = [o \in Address |-> w.heap[o]] /\ at \in Address /\ at # Static
  BY AddressAssumption DEF Sound, Static
<1>5. b = [c EXCEPT !.group = set_arrays(c.al, c.log).group] /\ c.al = a.al /\ c.log = a.log
  <2> HIDE DEF a
  <2>1. a = [al |-> a.al, log |-> a.log, group |-> a.group, elem |-> a.elem]
        /\ DOMAIN a.elem = 0 .. (Pow2[a.log] * N - 2)
    BY <1>1 DEF Shaped, Slots
  <2> DEFINE f == [p \in DOMAIN a.elem |-> NoElement]
             G == set_arrays(a.al, a.log).group
  <2>2. b = [al |-> a.al, log |-> a.log, group |-> G, elem |-> f]
    BY <2>1 DEF set_arrays
  <2>3. c = [a EXCEPT !.elem = f]
    OBVIOUS
  <2> HIDE DEF f, G, b, c
  <2>4. c = [al |-> a.al, log |-> a.log, group |-> a.group, elem |-> f]
    BY <2>1, <2>3
  <2>5. c.al = a.al /\ c.log = a.log
    BY <2>4
  <2>6. [c EXCEPT !.group = G] = [al |-> a.al, log |-> a.log, group |-> G, elem |-> f]
    BY <2>4
  <2> QED BY <2>2, <2>5, <2>6 DEF G
<1>6. x = [[w EXCEPT !.heap[at] = c] EXCEPT !.heap[at].group = set_arrays(c.al, c.log).group,
                                            !.tab[i].ml = l, !.tab[i].size = 0]
  <2>1. destroy_all(w, at) = [w EXCEPT !.heap[at] = c]
    BY <1>1, <1>4 DEF destroy_all
  <2>2. [w EXCEPT !.heap[at] = c].heap[at] = c
    BY <1>4
  <2> HIDE DEF c
  <2> QED BY <1>4, <2>1, <2>2 DEF clear
<1> HIDE DEF x, a, b, c, l
<1>7. x = Put(w, i, b, 0, l)
  <2>1. x.bad = w.bad /\ x = [heap |-> x.heap, tab |-> x.tab, bad |-> x.bad]
    BY <1>4, <1>6
  <2>2. x.heap = [w.heap EXCEPT ![at] = b]
    BY <1>4, <1>5, <1>6
  <2>3. x.tab = [w.tab EXCEPT ![i] = Recount(w.tab[i], 0, l)]
    <3>1. PICK m, s, o, d : IsTable(w.tab[i], at, m, s, o, d)
      BY DEF Sound, IsTable
    <3>2. x.tab = [w.tab EXCEPT ![i] = CountBack(w.tab[i], 0, l)]
      BY <1>4, <1>6 DEF CountBack
    <3>3. CountBack(w.tab[i], 0, l) = Recount(w.tab[i], 0, l)
      BY <3>1, CountedBack
    <3> QED BY <3>2, <3>3
  <2> QED BY <2>1, <2>2, <2>3 DEF Put
<1>8. Sound(x, i) /\ Only(x, w, i) /\ EntriesIn(x, i) = Pairs(b) /\ x.tab[i].size = 0
  BY <1>2, <1>3, <1>7, PutIs
<1> QED BY <1>3, <1>8 DEF x

\* Marks alone, of an insertion whose construction throws, leave arrays Good.
LEMMA MarkedGood ==
    ASSUME NEW h \in Hasher, NEW a, Good(a, h), HasRoom(a), NEW hash \in Nat
    PROVE  /\ Good(marked(a, hash), h) /\ Pairs(marked(a, hash)) = Pairs(a)
           /\ Occupied(marked(a, hash)) = Occupied(a)
<1> DEFINE c == marked(a, hash)
<1>1. Shaped(a) /\ MetaTrue(a, h) /\ OnWay(a, h) /\ KeysOnce(a)
  BY DEF Good
<1>2. Shaped(c) /\ Marks(c, a) /\ c.elem = a.elem /\ \A g \in Groups(a) : c.group[g].byte = a.group[g].byte
  BY <1>1, MarkedIs
<1> HIDE DEF c
<1>3. Slots(c) = Slots(a) /\ c.log = a.log
  BY <1>2 DEF Marks, Slots
<1>4. Pow2[a.log] - 1 \in Groups(a) /\ \A p \in Slots(a) : ByteIn(c, p) = ByteIn(a, p)
  <2>1. Pow2[a.log] \in Nat \ {0} /\ Groups(a) = 0 .. Pow2[a.log] - 1
    BY <1>1, ShapedIs
  <2>2. \A p \in Slots(a) : GroupOf(p) \in Groups(a)
    BY <1>1, ShapedIs
  <2>3. Pow2[a.log] - 1 \in 0 .. Pow2[a.log] - 1
    BY <2>1
  <2> QED BY <1>2, <2>1, <2>2, <2>3 DEF ByteIn
<1>5. MetaTrue(c, h)
  BY <1>1, <1>2, <1>3, <1>4 DEF MetaTrue
<1>6. OnWay(c, h)
  <2> SUFFICES ASSUME NEW p \in Slots(a), a.elem[p] # NoElement
               PROVE  \E i \in reached(c, HashOf[h][a.elem[p].key]) :
                        probe(c, HashOf[h][a.elem[p].key], i) = GroupOf(p)
    BY <1>2, <1>3 DEF OnWay
  <2>1. HashOf[h][a.elem[p].key] \in Nat
    BY <1>1, ElementIs, HashType
  <2>2. PICK i \in reached(a, HashOf[h][a.elem[p].key]) :
          probe(a, HashOf[h][a.elem[p].key], i) = GroupOf(p)
    BY <1>1 DEF OnWay
  <2> QED BY <1>1, <1>2, <2>1, <2>2, ReachedGrows
<1>7. KeysOnce(c) /\ Pairs(c) = Pairs(a) /\ Occupied(c) = Occupied(a)
  BY <1>1, <1>2, <1>3 DEF KeysOnce, Pairs, Occupied
<1> QED BY <1>2, <1>5, <1>6, <1>7 DEF Good, c

\* emplace_impl into a table within its maximum load, or of a key that is there: either
\* it returns and the key has its entry, the one it had if it had one; or constructing
\* the element threw and the map is what it was.  The table is sound either way.
THEOREM EmplaceSound ==
    ASSUME NEW w, NEW i \in Object, Sound(w, i), NEW e \in Elem, NEW throw \in BOOLEAN,
           w.tab[i].ml \in Nat, w.tab[i].ml <= capacity(ArraysOf(w, i)),
           contains(w, i, e.key) \/ w.tab[i].size < w.tab[i].ml,
           NEW o \in emplace_impl(w, i, e, throw)
    PROVE  /\ Sound(o.w, i) /\ Only(o.w, w, i)
           /\ o.ok \in BOOLEAN /\ (~ o.ok => throw)
           /\ EntriesIn(o.w, i) = IF o.ok /\ ~ contains(w, i, e.key)
                                  THEN EntriesIn(w, i) \cup {<<e.key, e.value>>} ELSE EntriesIn(w, i)
<1> DEFINE a == ArraysOf(w, i)
           h == w.tab[i].hash
           at == w.tab[i].arrays
           hash == HashOf[h][e.key]
           c == marked(a, hash)
           x == [w EXCEPT !.heap[at] = c]
<1>1. e.key \in Key
  BY DEF Elem
<1>2. Only(w, w, i)
  BY DEF Only
<1>3. CASE contains(w, i, e.key)
  <2>1. emplace_impl(w, i, e, throw) = Done(w)
    BY <1>3 DEF emplace_impl, contains
  <2>2. o.w = w /\ o.ok = TRUE
    BY <2>1 DEF Done
  <2> QED BY <1>2, <1>3, <2>2
<1>4. CASE ~ contains(w, i, e.key)
  <2>1. o \in May(throw, x) \/ o \in Done(Insert(w, i, e))
    <3>1. Find(w, i, e.key) = NoSlot /\ w.tab[i].size < w.tab[i].ml
      BY <1>4 DEF contains
    <3>2. a = w.heap[at]
      BY SoundIs
    <3>3. emplace_impl(w, i, e, throw) = unchecked_insert(w, i, e, throw)
      BY <3>1 DEF emplace_impl
    <3> QED BY <3>2, <3>3 DEF unchecked_insert, HashIn
  <2>2. /\ Good(a, h) /\ h \in Hasher /\ Shaped(a) /\ EntriesIn(w, i) = Pairs(a)
        /\ w.tab[i].size = Cardinality(Occupied(a)) /\ hash \in Nat
    BY <1>1, SoundIs, HashType DEF Sound
  <2>3. w.tab[i].size < Pow2[a.log] * N - 1
    <3>1. w.tab[i].size \in Nat
      BY <2>2, OccupiedFinite
    <3>2. capacity(a) = 0 \/ capacity(a) = Pow2[a.log] * N - 1
      BY DEF capacity
    <3>3. Pow2[a.log] * N - 1 \in Int
      <4>1. Pow2[a.log] \in Nat /\ N \in Nat
        BY <2>2, ShapedIs, SlotsAssumption
      <4>2. Pow2[a.log] * N \in Nat
        BY <4>1
      <4> QED BY <4>2
    <3>4. w.tab[i].size < w.tab[i].ml /\ w.tab[i].ml <= capacity(a)
      BY <1>4
    <3> HIDE DEF a
    <3> QED BY <3>1, <3>2, <3>3, <3>4
  <2>4. CASE o \in Done(Insert(w, i, e))
    <3>1. o.w = Insert(w, i, e) /\ o.ok = TRUE
      BY <2>4 DEF Done
    <3>2. \A y \in EntriesIn(w, i) : y[1] # e.key
      BY <1>1, <1>4, LookUpsSound
    <3>3. /\ Sound(Insert(w, i, e), i) /\ Only(Insert(w, i, e), w, i)
          /\ EntriesIn(Insert(w, i, e), i) = EntriesIn(w, i) \cup {<<e.key, e.value>>}
      BY <2>3, <3>2, InsertSound
    <3> QED BY <1>4, <3>1, <3>3
  <2>5. CASE o \in May(throw, x)
    <3>1. throw /\ o.w = x /\ o.ok = FALSE
      BY <2>5 DEF May, Threw
    <3>2. HasRoom(a)
      <4> HIDE DEF a, h
      <4> QED BY <2>2, <2>3, RoomLeft
    <3>3. Good(c, h) /\ Pairs(c) = Pairs(a) /\ Occupied(c) = Occupied(a)
      <4> HIDE DEF a, h, hash
      <4> QED BY <2>2, <3>2, MarkedGood
    <3> HIDE DEF c
    <3>4. x = Put(w, i, c, w.tab[i].size, w.tab[i].ml)
      <4>1. w = [heap |-> w.heap, tab |-> w.tab, bad |-> w.bad]
        BY DEF Sound
      <4>2. x = [heap |-> [w.heap EXCEPT ![at] = c], tab |-> w.tab, bad |-> w.bad]
        BY <4>1
      <4>3. With(w.tab, i, w.tab[i]) = w.tab /\ Recount(w.tab[i], w.tab[i].size, w.tab[i].ml) = w.tab[i]
        BY TableIs
      <4> QED BY <4>2, <4>3 DEF Put, With
    <3>5. Sound(x, i) /\ Only(x, w, i) /\ EntriesIn(x, i) = Pairs(c)
      <4>1. w.tab[i].size = Cardinality(Occupied(c))
        BY <2>2, <3>3
      <4> HIDE DEF x
      <4> QED BY <3>3, <3>4, <4>1, PutIs
    <3> QED BY <2>2, <3>1, <3>3, <3>5
  <2> QED BY <2>1, <2>4, <2>5
<1> QED BY <1>3, <1>4

-----------------------------------------------------------------------------
(* Iteration.                                                                *)

LEMMA LessOrder ==
    ASSUME NEW M \in Nat \ {0}, NEW g1 \in Nat, NEW g2 \in Nat, NEW n1 \in 0 .. M - 1, NEW n2 \in 0 .. M - 1,
           g1 < g2
    PROVE  g1 * M + n1 < g2 * M + n2
<1>1. g2 - (g1 + 1) \in Nat
  OBVIOUS
<1>2. (g2 - (g1 + 1)) * M \in Nat /\ (g2 - (g1 + 1)) * M = g2 * M - g1 * M - M
  BY <1>1
<1>3. g1 * M \in Nat /\ g2 * M \in Nat
  OBVIOUS
<1> QED BY <1>2, <1>3

LEMMA SlotOrder ==
    ASSUME NEW a, Shaped(a), NEW p \in Slots(a), NEW q \in Slots(a)
    PROVE  p < q <=> GroupOf(p) < GroupOf(q) \/ (GroupOf(p) = GroupOf(q) /\ PlaceOf(p) < PlaceOf(q))
<1>1. /\ GroupOf(p) \in Groups(a) /\ PlaceOf(p) \in SlotNo /\ p = GroupOf(p) * N + PlaceOf(p)
      /\ GroupOf(q) \in Groups(a) /\ PlaceOf(q) \in SlotNo /\ q = GroupOf(q) * N + PlaceOf(q)
  BY ShapedIs, SlotHas
<1>2. N \in Nat \ {0} /\ SlotNo = 0 .. N - 1 /\ Groups(a) \in SUBSET Nat
  <2>1. Groups(a) = 0 .. Pow2[a.log] - 1
    BY ShapedIs
  <2> QED BY <2>1, SlotsAssumption DEF SlotNo
<1> DEFINE g1 == GroupOf(p)
           g2 == GroupOf(q)
           n1 == PlaceOf(p)
           n2 == PlaceOf(q)
<1>3. g1 \in Nat /\ g2 \in Nat /\ n1 \in 0 .. N - 1 /\ n2 \in 0 .. N - 1 /\ p = g1 * N + n1 /\ q = g2 * N + n2
  BY <1>1, <1>2
<1> HIDE DEF g1, g2, n1, n2
<1>4. g1 * N \in Nat /\ g2 * N \in Nat
  BY <1>2, <1>3
<1>5. CASE g1 < g2
  BY <1>2, <1>3, <1>5, LessOrder DEF g1, g2, n1, n2
<1>6. CASE g2 < g1
  <2>1. q < p
    BY <1>2, <1>3, <1>6, LessOrder
  <2>2. ~ (p < q)
    BY <1>3, <1>4, <2>1
  <2> QED BY <1>3, <1>6, <2>2 DEF g1, g2, n1, n2
<1>7. CASE g1 = g2
  <2>1. p < q <=> n1 < n2
    BY <1>3, <1>4, <1>7
  <2> QED BY <1>3, <1>7, <2>1 DEF g1, g2, n1, n2
<1> QED BY <1>3, <1>5, <1>6, <1>7

\* The first occupied slot after p, or none.
NextAfter(a, p, q) ==
    \/ /\ q \in Slots(a) /\ p < q /\ a.elem[q] # NoElement
       /\ \A o \in Slots(a) : p < o /\ o < q => a.elem[o] = NoElement
    \/ /\ q = NoSlot
       /\ \A o \in Slots(a) : p < o => a.elem[o] = NoElement

\* increment, of an iterator or of what an erase returned: from any slot, occupied or
\* not, to the next element there is; the sentinel stops it and nothing else.
THEOREM IncrementIsNext ==
    ASSUME NEW h \in Hasher, NEW a, Good(a, h), NEW p \in Slots(a)
    PROVE  NextAfter(a, p, increment(a, p))
<1> DEFINE g == p \div N
           m == p % N
           occ(o) == match_occupied(a.group[o])
           rest == {n \in occ(g) : n > m}
           later == {o \in Groups(a) : o > g /\ occ(o) # {}}
           q == IF rest # {} THEN g ELSE Min(later)
           n0 == IF rest # {} THEN Min(rest) ELSE Min(occ(q))
           last == Pow2[a.log] - 1
<1>1. Shaped(a) /\ MetaTrue(a, h)
  BY DEF Good
<1>2. /\ Groups(a) = 0 .. last /\ last \in Nat /\ Groups(a) \in SUBSET Nat
      /\ N \in Nat \ {0} /\ SlotNo = 0 .. N - 1 /\ SlotNo \in SUBSET Nat
  <2>1. Groups(a) = 0 .. last /\ Pow2[a.log] \in Nat \ {0}
    BY <1>1, ShapedIs
  <2>2. last \in Nat
    BY <2>1
  <2> HIDE DEF last
  <2> QED BY <2>1, <2>2, SlotsAssumption DEF SlotNo
<1>3. g \in Groups(a) /\ m \in SlotNo /\ p = g * N + m /\ ~ (g = last /\ m = N - 1)
      /\ GroupOf(p) = g /\ PlaceOf(p) = m
  BY <1>1, ShapedIs, SlotHas DEF GroupOf, PlaceOf
<1>4. \A o \in Groups(a) : \A n : n \in occ(o) <=> n \in SlotNo /\ a.group[o].byte[n] # 0
  BY DEF match_occupied, match_available, available_
<1>5. increment(a, p) = IF a.group[q].byte[n0] = 1 THEN NoSlot ELSE q * N + n0
  BY DEF increment, is_sentinel, sentinel_
<1>6. N - 1 \in occ(last) /\ last \in Groups(a)
  <2>1. a.group[last].byte[N - 1] = 1 /\ last \in Groups(a) /\ N - 1 \in SlotNo
    BY <1>1, <1>2 DEF MetaTrue
  <2> QED BY <1>4, <2>1
<1> HIDE DEF g, m, last
<1>7. rest \in SUBSET Nat /\ later \in SUBSET Nat /\ \A o \in Groups(a) : occ(o) \in SUBSET Nat
  BY <1>2, <1>3, <1>4
<1>8. ASSUME rest = {} PROVE later # {}
  <2>1. g # last
    <3> SUFFICES ASSUME g = last PROVE N - 1 \in rest
      BY <1>8
    <3>1. N - 1 > m
      BY <1>2, <1>3
    <3> QED BY <1>6, <3>1
  <2>2. last > g
    BY <1>2, <1>3, <2>1
  <2> QED BY <1>6, <2>2
<1>9. /\ q \in Groups(a) /\ n0 \in occ(q)
      /\ g < q \/ (q = g /\ m < n0)
      /\ \A o \in Groups(a) : \A n \in SlotNo :
           (g < o \/ (o = g /\ m < n)) /\ (o < q \/ (o = q /\ n < n0)) => a.group[o].byte[n] = 0
  <2>1. CASE rest # {}
    <3>1. q = g /\ n0 = Min(rest)
      BY <2>1
    <3>2. Min(rest) \in rest /\ \A n \in rest : Min(rest) <= n
      <4> HIDE DEF rest
      <4> QED BY <1>7, <2>1, MinIs
    <3>3. n0 \in occ(g) /\ n0 > m /\ n0 \in SlotNo
      BY <1>3, <1>4, <3>1, <3>2
    <3>4. \A n \in SlotNo : m < n /\ n < n0 => n \notin rest
      <4> HIDE DEF n0, rest
      <4> QED BY <1>2, <3>1, <3>2, <3>3
    <3>5. \A n \in SlotNo : m < n /\ n < n0 => a.group[g].byte[n] = 0
      BY <1>3, <1>4, <3>4
    <3> HIDE DEF q, n0, rest
    <3>6. \A o \in Groups(a) : ~ (g < o /\ o < g)
      BY <1>2, <1>3
    <3> QED BY <1>2, <1>3, <3>1, <3>3, <3>5, <3>6
  <2>2. CASE rest = {}
    <3>1. q = Min(later) /\ n0 = Min(occ(q))
      BY <2>2
    <3>2. q \in later /\ \A o \in later : q <= o
      <4>1. later # {}
        BY <1>8, <2>2
      <4> HIDE DEF later, q
      <4> QED BY <1>7, <3>1, <4>1, MinIs
    <3> HIDE DEF q, n0
    <3>3. q \in Groups(a) /\ g < q /\ occ(q) # {}
      BY <3>2
    <3>4. n0 \in occ(q) /\ \A n \in occ(q) : n0 <= n
      <4> HIDE DEF occ
      <4> QED BY <1>7, <3>1, <3>3, MinIs
    <3>5. n0 \in SlotNo
      BY <1>4, <3>3, <3>4
    <3>6. ASSUME NEW o \in Groups(a), NEW n \in SlotNo,
                 g < o \/ (o = g /\ m < n), o < q \/ (o = q /\ n < n0)
          PROVE  n \notin occ(o)
      <4>1. CASE o = g
        <5>1. m < n
          BY <1>2, <1>3, <3>6, <4>1
        <5> QED BY <2>2, <4>1, <5>1
      <4>2. CASE o # g /\ o < q
        <5>1. o \notin later
          BY <1>2, <3>2, <3>3, <4>2
        <5>2. g < o
          BY <3>6, <4>2
        <5> QED BY <5>1, <5>2
      <4>3. CASE o = q /\ n < n0
        BY <1>2, <3>4, <3>5, <4>3
      <4> QED BY <3>6, <4>1, <4>2, <4>3
    <3>7. \A o \in Groups(a) : \A n \in SlotNo :
            (g < o \/ (o = g /\ m < n)) /\ (o < q \/ (o = q /\ n < n0)) => a.group[o].byte[n] = 0
      BY <1>4, <3>6
    <3> QED BY <3>3, <3>4, <3>7
  <2> QED BY <2>1, <2>2
<1> HIDE DEF q, n0
<1>10. n0 \in SlotNo /\ a.group[q].byte[n0] # 0
  BY <1>4, <1>9
<1>11. \A o \in Slots(a) : /\ GroupOf(o) \in Groups(a) /\ PlaceOf(o) \in SlotNo
                           /\ o = GroupOf(o) * N + PlaceOf(o)
                           /\ p < o <=> g < GroupOf(o) \/ (GroupOf(o) = g /\ m < PlaceOf(o))
  BY <1>1, <1>3, ShapedIs, SlotHas, SlotOrder
<1>12. \A o \in Slots(a) : a.group[GroupOf(o)].byte[PlaceOf(o)] = 0 => a.elem[o] = NoElement
  <2> SUFFICES ASSUME NEW o \in Slots(a), a.group[GroupOf(o)].byte[PlaceOf(o)] = 0
               PROVE  a.elem[o] = NoElement
    OBVIOUS
  <2>1. Tells(a, h, GroupOf(o), PlaceOf(o)) /\ o = GroupOf(o) * N + PlaceOf(o)
    BY <1>1, <1>11, ByteTells
  <2> QED BY <2>1 DEF Tells
\* What the byte that was found says.
<1> DEFINE s == q * N + n0
<1>13. Tells(a, h, q, n0)
  BY <1>1, <1>9, <1>10, ByteTells
<1>14. CASE a.group[q].byte[n0] = 1
  <2>1. q = last /\ n0 = N - 1
    BY <1>14, <1>13 DEF Tells, last
  <2>2. \A o \in Slots(a) : GroupOf(o) < q \/ (GroupOf(o) = q /\ PlaceOf(o) < n0)
    <3> SUFFICES ASSUME NEW o \in Slots(a) PROVE GroupOf(o) < q \/ (GroupOf(o) = q /\ PlaceOf(o) < n0)
      OBVIOUS
    <3>1. GroupOf(o) \in 0 .. last /\ PlaceOf(o) \in 0 .. N - 1 /\ ~ (GroupOf(o) = last /\ PlaceOf(o) = N - 1)
      BY <1>1, <1>2, <1>11, SlotHas DEF last
    <3> QED BY <1>2, <2>1, <3>1
  <2>3. \A o \in Slots(a) : p < o => a.elem[o] = NoElement
    BY <1>9, <1>11, <1>12, <2>2
  <2> QED BY <1>5, <1>14, <2>3 DEF NextAfter
<1>15. CASE a.group[q].byte[n0] # 1
  <2>1. s \in Slots(a) /\ GroupOf(s) = q /\ PlaceOf(s) = n0
    <3>1. s \in Slots(a)
      BY <1>15, <1>13 DEF Tells
    <3>2. Shaped(a) /\ q \in Groups(a) /\ n0 \in SlotNo
      BY <1>1, <1>9, <1>10
    <3>3. GroupOf(q * N + n0) = q /\ PlaceOf(q * N + n0) = n0
      BY ONLY <3>2, SlotIs
    <3> QED BY <3>1, <3>3
  <2>2. a.elem[s] # NoElement
    <3>1. a.group[q].byte[n0] \in 0 .. 255
      BY <1>1, <1>9, <1>10 DEF Shaped, GroupType
    <3> DEFINE byte == a.group[q].byte[n0]
    <3>2. byte \in 0 .. 255 /\ byte # 0 /\ byte # 1
      BY <1>10, <1>15, <3>1
    <3> HIDE DEF byte
    <3>3. byte \in 2 .. 255
      BY ONLY <3>2
    <3> QED BY <1>13, <3>3 DEF Tells, byte
  <2> HIDE DEF s
  <2>3. p < s
    BY <1>9, <1>11, <2>1
  <2>4. \A o \in Slots(a) : o < s => GroupOf(o) < q \/ (GroupOf(o) = q /\ PlaceOf(o) < n0)
    BY <1>1, <2>1, SlotOrder
  <2>5. \A o \in Slots(a) : p < o /\ o < s => a.elem[o] = NoElement
    BY <1>9, <1>11, <1>12, <2>4
  <2> QED BY <1>5, <1>15, <2>1, <2>2, <2>3, <2>5 DEF NextAfter, s
<1> QED BY <1>14, <1>15
=============================================================================
