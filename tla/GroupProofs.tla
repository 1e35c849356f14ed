---------------------------- MODULE GroupProofs -----------------------------
(* The bit-interleaved group answers as the group of bytes, for every number *)
(* of slots and every hash.                                                  *)
EXTENDS InterleavedGroup, NumberLemmas

-----------------------------------------------------------------------------
(* A slot's bits in one word, and what they spell.                           *)

Nibble(x, p) == {i \in 0..3 : i * Lane + p \in x}
Spelt(B) == (IF 0 \in B THEN 1 ELSE 0) + (IF 1 \in B THEN 2 ELSE 0)
              + (IF 2 \in B THEN 4 ELSE 0) + (IF 3 \in B THEN 8 ELSE 0)

\* No two bits share a place.
LEMMA PlacesApart ==
    ASSUME NEW i \in 0..3, NEW j \in 0..3, NEW p \in 0..N, NEW q \in 0..N
    PROVE  /\ i * Lane + p \in Bit
           /\ i * Lane + p = j * Lane + q => i = j /\ p = q
<1> USE NAssumption DEF Lane, Bit
<1>1. i = 0 \/ i = 1 \/ i = 2 \/ i = 3
  OBVIOUS
<1>2. j = 0 \/ j = 1 \/ j = 2 \/ j = 3
  OBVIOUS
<1> QED BY <1>1, <1>2

LEMMA BitsSpell ==
    ASSUME NEW n \in 0..15
    PROVE  BitsOf(n) \in SUBSET (0..3) /\ Spelt(BitsOf(n)) = n
<1>1. \A i \in 0..3 : i \in BitsOf(n) <=> (n \div Weight[i + 1]) % 2 = 1
  BY DEF BitsOf
<1>2. /\ 0 \in BitsOf(n) <=> (n \div 1) % 2 = 1
      /\ 1 \in BitsOf(n) <=> (n \div 2) % 2 = 1
      /\ 2 \in BitsOf(n) <=> (n \div 4) % 2 = 1
      /\ 3 \in BitsOf(n) <=> (n \div 8) % 2 = 1
  BY <1>1 DEF Weight
<1> QED BY <1>2 DEF Spelt, BitsOf

LEMMA SpeltIsBits ==
    ASSUME NEW B \in SUBSET (0..3), NEW C \in SUBSET (0..3)
    PROVE  /\ Spelt(B) \in 0..15
           /\ Spelt(B) = Spelt(C) => B = C
           /\ Spelt(B) = 0 <=> B = {}
           /\ Spelt(B) = 1 <=> B = {0}
<1>1. Spelt(B) \in 0..15
  BY DEF Spelt
<1>2. Spelt(B) = Spelt(C) => \A i \in {0, 1, 2, 3} : i \in B <=> i \in C
  BY DEF Spelt
<1>3. Spelt(B) = 0 <=> \A i \in {0, 1, 2, 3} : i \notin B
  BY DEF Spelt
<1>4. Spelt(B) = 1 <=> \A i \in {0, 1, 2, 3} : i \in B <=> i = 0
  BY DEF Spelt
<1>5. \A i \in B \cup C : i \in {0, 1, 2, 3}
  OBVIOUS
<1>6. ASSUME Spelt(B) = Spelt(C) PROVE B = C
  <2>1. \A i : i \in B <=> i \in C
    BY <1>2, <1>5, <1>6
  <2> QED BY <2>1
<1>7. Spelt(B) = 0 <=> B = {}
  BY <1>3, <1>5
<1>8. Spelt(B) = 1 <=> B = {0}
  BY <1>4, <1>5
<1> QED BY <1>1, <1>6, <1>7, <1>8

\* A slot's byte has its low four bits in the first word and the others in the second.
LEMMA ByteIs ==
    ASSUME NEW g
    PROVE  \A p : ByteAt(g, p) = Spelt(Nibble(g[1], p)) + 16 * Spelt(Nibble(g[2], p))
  BY DEF ByteAt, Spelt, Nibble

\* The bits of the two halves of a byte.
LowBits(b) == BitsOf(b % 16)
HighBits(b) == BitsOf(b \div 16)

\* A byte is spelt by its two halves and nothing else.
LEMMA ByteSpells ==
    ASSUME NEW g, NEW p, NEW b \in 0..255
    PROVE  ByteAt(g, p) = b <=> Nibble(g[1], p) = LowBits(b) /\ Nibble(g[2], p) = HighBits(b)
<1> DEFINE A == Nibble(g[1], p)
           B == Nibble(g[2], p)
<1>1. A \in SUBSET (0..3) /\ B \in SUBSET (0..3)
  BY DEF Nibble
<1>2. ByteAt(g, p) = Spelt(A) + 16 * Spelt(B)
  BY ByteIs
<1>3. b % 16 \in 0..15 /\ b \div 16 \in 0..15 /\ b = (b % 16) + 16 * (b \div 16)
  OBVIOUS
<1>4. Spelt(A) \in 0..15 /\ Spelt(B) \in 0..15
  BY <1>1, SpeltIsBits
<1> HIDE DEF A, B
<1>5. ByteAt(g, p) = b <=> Spelt(A) = b % 16 /\ Spelt(B) = b \div 16
  BY <1>2, <1>3, <1>4
<1>6. Spelt(A) = b % 16 <=> A = LowBits(b)
  BY <1>1, <1>3, BitsSpell, SpeltIsBits DEF LowBits
<1>7. Spelt(B) = b \div 16 <=> B = HighBits(b)
  BY <1>1, <1>3, BitsSpell, SpeltIsBits DEF HighBits
<1> QED BY <1>5, <1>6, <1>7 DEF A, B

\* Free, sentinel, or neither.
LEMMA BytesDiffer ==
    ASSUME NEW g, NEW p
    PROVE  /\ ByteAt(g, p) \in 0..255
           /\ ByteAt(g, p) = 0 <=> Nibble(g[1], p) = {} /\ Nibble(g[2], p) = {}
           /\ ByteAt(g, p) = 1 <=> Nibble(g[1], p) = {0} /\ Nibble(g[2], p) = {}
<1> DEFINE A == Nibble(g[1], p)
           B == Nibble(g[2], p)
<1>1. A \in SUBSET (0..3) /\ B \in SUBSET (0..3)
  BY DEF Nibble
<1>2. ByteAt(g, p) = Spelt(A) + 16 * Spelt(B)
  BY ByteIs
<1>3. Spelt(A) \in 0..15 /\ Spelt(B) \in 0..15
  BY <1>1, SpeltIsBits
<1> HIDE DEF A, B
<1>4. ByteAt(g, p) = 0 <=> Spelt(A) = 0 /\ Spelt(B) = 0
  BY <1>2, <1>3
<1>5. ByteAt(g, p) = 1 <=> Spelt(A) = 1 /\ Spelt(B) = 0
  BY <1>2, <1>3
<1>6. ByteAt(g, p) \in 0..255
  BY <1>2, <1>3, SMTT(20)
<1> QED BY <1>1, <1>4, <1>5, <1>6, SpeltIsBits DEF A, B

-----------------------------------------------------------------------------
(* What the operations do to a slot's bits.                                  *)

Words == (SUBSET Bit) \X (SUBSET Bit)

LEMMA SlotsAre ==
    /\ SlotNo = 0..(N - 1)
    /\ \A p \in SlotNo : p \in 0..N /\ p # N
    /\ N \in 0..N /\ N - 1 \in SlotNo
  BY NAssumption DEF SlotNo, Layout!SlotNo

LEMMA NibbleCombines ==
    ASSUME NEW x, NEW y, NEW p \in 0..N
    PROVE  /\ Nibble(x \cup y, p) = Nibble(x, p) \cup Nibble(y, p)
           /\ Nibble(x \ y, p) = Nibble(x, p) \ Nibble(y, p)
           /\ Nibble(Bit, p) = 0..3
           /\ Nibble({}, p) = {}
<1>1. \A i \in 0..3 : i * Lane + p \in Bit
  BY PlacesApart
<1> QED BY <1>1 DEF Nibble

LEMMA NibbleOfAll == ASSUME NEW p \in 0..N PROVE Nibble(Bit, p) = 0..3
  BY NibbleCombines

\* Bits written for one slot are that slot's only.
BitsAt(B, pos) == {i * Lane + pos : i \in B}

LEMMA NibbleOfPlaces ==
    ASSUME NEW B \in SUBSET (0..3), NEW pos \in 0..N, NEW p \in 0..N
    PROVE  /\ BitsAt(B, pos) \in SUBSET Bit
           /\ Nibble(BitsAt(B, pos), p) = IF p = pos THEN B ELSE {}
<1> DEFINE X == BitsAt(B, pos)
<1>1. X \in SUBSET Bit
  <2>1. \A i \in B : i \in 0..3 /\ i * Lane + pos \in Bit
    BY PlacesApart
  <2> QED BY <2>1 DEF BitsAt
<1>2. \A i \in 0..3 : i * Lane + p \in X <=> p = pos /\ i \in B
  BY PlacesApart DEF BitsAt
<1> HIDE DEF X
<1>3. Nibble(X, p) = IF p = pos THEN B ELSE {}
  <2>1. \A i : i \in Nibble(X, p) <=> i \in 0..3 /\ p = pos /\ i \in B
    BY <1>2 DEF Nibble
  <2>2. CASE p = pos
    BY <2>1, <2>2
  <2>3. CASE p # pos
    BY <2>1, <2>3
  <2> QED BY <2>2, <2>3
<1> QED BY <1>1, <1>3 DEF X

LEMMA PutNibble ==
    ASSUME NEW x \in SUBSET Bit, NEW pos \in SlotNo, NEW n \in 0..15
    PROVE  /\ put_nibble(x, pos, n) \in SUBSET Bit
           /\ \A p \in 0..N : Nibble(put_nibble(x, pos, n), p)
                                = IF p = pos THEN BitsOf(n) ELSE Nibble(x, p)
<1> DEFINE on == BitsAt(BitsOf(n), pos)
           off == BitsAt(0..3 \ BitsOf(n), pos)
<1>1. BitsOf(n) \in SUBSET (0..3) /\ 0..3 \ BitsOf(n) \in SUBSET (0..3) /\ pos \in 0..N
  BY BitsSpell, SlotsAre
<1>2. on \in SUBSET Bit
  BY <1>1, NibbleOfPlaces
<1>3. ASSUME NEW p \in 0..N
      PROVE  Nibble(put_nibble(x, pos, n), p) = IF p = pos THEN BitsOf(n) ELSE Nibble(x, p)
  <2>1. /\ Nibble(on, p) = IF p = pos THEN BitsOf(n) ELSE {}
        /\ Nibble(off, p) = IF p = pos THEN 0..3 \ BitsOf(n) ELSE {}
    BY <1>1, NibbleOfPlaces
  <2>2. put_nibble(x, pos, n) = (x \cup on) \ off
    BY DEF put_nibble, BitsAt
  <2> HIDE DEF on, off
  <2>3. Nibble((x \cup on) \ off, p) = (Nibble(x, p) \cup Nibble(on, p)) \ Nibble(off, p)
    BY DEF Nibble
  <2>4. Nibble(x, p) \in SUBSET (0..3)
    BY DEF Nibble
  <2>5. CASE p = pos
    BY <1>1, <2>1, <2>2, <2>3, <2>4, <2>5
  <2>6. CASE p # pos
    BY <2>1, <2>2, <2>3, <2>6
  <2> QED BY <2>5, <2>6
<1>4. put_nibble(x, pos, n) \in SUBSET Bit
  BY <1>2 DEF put_nibble, BitsAt
<1> QED BY <1>3, <1>4

LEMMA ShiftIs ==
    ASSUME NEW x \in SUBSET Nat, NEW s \in Nat, NEW p \in Nat
    PROVE  p \in ShiftR(x, s) <=> p + s \in x
  BY DEF ShiftR

\* The lanes of a word folded on each other leave the slots that have all four bits.
LEMMA FoldIs ==
    ASSUME NEW x \in SUBSET Bit
    PROVE  Fold(x) = {p \in SlotNo : Nibble(x, p) = 0..3}
<1> DEFINE y == x \cap ShiftR(x, 2 * Lane)
<1>1. Lane \in Nat /\ x \in SUBSET Nat
  BY NAssumption DEF Lane, Bit
<1>3. y \in SUBSET Nat
  BY <1>1
<1>4. \A p \in Nat : p \in y <=> p \in x /\ p + 2 * Lane \in x
  BY <1>1, ShiftIs
<1> HIDE DEF y
<1>5. \A p \in Nat : p \in ShiftR(y, Lane) <=> p + Lane \in y
  BY <1>1, <1>3, ShiftIs
<1>6. ASSUME NEW p \in SlotNo PROVE p \in Fold(x) <=> Nibble(x, p) = 0..3
  <2>1. p \in Nat /\ p + Lane \in Nat
    BY <1>1, SlotsAre
  <2>2. p \in Fold(x) <=> p \in y /\ p + Lane \in y
    BY <1>5, <2>1 DEF Fold, y
  <2>3. p \in Fold(x) <=> p \in x /\ p + 2 * Lane \in x /\ p + Lane \in x
                            /\ (p + Lane) + 2 * Lane \in x
    BY <1>4, <2>1, <2>2
  <2>4. /\ p = 0 * Lane + p /\ p + 2 * Lane = 2 * Lane + p /\ p + Lane = 1 * Lane + p
        /\ (p + Lane) + 2 * Lane = 3 * Lane + p
    BY <1>1, <2>1
  <2>5. p \in Fold(x) <=> \A i \in {0, 1, 2, 3} : i * Lane + p \in x
    BY <2>3, <2>4
  <2>6. \A i : i \in 0..3 <=> i \in {0, 1, 2, 3}
    OBVIOUS
  <2>7. Nibble(x, p) = 0..3 <=> \A i \in 0..3 : i * Lane + p \in x
    BY DEF Nibble
  <2> QED BY <2>5, <2>6, <2>7
<1>7. Fold(x) \in SUBSET SlotNo
  BY DEF Fold
<1> QED BY <1>6, <1>7

-----------------------------------------------------------------------------
(* The questions.                                                            *)

LEMMA Spelling ==
    ASSUME NEW g
    PROVE  /\ \A p \in SlotNo : AsBytes(g).byte[p] = ByteAt(g, p)
           /\ Layout!SlotNo = SlotNo
  BY DEF AsBytes, SlotNo

LEMMA AvailableAgree ==
    ASSUME NEW g \in Words
    PROVE  match_available(g) = Layout!match_available(AsBytes(g))
<1>1. g[1] \in SUBSET Bit /\ g[2] \in SUBSET Bit
  BY DEF Words
<1>2. match_available(g) = {p \in SlotNo : Nibble(Bit \ (g[1] \cup g[2]), p) = 0..3}
  BY FoldIs DEF match_available
<1>3. ASSUME NEW p \in SlotNo
      PROVE  Nibble(Bit \ (g[1] \cup g[2]), p) = 0..3 <=> ByteAt(g, p) = 0
  <2> DEFINE A == Nibble(g[1], p)
             B == Nibble(g[2], p)
  <2>1. Nibble(Bit \ (g[1] \cup g[2]), p) = Nibble(Bit, p) \ (A \cup B)
    BY DEF Nibble
  <2>2. Nibble(Bit, p) = 0..3
    BY SlotsAre, NibbleCombines
  <2>3. A \in SUBSET (0..3) /\ B \in SUBSET (0..3)
    BY DEF Nibble
  <2>4. ByteAt(g, p) = 0 <=> A = {} /\ B = {}
    BY BytesDiffer
  <2> HIDE DEF A, B
  <2> QED BY <2>1, <2>2, <2>3, <2>4
<1>4. Layout!match_available(AsBytes(g)) = {p \in SlotNo : ByteAt(g, p) = 0}
  BY Spelling DEF Layout!match_available, Layout!available_
<1> QED BY <1>2, <1>3, <1>4

LEMMA OccupiedAgree ==
    ASSUME NEW g \in Words
    PROVE  match_occupied(g) = Layout!match_occupied(AsBytes(g))
<1> DEFINE x == g[1] \cup g[2]
           y == x \cup ShiftR(x, 2 * Lane)
<1>1. Lane \in Nat /\ x \in SUBSET Nat
  BY NAssumption DEF Lane, Bit, Words
<1>3. y \in SUBSET Nat
  BY <1>1 DEF ShiftR
<1>4. \A p \in Nat : p \in y <=> p \in x \/ p + 2 * Lane \in x
  BY <1>1, ShiftIs
<1> HIDE DEF y
<1>5. \A p \in Nat : p \in ShiftR(y, Lane) <=> p + Lane \in y
  BY <1>1, <1>3, ShiftIs
<1>6. ASSUME NEW p \in SlotNo PROVE p \in match_occupied(g) <=> ByteAt(g, p) # 0
  <2>1. p \in Nat /\ p + Lane \in Nat
    BY <1>1, SlotsAre
  <2>2. p \in match_occupied(g) <=> p \in y \/ p + Lane \in y
    BY <1>5, <2>1 DEF match_occupied, y
  <2>3. p \in match_occupied(g) <=> p \in x \/ p + 2 * Lane \in x \/ p + Lane \in x
                                      \/ (p + Lane) + 2 * Lane \in x
    BY <1>4, <2>1, <2>2
  <2>4. /\ p = 0 * Lane + p /\ p + 2 * Lane = 2 * Lane + p /\ p + Lane = 1 * Lane + p
        /\ (p + Lane) + 2 * Lane = 3 * Lane + p
    BY <1>1, <2>1
  <2>5. p \in match_occupied(g) <=> \E i \in {0, 1, 2, 3} : i * Lane + p \in x
    BY <2>3, <2>4
  <2>6. \A i : i \in 0..3 <=> i \in {0, 1, 2, 3}
    OBVIOUS
  <2>7. Nibble(g[1], p) = {} /\ Nibble(g[2], p) = {} <=> \A i \in 0..3 : i * Lane + p \notin x
    BY SMTT(20) DEF Nibble
  <2>8. ByteAt(g, p) = 0 <=> Nibble(g[1], p) = {} /\ Nibble(g[2], p) = {}
    BY BytesDiffer
  <2> QED BY <2>5, <2>6, <2>7, <2>8
<1>7. match_occupied(g) \in SUBSET SlotNo
  BY DEF match_occupied
<1>8. Layout!match_occupied(AsBytes(g)) = {p \in SlotNo : ByteAt(g, p) # 0}
  BY Spelling DEF Layout!match_occupied, Layout!match_available, Layout!available_
<1> QED BY <1>6, <1>7, <1>8

\* A reduced hash is a byte, none of the reserved ones, and the hash modulo eight.
LEMMA ReducedIs ==
    ASSUME NEW hash \in Nat
    PROVE  /\ Layout!reduced_hash(hash) \in 2..255
           /\ Layout!reduced_hash(hash) % 8 = hash % 8
<1> DEFINE b == hash % 256
           q == hash \div 256
<1>1. b \in 0..255 /\ q \in Nat /\ hash = 256 * q + b
  OBVIOUS
<1> HIDE DEF b, q
<1>2. b % 8 = (256 * q + b) % 8
  BY <1>1
<1>3. (b + 8) % 8 = b % 8
  BY <1>1
<1>4. Layout!reduced_hash(hash) = IF b < 2 THEN b + 8 ELSE b
  BY DEF Layout!reduced_hash, b
<1> QED BY <1>1, <1>2, <1>3, <1>4

LEMMA LaneOfPlace ==
    ASSUME NEW i \in 0..3, NEW p \in 0..N
    PROVE  (i * Lane + p) \div Lane = i
<1> DEFINE L == Lane
           q == (i * L + p) \div L
           r == (i * L + p) % L
<1>1. L \in Nat \ {0} /\ p \in 0..(L - 1) /\ i \in Nat
  BY NAssumption DEF Lane
<1> HIDE DEF L
<1>2. i * L + p \in Nat
  BY <1>1
<1>3. q \in Int /\ r \in 0..(L - 1) /\ i * L + p = q * L + r
  BY <1>1, <1>2
<1> HIDE DEF q, r
<1>4. ASSUME q >= i + 1 PROVE FALSE
  <2>1. q * L >= (i + 1) * L
    BY <1>1, <1>3, <1>4
  <2>2. (i + 1) * L = i * L + L
    BY <1>1
  <2> QED BY <1>1, <1>3, <2>1, <2>2
<1>5. ASSUME q <= i - 1 PROVE FALSE
  <2>1. q * L <= (i - 1) * L
    BY <1>1, <1>3, <1>5
  <2>2. (i - 1) * L = i * L - L
    BY <1>1
  <2> QED BY <1>1, <1>3, <2>1, <2>2
<1>6. q = i
  BY <1>1, <1>3, <1>4, <1>5
<1> QED BY <1>6 DEF q, L

LEMMA NibbleOfLanes ==
    ASSUME NEW n \in 0..15, NEW p \in 0..N
    PROVE  Nibble(LanesOf(n), p) = BitsOf(n)
<1>1. \A i \in 0..3 : i * Lane + p \in LanesOf(n) <=> i \in BitsOf(n)
  BY LaneOfPlace, PlacesApart DEF LanesOf
<1> QED BY <1>1, BitsSpell DEF Nibble

LEMMA MatchAgrees ==
    ASSUME NEW g \in Words, NEW hash \in Nat
    PROVE  match(g, hash) = Layout!match(AsBytes(g), hash)
<1> DEFINE n == Layout!reduced_hash(hash)
           X1 == LanesOf(n % 16)
           X2 == LanesOf(n \div 16)
           x == Xor(g[1], X1) \cup Xor(g[2], X2)
<1>1. n \in 0..255
  BY ReducedIs
<1>2. n % 16 \in 0..15 /\ n \div 16 \in 0..15
  BY <1>1
<1>3. match(g, hash) = {p \in SlotNo : Nibble(Bit \ x, p) = 0..3}
  BY FoldIs DEF match
<1> HIDE DEF n
<1>4. ASSUME NEW p \in SlotNo PROVE Nibble(Bit \ x, p) = 0..3 <=> ByteAt(g, p) = n
  <2> DEFINE A == Nibble(g[1], p)
             B == Nibble(g[2], p)
  <2>1. p \in 0..N
    BY SlotsAre
  <2>2. Nibble(X1, p) = BitsOf(n % 16) /\ Nibble(X2, p) = BitsOf(n \div 16)
    BY <1>2, <2>1, NibbleOfLanes
  <2> HIDE DEF X1, X2
  <2>3. Nibble(Bit \ x, p) = Nibble(Bit, p) \ (((A \ Nibble(X1, p)) \cup (Nibble(X1, p) \ A))
                                              \cup ((B \ Nibble(X2, p)) \cup (Nibble(X2, p) \ B)))
    BY DEF Nibble, Xor
  <2>4. Nibble(Bit, p) = 0..3
    BY ONLY <2>1, NibbleOfAll
  <2>5. A \in SUBSET (0..3) /\ B \in SUBSET (0..3)
          /\ Nibble(X1, p) \in SUBSET (0..3) /\ Nibble(X2, p) \in SUBSET (0..3)
    BY DEF Nibble
  <2>6. ByteAt(g, p) = n <=> A = BitsOf(n % 16) /\ B = BitsOf(n \div 16)
    <3>1. ByteAt(g, p) = n <=> /\ Nibble(g[1], p) = BitsOf(n % 16)
                               /\ Nibble(g[2], p) = BitsOf(n \div 16)
      BY <1>1, ByteSpells, Zenon DEF LowBits, HighBits
    <3> QED BY <3>1
  <2> HIDE DEF A, B
  <2>7. Nibble(Bit \ x, p) = 0..3 <=> A = Nibble(X1, p) /\ B = Nibble(X2, p)
    BY <2>3, <2>4, <2>5
  <2> QED BY <2>2, <2>6, <2>7
<1>5. Layout!match(AsBytes(g), hash) = {p \in SlotNo : ByteAt(g, p) = n}
  BY Spelling DEF Layout!match, n
<1> QED BY <1>3, <1>4, <1>5

\* Only the last slot can hold the sentinel's byte.
SentinelLast(g) == \A p \in SlotNo : ByteAt(g, p) = 1 => p = N - 1

LEMMA SlotAgrees ==
    ASSUME NEW g \in Words, SentinelLast(g), NEW pos \in SlotNo
    PROVE  /\ is_occupied(g, pos) = Layout!is_occupied(AsBytes(g), pos)
           /\ is_sentinel(g, pos) = Layout!is_sentinel(AsBytes(g), pos)
<1> DEFINE A(p) == Nibble(g[1], p)
           B(p) == Nibble(g[2], p)
<1>1. \A p : /\ ByteAt(g, p) = 0 <=> A(p) = {} /\ B(p) = {}
             /\ ByteAt(g, p) = 1 <=> A(p) = {0} /\ B(p) = {}
  BY BytesDiffer
<1>2. is_occupied(g, pos) <=> ~ (A(pos) = {} /\ B(pos) = {})
  BY DEF is_occupied, Nibble
<1>3. is_sentinel(g, pos) <=> pos = N - 1 /\ A(N - 1) = {0} /\ B(N - 1) = {}
  <2> DEFINE last == {i * Lane + N - 1 : i \in 0..3}
  <2>1. Lane \in Nat /\ N \in Nat /\ 0 \in 0..3 /\ N - 1 \in 0..N
    BY NAssumption DEF Lane
  <2>2. \A i \in 0..3 : i * Lane + N - 1 = i * Lane + (N - 1)
    BY <2>1
  <2>3. 0 * Lane + (N - 1) = N - 1
    BY <2>1
  <2>4. \A i \in 0..3 : i * Lane + (N - 1) = N - 1 <=> i = 0
    BY <2>1, <2>3, PlacesApart
  <2>5. last = {i * Lane + (N - 1) : i \in 0..3}
    BY <2>2
  <2> HIDE DEF last
  <2>6. g[1] \cap last = {N - 1} <=> A(N - 1) = {0}
    <3>1. ASSUME A(N - 1) = {0} PROVE g[1] \cap last = {N - 1}
      <4>1. \A i \in 0..3 : i * Lane + (N - 1) \in g[1] <=> i = 0
        BY <3>1 DEF Nibble
      <4> QED BY <2>1, <2>3, <2>5, <4>1
    <3>2. ASSUME g[1] \cap last = {N - 1} PROVE A(N - 1) = {0}
      <4>1. \A i \in 0..3 : i * Lane + (N - 1) \in g[1] <=> i = 0
        BY <2>4, <2>5, <3>2
      <4> QED BY <2>1, <4>1 DEF Nibble
    <3> QED BY <3>1, <3>2
  <2>7. g[2] \cap last = {} <=> B(N - 1) = {}
    BY <2>5 DEF Nibble
  <2>8. is_sentinel(g, pos) <=> pos = N - 1 /\ g[1] \cap last = {N - 1} /\ g[2] \cap last = {}
    BY DEF is_sentinel, last
  <2> QED BY <2>6, <2>7, <2>8
<1>4. AsBytes(g).byte[pos] = ByteAt(g, pos)
  BY Spelling
<1>5. is_occupied(g, pos) = Layout!is_occupied(AsBytes(g), pos)
  <2>1. is_occupied(g, pos) <=> ByteAt(g, pos) # 0
    BY <1>1, <1>2
  <2>2. Layout!is_occupied(AsBytes(g), pos) <=> ByteAt(g, pos) # 0
    BY <1>4 DEF Layout!is_occupied, Layout!available_
  <2>3. is_occupied(g, pos) \in BOOLEAN /\ Layout!is_occupied(AsBytes(g), pos) \in BOOLEAN
    BY DEF is_occupied, Layout!is_occupied
  <2> QED BY <2>1, <2>2, <2>3
<1>6. is_sentinel(g, pos) = Layout!is_sentinel(AsBytes(g), pos)
  <2>1. is_sentinel(g, pos) <=> ByteAt(g, pos) = 1
    BY <1>1, <1>3 DEF SentinelLast
  <2>2. Layout!is_sentinel(AsBytes(g), pos) <=> ByteAt(g, pos) = 1
    BY <1>4 DEF Layout!is_sentinel, Layout!sentinel_
  <2>3. is_sentinel(g, pos) \in BOOLEAN /\ Layout!is_sentinel(AsBytes(g), pos) \in BOOLEAN
    BY DEF is_sentinel, Layout!is_sentinel
  <2> QED BY <2>1, <2>2, <2>3
<1> QED BY <1>5, <1>6, SMTT(20)

LEMMA OverflowAgrees ==
    ASSUME NEW g \in Words, NEW hash \in Nat
    PROVE  is_not_overflowed(g, hash) = Layout!is_not_overflowed(AsBytes(g), hash)
<1> DEFINE h == hash % 8
<1>1. h \in 0..7 /\ h % 8 = h
  OBVIOUS
<1>2. is_not_overflowed(g, hash) = is_not_overflowed(g, h)
  <2>1. OverflowBit(hash) = OverflowBit(h) /\ Half(hash) = Half(h)
    BY <1>1 DEF OverflowBit, Half
  <2> HIDE DEF h
  <2> QED BY <2>1 DEF is_not_overflowed
<1> HIDE DEF h
<1>3. h \notin AsBytes(g).over <=> is_not_overflowed(g, h)
  BY <1>1 DEF AsBytes
<1>4. Layout!is_not_overflowed(AsBytes(g), hash) <=> h \notin AsBytes(g).over
  BY DEF Layout!is_not_overflowed, h
<1>5. is_not_overflowed(g, hash) \in BOOLEAN
        /\ Layout!is_not_overflowed(AsBytes(g), hash) \in BOOLEAN
  BY DEF is_not_overflowed, Layout!is_not_overflowed
<1> QED BY <1>2, <1>3, <1>4, <1>5

\* The three bits that maybe_caused_overflow gathers are the low ones of the byte.
LEMMA CausedAgrees ==
    ASSUME NEW g \in Words, NEW pos \in SlotNo
    PROVE  maybe_caused_overflow(g, pos) = Layout!maybe_caused_overflow(AsBytes(g), pos)
<1> DEFINE x == ShiftR(g[1], pos) \cap {0, Lane, 2 * Lane}
           y == x \cup ShiftR(x, Lane - 1) \cup ShiftR(x, 2 * Lane - 2)
           Bit3(i) == IF i \in y THEN Weight[i + 1] ELSE 0
           A == Nibble(g[1], pos)
           b == ByteAt(g, pos)
<1>1. Lane \in Nat /\ Lane >= 3 /\ g[1] \in SUBSET Nat /\ pos \in Nat
  BY NAssumption, SlotsAre DEF Lane, Bit, Words
<1>3. /\ 0 \in x <=> 0 \in A
      /\ Lane \in x <=> 1 \in A
      /\ 2 * Lane \in x <=> 2 \in A
  <2>1. \A k \in Nat : k \in ShiftR(g[1], pos) <=> k + pos \in g[1]
    BY <1>1, ShiftIs
  <2>2. \A k \in {0, Lane, 2 * Lane} : k \in x <=> k + pos \in g[1]
    BY <1>1, <2>1
  <2>3. 0 * Lane + pos = 0 + pos /\ 1 * Lane + pos = Lane + pos
    BY <1>1
  <2>4. \A i \in 0..3 : i \in A <=> i * Lane + pos \in g[1]
    BY DEF Nibble
  <2> HIDE DEF x, A
  <2>5. 0 \in x <=> 0 \in A
    BY <2>2, <2>3, <2>4
  <2>6. Lane \in x <=> 1 \in A
    BY <2>2, <2>3, <2>4
  <2>7. 2 * Lane \in x <=> 2 \in A
    BY <2>2, <2>4
  <2> QED BY <2>5, <2>6, <2>7
<1>4. x \in SUBSET Nat /\ x \in SUBSET {0, Lane, 2 * Lane}
  BY <1>1
<1> HIDE DEF x, A
<1>5. \A k \in 0..2 : k \in y <=> k \in x \/ k + (Lane - 1) \in x \/ k + (2 * Lane - 2) \in x
  <2>1. \A k \in Nat : k \in ShiftR(x, Lane - 1) <=> k + (Lane - 1) \in x
    <3>1. Lane - 1 \in Nat
      BY <1>1
    <3> QED BY <1>4, <3>1, ShiftIs
  <2>2. \A k \in Nat : k \in ShiftR(x, 2 * Lane - 2) <=> k + (2 * Lane - 2) \in x
    <3>1. 2 * Lane - 2 \in Nat
      BY <1>1
    <3> QED BY <1>4, <3>1, ShiftIs
  <2> QED BY <2>1, <2>2
<1> HIDE DEF y
<1>6. /\ 0 \in y <=> 0 \in A
      /\ 1 \in y <=> 1 \in A
      /\ 2 \in y <=> 2 \in A
  <2>1. 0 \in y <=> 0 \in A
    BY <1>1, <1>3, <1>4, <1>5
  <2>2. 1 \in y <=> 1 \in A
    <3>1. 1 + (Lane - 1) = Lane /\ 1 \notin x /\ 1 + (2 * Lane - 2) \notin x
      BY <1>1, <1>4
    <3> QED BY <1>3, <1>5, <3>1
  <2>3. 2 \in y <=> 2 \in A
    <3>1. 2 + (2 * Lane - 2) = 2 * Lane /\ 2 \notin x /\ 2 + (Lane - 1) \notin x
      BY <1>1, <1>4
    <3> QED BY <1>3, <1>5, <3>1
  <2> QED BY <2>1, <2>2, <2>3
<1>7. b \in 0..255 /\ Bit3(0) + Bit3(1) + Bit3(2) = b % 8
  <2> DEFINE c == Spelt(Nibble(g[2], pos))
             d == IF 3 \in A THEN 8 ELSE 0
             low == Bit3(0) + Bit3(1) + Bit3(2)
  <2>1. b = Spelt(A) + 16 * c
    BY ByteIs DEF A
  <2>2. c \in 0..15
    BY SpeltIsBits DEF Nibble
  <2> HIDE DEF c
  <2>3. /\ low = (IF 0 \in A THEN 1 ELSE 0) + (IF 1 \in A THEN 2 ELSE 0) + (IF 2 \in A THEN 4 ELSE 0)
        /\ low \in 0..7
    BY <1>6 DEF Weight
  <2>4. Spelt(A) = low + d /\ d \in {0, 8}
    BY <2>3 DEF Spelt
  <2> HIDE DEF b, low, d
  <2>5. b \in 0..255 /\ b % 8 = low
    BY <2>1, <2>2, <2>3, <2>4
  <2> QED BY <2>5 DEF low
<1>8. maybe_caused_overflow(g, pos) = ~ is_not_overflowed(g, b % 8)
  <2>1. maybe_caused_overflow(g, pos) = ~ is_not_overflowed(g, Bit3(0) + Bit3(1) + Bit3(2))
    BY DEF maybe_caused_overflow, x, y
  <2> QED BY <1>7, <2>1
<1> HIDE DEF b
<1>9. is_not_overflowed(g, b % 8) = Layout!is_not_overflowed(AsBytes(g), b % 8)
  BY <1>7, OverflowAgrees
<1>10. Layout!is_not_overflowed(AsBytes(g), b % 8) = Layout!is_not_overflowed(AsBytes(g), b)
  <2>1. (b % 8) % 8 = b % 8
    BY <1>7
  <2> QED BY <2>1 DEF Layout!is_not_overflowed
<1>11. Layout!maybe_caused_overflow(AsBytes(g), pos) = ~ Layout!is_not_overflowed(AsBytes(g), b)
  BY Spelling DEF Layout!maybe_caused_overflow, b
<1> QED BY <1>8, <1>9, <1>10, <1>11

-----------------------------------------------------------------------------
(* The changes.                                                              *)

LEMMA OverIs ==
    ASSUME NEW g, NEW i \in 0..7
    PROVE  /\ i % 4 \in 0..3 /\ i \div 4 \in 0..1
           /\ Half(i) = i \div 4 + 1 /\ OverflowBit(i) = (i % 4) * Lane + N
           /\ ~ is_not_overflowed(g, i) <=> i % 4 \in Nibble(g[i \div 4 + 1], N)
<1>1. i % 4 \in 0..3 /\ i \div 4 \in 0..1 /\ i % 8 = i
  OBVIOUS
<1>2. Half(i) = i \div 4 + 1 /\ OverflowBit(i) = (i % 4) * Lane + N
  BY <1>1 DEF Half, OverflowBit
<1> QED BY <1>1, <1>2 DEF is_not_overflowed, Nibble

WithByte(g, pos, b) == [g EXCEPT !.byte[pos] = b]
OnlyByte(h, g, pos, b) ==
    \A p \in SlotNo : ByteAt(h, p) = IF p = pos THEN b ELSE ByteAt(g, p)

LEMMA SetIs ==
    ASSUME NEW g \in Words, NEW pos \in SlotNo, NEW b \in 0..255
    PROVE  /\ set_impl(g, pos, b) \in Words
           /\ OnlyByte(set_impl(g, pos, b), g, pos, b)
           /\ AsBytes(set_impl(g, pos, b)) = WithByte(AsBytes(g), pos, b)
<1> DEFINE h == set_impl(g, pos, b)
<1>1. b % 16 \in 0..15 /\ b \div 16 \in 0..15
  OBVIOUS
<1>2. /\ h \in Words
      /\ \A p \in 0..N : /\ Nibble(h[1], p) = IF p = pos THEN BitsOf(b % 16) ELSE Nibble(g[1], p)
                         /\ Nibble(h[2], p) = IF p = pos THEN BitsOf(b \div 16) ELSE Nibble(g[2], p)
  <2>1. g[1] \in SUBSET Bit /\ g[2] \in SUBSET Bit
    BY DEF Words
  <2>2. /\ h[1] = put_nibble(g[1], pos, b % 16) /\ h[2] = put_nibble(g[2], pos, b \div 16)
        /\ h = <<put_nibble(g[1], pos, b % 16), put_nibble(g[2], pos, b \div 16)>>
    BY DEF set_impl
  <2>3. h \in Words
    <3>1. /\ put_nibble(g[1], pos, b % 16) \in SUBSET Bit
          /\ put_nibble(g[2], pos, b \div 16) \in SUBSET Bit
      BY <1>1, <2>1, PutNibble
    <3> HIDE DEF h
    <3> QED BY <2>2, <3>1 DEF Words
  <2>4. \A p \in 0..N : Nibble(put_nibble(g[1], pos, b % 16), p)
                          = IF p = pos THEN BitsOf(b % 16) ELSE Nibble(g[1], p)
    BY <1>1, <2>1, PutNibble
  <2>5. \A p \in 0..N : Nibble(put_nibble(g[2], pos, b \div 16), p)
                          = IF p = pos THEN BitsOf(b \div 16) ELSE Nibble(g[2], p)
    BY <1>1, <2>1, PutNibble
  <2>6. /\ \A p : Nibble(h[1], p) = Nibble(put_nibble(g[1], pos, b % 16), p)
        /\ \A p : Nibble(h[2], p) = Nibble(put_nibble(g[2], pos, b \div 16), p)
    BY <2>2
  <2> HIDE DEF h
  <2> QED BY <2>3, <2>4, <2>5, <2>6
<1> HIDE DEF h
<1>3. \A p \in SlotNo : ByteAt(h, p) = IF p = pos THEN b ELSE ByteAt(g, p)
  <2> SUFFICES ASSUME NEW p \in SlotNo
               PROVE  ByteAt(h, p) = IF p = pos THEN b ELSE ByteAt(g, p)
    OBVIOUS
  <2>1. p \in 0..N
    BY SlotsAre
  <2>2. CASE p = pos
    <3>1. Nibble(h[1], p) = BitsOf(b % 16) /\ Nibble(h[2], p) = BitsOf(b \div 16)
      BY <1>2, <2>1, <2>2
    <3>2. ByteAt(h, p) = b
      BY <3>1, ByteSpells, Zenon DEF LowBits, HighBits
    <3> QED BY <2>2, <3>2
  <2>3. CASE p # pos
    BY <1>2, <2>1, <2>3, ByteIs
  <2> QED BY <2>2, <2>3
<1>4. \A i \in 0..7 : is_not_overflowed(h, i) <=> is_not_overflowed(g, i)
  <2>1. N \in 0..N /\ N # pos
    BY SlotsAre
  <2>2. Nibble(h[1], N) = Nibble(g[1], N) /\ Nibble(h[2], N) = Nibble(g[2], N)
    BY <1>2, <2>1
  <2>3. \A i \in 0..7 : i \div 4 + 1 = 1 \/ i \div 4 + 1 = 2
    BY OverIs
  <2> QED BY <2>2, <2>3, OverIs
<1>5. AsBytes(h).byte = [AsBytes(g).byte EXCEPT ![pos] = b]
  BY <1>3 DEF AsBytes
<1>6. AsBytes(h).over = AsBytes(g).over
  BY <1>4 DEF AsBytes
<1>7. AsBytes(h) = WithByte(AsBytes(g), pos, b)
  BY <1>5, <1>6 DEF AsBytes, WithByte
<1> QED BY <1>2, <1>3, <1>7 DEF h, OnlyByte

LEMMA MarkIs ==
    ASSUME NEW g \in Words, NEW hash \in Nat
    PROVE  /\ mark_overflow(g, hash) \in Words
           /\ \A p \in SlotNo : ByteAt(mark_overflow(g, hash), p) = ByteAt(g, p)
           /\ AsBytes(mark_overflow(g, hash)) = Layout!mark_overflow(AsBytes(g), hash)
<1> DEFINE h == mark_overflow(g, hash)
           w == Half(hash)
           k == hash % 8
           j == k % 4
<1>1. k \in 0..7 /\ j \in 0..3 /\ w \in {1, 2} /\ w = k \div 4 + 1
      /\ OverflowBit(hash) = j * Lane + N
  <2>1. k \in 0..7 /\ j \in 0..3 /\ k \div 4 \in 0..1
    OBVIOUS
  <2> QED BY <2>1 DEF Half, OverflowBit
<1>2. h = [g EXCEPT ![w] = g[w] \cup {j * Lane + N}]
  BY <1>1 DEF mark_overflow
<1> HIDE DEF h, w, k, j
<1>3. g = <<g[1], g[2]>> /\ g[1] \in SUBSET Bit /\ g[2] \in SUBSET Bit
  BY DEF Words
<1>4. N \in 0..N /\ j * Lane + N \in Bit
  BY <1>1, SlotsAre, PlacesApart
<1>5. h \in Words
  BY <1>1, <1>2, <1>3, <1>4 DEF Words
<1>6. \A v \in {1, 2} : h[v] = IF v = w THEN g[v] \cup {j * Lane + N} ELSE g[v]
  <2>1. 1 \in DOMAIN g /\ 2 \in DOMAIN g
    BY <1>3
  <2> QED BY <1>1, <1>2, <2>1
<1>7. \A v \in {1, 2} : \A p \in 0..N : \A i \in 0..3 :
        i \in Nibble(h[v], p) <=> i \in Nibble(g[v], p) \/ (v = w /\ p = N /\ i = j)
  BY <1>1, <1>4, <1>6, PlacesApart DEF Nibble
<1>8. \A v \in {1, 2} : \A p \in SlotNo : Nibble(h[v], p) = Nibble(g[v], p)
  <2> SUFFICES ASSUME NEW v \in {1, 2}, NEW p \in SlotNo
               PROVE  Nibble(h[v], p) = Nibble(g[v], p)
    OBVIOUS
  <2>1. \A i \in 0..3 : i \in Nibble(h[v], p) <=> i \in Nibble(g[v], p)
    BY <1>7, SlotsAre
  <2> QED BY <2>1 DEF Nibble
<1>9. \A p \in SlotNo : ByteAt(h, p) = ByteAt(g, p)
  BY <1>8, ByteIs
<1>10. \A i \in 0..7 : ~ is_not_overflowed(h, i) <=> ~ is_not_overflowed(g, i) \/ i = k
  <2> SUFFICES ASSUME NEW i \in 0..7
               PROVE  ~ is_not_overflowed(h, i) <=> ~ is_not_overflowed(g, i) \/ i = k
    OBVIOUS
  <2>1. i % 4 \in 0..3 /\ i \div 4 + 1 \in {1, 2}
    BY OverIs
  <2>2. i = k <=> i \div 4 + 1 = w /\ i % 4 = j
    BY <1>1 DEF j
  <2>3. i % 4 \in Nibble(h[i \div 4 + 1], N) <=>
          i % 4 \in Nibble(g[i \div 4 + 1], N) \/ (i \div 4 + 1 = w /\ i % 4 = j)
    BY <1>4, <1>7, <2>1
  <2> QED BY <2>2, <2>3, OverIs
<1>11. AsBytes(h).over = AsBytes(g).over \cup {k}
  BY <1>1, <1>10 DEF AsBytes
<1>12. AsBytes(h).byte = AsBytes(g).byte
  BY <1>9 DEF AsBytes
<1>13. AsBytes(h) = Layout!mark_overflow(AsBytes(g), hash)
  BY <1>11, <1>12 DEF Layout!mark_overflow, AsBytes, k
<1> QED BY <1>5, <1>9, <1>13 DEF h

LEMMA InitializeIs ==
    /\ initialize \in Words
    /\ \A p \in SlotNo : ByteAt(initialize, p) = 0
    /\ AsBytes(initialize) = Layout!initialize
<1>1. initialize \in Words
  BY DEF initialize, Words
<1>2. \A p : Nibble(initialize[1], p) = {} /\ Nibble(initialize[2], p) = {}
  BY DEF initialize, Nibble
<1>3. \A p : ByteAt(initialize, p) = 0
  BY <1>2, ByteIs DEF Spelt
<1>4. \A i \in 0..7 : is_not_overflowed(initialize, i)
  <2>1. \A i \in 0..7 : i \div 4 + 1 = 1 \/ i \div 4 + 1 = 2
    BY OverIs
  <2> QED BY <1>2, <2>1, OverIs
<1>5. AsBytes(initialize) = [byte |-> [p \in SlotNo |-> 0], over |-> {}]
  BY <1>3, <1>4 DEF AsBytes
<1> QED BY <1>1, <1>3, <1>5, Spelling DEF Layout!initialize, Layout!available_

-----------------------------------------------------------------------------
(* The life of the group.  Beside its type, that a byte keeps the hash it was  *)
(* reduced from modulo eight and the overflow bits are those of the hashes     *)
(* that found the group full.                                                *)

BytesStored ==
    \A p \in SlotNo : ByteAt(m, p) \notin {0, 1} => ByteAt(m, p) % 8 = stored[p] % 8
OverNoted == AsBytes(m).over = {h % 8 : h \in overflowed}

GroupInv == TypeOK /\ SentinelLast(m) /\ BytesStored /\ OverNoted

LEMMA InvTypes ==
    ASSUME GroupInv
    PROVE  m \in Words /\ Layout!SlotNo = SlotNo /\ Regular!SlotNo = SlotNo
  BY DEF GroupInv, TypeOK, Words, SlotNo, Layout!SlotNo, Regular!SlotNo

\* A group may have the sentinel from the beginning.
LEMMA FreshIs ==
    ASSUME NEW g \in {initialize, set_sentinel(initialize)}
    PROVE  /\ g \in Words /\ SentinelLast(g) /\ \A p \in SlotNo : ByteAt(g, p) \in {0, 1}
           /\ AsBytes(g).over = {}
           /\ AsBytes(g) = IF g = initialize THEN Layout!initialize
                           ELSE Layout!set_sentinel(Layout!initialize)
<1>1. CASE g = initialize
  <2>1. AsBytes(initialize).over = {}
    BY InitializeIs DEF Layout!initialize
  <2> QED BY <1>1, <2>1, InitializeIs DEF SentinelLast
<1>2. CASE g # initialize
  <2>1. g = set_impl(initialize, N - 1, 1) /\ 1 \in 0..255 /\ N - 1 \in SlotNo
    BY <1>2, SlotsAre DEF set_sentinel, Layout!sentinel_
  <2>2. /\ g \in Words
        /\ OnlyByte(g, initialize, N - 1, 1)
        /\ AsBytes(g) = WithByte(AsBytes(initialize), N - 1, 1)
    BY <2>1, InitializeIs, SetIs
  <2>3. AsBytes(g) = Layout!set_sentinel(Layout!initialize)
    BY <2>2, InitializeIs DEF Layout!set_sentinel, Layout!sentinel_, WithByte
  <2>4. AsBytes(g).over = {}
    BY <2>3 DEF Layout!set_sentinel, Layout!initialize
  <2>5. SentinelLast(g) /\ \A p \in SlotNo : ByteAt(g, p) \in {0, 1}
    BY <2>2, InitializeIs DEF SentinelLast, OnlyByte
  <2> QED BY <1>2, <2>2, <2>3, <2>4, <2>5
<1> QED BY <1>1, <1>2

LEMMA GroupInit == Init => GroupInv /\ Regular!Init
<1> SUFFICES ASSUME Init PROVE GroupInv /\ Regular!Init
  OBVIOUS
<1>1. m \in {initialize, set_sentinel(initialize)} /\ stored = [n \in SlotNo |-> 0]
        /\ overflowed = {}
  BY DEF Init
<1>2. TypeOK
  BY <1>1, FreshIs DEF TypeOK, Words
<1>3. SentinelLast(m) /\ BytesStored /\ OverNoted
  BY <1>1, FreshIs DEF BytesStored, OverNoted
<1>4. Regular!Init
  BY <1>1, FreshIs
     DEF Regular!Init, SlotNo, Layout!SlotNo, Regular!SlotNo, Regular!initialize, Layout!initialize,
         Regular!set_sentinel, Layout!set_sentinel, Regular!sentinel_, Layout!sentinel_,
         Regular!available_, Layout!available_
<1> QED BY <1>2, <1>3, <1>4 DEF GroupInv

LEMMA InsertStep ==
    ASSUME GroupInv, NEW hash \in Hash, Insert(hash)
    PROVE  GroupInv' /\ Regular!Insert(hash)
<1> DEFINE b == Layout!reduced_hash(hash)
<1>1. PICK pos \in match_available(m) :
        m' = set(m, pos, hash) /\ stored' = [stored EXCEPT ![pos] = hash] /\ overflowed' = overflowed
  BY DEF Insert
<1>2. hash \in Nat /\ b \in 2..255 /\ b % 8 = hash % 8
  BY HashAssumption, ReducedIs
<1>3. m \in Words /\ pos \in Layout!match_available(AsBytes(m)) /\ pos \in SlotNo
  BY <1>1, InvTypes, AvailableAgree DEF Layout!match_available
<1>4. m' = set_impl(m, pos, b) /\ b \in 0..255
  BY <1>1, <1>2 DEF set
<1> HIDE DEF b
<1>5. /\ m' \in Words
      /\ OnlyByte(m', m, pos, b)
      /\ AsBytes(m') = WithByte(AsBytes(m), pos, b)
  BY <1>3, <1>4, SetIs
<1>6. TypeOK'
  BY <1>1, <1>5 DEF GroupInv, TypeOK, Words
<1>7. SentinelLast(m')
  BY <1>2, <1>5 DEF GroupInv, SentinelLast, OnlyByte
<1>8. BytesStored'
  <2>1. \A p \in SlotNo : stored'[p] = IF p = pos THEN hash ELSE stored[p]
    BY <1>1 DEF GroupInv, TypeOK
  <2> QED BY <1>2, <1>5, <2>1 DEF GroupInv, BytesStored, OnlyByte
<1>9. OverNoted'
  <2>1. AsBytes(m').over = AsBytes(m).over
    BY <1>5 DEF AsBytes, WithByte
  <2> QED BY <1>1, <2>1 DEF GroupInv, OverNoted
<1>10. Regular!Insert(hash)
  <2>1. Regular!match_available(AsBytes(m)) = Layout!match_available(AsBytes(m))
    BY DEF Regular!match_available, Layout!match_available, Regular!SlotNo, Layout!SlotNo,
           Regular!available_, Layout!available_
  <2>2. Regular!set(AsBytes(m), pos, hash) = WithByte(AsBytes(m), pos, b)
    BY DEF WithByte, Regular!set, Regular!reduced_hash, Layout!reduced_hash, b
  <2>3. AsBytes(m') = Regular!set(AsBytes(m), pos, hash)
    BY <1>5, <2>2
  <2> QED BY <1>1, <1>3, <2>1, <2>3 DEF Regular!Insert
<1> QED BY <1>6, <1>7, <1>8, <1>9, <1>10 DEF GroupInv, SentinelLast

LEMMA OverflowStep ==
    ASSUME GroupInv, NEW hash \in Hash, Overflow(hash)
    PROVE  GroupInv' /\ Regular!Overflow(hash)
<1>1. /\ match_available(m) = {} /\ m' = mark_overflow(m, hash)
      /\ overflowed' = overflowed \cup {hash} /\ stored' = stored
  BY DEF Overflow
<1>2. hash \in Nat /\ m \in Words
  BY HashAssumption, InvTypes
<1>3. /\ m' \in Words
      /\ \A p \in SlotNo : ByteAt(m', p) = ByteAt(m, p)
      /\ AsBytes(m') = Layout!mark_overflow(AsBytes(m), hash)
  BY <1>1, <1>2, MarkIs
<1>4. TypeOK'
  BY <1>1, <1>3 DEF GroupInv, TypeOK, Words
<1>5. SentinelLast(m') /\ BytesStored'
  BY <1>1, <1>3 DEF GroupInv, SentinelLast, BytesStored
<1>6. OverNoted'
  <2>1. AsBytes(m').over = AsBytes(m).over \cup {hash % 8}
    BY <1>3 DEF Layout!mark_overflow, AsBytes
  <2> QED BY <1>1, <2>1 DEF GroupInv, OverNoted
<1>7. Regular!Overflow(hash)
  <2>1. Regular!match_available(AsBytes(m)) = {}
    BY <1>1, <1>2, AvailableAgree
       DEF Regular!match_available, Layout!match_available, Regular!SlotNo, Layout!SlotNo,
           Regular!available_, Layout!available_
  <2>2. AsBytes(m') = Regular!mark_overflow(AsBytes(m), hash)
    BY <1>3 DEF Regular!mark_overflow, Layout!mark_overflow
  <2> QED BY <1>1, <2>1, <2>2 DEF Regular!Overflow
<1> QED BY <1>4, <1>5, <1>6, <1>7 DEF GroupInv, SentinelLast

LEMMA EraseStep ==
    ASSUME GroupInv, NEW pos \in SlotNo, Erase(pos)
    PROVE  GroupInv' /\ Regular!Erase(pos)
<1>1. /\ is_occupied(m, pos) /\ ~ is_sentinel(m, pos) /\ m' = set_impl(m, pos, 0)
      /\ stored' = [stored EXCEPT ![pos] = 0] /\ overflowed' = overflowed
  BY DEF Erase, reset, Layout!available_
<1>2. m \in Words /\ SentinelLast(m) /\ 0 \in 0..255
  BY InvTypes DEF GroupInv
<1>3. m' \in Words /\ OnlyByte(m', m, pos, 0) /\ AsBytes(m') = WithByte(AsBytes(m), pos, 0)
  BY <1>1, <1>2, SetIs
<1>4. TypeOK'
  BY <1>1, <1>3 DEF GroupInv, TypeOK, Words
<1>5. SentinelLast(m')
  BY <1>3 DEF GroupInv, SentinelLast, OnlyByte
<1>6. BytesStored'
  <2>1. \A p \in SlotNo : p # pos => stored'[p] = stored[p]
    BY <1>1 DEF GroupInv, TypeOK
  <2> QED BY <1>3, <2>1 DEF GroupInv, BytesStored, OnlyByte
<1>7. OverNoted'
  <2>1. AsBytes(m').over = AsBytes(m).over
    BY <1>3 DEF AsBytes, WithByte
  <2> QED BY <1>1, <2>1 DEF GroupInv, OverNoted
<1>8. Regular!Erase(pos)
  <2>1. Regular!is_occupied(AsBytes(m), pos) /\ ~ Regular!is_sentinel(AsBytes(m), pos)
    <3>1. Layout!is_occupied(AsBytes(m), pos) /\ ~ Layout!is_sentinel(AsBytes(m), pos)
      BY <1>1, <1>2, SlotAgrees
    <3> QED BY <3>1
            DEF Regular!is_occupied, Layout!is_occupied, Regular!is_sentinel, Layout!is_sentinel,
                Regular!available_, Layout!available_, Regular!sentinel_, Layout!sentinel_
  <2>2. AsBytes(m') = Regular!reset(AsBytes(m), pos)
    BY <1>3 DEF Regular!reset, Regular!available_, WithByte
  <2> QED BY <1>1, <2>1, <2>2 DEF Regular!Erase
<1> QED BY <1>4, <1>5, <1>6, <1>7, <1>8 DEF GroupInv, SentinelLast

LEMMA ClearStep ==
    ASSUME GroupInv, Clear
    PROVE  GroupInv' /\ Regular!Clear
<1>1. /\ m' = IF is_sentinel(m, N - 1) THEN set_sentinel(initialize) ELSE initialize
      /\ stored' = [n \in SlotNo |-> 0] /\ overflowed' = {}
  BY DEF Clear
<1>2. m \in Words /\ SentinelLast(m) /\ N - 1 \in SlotNo
  BY InvTypes, SlotsAre DEF GroupInv
<1>3. m' \in {initialize, set_sentinel(initialize)}
  BY <1>1
<1>4. /\ m' \in Words /\ SentinelLast(m') /\ \A p \in SlotNo : ByteAt(m', p) \in {0, 1}
      /\ AsBytes(m').over = {}
      /\ AsBytes(m') = IF m' = initialize THEN Layout!initialize
                       ELSE Layout!set_sentinel(Layout!initialize)
  BY <1>3, FreshIs
<1>5. TypeOK'
  BY <1>1, <1>4 DEF TypeOK, Words
<1>6. BytesStored' /\ OverNoted'
  BY <1>1, <1>4 DEF BytesStored, OverNoted
<1>7. set_sentinel(initialize) # initialize
  <2>1. set_sentinel(initialize) = set_impl(initialize, N - 1, 1) /\ 1 \in 0..255
    BY DEF set_sentinel, Layout!sentinel_
  <2>2. OnlyByte(set_impl(initialize, N - 1, 1), initialize, N - 1, 1)
    BY <1>2, <2>1, InitializeIs, SetIs
  <2>3. ByteAt(set_impl(initialize, N - 1, 1), N - 1) = 1 /\ ByteAt(initialize, N - 1) = 0
    BY <1>2, <2>2, InitializeIs DEF OnlyByte
  <2> QED BY <2>1, <2>3
<1>8. Regular!Clear
  <2>1. Regular!is_sentinel(AsBytes(m), N - 1) <=> is_sentinel(m, N - 1)
    BY <1>2, SlotAgrees
       DEF Regular!is_sentinel, Layout!is_sentinel, Regular!sentinel_, Layout!sentinel_
  <2>2. /\ Regular!initialize = Layout!initialize /\ Regular!SlotNo = SlotNo
        /\ Regular!set_sentinel(Regular!initialize) = Layout!set_sentinel(Layout!initialize)
    BY DEF SlotNo, Layout!SlotNo, Regular!SlotNo, Regular!initialize, Layout!initialize,
           Regular!set_sentinel, Layout!set_sentinel, Regular!sentinel_, Layout!sentinel_,
           Regular!available_, Layout!available_
  <2>3. AsBytes(m') = IF Regular!is_sentinel(AsBytes(m), N - 1)
                      THEN Regular!set_sentinel(Regular!initialize) ELSE Regular!initialize
    BY <1>1, <1>4, <1>7, <2>1, <2>2
  <2> QED BY <1>1, <2>2, <2>3 DEF Regular!Clear
<1> QED BY <1>4, <1>5, <1>6, <1>8 DEF GroupInv, SentinelLast

LEMMA GroupStep == GroupInv /\ [Next]_vars => GroupInv' /\ [Regular!Next]_(Regular!vars)
<1> SUFFICES ASSUME GroupInv, [Next]_vars PROVE GroupInv' /\ [Regular!Next]_(Regular!vars)
  OBVIOUS
<1>1. ASSUME NEW hash \in Hash, Insert(hash) PROVE GroupInv' /\ Regular!Next
  BY <1>1, InsertStep DEF Regular!Next
<1>2. ASSUME NEW hash \in Hash, Overflow(hash) PROVE GroupInv' /\ Regular!Next
  BY <1>2, OverflowStep DEF Regular!Next
<1>3. ASSUME NEW pos \in SlotNo, Erase(pos) PROVE GroupInv' /\ Regular!Next
  BY <1>3, EraseStep, InvTypes DEF Regular!Next
<1>4. CASE Clear
  BY <1>4, ClearStep DEF Regular!Next
<1>5. CASE UNCHANGED vars
  BY <1>5 DEF vars, Regular!vars, GroupInv, TypeOK, SentinelLast, BytesStored, OverNoted
<1> QED BY <1>1, <1>2, <1>3, <1>4, <1>5 DEF Next

LEMMA GroupAlways == Spec => []GroupInv
  BY GroupInit, GroupStep, PTL DEF Spec

-----------------------------------------------------------------------------
(* The Neon build.  Masks are numbers there; lane N, the overflow byte, is   *)
(* compared along with the slots.                                            *)

LEMMA Pow2Doubles == Doubling(Regular!Pow2)
  BY DoublingExists DEF Regular!Pow2, Doubling

LaneBits == [i \in 0 .. N |-> Regular!Pow2[i]]

\* The number of a mask is a sum in the sense of NumberLemmas.
LEMMA NumberIs ==
    \E it : /\ IsSum(it, 0 .. N, LaneBits, AnyOf(0 .. N))
           /\ \A S \in SUBSET (0 .. N) : Regular!Number(S) = it[S]
<1> DEFINE P == Regular!Pow2
           Unfolded(S, f) == [s \in SUBSET S |->
              IF s = {} THEN 0
              ELSE LET x == CHOOSE x \in s : TRUE
                   IN  P[x] + f[s \ {x}]]
           SelfMade(S, f) == f = Unfolded(S, f)
           g(S) == CHOOSE f : SelfMade(S, f)
<1>1. /\ \A i \in 0 .. N : P[i] \in Int
      /\ IsFiniteSet(0 .. N)
      /\ LaneBits \in [0 .. N -> Int]
  <2>1. \A i \in 0 .. N : P[i] \in Int
    BY Pow2Doubles, DoublingIs, NAssumption
  <2>2. IsFiniteSet(0 .. N)
    BY FS_Interval, NAssumption
  <2> QED BY <2>1, <2>2 DEF LaneBits
<1>2. PICK it : IsSum(it, 0 .. N, LaneBits, AnyOf(0 .. N))
  BY <1>1, SumExists, AnyChooses
<1> HIDE DEF P
<1>3. ASSUME NEW S \in SUBSET (0 .. N) PROVE Regular!Number(S) = it[S]
  <2> DEFINE V == [i \in S |-> P[i]]
             jt == [s \in SUBSET S |-> it[s]]
  <2>1. IsFiniteSet(S) /\ V \in [S -> Int] /\ Chooses(AnyOf(S), S)
    <3>1. IsFiniteSet(S)
      BY <1>1, FS_Subset
    <3>2. V \in [S -> Int]
      BY <1>1
    <3> HIDE DEF V
    <3> QED BY <3>1, <3>2, AnyChooses
  <2>2. ASSUME NEW s \in SUBSET S
        PROVE  jt[s] = IF s = {} THEN 0 ELSE V[AnyOf(S)[s]] + jt[s \ {AnyOf(S)[s]}]
    <3>1. AnyOf(S)[s] = AnyOf(0 .. N)[s] /\ (s # {} => AnyOf(S)[s] \in s)
      BY DEF AnyOf
    <3>2. s # {} => LaneBits[AnyOf(S)[s]] = V[AnyOf(S)[s]]
      BY <3>1 DEF LaneBits, P
    <3>3. it[s] = IF s = {} THEN 0 ELSE LaneBits[AnyOf(S)[s]] + it[s \ {AnyOf(S)[s]}]
      BY <1>2, <3>1 DEF IsSum
    <3> QED BY <3>1, <3>2, <3>3
  <2>3. jt \in [SUBSET S -> Int]
    BY <1>2 DEF IsSum
  <2>4. IsSum(jt, S, V, AnyOf(S))
    <3> HIDE DEF V, jt
    <3> QED BY <2>2, <2>3 DEF IsSum
  <2>5. SelfMade(S, jt)
    <3>1. ASSUME NEW s \in SUBSET S PROVE jt[s] = Unfolded(S, jt)[s]
      <4> DEFINE x == CHOOSE x \in s : TRUE
      <4>1. AnyOf(S)[s] = x /\ (s # {} => x \in s)
        BY DEF AnyOf
      <4>2. Unfolded(S, jt)[s] = IF s = {} THEN 0 ELSE P[x] + jt[s \ {x}]
        OBVIOUS
      <4> HIDE DEF x, jt
      <4> QED BY <2>2, <4>1, <4>2
    <3> QED BY <3>1
  <2>6. SelfMade(S, g(S))
    <3> HIDE DEF SelfMade, jt
    <3> QED BY <2>5, Zenon
  <2>7. g(S)[S] = Regular!Number(S)
    BY DEF Regular!Number, Regular!MapThenSumSet, Regular!MapThenFoldSet, P
  <2> HIDE DEF g
  <2>8. DOMAIN g(S) = SUBSET S /\ g(S) = [s \in SUBSET S |-> g(S)[s]]
    BY <2>6
  <2>9. ASSUME NEW s \in SUBSET S
        PROVE  g(S)[s] = IF s = {} THEN 0 ELSE V[AnyOf(S)[s]] + g(S)[s \ {AnyOf(S)[s]}]
    <3> DEFINE x == CHOOSE x \in s : TRUE
    <3>1. AnyOf(S)[s] = x /\ (s # {} => x \in s)
      BY DEF AnyOf
    <3>2. g(S)[s] = IF s = {} THEN 0 ELSE P[x] + g(S)[s \ {x}]
      BY <2>6, Zenon
    <3> HIDE DEF x
    <3> QED BY <3>1, <3>2
  <2>10. PICK h : h = g(S)
    OBVIOUS
  <2> HIDE DEF V, jt
  <2>11. IsSum(h, S, V, AnyOf(S))
    BY <2>1, <2>8, <2>9, <2>10, SumIsOnly
  <2>12. h[S] = jt[S]
    BY <2>1, <2>4, <2>11, SumOnlyOne
  <2> QED BY <2>7, <2>10, <2>12 DEF jt
<1> QED BY <1>2, <1>3

\* Bits can be taken out in any order,
LEMMA NumberTakes ==
    /\ Regular!Number({}) = 0
    /\ \A s \in SUBSET (0 .. N) : \A x \in s :
         Regular!Number(s) = Regular!Pow2[x] + Regular!Number(s \ {x})
<1> DEFINE S == 0 .. N
<1>1. PICK it : IsSum(it, S, LaneBits, AnyOf(S)) /\ \A s \in SUBSET S : Regular!Number(s) = it[s]
  BY NumberIs
<1>2. IsFiniteSet(S) /\ LaneBits \in [S -> Int] /\ Chooses(AnyOf(S), S)
  <2>1. \A i \in S : Regular!Pow2[i] \in Int
    BY Pow2Doubles, DoublingIs, NAssumption
  <2>2. IsFiniteSet(S)
    BY FS_Interval, NAssumption
  <2>3. LaneBits \in [S -> Int]
    BY <2>1 DEF LaneBits
  <2> HIDE DEF S
  <2> QED BY <2>2, <2>3, AnyChooses
<1>3. \A x \in S : LaneBits[x] = Regular!Pow2[x]
  BY DEF LaneBits
<1> HIDE DEF S
<1>4. \A s \in SUBSET S : \A x \in s : it[s] = LaneBits[x] + it[s \ {x}]
  <2>1. /\ IsSum(it, S, LaneBits, AnyOf(S)) /\ IsFiniteSet(S)
        /\ LaneBits \in [S -> Int] /\ Chooses(AnyOf(S), S)
    BY <1>1, <1>2
  <2> SUFFICES ASSUME NEW s \in SUBSET S, NEW x \in s
               PROVE  it[s] = LaneBits[x] + it[s \ {x}]
    OBVIOUS
  <2> QED BY <2>1, SumAnyOrder
<1>5. it[{}] = 0
  BY <1>1 DEF IsSum
<1>6. /\ Regular!Number({}) = 0
      /\ \A s \in SUBSET S : \A x \in s :
           Regular!Number(s) = Regular!Pow2[x] + Regular!Number(s \ {x})
  BY <1>1, <1>3, <1>4, <1>5
<1> QED BY <1>6 DEF S

\* and those below the k-th are a number below its weight.
LEMMA BitsBelow ==
    \A k \in 0 .. N + 1 : \A s \in SUBSET (0 .. k - 1) : Regular!Number(s) \in 0 .. Regular!Pow2[k] - 1
<1> DEFINE P == Regular!Pow2
           Below(k) == \A s \in SUBSET (0 .. k - 1) : Regular!Number(s) \in 0 .. P[k] - 1
           T == {k \in Nat : k <= N + 1 /\ ~ Below(k)}
<1> USE NAssumption
<1>1. P[0] = 1 /\ \A k \in Nat : P[k] \in Nat \ {0} /\ P[k + 1] = 2 * P[k]
  BY Pow2Doubles, DoublingIs
<1>3. \A s \in SUBSET (0 .. N) : \A x \in s : Regular!Number(s) = P[x] + Regular!Number(s \ {x})
  BY NumberTakes
<1>4. Regular!Number({}) = 0
  BY NumberTakes
<1> HIDE DEF P
<1>5. T = {}
  <2> SUFFICES ASSUME T # {} PROVE FALSE
    OBVIOUS
  <2> HIDE DEF Below
  <2>1. PICK k \in T : \A j \in T : k <= j
    BY LeastNatural
  <2>2. k # 0
    <3>1. Below(0)
      <4>1. \A s \in SUBSET (0 .. 0 - 1) : s = {}
        OBVIOUS
      <4>2. 0 \in 0 .. P[0] - 1
        BY <1>1
      <4> QED BY <1>4, <4>1, <4>2 DEF Below
    <3> QED BY <2>1, <3>1
  <2>3. k - 1 \in Nat /\ k - 1 \notin T /\ (k - 1) + 1 = k /\ k - 1 \in 0 .. N
    BY <2>1, <2>2
  <2>4. Below(k - 1)
    BY <2>1, <2>3
  <2>5. P[k - 1] \in Nat \ {0} /\ P[k] = 2 * P[k - 1]
    BY <1>1, <2>3
  <2>6. ASSUME NEW s \in SUBSET (0 .. k - 1) PROVE Regular!Number(s) \in 0 .. P[k] - 1
    <3>1. s \ {k - 1} \in SUBSET (0 .. (k - 1) - 1)
      BY <2>3
    <3>2. Regular!Number(s \ {k - 1}) \in 0 .. P[k - 1] - 1
      BY <2>4, <3>1 DEF Below
    <3>3. s \in SUBSET (0 .. N)
      BY <2>1
    <3>4. CASE k - 1 \in s
      <4>1. Regular!Number(s) = P[k - 1] + Regular!Number(s \ {k - 1})
        BY <1>3, <2>3, <3>3, <3>4
      <4> QED BY <2>5, <3>2, <4>1
    <3>5. CASE k - 1 \notin s
      <4>1. s \ {k - 1} = s
        BY <3>5
      <4>2. Regular!Number(s) \in 0 .. P[k - 1] - 1
        BY <3>2, <4>1
      <4> QED BY <2>5, <4>2
    <3> QED BY <3>4, <3>5
  <2> QED BY <2>1, <2>6 DEF Below
<1>6. ASSUME NEW k \in 0 .. N + 1 PROVE Below(k)
  <2> HIDE DEF Below
  <2> QED BY <1>5
<1> QED BY <1>6 DEF P

\* The zipped halves are added as words of twice the width.
Zipped(a) ==
    [i \in 0 .. Regular!W - 1 |->
       (IF i \in a THEN Regular!Pow2[i % Regular!W] ELSE 0)
         + Regular!Pow2[Regular!W]
             * (IF i + Regular!W \in a THEN Regular!Pow2[(i + Regular!W) % Regular!W] ELSE 0)]

LEMMA HalfIs == Regular!W \in Nat \ {0} /\ (2 * Regular!W = N \/ 2 * Regular!W = N + 1)
  BY NAssumption DEF Regular!W

LEMMA ZippedIs ==
    ASSUME NEW a, NEW k \in 0 .. Regular!W - 1
    PROVE  Zipped(a)[k] = (IF k \in a THEN Regular!Pow2[k] ELSE 0)
                            + (IF Regular!W + k \in a THEN Regular!Pow2[Regular!W + k] ELSE 0)
<1> DEFINE w == Regular!W
           P == Regular!Pow2
<1>1. w \in Nat \ {0} /\ k \in 0 .. w - 1
  BY HalfIs
<1>2. P[w + k] = P[w] * P[k] /\ P[w] \in Nat /\ P[k] \in Nat
  <2>1. w \in Nat /\ k \in Nat
    BY <1>1
  <2> HIDE DEF w, P
  <2>2. Doubling(P)
    BY Pow2Doubles DEF P
  <2>3. \A n \in Nat : P[w + n] = P[w] * P[n]
    BY <2>1, <2>2, DoublingAdds
  <2>4. \A n \in Nat : P[n] \in Nat
    BY <2>2, DoublingIs
  <2> QED BY <2>1, <2>3, <2>4
<1>3. Zipped(a)[k] = (IF k \in a THEN P[k % w] ELSE 0)
                       + P[w] * (IF k + w \in a THEN P[(k + w) % w] ELSE 0)
  BY DEF Zipped
<1> HIDE DEF w, P
<1>4. k % w = k /\ (k + w) % w = k /\ k + w = w + k
  <2>1. k % w = k
    BY <1>1
  <2>2. (k + w) % w = k
    <3>1. k + w = 1 * w + k
      BY <1>1
    <3>2. \A q \in Int : (q * w + k) % w = k
      BY <1>1
    <3> QED BY <3>1, <3>2
  <2> QED BY <1>1, <2>1, <2>2
<1>5. Zipped(a)[k] = (IF k \in a THEN P[k] ELSE 0) + (IF w + k \in a THEN P[w + k] ELSE 0)
  BY <1>2, <1>3, <1>4
<1> QED BY <1>5 DEF w, P

LEMMA ZippedType == ASSUME NEW a PROVE Zipped(a) \in [0 .. Regular!W - 1 -> Int]
<1>1. ASSUME NEW k \in 0 .. Regular!W - 1 PROVE Zipped(a)[k] \in Int
  <2>1. k \in Nat /\ Regular!W + k \in Nat
    BY HalfIs
  <2>2. Regular!Pow2[k] \in Int /\ Regular!Pow2[Regular!W + k] \in Int
    BY <2>1, Pow2Doubles, DoublingIs
  <2> QED BY <2>2, ZippedIs
<1>2. Zipped(a) = [k \in 0 .. Regular!W - 1 |-> Zipped(a)[k]]
  BY DEF Zipped
<1> QED BY <1>1, <1>2

LEMMA MovemaskSum ==
    ASSUME NEW a
    PROVE  \E it : /\ IsSum(it, 0 .. Regular!W - 1, Zipped(a), AnyOf(0 .. Regular!W - 1))
                   /\ Regular!simde_mm_movemask_epi8(a) = it[0 .. Regular!W - 1]
<1> DEFINE S == 0 .. Regular!W - 1
           V == Zipped(a)
           P == Regular!Pow2
           w == Regular!W
           masked(i) == IF i \in a THEN P[i % w] ELSE 0
           Unfolded(f) == [s \in SUBSET S |->
              IF s = {} THEN 0
              ELSE LET x == CHOOSE x \in s : TRUE
                   IN  (masked(x) + P[w] * masked(x + w)) + f[s \ {x}]]
           SelfMade(f) == f = Unfolded(f)
           g == CHOOSE f : SelfMade(f)
<1>1. IsFiniteSet(S)
  <2>1. Regular!W - 1 \in Int
    BY HalfIs
  <2> QED BY <2>1, FS_Interval
<1>2. \A i \in S : V[i] = masked(i) + P[w] * masked(i + w)
  BY DEF Zipped
<1>3. V \in [S -> Int] /\ Chooses(AnyOf(S), S)
  BY ZippedType, AnyChooses
<1>4. g[S] = Regular!simde_mm_movemask_epi8(a)
  BY DEF Regular!simde_mm_movemask_epi8, Regular!MapThenSumSet, Regular!MapThenFoldSet
<1> HIDE DEF V, P, w, masked, S
<1>5. PICK it : IsSum(it, S, V, AnyOf(S))
  BY <1>1, <1>3, SumExists
<1>6. SelfMade(it)
  <2>1. ASSUME NEW s \in SUBSET S PROVE it[s] = Unfolded(it)[s]
    <3> DEFINE x == CHOOSE x \in s : TRUE
    <3>1. AnyOf(S)[s] = x /\ (s # {} => x \in s)
      BY DEF AnyOf
    <3>2. Unfolded(it)[s] = IF s = {} THEN 0 ELSE (masked(x) + P[w] * masked(x + w)) + it[s \ {x}]
      OBVIOUS
    <3> HIDE DEF x
    <3>3. it[s] = IF s = {} THEN 0 ELSE V[x] + it[s \ {x}]
      BY <1>5, <3>1 DEF IsSum
    <3> QED BY <1>2, <3>1, <3>2, <3>3
  <2>2. it = [s \in SUBSET S |-> it[s]]
    BY <1>5 DEF IsSum
  <2> QED BY <2>1, <2>2
<1>7. SelfMade(g)
  <2> HIDE DEF SelfMade
  <2> QED BY <1>6, Zenon
<1> HIDE DEF g
<1>8. DOMAIN g = SUBSET S /\ g = [s \in SUBSET S |-> g[s]]
  BY <1>7
<1>9. ASSUME NEW s \in SUBSET S
      PROVE  g[s] = IF s = {} THEN 0 ELSE V[AnyOf(S)[s]] + g[s \ {AnyOf(S)[s]}]
  <2> DEFINE x == CHOOSE x \in s : TRUE
  <2>1. AnyOf(S)[s] = x /\ (s # {} => x \in s)
    BY DEF AnyOf
  <2>2. g[s] = IF s = {} THEN 0 ELSE (masked(x) + P[w] * masked(x + w)) + g[s \ {x}]
    BY <1>7, Zenon
  <2> HIDE DEF x
  <2> QED BY <1>2, <2>1, <2>2
<1>10. IsSum(g, S, V, AnyOf(S))
  BY <1>1, <1>3, <1>8, <1>9, SumIsOnly
<1>11. \E h : IsSum(h, S, V, AnyOf(S)) /\ Regular!simde_mm_movemask_epi8(a) = h[S]
  BY <1>4, <1>10
<1> QED BY <1>11 DEF S, V

\* No lane's bit lands on another's.
LEMMA MovemaskIs ==
    ASSUME NEW a
    PROVE  Regular!simde_mm_movemask_epi8(a) = Regular!Number(a \cap (0 .. 2 * Regular!W - 1))
<1> DEFINE w == Regular!W
           P == Regular!Pow2
           Num(s) == Regular!Number(s)
           S == 0 .. w - 1
           V == Zipped(a)
           Read(k) == a \cap ((0 .. k - 1) \cup (w .. w + k - 1))
<1>1. w \in Nat \ {0} /\ N \in Nat /\ (2 * w = N \/ 2 * w = N + 1)
  BY HalfIs, NAssumption
<1>2. PICK it : /\ IsSum(it, S, V, AnyOf(S))
                /\ Regular!simde_mm_movemask_epi8(a) = it[S]
  BY MovemaskSum
<1>3. \A k \in S : /\ P[k] \in Int /\ P[w + k] \in Int
                    /\ V[k] = (IF k \in a THEN P[k] ELSE 0) + (IF w + k \in a THEN P[w + k] ELSE 0)
  <2> SUFFICES ASSUME NEW k \in S
               PROVE  /\ P[k] \in Int /\ P[w + k] \in Int
                      /\ V[k] = (IF k \in a THEN P[k] ELSE 0) + (IF w + k \in a THEN P[w + k] ELSE 0)
    OBVIOUS
  <2>1. k \in Nat /\ w + k \in Nat
    BY <1>1
  <2>2. P[k] \in Int /\ P[w + k] \in Int
    BY <2>1, Pow2Doubles, DoublingIs
  <2> QED BY <2>2, ZippedIs
<1>4. IsFiniteSet(S) /\ V \in [S -> Int] /\ Chooses(AnyOf(S), S)
  <2>1. w - 1 \in Int
    BY <1>1
  <2> QED BY <2>1, FS_Interval, ZippedType, AnyChooses
<1>5. Num({}) = 0 /\ \A s \in SUBSET (0 .. N) : \A x \in s : Num(s) = P[x] + Num(s \ {x})
  BY NumberTakes
<1> HIDE DEF w, P, Num, V
<1>6. \A s \in SUBSET S : \A x \in s : it[s] = V[x] + it[s \ {x}]
  <2> HIDE DEF S
  <2> SUFFICES ASSUME NEW s \in SUBSET S, NEW x \in s PROVE it[s] = V[x] + it[s \ {x}]
    OBVIOUS
  <2>1. /\ IsSum(it, S, V, AnyOf(S)) /\ IsFiniteSet(S)
        /\ V \in [S -> Int] /\ Chooses(AnyOf(S), S)
    BY <1>2, <1>4
  <2> QED BY <2>1, SumAnyOrder
<1>7. it[{}] = 0
  BY <1>2 DEF IsSum
<1> DEFINE T == {k \in Nat : k <= w /\ it[0 .. k - 1] # Num(Read(k))}
<1>8. T = {}
  <2> SUFFICES ASSUME T # {} PROVE FALSE
    OBVIOUS
  <2>1. PICK k \in T : \A j \in T : k <= j
    BY LeastNatural
  <2>2. k # 0
    <3>1. 0 .. 0 - 1 = {} /\ w .. w + 0 - 1 = {}
      BY <1>1
    <3>2. Read(0) = {}
      BY <3>1
    <3> HIDE DEF Read
    <3> QED BY <1>5, <1>7, <2>1, <3>1, <3>2
  <2> DEFINE j == k - 1
  <2>3. j \in S /\ j \in Nat /\ j \notin T /\ w + j \in 0 .. N /\ j \in 0 .. N /\ w + j # j
    <3>1. k \in Nat /\ k # 0 /\ k <= w
      BY <2>1, <2>2
    <3>2. j \in Nat /\ j < k /\ j <= w - 1
      BY <1>1, <3>1
    <3>3. j \notin T
      <4> HIDE DEF T
      <4>1. T \subseteq Nat
        BY DEF T
      <4> QED BY <2>1, <3>1, <3>2, <4>1
    <3>4. w + j \in 0 .. N /\ j \in 0 .. N /\ w + j # j /\ j \in S
      BY ONLY <1>1, <3>2 DEF S
    <3> QED BY <3>2, <3>3, <3>4
  <2>4. it[0 .. j - 1] = Num(Read(j))
    <3> HIDE DEF Read
    <3> QED BY <1>1, <2>1, <2>3
  <2>5. it[0 .. k - 1] = V[j] + it[0 .. j - 1]
    <3>1. 0 .. k - 1 \in SUBSET S /\ j \in 0 .. k - 1 /\ (0 .. k - 1) \ {j} = 0 .. j - 1
      BY <1>1, <2>1, <2>2
    <3> QED BY <1>6, <3>1
  <2>6. Num(Read(j)) \in Int
    <3>1. 0 .. j - 1 \in SUBSET S
      BY <1>1, <2>1, <2>3
    <3>2. it[0 .. j - 1] \in Int
      BY <1>2, <3>1 DEF IsSum
    <3> QED BY <2>4, <3>2
  <2>7. Read(k) \in SUBSET (0 .. N)
    <3>1. k \in Nat /\ k <= w
      BY <2>1
    <3>2. (0 .. k - 1) \cup (w .. w + k - 1) \subseteq 0 .. N
      BY <1>1, <3>1
    <3> QED BY <3>2
  <2> DEFINE A == Read(k) \ {w + j}
  <2>8. /\ Read(k) = Read(j) \cup (a \cap {j, w + j})
        /\ j \notin Read(j) /\ w + j \notin Read(j)
    <3>1. 0 .. k - 1 = (0 .. j - 1) \cup {j}
      BY <1>1, <2>1, <2>3
    <3>2. w .. w + k - 1 = (w .. w + j - 1) \cup {w + j}
      BY <1>1, <2>1, <2>3
    <3>3. j \notin (0 .. j - 1) \cup (w .. w + j - 1) /\ w + j \notin (0 .. j - 1) \cup (w .. w + j - 1)
      BY <1>1, <2>1, <2>3
    <3> QED BY <3>1, <3>2, <3>3
  <2>9. Num(Read(k)) = (IF w + j \in a THEN P[w + j] ELSE 0) + Num(A)
    <3> HIDE DEF Read
    <3>1. CASE w + j \in a
      BY <1>5, <2>7, <2>8, <3>1
    <3>2. CASE w + j \notin a
      <4>1. A = Read(k)
        BY <2>8, <3>2
      <4>2. Num(A) \in Int
        <5>1. A = Read(j) \/ (j \in a /\ A = Read(j) \cup {j})
          BY <2>3, <2>8, <3>2
        <5>2. A \in SUBSET (0 .. N)
          BY <2>7
        <5>3. j \in a /\ A = Read(j) \cup {j} => Num(A) = P[j] + Num(Read(j))
          BY <1>5, <2>8, <5>2
        <5> HIDE DEF A, j
        <5> QED BY <1>3, <2>3, <2>6, <5>1, <5>3
      <4>3. Num(Read(k)) = 0 + Num(A)
        <5> HIDE DEF A, j
        <5> QED BY <4>1, <4>2
      <4> QED BY <3>2, <4>3
    <3> QED BY <3>1, <3>2
  <2>10. Num(A) = (IF j \in a THEN P[j] ELSE 0) + Num(Read(j))
    <3> HIDE DEF Read
    <3>1. A \in SUBSET (0 .. N)
      BY <2>7
    <3>2. CASE j \in a
      <4>1. j \in A /\ A \ {j} = Read(j)
        BY <2>3, <2>8, <3>2
      <4> QED BY <1>5, <3>1, <3>2, <4>1
    <3>3. CASE j \notin a
      <4>1. A = Read(j)
        BY <2>3, <2>8, <3>3
      <4>2. Num(A) = 0 + Num(Read(j))
        <5> HIDE DEF A, j
        <5> QED BY <2>6, <4>1
      <4> QED BY <3>3, <4>2
    <3> QED BY <3>2, <3>3
  <2>11. /\ P[j] \in Int /\ P[w + j] \in Int
         /\ V[j] = (IF j \in a THEN P[j] ELSE 0) + (IF w + j \in a THEN P[w + j] ELSE 0)
    BY <1>3, <2>3
  <2>12. it[0 .. k - 1] # Num(Read(k))
    OBVIOUS
  <2> HIDE DEF A, Read, j
  <2> QED BY <2>4, <2>5, <2>6, <2>9, <2>10, <2>11, <2>12
<1>9. it[0 .. w - 1] = Num(Read(w))
  <2> HIDE DEF Read
  <2> QED BY <1>1, <1>8
<1>10. Read(w) = a \cap (0 .. 2 * w - 1)
  <2>1. (0 .. w - 1) \cup (w .. w + w - 1) = 0 .. 2 * w - 1
    BY <1>1
  <2> QED BY <2>1
<1>11. Regular!simde_mm_movemask_epi8(a) = Num(a \cap (0 .. 2 * w - 1))
  BY <1>2, <1>9, <1>10
<1> QED BY <1>11 DEF Num, w

\* and what lane N adds is cut off.
LEMMA MovemaskMasked ==
    ASSUME NEW a \in SUBSET (0 .. N)
    PROVE  Regular!simde_mm_movemask_epi8(a) % Regular!Pow2[N] = Regular!Number(a \ {N})
<1> DEFINE P == Regular!Pow2[N]
           b == a \cap (0 .. 2 * Regular!W - 1)
           x == Regular!Number(a \ {N})
<1>1. N \in Nat /\ (2 * Regular!W = N \/ 2 * Regular!W = N + 1)
  BY HalfIs, NAssumption
<1>2. b = a \ {N} \/ b = a
  <2>1. CASE 2 * Regular!W = N
    <3>1. \A i \in 0 .. N : i \in 0 .. N - 1 <=> i # N
      BY <1>1
    <3>2. a \cap (0 .. N - 1) = a \ {N}
      BY <3>1
    <3> QED BY <2>1, <3>2
  <2>2. CASE 2 * Regular!W = N + 1
    <3>1. (N + 1) - 1 = N
      BY <1>1
    <3> QED BY <2>2, <3>1
  <2> QED BY <1>1, <2>1, <2>2
<1>3. x \in 0 .. P - 1 /\ P \in Nat \ {0}
  <2>1. N \in 0 .. N + 1 /\ a \ {N} \in SUBSET (0 .. N - 1)
    BY <1>1
  <2>2. x \in 0 .. P - 1
    BY <2>1, BitsBelow
  <2>3. P \in Nat \ {0}
    BY <1>1, Pow2Doubles, DoublingIs
  <2> QED BY <2>2, <2>3
<1>4. Regular!Number(a) = x \/ Regular!Number(a) = P + x
  <2>1. CASE N \in a
    BY <2>1, NumberTakes
  <2>2. CASE N \notin a
    <3>1. a \ {N} = a
      BY <2>2
    <3> QED BY <3>1
  <2> QED BY <2>1, <2>2
<1>5. Regular!simde_mm_movemask_epi8(a) = x \/ Regular!simde_mm_movemask_epi8(a) = P + x
  <2>1. Regular!simde_mm_movemask_epi8(a) = Regular!Number(b)
    BY MovemaskIs
  <2> QED BY <1>2, <1>4, <2>1
<1> HIDE DEF P, x
<1>6. x % P = x /\ (P + x) % P = x
  <2>1. \A q \in Int : (q * P + x) % P = x
    BY <1>3
  <2>2. P + x = 1 * P + x /\ x = 0 * P + x
    BY <1>3
  <2> QED BY <2>1, <2>2
<1>7. Regular!simde_mm_movemask_epi8(a) % P = x
  BY <1>5, <1>6
<1> QED BY <1>7 DEF P, x

\* The Neon comparisons see the slots they should.
LEMMA NeonIs ==
    ASSUME GroupInv
    PROVE  NeonAgrees
<1> DEFINE g == AsBytes(m)
<1>1. /\ N \in Nat /\ N >= 2 /\ Regular!SlotNo = 0 .. N - 1 /\ SlotNo = 0 .. N - 1
      /\ \A p \in 0 .. N - 1 : g.byte[p] = ByteAt(m, p) /\ g.byte[p] \in Nat
  <2>1. N \in Nat /\ N >= 2 /\ Regular!SlotNo = 0 .. N - 1 /\ SlotNo = 0 .. N - 1
    BY InvTypes, NAssumption DEF Regular!SlotNo
  <2>2. \A p \in 0 .. N - 1 : g.byte[p] = ByteAt(m, p)
    BY <2>1, Spelling
  <2>3. \A p \in 0 .. N - 1 : ByteAt(m, p) \in Nat
    BY DEF ByteAt
  <2> QED BY <2>1, <2>2, <2>3
<1>2. ASSUME NEW r
      PROVE  {i \in 0 .. N : Regular!LaneByte(g, i) = r} \ {N} = {n \in 0 .. N - 1 : g.byte[n] = r}
  <2> HIDE DEF g
  <2>1. \A i \in 0 .. N - 1 : i \in 0 .. N /\ i # N
    BY <1>1
  <2>2. \A i \in 0 .. N : i # N => i \in 0 .. N - 1
    BY <1>1
  <2>3. \A i \in 0 .. N - 1 : Regular!LaneByte(g, i) = g.byte[i]
    BY <2>1 DEF Regular!LaneByte
  <2> QED BY <2>1, <2>2, <2>3
<1>3. {i \in 0 .. N : Regular!LaneByte(g, i) > 0} \ {N}
        = (0 .. N - 1) \ {n \in 0 .. N - 1 : g.byte[n] = 0}
  <2> HIDE DEF g
  <2>1. \A i \in 0 .. N - 1 : i \in 0 .. N /\ i # N
    BY <1>1
  <2>2. \A i \in 0 .. N : i # N => i \in 0 .. N - 1
    BY <1>1
  <2>3. \A i \in 0 .. N - 1 : Regular!LaneByte(g, i) = g.byte[i]
    BY <2>1 DEF Regular!LaneByte
  <2>4. \A i \in 0 .. N - 1 : Regular!LaneByte(g, i) > 0 <=> g.byte[i] # 0
    BY <1>1, <2>3
  <2> QED BY <2>1, <2>2, <2>4
<1>4. Regular!match_available_neon(g) = Regular!Number(Regular!match_available(g))
  <2> HIDE DEF g
  <2>1. Regular!match_available(g) = {n \in 0 .. N - 1 : g.byte[n] = Regular!available_}
    BY <1>1 DEF Regular!match_available
  <2> QED BY <1>2, <2>1, MovemaskMasked DEF Regular!match_available_neon
<1>5. Regular!match_occupied_neon(g) = Regular!Number(Regular!match_occupied(g))
  <2> HIDE DEF g
  <2>1. Regular!match_occupied(g) = (0 .. N - 1) \ {n \in 0 .. N - 1 : g.byte[n] = 0}
    BY <1>1 DEF Regular!match_occupied, Regular!match_available, Regular!available_
  <2> QED BY <1>3, <2>1, MovemaskMasked DEF Regular!match_occupied_neon
<1>6. ASSUME NEW hash \in Hash
      PROVE  Regular!match_neon(g, hash) = Regular!Number(Regular!match(g, hash))
  <2> HIDE DEF g
  <2>1. Regular!match(g, hash) = {n \in 0 .. N - 1 : g.byte[n] = Regular!reduced_hash(hash)}
    BY <1>1 DEF Regular!match
  <2> QED BY <1>2, <2>1, MovemaskMasked DEF Regular!match_neon
<1>7. ASSUME NEW pos \in Regular!SlotNo
      PROVE  Regular!is_sentinel_neon(g, pos) = Regular!is_sentinel(g, pos)
  <2>1. g.byte[pos] = 1 => pos = N - 1
    BY <1>1 DEF GroupInv, SentinelLast
  <2> HIDE DEF g
  <2> QED BY <2>1 DEF Regular!is_sentinel_neon, Regular!is_sentinel, Regular!sentinel_
<1> QED BY <1>4, <1>5, <1>6, <1>7 DEF NeonAgrees, Regular!NeonAgrees

-----------------------------------------------------------------------------
(* The theorems.                                                             *)

\* Setting, resetting, marking and clearing bits in two words does to the group what
\* it does byte by byte in the layout of the other builds.
THEOREM InterleavedIsRegular == Spec => IsRegularGroup
  BY GroupInit, GroupStep, GroupAlways, PTL DEF Spec, IsRegularGroup, Regular!Spec

\* Every question about any slot or hash is answered as in the regular layout: no
\* fold of the lanes mixes in a bit of another slot or of the overflow byte.
THEOREM QuestionsAgree == Spec => []AnswersAgree
<1>1. GroupInv => AnswersAgree
  <2> SUFFICES ASSUME GroupInv PROVE AnswersAgree
    OBVIOUS
  <2>1. m \in Words /\ SentinelLast(m) /\ \A hash \in Hash : hash \in Nat
    BY InvTypes, HashAssumption DEF GroupInv
  <2> QED BY <2>1, AvailableAgree, OccupiedAgree, MatchAgrees, SlotAgrees, CausedAgrees
          DEF AnswersAgree
<1> QED BY <1>1, GroupAlways, PTL

\* An erased element is blamed for an overflow exactly if it shares the hash modulo
\* eight of one that found the group full, though only its reduced hash is kept.
THEOREM BlameIsRight == Spec => []OverflowBlamed
<1>1. GroupInv => OverflowBlamed
  <2> SUFFICES ASSUME GroupInv PROVE OverflowBlamed
    OBVIOUS
  <2> DEFINE g == AsBytes(m)
  <2>1. ASSUME NEW pos \in SlotNo, ByteAt(m, pos) \notin {0, 1}
        PROVE  Regular!maybe_caused_overflow(g, pos)
                 <=> \E hash \in overflowed : hash % 8 = stored[pos] % 8
    <3>1. g.byte[pos] = ByteAt(m, pos) /\ ByteAt(m, pos) % 8 = stored[pos] % 8
      BY <2>1, Spelling DEF GroupInv, BytesStored
    <3>2. g.over = {h % 8 : h \in overflowed}
      BY DEF GroupInv, OverNoted
    <3> HIDE DEF g
    <3>3. Regular!maybe_caused_overflow(g, pos) <=> stored[pos] % 8 \in g.over
      BY <3>1 DEF Regular!maybe_caused_overflow, Regular!is_not_overflowed
    <3> QED BY <3>2, <3>3
  <2>2. \A pos \in Regular!match_occupied(g) : ~ Regular!is_sentinel(g, pos) =>
          pos \in SlotNo /\ ByteAt(m, pos) \notin {0, 1}
    BY Spelling, InvTypes
       DEF Regular!match_occupied, Regular!match_available, Regular!is_sentinel,
           Regular!available_, Regular!sentinel_
  <2> QED BY <2>1, <2>2 DEF OverflowBlamed, Regular!OverflowBlamed
<1> QED BY <1>1, GroupAlways, PTL

\* So the three builds of a group, the words, the bytes and the Neon masks, answer
\* every question alike and as the hashes they were given demand.
THEOREM BuildsAgree == Spec => []SameAnswers
<1>1. GroupInv => TypeOK /\ NeonAgrees
  BY NeonIs DEF GroupInv
<1> QED BY <1>1, GroupAlways, QuestionsAgree, BlameIsRight, PTL DEF SameAnswers

=============================================================================
