------------------------------ MODULE FphProofs -----------------------------
(* The dynamic perfect hash map, for every set of keys, hash, number of      *)
(* slots, engine and program of calls, where key_gen_ returns no key that a   *)
(* caller stores.  The invariant is that every table is Good or not built    *)
(* yet: each slot holds an element where its key is looked up or the default *)
(* key that marks it as empty, and the records of which slots are in use     *)
(* agree; and that a loop has seen what lies between begin() and where it    *)
(* stands.  Every operation takes such tables to such tables and says what   *)
(* becomes of the store, from which the refinement follows.                  *)
(*                                                                           *)
(* The first half is about the operators of FphTables: sizes stay powers of  *)
(* two within their limits, and a table that is Good is walked, searched,    *)
(* erased from and relocated as such.  The second half is about the calls.   *)
EXTENDS DynamicFph, NumberLemmas, SequenceTheorems

-----------------------------------------------------------------------------
(* Powers of two.                                                            *)

LEMMA Pow2Rec ==
    /\ \A n \in Nat : Pow2[n] \in Nat \ {0}
    /\ Pow2[0] = 1
    /\ \A n \in Nat : Pow2[n + 1] = 2 * Pow2[n]
<1>1. Doubling(Pow2)
  BY DoublingExists DEF Pow2, Doubling
<1> QED BY <1>1, DoublingIs

\* Powers of two keep the order of their exponents.
LEMMA Pow2Grows ==
    \A m, n \in Nat : /\ m <= n => Pow2[m] <= Pow2[n]
                      /\ m < n => Pow2[m] < Pow2[n]
<1> DEFINE T(m) == {n \in Nat : m <= n /\ ~ Pow2[m] <= Pow2[n]}
<1>1. ASSUME NEW m \in Nat PROVE T(m) = {}
  <2> SUFFICES ASSUME T(m) # {} PROVE FALSE
    OBVIOUS
  <2>1. PICK n \in T(m) : \A k \in T(m) : n <= k
    BY LeastNatural
  <2>2. Pow2[m] \in Nat
    BY Pow2Rec
  <2>3. n # m /\ m <= n
    BY <2>1, <2>2
  <2>4. n - 1 \in Nat /\ m <= n - 1 /\ n - 1 \notin T(m) /\ (n - 1) + 1 = n
    BY <2>1, <2>3
  <2>5. Pow2[n] = 2 * Pow2[n - 1] /\ Pow2[n - 1] \in Nat
    BY <2>4, Pow2Rec
  <2> QED BY <2>1, <2>2, <2>4, <2>5
<1>2. ASSUME NEW m \in Nat, NEW n \in Nat, m < n PROVE Pow2[m] < Pow2[n]
  <2>1. m + 1 \in Nat /\ m + 1 <= n
    BY <1>2
  <2>2. Pow2[m + 1] <= Pow2[n]
    BY <2>1, <1>1
  <2>3. Pow2[m + 1] = 2 * Pow2[m] /\ Pow2[m] \in Nat \ {0} /\ Pow2[n] \in Nat
    BY Pow2Rec
  <2> QED BY <2>2, <2>3
<1> QED BY <1>1, <1>2

\* A number is below its power of two, so CeilLog2 finds one.
LEMMA Pow2Above == \A n \in Nat : n < Pow2[n]
<1> DEFINE T == {n \in Nat : ~ n < Pow2[n]}
<1>1. T = {}
  <2> SUFFICES ASSUME T # {} PROVE FALSE
    OBVIOUS
  <2>1. PICK n \in T : \A k \in T : n <= k
    BY LeastNatural
  <2>2. n # 0
    BY <2>1, Pow2Rec
  <2>3. n - 1 \in Nat /\ n - 1 \notin T /\ (n - 1) + 1 = n
    BY <2>1, <2>2
  <2>4. Pow2[n] = 2 * Pow2[n - 1] /\ Pow2[n - 1] \in Nat
    BY <2>3, Pow2Rec
  <2> QED BY <2>1, <2>3, <2>4
<1> QED BY <1>1

\* The smaller of two powers of two divides the other: what MapToIndex divides by.
LEMMA Pow2Divides == \A m, n \in Nat : m <= n => \E q \in Nat \ {0} : Pow2[n] = q * Pow2[m]
<1> DEFINE Div(m, n) == \E q \in Nat \ {0} : Pow2[n] = q * Pow2[m]
           T(m) == {n \in Nat : m <= n /\ ~ Div(m, n)}
<1>1. ASSUME NEW m \in Nat PROVE T(m) = {}
  <2> SUFFICES ASSUME T(m) # {} PROVE FALSE
    OBVIOUS
  <2>1. Pow2[m] \in Nat
    BY Pow2Rec
  <2>2. Div(m, m)
    <3>1. Pow2[m] = 1 * Pow2[m]
      BY <2>1
    <3> QED BY <3>1
  <2> HIDE DEF Div
  <2>3. PICK n \in T(m) : \A k \in T(m) : n <= k
    BY LeastNatural
  <2>4. n # m /\ m <= n
    BY <2>2, <2>3
  <2>5. n - 1 \in Nat /\ m <= n - 1 /\ n - 1 \notin T(m) /\ (n - 1) + 1 = n
    BY <2>3, <2>4
  <2>6. Div(m, n - 1)
    BY <2>5
  <2>7. PICK q \in Nat \ {0} : Pow2[n - 1] = q * Pow2[m]
    BY <2>6 DEF Div
  <2>8. Pow2[n] = 2 * Pow2[n - 1]
    BY <2>5, Pow2Rec
  <2>9. 2 * q \in Nat \ {0} /\ Pow2[n] = (2 * q) * Pow2[m]
    BY <2>7, <2>8, <2>1
  <2>10. Div(m, n)
    BY <2>9 DEF Div
  <2> QED BY <2>3, <2>10
<1> QED BY <1>1
-----------------------------------------------------------------------------
(* Sizes.                                                                    *)

\* There are hash words.
LEMMA WordsType == Words \in Nat \ {0}
BY FphAssumption, Pow2Rec DEF Words

\* A number of slots is at least two and no more than there are hash words.
LEMMA CeilsType == \A c \in Ceils : /\ c \in Nat /\ 2 <= c /\ c <= Words
                                    /\ \E q \in Nat \ {0} : Words = q * c
<1> SUFFICES ASSUME NEW c \in Ceils
             PROVE  /\ c \in Nat /\ 2 <= c /\ c <= Words
                    /\ \E q \in Nat \ {0} : Words = q * c
  OBVIOUS
<1>1. PICK n \in 1 .. Word : c = Pow2[n]
  BY DEF Ceils
<1>2. n \in Nat /\ Word \in Nat /\ n <= Word /\ 0 < n /\ 0 \in Nat
  BY FphAssumption
<1>3. Pow2[0] = 1 /\ Pow2[0] < Pow2[n] /\ Pow2[n] <= Pow2[Word] /\ Pow2[n] \in Nat
  <2>1. Pow2[0] = 1 /\ Pow2[n] \in Nat
    BY <1>2, Pow2Rec
  <2>2. Pow2[0] < Pow2[n]
    BY <1>2, Pow2Grows
  <2>3. Pow2[n] <= Pow2[Word]
    BY <1>2, Pow2Grows
  <2> QED BY <2>1, <2>2, <2>3
<1>4. \E q \in Nat \ {0} : Words = q * c
  BY <1>1, <1>2, Pow2Divides DEF Words
<1> QED BY <1>1, <1>3, <1>4 DEF Words

\* CeilLog2 is the least exponent whose power of two is large enough.
LEMMA CeilLog2Is ==
    ASSUME NEW x \in Nat
    PROVE  /\ CeilLog2(x) \in Nat /\ x <= Pow2[CeilLog2(x)]
           /\ \A m \in Nat : m < CeilLog2(x) => Pow2[m] < x
<1> DEFINE T == {n \in Nat : x <= Pow2[n]}
           Is(n) == x <= Pow2[n] /\ \A m \in 0 .. n - 1 : Pow2[m] < x
<1>1. x \in T
  BY Pow2Above, Pow2Rec
<1>2. PICK n \in T : \A k \in T : n <= k
  BY <1>1, LeastNatural
<1>3. n \in 0 .. x
  BY <1>1, <1>2
<1>4. \A m \in 0 .. n - 1 : Pow2[m] < x
  <2> SUFFICES ASSUME NEW m \in 0 .. n - 1 PROVE Pow2[m] < x
    OBVIOUS
  <2>1. m \in Nat /\ m \notin T /\ Pow2[m] \in Nat
    BY <1>2, Pow2Rec
  <2> QED BY <2>1
<1>5. Is(n)
  BY <1>2, <1>4
<1> HIDE DEF Is
<1>6. Is(CeilLog2(x)) /\ CeilLog2(x) \in 0 .. x
  <2>1. CeilLog2(x) = CHOOSE i \in 0 .. x : Is(i)
    BY DEF CeilLog2, Is
  <2> QED BY <2>1, <1>3, <1>5
<1> QED BY <1>6 DEF Is

\* Ceil2 rounds up to a power of two.
LEMMA Ceil2Is ==
    ASSUME NEW x \in Nat
    PROVE  /\ \E n \in Nat : Ceil2(x) = Pow2[n]
           /\ x <= 1 => Ceil2(x) = x + 1
           /\ x > 1 => /\ \E n \in Nat \ {0} : Ceil2(x) = Pow2[n]
                       /\ \A c \in Ceils : x <= c => Ceil2(x) <= c
<1>1. x <= 1 => RoundUpLog2(x) = x /\ Ceil2(x) = x + 1
  <2>1. Pow2[0] = 1 /\ Pow2[0 + 1] = 2 * Pow2[0] /\ 0 + 1 = 1
    BY Pow2Rec
  <2> QED BY <2>1 DEF RoundUpLog2, Ceil2
<1>2. ASSUME x > 1 PROVE Ceil2(x) = Pow2[CeilLog2(x)] /\ CeilLog2(x) \in Nat \ {0}
  <2>1. Pow2[0] = 1 /\ CeilLog2(x) \in Nat /\ x <= Pow2[CeilLog2(x)]
    BY Pow2Rec, CeilLog2Is
  <2>2. CeilLog2(x) # 0
    BY <2>1, <1>2
  <2>3. ~ x <= 1
    BY <1>2
  <2> QED BY <2>1, <2>2, <2>3 DEF RoundUpLog2, Ceil2
<1>3. ASSUME x > 1, NEW c \in Ceils, x <= c PROVE Ceil2(x) <= c
  <2>1. PICK n \in 1 .. Word : c = Pow2[n]
    BY DEF Ceils
  <2>2. n \in Nat /\ CeilLog2(x) \in Nat
    BY FphAssumption, CeilLog2Is
  <2>3. ~ n < CeilLog2(x)
    <3>1. n < CeilLog2(x) => Pow2[n] < x
      BY <2>2, CeilLog2Is
    <3>2. Pow2[n] \in Nat
      BY <2>2, Pow2Rec
    <3> QED BY <2>1, <3>1, <3>2, <1>3
  <2>5. CeilLog2(x) <= n
    BY <2>2, <2>3
  <2>4. Pow2[CeilLog2(x)] <= Pow2[n]
    BY <2>2, <2>5, Pow2Grows
  <2> QED BY <2>1, <2>4, <1>2, <1>3
<1>4. \E n \in Nat : Ceil2(x) = Pow2[n]
  BY <1>1, <1>2 DEF Ceil2
<1>5. x > 1 => /\ \E n \in Nat \ {0} : Ceil2(x) = Pow2[n]
               /\ \A c \in Ceils : x <= c => Ceil2(x) <= c
  BY <1>2, <1>3
<1> QED BY <1>1, <1>4, <1>5

\* A power of two below a number of slots is one itself, unless it is 1.
LEMMA BelowCeil ==
    ASSUME NEW n \in Nat, NEW c \in Ceils, Pow2[n] <= c
    PROVE  Pow2[n] \in Ceils \cup {1}
<1>1. PICK m \in 1 .. Word : c = Pow2[m]
  BY DEF Ceils
<1>2. m \in Nat /\ Word \in Nat /\ m <= Word
  BY FphAssumption
<1>3. ~ m < n
  <2>1. m < n => Pow2[m] < Pow2[n]
    BY <1>2, Pow2Grows
  <2>2. Pow2[m] \in Nat /\ Pow2[n] \in Nat
    BY <1>2, Pow2Rec
  <2> QED BY <2>1, <2>2, <1>1
<1>4. n = 0 \/ n \in 1 .. Word
  BY <1>2, <1>3
<1> QED BY <1>4, Pow2Rec DEF Ceils

\* The fewest buckets that BucketNum gives are a power of two.
LEMMA TwoIsCeil == 2 \in Ceils
<1>1. Pow2[0] = 1 /\ Pow2[0 + 1] = 2 * Pow2[0] /\ 0 + 1 = 1 /\ 1 \in 1 .. Word
  BY Pow2Rec, FphAssumption
<1> QED BY <1>1 DEF Ceils

\* A table never has more buckets than slots, and their number is a power of two.
LEMMA BucketNumIs ==
    ASSUME NEW c \in Ceils, NEW n \in 1 .. c
    PROVE  BucketNum(n) \in Ceils /\ BucketNum(n) <= c
<1> DEFINE d == CeilLog2(n) + 1
           r == CeilDiv(2 * n, d)
<1>1. n \in Nat /\ n <= c /\ n >= 1 /\ c \in Nat /\ 2 <= c
  BY CeilsType
<1>2. CeilLog2(n) \in Nat /\ d \in Nat \ {0}
  BY <1>1, CeilLog2Is
<1>3. r \in Nat /\ r <= c
  <2>1. CASE n = 1
    <3>1. CeilLog2(n) = 0
      <4>1. Pow2[0] = 1 /\ ~ 0 < CeilLog2(n)
        BY <2>1, Pow2Rec, CeilLog2Is, <1>1
      <4> QED BY <4>1, <1>2
    <3>2. r = 2
      BY <3>1, <2>1 DEF CeilDiv
    <3> QED BY <3>2, <1>1
  <2>2. CASE n # 1
    <3>1. Pow2[0] = 1 /\ n <= Pow2[CeilLog2(n)]
      BY Pow2Rec, CeilLog2Is, <1>1
    <3>2. d >= 2
      BY <3>1, <2>2, <1>1, <1>2
    <3> HIDE DEF d
    <3>3. 2 * n + d - 1 \in Nat /\ 2 * n + d - 1 < (n + 1) * d
      <4>1. 2 * n <= d * n
        BY <3>2, <1>1, <1>2
      <4>2. (n + 1) * d = d * n + d
        BY <1>1, <1>2
      <4> QED BY <4>1, <4>2, <1>1, <1>2
    <3>4. r \in Nat /\ r <= n
      <4> DEFINE a == 2 * n + d - 1
      <4>1. a \in Nat /\ a < (n + 1) * d
        BY <3>3
      <4> HIDE DEF a
      <4>2. a \div d \in Nat /\ d * (a \div d) <= a
        BY <4>1, <1>2
      <4>3. a \div d <= n
        BY <4>1, <4>2, <1>1, <1>2
      <4> QED BY <4>2, <4>3 DEF a, CeilDiv
    <3> QED BY <3>4, <1>1
  <2> QED BY <2>1, <2>2
<1> HIDE DEF d, r
<1>4. Ceil2(r) <= 2 \/ (Ceil2(r) \in Ceils /\ Ceil2(r) <= c)
  <2>1. CASE r <= 1
    BY <2>1, <1>3, Ceil2Is
  <2>2. CASE r > 1
    <3>1. Ceil2(r) <= c
      BY <2>2, <1>3, Ceil2Is
    <3>2. PICK k \in Nat : Ceil2(r) = Pow2[k]
      BY <1>3, Ceil2Is
    <3>3. Ceil2(r) \in Ceils \cup {1}
      BY <3>1, <3>2, BelowCeil
    <3> QED BY <3>1, <3>3
  <2> QED BY <2>1, <2>2, <1>3
<1>5. BucketNum(n) = Larger(2, Ceil2(r))
  BY DEF BucketNum, d, r
<1>6. Ceil2(r) \in Nat
  BY <1>3, Ceil2Is, Pow2Rec
<1> QED BY <1>1, <1>4, <1>5, <1>6, TwoIsCeil DEF Larger

\* What a rehash settles on is a power of two within the limits of the table.
LEMMA LimitedIs ==
    ASSUME policy \in Policies, NEW x \in Nat
    PROVE  Limited(Ceil2(x)) \in Ceils /\ InitCeil <= Limited(Ceil2(x)) /\ Limited(Ceil2(x)) <= policy.max_ceil
<1>1. policy.max_ceil \in Ceils /\ InitCeil <= policy.max_ceil /\ InitCeil \in Ceils
  BY PolicyAssumption, FphAssumption
<1>2. policy.max_ceil \in Nat /\ 2 <= policy.max_ceil /\ InitCeil \in Nat /\ 2 <= InitCeil
  BY <1>1, CeilsType
<1>3. PICK k \in Nat : Ceil2(x) = Pow2[k]
  BY Ceil2Is
<1>4. Ceil2(x) \in Nat
  BY <1>3, Pow2Rec
<1>5. Ceil2(x) <= policy.max_ceil => Ceil2(x) \in Ceils \cup {1}
  BY <1>1, <1>3, BelowCeil
<1> QED BY <1>1, <1>2, <1>4, <1>5 DEF Limited, Larger, Smaller

\* Load factors below one, as <<part, whole>>.
Loads == {load \in Nat \X Nat : 0 < load[1] /\ load[1] < load[2]}

\* What the load factor makes of a number of elements or slots.
LEMMA LoadType ==
    ASSUME NEW load \in Loads, NEW n \in Nat
    PROVE  CeilLoad(n, load) \in Nat /\ ExpandAt(n, load) \in Nat /\ ExpandAt(0, load) = 0 /\ CeilLoad(0, load) = 0
<1>1. load[1] \in Nat \ {0} /\ load[2] \in Nat \ {0}
  BY DEF Loads
<1>2. ASSUME NEW a \in Nat, NEW b \in Nat \ {0} PROVE CeilDiv(a, b) \in Nat /\ CeilDiv(0, b) = 0
  <2>1. a + b - 1 \in Nat /\ b \in Nat \ {0}
    OBVIOUS
  <2>2. (a + b - 1) \div b \in Nat
    BY <2>1
  <2>3. (0 + b - 1) \div b = 0
    OBVIOUS
  <2> QED BY <2>2, <2>3 DEF CeilDiv
<1>3. n * load[2] \in Nat /\ n * load[1] \in Nat /\ 0 * load[2] = 0 /\ 0 * load[1] = 0
  BY <1>1
<1> QED BY <1>1, <1>2, <1>3 DEF CeilLoad, ExpandAt

-----------------------------------------------------------------------------
(* Where a key is.                                                           *)

\* Both index policies stay below the number they map to.
LEMMA MapToIndexIn ==
    ASSUME policy \in Policies, NEW h \in 0 .. Words - 1, NEW c \in Ceils
    PROVE  MapToIndex(h, c) \in 0 .. c - 1
<1>1. c \in Nat \ {0} /\ Words \in Nat \ {0}
  BY CeilsType, WordsType
<1>2. PICK q \in Nat \ {0} : Words = q * c
  BY CeilsType
<1>3. h % c \in 0 .. c - 1
  BY <1>1
<1>4. Words \div c = q
  BY <1>1, <1>2
<1>5. h \div q \in 0 .. c - 1
  <2>1. h \in Nat /\ h < q * c
    BY <1>1, <1>2
  <2>2. h \div q \in Nat /\ q * (h \div q) <= h
    BY <2>1
  <2>3. h \div q < c
    BY <2>1, <2>2, <1>1
  <2> QED BY <2>2, <2>3, <1>1
<1> QED BY <1>3, <1>4, <1>5 DEF MapToIndex

\* Whatever the parameter, a key is sent to a slot that exists.
LEMMA SlotUnderIn ==
    ASSUME policy \in Policies, NEW s \in SeedOf, NEW c \in Ceils, NEW p \in Parameter, NEW k \in AnyKey
    PROVE  SlotUnder(s, c, p, k) \in 0 .. c - 1
<1>1. SlotHash[s][p.bit][k] \in 0 .. Words - 1 /\ p.offset \in Nat
  BY FphAssumption DEF Parameter
<1>2. Words \in Nat \ {0} /\ c \in Nat \ {0} /\ \E q \in Nat \ {0} : Words = q * c
  BY WordsType, CeilsType
<1>3. ReverseMap(p.offset, c) \in Int
  <2>1. PICK q \in Nat \ {0} : Words = q * c
    BY <1>2
  <2>2. Words \div c = q
    BY <2>1, <1>2
  <2>3. (p.offset * q) % Words \in Int
    <3>1. p.offset * q \in Nat
      BY <1>1
    <3> QED BY <3>1, <1>2
  <2> QED BY <2>2, <2>3, <1>1 DEF ReverseMap
<1> DEFINE h == SlotHash[s][p.bit][k] + ReverseMap(p.offset, c)
<1>4. h \in Int
  BY <1>1, <1>2, <1>3
<1> HIDE DEF h
<1>5. h % Words \in 0 .. Words - 1
  BY <1>2, <1>4
<1>6. MapToIndex(h % Words, c) \in 0 .. c - 1
  BY <1>5, MapToIndexIn
<1> QED BY <1>6 DEF SlotUnder, h

\* A key belongs to a bucket that exists.
LEMMA BucketIn ==
    ASSUME policy \in Policies, NEW s \in SeedOf, NEW num \in Ceils, NEW k \in AnyKey
    PROVE  GetBucketIndex(s, num, k) \in 0 .. num - 1
<1>1. BucketHash[s][k] \in 0 .. Words - 1
  BY FphAssumption
<1> QED BY <1>1, MapToIndexIn DEF GetBucketIndex

-----------------------------------------------------------------------------
(* A table that is as it should be.                                          *)

\* The keys that callers store.
KeysIn(es) == {es[n].key : n \in DOMAIN es}
CallersOf(p) == p.keys \cup UNION {KeysIn(es) : es \in p.ranges}
Callers == CallersOf(policy)
Item == [key : Callers, value : Value]

\* What the lemmas suppose of the instantiation: key_gen_ returns no key that a
\* caller stores.
Setting == policy \in Policies /\ policy.generated \cap Callers = {}

\* A table is a record of exactly these fields.
Fields == {"this", "ceil", "seed", "param", "bucket", "slots", "filled", "item_num", "default",
           "second", "home", "load", "expand_at", "begin", "begin_of",
           "slot_capacity", "slot_block", "bucket_capacity", "bucket_block"}
IsTable(x) == x = [f \in Fields |-> x[f]]

\* It has an object, which its begin() calls back on, and a load factor.
Own(x) == /\ IsTable(x) /\ x.this \in Object /\ x.begin_of = x.this
          /\ x.load \in Loads /\ x.expand_at \in Nat

\* Its sizes are within the limits, and its arrays as long as is recorded.
Sizes(x) ==
    /\ x.ceil \in Ceils /\ InitCeil <= x.ceil /\ x.ceil <= policy.max_ceil
    /\ x.seed \in policy.seeds
    /\ \E num \in Ceils : num <= x.bucket_capacity /\ DOMAIN x.bucket = 0 .. num - 1
    /\ x.param \in [0 .. x.bucket_capacity - 1 -> Parameter]
    /\ x.bucket_capacity \in Nat /\ x.bucket_capacity <= policy.max_ceil
    /\ x.slot_capacity \in Nat /\ x.ceil <= x.slot_capacity
    /\ x.slot_block = x.slot_capacity /\ x.bucket_block = x.bucket_capacity

\* What an empty slot holds.
Vacant(x, p) == OnlyKey(IF p = x.home THEN x.second ELSE x.default)

\* Every slot holds a caller's element where the key is looked up, or the default key
\* that marks it as empty; the two default keys are looked up in different slots.
Filling(x) ==
    /\ DOMAIN x.slots = 0 .. x.ceil - 1
    /\ x.slots = [p \in 0 .. x.ceil - 1 |-> x.slots[p]]
    /\ x.default \in policy.generated /\ x.second \in policy.generated
    /\ x.home = GetSlotPos(x, x.default) /\ GetSlotPos(x, x.second) # x.home
    /\ \A p \in 0 .. x.ceil - 1 :
         \/ /\ x.slots[p] \in Item
            /\ GetSlotPos(x, x.slots[p].key) = p
         \/ x.slots[p] = Vacant(x, p)

\* The records of which slots are in use agree.
Books(x) ==
    /\ x.filled = Elements(x)
    /\ x.bucket = [b \in DOMAIN x.bucket |-> {p \in Elements(x) : BucketOf(x, x.slots[p].key) = b}]
    /\ x.item_num = Cardinality(Elements(x))

\* begin() is an element, if there is one.
Starts(x) == x.begin \in Elements(x) \/ (x.begin = NoSlot /\ Elements(x) = {})

Records(x) == Books(x) /\ Starts(x)

\* A table after Build, between any two calls.
Good(x) == Own(x) /\ Sizes(x) /\ Filling(x) /\ Records(x)

\* The elements themselves.
Store(x) == {x.slots[p] : p \in Elements(x)}

\* The keys of the callers and of key_gen_, and the limits, have their types.
LEMMA SettingFacts ==
    ASSUME Setting
    PROVE  /\ policy.generated \subseteq AnyKey /\ Callers \subseteq Key /\ Callers \subseteq AnyKey
           /\ \A g \in policy.generated : g \notin Callers /\ g # NoKey
           /\ policy.seeds \subseteq SeedOf /\ policy.max_ceil \in Ceils
           /\ policy.garbage \subseteq Parameter
<1>1. policy.keys \subseteq Key
  BY PolicyAssumption DEF Setting
<1>2. \A es \in policy.ranges : \A n \in DOMAIN es : es[n].key \in Key
  <2> SUFFICES ASSUME NEW es \in policy.ranges, NEW n \in DOMAIN es PROVE es[n].key \in Key
    OBVIOUS
  <2> DEFINE R == [key : Key, value : Value]
  <2>1. es \in Seq(R)
    BY PolicyAssumption DEF Setting
  <2> HIDE DEF R
  <2>2. es[n] \in R
    BY <2>1, ElementOfSeq
  <2> QED BY <2>2 DEF R
<1>3. Callers \subseteq Key
  BY <1>1, <1>2 DEF Callers, CallersOf, KeysIn
<1> QED BY <1>3, PolicyAssumption, FphAssumption DEF Setting, AnyKey

\* A key is looked up in a bucket and a slot that exist.
LEMMA PlaceIn ==
    ASSUME Setting, NEW x, Sizes(x), NEW k \in AnyKey
    PROVE  BucketOf(x, k) \in DOMAIN x.bucket /\ GetSlotPos(x, k) \in 0 .. x.ceil - 1
<1>1. PICK num \in Ceils : num <= x.bucket_capacity /\ DOMAIN x.bucket = 0 .. num - 1
  BY DEF Sizes
<1>2. num \in Nat
  BY CeilsType
<1>3. Cardinality(0 .. num - 1) = num
  BY <1>2, FS_Interval
<1>4. x.seed \in SeedOf
  BY SettingFacts DEF Sizes
<1>5. BucketOf(x, k) \in 0 .. num - 1
  BY <1>1, <1>3, <1>4, BucketIn DEF BucketOf, Setting
<1>6. BucketOf(x, k) \in 0 .. x.bucket_capacity - 1
  BY <1>1, <1>2, <1>5 DEF Sizes
<1>7. x.param[BucketOf(x, k)] \in Parameter /\ x.ceil \in Ceils
  BY <1>6 DEF Sizes
<1>8. GetSlotPos(x, k) \in 0 .. x.ceil - 1
  BY <1>4, <1>7, SlotUnderIn DEF GetSlotPos, Setting
<1> QED BY <1>1, <1>5, <1>8

\* What is in a slot: an element or one of the default keys.
LEMMA SlotIs ==
    ASSUME Setting, NEW x, Sizes(x), Filling(x), NEW p \in 0 .. x.ceil - 1
    PROVE  /\ p \in Elements(x) => /\ x.slots[p] \in Item /\ GetSlotPos(x, x.slots[p].key) = p
                                   /\ ~ IsSlotEmpty(x, p)
           /\ p \notin Elements(x) => x.slots[p] = Vacant(x, p) /\ IsSlotEmpty(x, p)
<1>1. CASE x.slots[p] \in Item /\ GetSlotPos(x, x.slots[p].key) = p
  <2>1. x.slots[p].value \in Value /\ x.slots[p].key \in Callers
    BY <1>1 DEF Item
  <2>2. p \in Elements(x)
    BY <2>1, FphAssumption DEF Elements, Filling
  <2>3. ~ IsSlotEmpty(x, p)
    BY <2>1, SettingFacts DEF IsSlotEmpty, Filling
  <2> QED BY <1>1, <2>2, <2>3
<1>2. CASE x.slots[p] = Vacant(x, p)
  BY <1>2 DEF Vacant, OnlyKey, Elements, IsSlotEmpty
<1> QED BY <1>1, <1>2 DEF Filling

\* The slots in use are some of the slots, so there are finitely many.
LEMMA ElementsIn ==
    ASSUME NEW x, Sizes(x), Filling(x)
    PROVE  /\ Elements(x) \subseteq 0 .. x.ceil - 1
           /\ IsFiniteSet(Elements(x)) /\ Cardinality(Elements(x)) \in Nat /\ Cardinality(Elements(x)) <= x.ceil
           /\ x.ceil \in Nat
<1>1. x.ceil \in Nat
  BY CeilsType DEF Sizes
<1>2. Elements(x) \subseteq 0 .. x.ceil - 1
  BY DEF Elements, Filling
<1>3. IsFiniteSet(0 .. x.ceil - 1) /\ Cardinality(0 .. x.ceil - 1) = x.ceil
  BY <1>1, FirstNumbers
<1> QED BY <1>1, <1>2, <1>3, FS_Subset, FS_CardinalityType

\* A look-up hits exactly the elements.
LEMMA FindIs ==
    ASSUME Setting, NEW x, Sizes(x), Filling(x), NEW k \in AnyKey
    PROVE  /\ Contains(x, k) <=> \E e \in Elements(x) : x.slots[e].key = k
           /\ Contains(x, k) => GetSlotPos(x, k) \in Elements(x) /\ x.slots[GetSlotPos(x, k)].key = k
           /\ \A e \in Elements(x) : x.slots[e].key = k => GetSlotPos(x, k) = e
<1> DEFINE p == GetSlotPos(x, k)
<1>1. p \in 0 .. x.ceil - 1
  BY PlaceIn
<1>2. ASSUME p \notin Elements(x) PROVE x.slots[p].key # k
  <2>1. x.slots[p].key = IF p = x.home THEN x.second ELSE x.default
    <3>1. x.slots[p] = Vacant(x, p)
      BY <1>1, <1>2, SlotIs
    <3> QED BY <3>1 DEF Vacant, OnlyKey
  <2> QED BY <2>1 DEF Filling
<1>3. \A e \in Elements(x) : x.slots[e].key = k => GetSlotPos(x, k) = e
  BY SlotIs, ElementsIn
<1> QED BY <1>2, <1>3 DEF Contains

\* No two elements have a key in common, and there are as many as slots in use.
LEMMA StoreIs ==
    ASSUME Setting, NEW x, Sizes(x), Filling(x)
    PROVE  /\ Store(x) \subseteq Item
           /\ \A e, f \in Store(x) : e.key = f.key => e = f
           /\ IsFiniteSet(Store(x)) /\ Cardinality(Store(x)) = Cardinality(Elements(x))
           /\ \A k \in AnyKey : Contains(x, k) <=> \E e \in Store(x) : e.key = k
<1>1. \A p \in Elements(x) : x.slots[p] \in Item /\ GetSlotPos(x, x.slots[p].key) = p
  BY SlotIs, ElementsIn
<1>2. \A p, q \in Elements(x) : x.slots[p].key = x.slots[q].key => p = q
  BY <1>1
<1>3. IsFiniteSet(Store(x)) /\ Cardinality(Store(x)) = Cardinality(Elements(x))
  <2> DEFINE f == [p \in Elements(x) |-> x.slots[p]]
  <2>1. f \in Bijection(Elements(x), Store(x))
    BY <1>2 DEF Bijection, Injection, Surjection, Store, IsInjective
  <2>2. ExistsBijection(Elements(x), Store(x))
    BY <2>1 DEF ExistsBijection
  <2>3. IsFiniteSet(Elements(x))
    BY ElementsIn
  <2> QED BY <2>2, <2>3, FS_Bijection
<1>4. \A k \in AnyKey : Contains(x, k) <=> \E e \in Store(x) : e.key = k
  BY FindIs DEF Store
<1> QED BY <1>1, <1>2, <1>3, <1>4 DEF Store

-----------------------------------------------------------------------------
(* Walking.                                                                  *)

\* The way from one slot on to another, around the end of the array.
LEMMA AheadIs ==
    ASSUME NEW x, x.ceil \in Nat, NEW p \in 0 .. x.ceil - 1, NEW q \in 0 .. x.ceil - 1
    PROVE  Ahead(x, p, q) = IF p <= q THEN q - p ELSE q - p + x.ceil
<1> DEFINE c == x.ceil
<1>1. c \in Nat \ {0} /\ p \in Int /\ q \in Int
  OBVIOUS
<1>2. CASE p <= q
  <2>1. q - p \in 0 .. c - 1
    BY <1>2
  <2> QED BY <2>1, <1>1, <1>2 DEF Ahead
<1>3. CASE ~ p <= q
  <2>1. q - p + c \in 0 .. c - 1 /\ q - p = (-1) * c + (q - p + c)
    BY <1>3
  <2>2. (q - p) % c = q - p + c
    BY <2>1, <1>1
  <2> QED BY <2>2, <1>3 DEF Ahead
<1> QED BY <1>2, <1>3

\* The search goes around the table to the nearest element.
LEMMA NextIs ==
    ASSUME Setting, NEW x, Sizes(x), Filling(x), NEW p \in 0 .. x.ceil - 1
    PROVE  /\ Elements(x) \ {p} = {} => GetNextSlot(x, p) = NoSlot
           /\ Elements(x) \ {p} # {} =>
                /\ GetNextSlot(x, p) \in Elements(x) \ {p}
                /\ \A r \in Elements(x) \ {p} : Ahead(x, p, GetNextSlot(x, p)) <= Ahead(x, p, r)
<1> DEFINE others == {q \in DOMAIN x.slots : q # p /\ ~ IsSlotEmpty(x, q)}
<1>1. others = Elements(x) \ {p}
  <2>1. DOMAIN x.slots = 0 .. x.ceil - 1 /\ Elements(x) \subseteq 0 .. x.ceil - 1
    BY ElementsIn DEF Filling
  <2>2. \A q \in 0 .. x.ceil - 1 : ~ IsSlotEmpty(x, q) <=> q \in Elements(x)
    BY SlotIs
  <2> QED BY <2>1, <2>2
<1> DEFINE Nearest(q) == \A r \in others : Ahead(x, p, q) <= Ahead(x, p, r)
<1>2. GetNextSlot(x, p) = IF others = {} THEN NoSlot ELSE CHOOSE q \in others : Nearest(q)
  BY DEF GetNextSlot
<1>3. ASSUME others # {} PROVE \E q \in others : Nearest(q)
  <2> DEFINE T == {Ahead(x, p, q) : q \in others}
  <2>1. \A q \in others : q \in 0 .. x.ceil - 1 /\ Ahead(x, p, q) \in Nat
    <3> SUFFICES ASSUME NEW q \in others PROVE q \in 0 .. x.ceil - 1 /\ Ahead(x, p, q) \in Nat
      OBVIOUS
    <3>1. q \in 0 .. x.ceil - 1 /\ x.ceil \in Nat
      BY <1>1, ElementsIn
    <3> QED BY <3>1, AheadIs
  <2>2. T \in SUBSET Nat /\ T # {}
    BY <2>1, <1>3
  <2>3. PICK m \in T : \A k \in T : m <= k
    BY <2>2, LeastNatural
  <2>4. PICK q \in others : m = Ahead(x, p, q)
    OBVIOUS
  <2> QED BY <2>3, <2>4
<1> HIDE DEF others
<1>4. others # {} => GetNextSlot(x, p) \in others /\ Nearest(GetNextSlot(x, p))
  <2> HIDE DEF Nearest
  <2> QED BY <1>2, <1>3
<1> QED BY <1>1, <1>2, <1>4

\* The elements a walk from begin() to p has left behind.
Dist(x, p) == Ahead(x, x.begin, p)
Before(x, p) == {q \in Elements(x) : Dist(x, q) < Dist(x, p)}

\* Elements are at different distances from begin(), and these give the way between two.
LEMMA DistIs ==
    ASSUME Setting, NEW x, Sizes(x), Filling(x), x.begin \in Elements(x), NEW p \in Elements(x)
    PROVE  /\ Dist(x, p) \in 0 .. x.ceil - 1
           /\ Dist(x, x.begin) = 0
           /\ \A q \in Elements(x) : Dist(x, q) = Dist(x, p) => q = p
           /\ \A q \in Elements(x) : Ahead(x, p, q) = IF Dist(x, p) <= Dist(x, q)
                                                      THEN Dist(x, q) - Dist(x, p)
                                                      ELSE Dist(x, q) - Dist(x, p) + x.ceil
<1>1. x.ceil \in Nat /\ x.begin \in 0 .. x.ceil - 1 /\ \A q \in Elements(x) : q \in 0 .. x.ceil - 1
  BY ElementsIn
<1>2. \A q \in Elements(x) : Dist(x, q) = IF x.begin <= q THEN q - x.begin ELSE q - x.begin + x.ceil
  BY <1>1, AheadIs DEF Dist
<1>3. \A q \in Elements(x) : Ahead(x, p, q) = IF p <= q THEN q - p ELSE q - p + x.ceil
  BY <1>1, AheadIs
<1> QED BY <1>1, <1>2, <1>3

\* ++ goes on to the next in this order, or ends after the last.
LEMMA AdvanceIs ==
    ASSUME Setting, NEW x, Sizes(x), Filling(x), Records(x), x.begin \in Elements(x),
           NEW p \in Elements(x), NEW cnt, cnt = Cardinality(Before(x, p))
    PROVE  /\ cnt \in Nat /\ cnt < x.item_num
           /\ LET q == Advanced(x, p, cnt)
              IN  IF cnt + 1 >= x.item_num THEN q = NoSlot /\ Elements(x) = Before(x, p) \cup {p}
                  ELSE /\ q \in Elements(x) /\ Before(x, q) = Before(x, p) \cup {p}
                       /\ Cardinality(Before(x, q)) = cnt + 1
<1> DEFINE B == Before(x, p) \cup {p}
<1>1. IsFiniteSet(Elements(x)) /\ x.item_num = Cardinality(Elements(x)) /\ x.item_num \in Nat
  BY ElementsIn DEF Records, Books, Starts
<1>2. p \notin Before(x, p) /\ Before(x, p) \subseteq Elements(x)
  BY DistIs DEF Before
<1>3. IsFiniteSet(Before(x, p)) /\ cnt \in Nat
  BY <1>1, <1>2, FS_Subset, FS_CardinalityType
<1>4. IsFiniteSet(B) /\ Cardinality(B) = cnt + 1 /\ B \subseteq Elements(x)
  BY <1>2, <1>3, FS_AddElement
<1>5. cnt + 1 <= x.item_num /\ (cnt + 1 = x.item_num => B = Elements(x))
  BY <1>1, <1>3, <1>4, FS_Subset
<1>6. CASE cnt + 1 >= x.item_num
  BY <1>1, <1>3, <1>5, <1>6 DEF Advanced
<1>7. CASE ~ cnt + 1 >= x.item_num
  <2> DEFINE q == GetNextSlot(x, p)
  <2>1. B # Elements(x)
    BY <1>1, <1>3, <1>4, <1>7
  <2>2. PICK r \in Elements(x) : r \notin B
    BY <2>1, <1>4
  <2>3. p \in 0 .. x.ceil - 1
    BY ElementsIn
  <2>4. q \in Elements(x) \ {p} /\ \A s \in Elements(x) \ {p} : Ahead(x, p, q) <= Ahead(x, p, s)
    BY <2>2, <2>3, NextIs
  <2> HIDE DEF q
  <2> DEFINE D(s) == Dist(x, s)
  <2>5. \A s \in Elements(x) : D(s) \in 0 .. x.ceil - 1 /\ (D(s) = D(p) => s = p)
    BY DistIs
  <2>6. \A s \in Elements(x) : Ahead(x, p, s) = IF D(p) <= D(s) THEN D(s) - D(p) ELSE D(s) - D(p) + x.ceil
    BY DistIs
  <2>7. \A s \in Elements(x) : s \in Before(x, p) <=> D(s) < D(p)
    BY DEF Before
  <2>8. x.ceil \in Nat
    BY ElementsIn
  <2> HIDE DEF D
  <2>9. D(r) > D(p)
    BY <2>2, <2>5, <2>7
  <2>10. D(q) > D(p)
    <3> SUFFICES ASSUME ~ D(q) > D(p) PROVE FALSE
      OBVIOUS
    <3>1. Ahead(x, p, q) = D(q) - D(p) + x.ceil
      BY <2>4, <2>5, <2>6
    <3>2. Ahead(x, p, r) = D(r) - D(p) /\ r # p
      BY <2>2, <2>5, <2>6, <2>9
    <3>3. Ahead(x, p, q) <= Ahead(x, p, r)
      BY <3>2, <2>2, <2>4
    <3> QED BY <3>1, <3>2, <3>3, <2>2, <2>4, <2>5, <2>8
  <2>11. \A s \in Elements(x) : D(s) < D(q) <=> s \in B
    <3> SUFFICES ASSUME NEW s \in Elements(x) PROVE D(s) < D(q) <=> s \in B
      OBVIOUS
    <3>1. s \in B <=> D(s) <= D(p)
      BY <2>5, <2>7
    <3>2. D(s) > D(p) => D(q) <= D(s)
      <4> SUFFICES ASSUME D(s) > D(p) PROVE D(q) <= D(s)
        OBVIOUS
      <4>1. s # p /\ Ahead(x, p, s) = D(s) - D(p) /\ Ahead(x, p, q) = D(q) - D(p)
        BY <2>4, <2>5, <2>6, <2>10
      <4>2. Ahead(x, p, q) <= Ahead(x, p, s)
        BY <4>1, <2>4
      <4> QED BY <4>1, <4>2, <2>4, <2>5
    <3> QED BY <3>1, <3>2, <2>4, <2>5, <2>10
  <2>12. Before(x, q) = B
    BY <2>11, <1>4 DEF Before, D
  <2>13. Advanced(x, p, cnt) = q
    BY <1>7 DEF Advanced, q
  <2>14. /\ Advanced(x, p, cnt) \in Elements(x)
         /\ Before(x, Advanced(x, p, cnt)) = Before(x, p) \cup {p}
         /\ Cardinality(Before(x, Advanced(x, p, cnt))) = cnt + 1
    BY <1>4, <2>4, <2>12, <2>13
  <2>15. cnt < x.item_num
    BY <1>1, <1>3, <1>5
  <2> QED BY <1>3, <1>7, <2>14, <2>15
<1> QED BY <1>6, <1>7

\* A walk visits every element.
LEMMA WalkIs ==
    ASSUME Setting, NEW x, Sizes(x), Filling(x), Records(x)
    PROVE  Walk(x) = Elements(x)
<1> DEFINE N == x.item_num
           Next_(p, n) == IF p = NoSlot THEN p ELSE Advanced(x, p, n - 1)
           Fits(f, m) == /\ DOMAIN f = 0 .. m
                         /\ \A n \in 0 .. m : f[n] = IF n = 0 THEN x.begin ELSE Next_(f[n - 1], n)
<1>1. N \in Nat /\ IsFiniteSet(Elements(x)) /\ N = Cardinality(Elements(x))
  BY ElementsIn DEF Records, Books, Starts
<1>2. ASSUME NEW m \in Nat PROVE \E f : Fits(f, m)
  <2> HIDE DEF Next_
  <2> DEFINE T == {n \in Nat : ~ \E f : Fits(f, n)}
  <2>1. \E f : Fits(f, 0)
    <3> DEFINE f == [n \in 0 .. 0 |-> x.begin]
    <3>1. Fits(f, 0)
      OBVIOUS
    <3> QED BY <3>1
  <2>2. ASSUME NEW n \in Nat, NEW f, Fits(f, n) PROVE \E g : Fits(g, n + 1)
    <3> DEFINE g == [k \in 0 .. n + 1 |-> IF k = n + 1 THEN Next_(f[n], n + 1) ELSE f[k]]
    <3>1. ASSUME NEW k \in 0 .. n + 1 PROVE g[k] = IF k = 0 THEN x.begin ELSE Next_(g[k - 1], k)
      <4>1. CASE k = n + 1
        <5>1. k - 1 = n /\ k - 1 \in 0 .. n + 1 /\ k - 1 # n + 1 /\ k # 0
          BY <4>1
        <5> QED BY <5>1, <4>1
      <4>2. CASE k # n + 1
        <5>1. k \in 0 .. n /\ (k # 0 => k - 1 \in 0 .. n /\ k - 1 # n + 1 /\ k - 1 \in 0 .. n + 1)
          BY <4>2
        <5>2. f[k] = IF k = 0 THEN x.begin ELSE Next_(f[k - 1], k)
          BY <5>1, <2>2
        <5>3. g[k] = f[k] /\ (k # 0 => g[k - 1] = f[k - 1])
          BY <5>1, <4>2
        <5> QED BY <5>2, <5>3
      <4> QED BY <4>1, <4>2
    <3>2. Fits(g, n + 1)
      BY <3>1
    <3> QED BY <3>2
  <2>3. T = {}
    <3> HIDE DEF Fits
    <3> SUFFICES ASSUME T # {} PROVE FALSE
      OBVIOUS
    <3>1. PICK k \in T : \A j \in T : k <= j
      BY LeastNatural
    <3>2. k # 0
      BY <2>1, <3>1
    <3>3. k - 1 \in Nat /\ k - 1 \notin T /\ (k - 1) + 1 = k
      BY <3>1, <3>2
    <3> QED BY <2>2, <3>1, <3>3
  <2> QED BY <2>3
<1> DEFINE Step == CHOOSE step : step = [n \in 0 .. N |-> IF n = 0 THEN x.begin ELSE Next_(step[n - 1], n)]
<1>3. Walk(x) = {Step[n] : n \in DOMAIN Step} \ {NoSlot}
  BY DEF Walk
<1>4. Fits(Step, N)
  <2>1. PICK f : Fits(f, N)
    BY <1>1, <1>2
  <2> DEFINE g == [n \in 0 .. N |-> f[n]]
  <2> HIDE DEF Next_
  <2>2. \A n \in 0 .. N : g[n] = IF n = 0 THEN x.begin ELSE Next_(g[n - 1], n)
    BY <2>1, <1>1
  <2>3. g = [n \in 0 .. N |-> IF n = 0 THEN x.begin ELSE Next_(g[n - 1], n)]
    BY <2>2
  <2> HIDE DEF g
  <2>4. Step = [n \in 0 .. N |-> IF n = 0 THEN x.begin ELSE Next_(Step[n - 1], n)]
    BY <2>3
  <2> HIDE DEF Step
  <2>5. DOMAIN Step = 0 .. N
    BY <2>4
  <2>6. \A n \in 0 .. N : Step[n] = IF n = 0 THEN x.begin ELSE Next_(Step[n - 1], n)
    BY <2>4
  <2> QED BY <2>5, <2>6
<1> HIDE DEF Step
<1>5. CASE Elements(x) = {}
  <2>1. N = 0 /\ x.begin = NoSlot
    BY <1>1, <1>5, FS_EmptySet DEF Records, Books, Starts
  <2>2. DOMAIN Step = {0} /\ Step[0] = NoSlot
    BY <2>1, <1>4
  <2> QED BY <1>3, <1>5, <2>2
<1>6. CASE Elements(x) # {}
  <2>1. x.begin \in Elements(x) /\ N # 0
    BY <1>1, <1>6, FS_EmptySet DEF Records, Books, Starts
  \* Where the walk stands, and what it left behind.
  <2> DEFINE On(n) == /\ Step[n] \in Elements(x) /\ Cardinality(Before(x, Step[n])) = n
                      /\ Before(x, Step[n]) = {Step[k] : k \in 0 .. n - 1}
             U == {n \in 0 .. N - 1 : ~ On(n)}
  <2>2. On(0)
    <3>1. Step[0] = x.begin
      BY <1>1, <1>4
    <3>2. Before(x, x.begin) = {}
      <4>1. Dist(x, x.begin) = 0 /\ \A q \in Elements(x) : Dist(x, q) \in 0 .. x.ceil - 1
        BY <2>1, DistIs
      <4> QED BY <4>1 DEF Before
    <3> QED BY <3>1, <3>2, <2>1, FS_EmptySet
  <2>3. ASSUME NEW n \in 0 .. N - 1, On(n), n + 1 \in 0 .. N - 1 PROVE On(n + 1)
    <3>1. Step[n] # NoSlot /\ Step[n] \in Elements(x)
      BY <2>3, ElementsIn DEF NoSlot
    <3>2. Step[n + 1] = Advanced(x, Step[n], n)
      <4>1. n + 1 \in 0 .. N /\ n + 1 # 0 /\ (n + 1) - 1 = n
        BY <1>1
      <4>2. Step[n + 1] = Next_(Step[n], n + 1)
        BY <4>1, <1>4
      <4> QED BY <4>1, <4>2, <3>1
    <3>3. ~ n + 1 >= x.item_num
      BY <1>1, <2>3
    <3>4. /\ Step[n + 1] \in Elements(x) /\ Before(x, Step[n + 1]) = Before(x, Step[n]) \cup {Step[n]}
          /\ Cardinality(Before(x, Step[n + 1])) = n + 1
      <4>1. n = Cardinality(Before(x, Step[n]))
        BY <2>3
      <4> QED BY <3>1, <3>2, <3>3, <4>1, <2>1, AdvanceIs
    <3>5. Before(x, Step[n + 1]) = {Step[k] : k \in 0 .. (n + 1) - 1}
      <4>1. 0 .. (n + 1) - 1 = (0 .. n - 1) \cup {n}
        BY <1>1
      <4> QED BY <4>1, <3>4, <2>3
    <3> QED BY <3>4, <3>5
  <2>4. U = {}
    <3> HIDE DEF On
    <3> SUFFICES ASSUME U # {} PROVE FALSE
      OBVIOUS
    <3>1. PICK k \in U : \A j \in U : k <= j
      <4>1. U \in SUBSET Nat
        BY <1>1
      <4> QED BY <4>1, LeastNatural
    <3>2. k # 0
      BY <2>2, <3>1
    <3>3. k - 1 \in 0 .. N - 1 /\ k - 1 \notin U /\ (k - 1) + 1 = k
      BY <3>1, <3>2, <1>1
    <3> QED BY <2>3, <3>1, <3>3
  <2>5. N - 1 \in 0 .. N - 1 /\ (N - 1) + 1 = N
    BY <1>1, <2>1
  <2>6. On(N - 1)
    BY <2>4, <2>5
  <2>7. Step[N] = NoSlot /\ Elements(x) = Before(x, Step[N - 1]) \cup {Step[N - 1]}
    <3>1. Step[N - 1] # NoSlot /\ Step[N - 1] \in Elements(x)
      BY <2>6, ElementsIn DEF NoSlot
    <3>2. Step[N] = Advanced(x, Step[N - 1], N - 1)
      <4>1. N \in 0 .. N /\ N # 0
        BY <1>1, <2>1
      <4>2. Step[N] = Next_(Step[N - 1], N)
        BY <4>1, <1>4
      <4> QED BY <4>2, <3>1
    <3>3. (N - 1) + 1 >= x.item_num
      BY <1>1
    <3>4. N - 1 = Cardinality(Before(x, Step[N - 1]))
      BY <2>6
    <3> QED BY <3>1, <3>2, <3>3, <3>4, <2>1, AdvanceIs
  <2>8. Elements(x) = {Step[k] : k \in 0 .. N - 1}
    <3>1. 0 .. N - 1 = (0 .. (N - 1) - 1) \cup {N - 1}
      BY <1>1, <2>1
    <3> QED BY <3>1, <2>6, <2>7
  <2>9. DOMAIN Step = (0 .. N - 1) \cup {N}
    BY <1>1, <1>4
  <2>10. NoSlot \notin Elements(x)
    BY ElementsIn DEF NoSlot
  <2> QED BY <1>3, <2>7, <2>8, <2>9, <2>10
<1> QED BY <1>5, <1>6

-----------------------------------------------------------------------------
(* Tables that are changed.                                                  *)

\* What a table holds does not depend on its records.
LEMMA SameTable ==
    ASSUME NEW x, NEW z, z.ceil = x.ceil, z.seed = x.seed, z.param = x.param,
           DOMAIN z.bucket = DOMAIN x.bucket, z.slots = x.slots,
           z.default = x.default, z.second = x.second, z.home = x.home
    PROVE  /\ \A k : GetSlotPos(z, k) = GetSlotPos(x, k) /\ BucketOf(z, k) = BucketOf(x, k)
           /\ Elements(z) = Elements(x) /\ Store(z) = Store(x)
           /\ Filling(x) => Filling(z)
<1>1. \A k : GetSlotPos(z, k) = GetSlotPos(x, k) /\ BucketOf(z, k) = BucketOf(x, k)
  BY DEF GetSlotPos, BucketOf
<1>2. Elements(z) = Elements(x) /\ Store(z) = Store(x)
  BY DEF Elements, Store
<1>3. Filling(x) => Filling(z)
  BY <1>1 DEF Filling, Vacant
<1> QED BY <1>1, <1>2, <1>3

\* Sizes are kept by whatever changes no array and no number of slots.
LEMMA SameSizes ==
    ASSUME NEW x, NEW z, Sizes(x), z.ceil = x.ceil, z.seed = x.seed,
           z.param \in [DOMAIN x.param -> Parameter], DOMAIN z.bucket = DOMAIN x.bucket,
           z.slot_capacity = x.slot_capacity, z.bucket_capacity = x.bucket_capacity,
           z.slot_block = x.slot_block, z.bucket_block = x.bucket_block
    PROVE  Sizes(z)
BY DEF Sizes

\* A table whose slots hold the elements E where look-ups expect them, and
\* elsewhere default keys.
LaysOut(y, E) ==
    /\ E \subseteq Item
    /\ y.slots = [p \in 0 .. y.ceil - 1 |-> y.slots[p]]
    /\ y.default \in policy.generated /\ y.second \in policy.generated
    /\ y.home = GetSlotPos(y, y.default) /\ GetSlotPos(y, y.second) # y.home
    /\ \A e \in E : y.slots[GetSlotPos(y, e.key)] = e
    /\ \A p \in 0 .. y.ceil - 1 :
         (\A e \in E : GetSlotPos(y, e.key) # p) => y.slots[p] = Vacant(y, p)

\* Slots laid out for the elements E are filled as they should be, with E.
LEMMA LaidOut ==
    ASSUME Setting, NEW y, Sizes(y), NEW E, LaysOut(y, E)
    PROVE  /\ Filling(y) /\ Store(y) = E
           /\ Elements(y) = {GetSlotPos(y, e.key) : e \in E}
<1> USE DEF LaysOut
<1>1. \A e \in E : GetSlotPos(y, e.key) \in 0 .. y.ceil - 1
  BY PlaceIn, SettingFacts DEF Item
<1>2. DOMAIN y.slots = 0 .. y.ceil - 1
  OBVIOUS
<1>3. \A p \in 0 .. y.ceil - 1 : \/ /\ y.slots[p] \in Item
                                    /\ GetSlotPos(y, y.slots[p].key) = p
                                 \/ y.slots[p] = Vacant(y, p)
  OBVIOUS
<1>4. Filling(y)
  BY <1>2, <1>3 DEF Filling
<1>5. \A e \in E : e.value # NoValue
  BY FphAssumption DEF Item
<1>6. Elements(y) = {GetSlotPos(y, e.key) : e \in E}
  <2>1. \A e \in E : GetSlotPos(y, e.key) \in Elements(y)
    BY <1>1, <1>2, <1>5 DEF Elements
  <2>2. ASSUME NEW p \in Elements(y) PROVE \E e \in E : p = GetSlotPos(y, e.key)
    <3>1. p \in 0 .. y.ceil - 1 /\ y.slots[p].value # NoValue
      BY <1>2 DEF Elements
    <3>2. y.slots[p] # Vacant(y, p)
      BY <3>1 DEF Vacant, OnlyKey
    <3> QED BY <3>1, <3>2
  <2> QED BY <2>1, <2>2
<1>7. Store(y) = E
  <2>1. \A e \in E : e \in Store(y)
    BY <1>6 DEF Store
  <2>2. \A f \in Store(y) : f \in E
    BY <1>6 DEF Store
  <2> QED BY <2>1, <2>2
<1> QED BY <1>4, <1>6, <1>7

\* A slot's own element is in no other place.
LEMMA StoreAt ==
    ASSUME Setting, NEW x, Sizes(x), Filling(x)
    PROVE  /\ \A e \in Store(x) : GetSlotPos(x, e.key) \in Elements(x) /\ x.slots[GetSlotPos(x, e.key)] = e
           /\ \A p \in Elements(x) : x.slots[p] \in Store(x)
           /\ \A p \in 0 .. x.ceil - 1 :
                (\A e \in Store(x) : GetSlotPos(x, e.key) # p) => x.slots[p] = Vacant(x, p) /\ p \notin Elements(x)
<1>1. \A p \in Elements(x) : GetSlotPos(x, x.slots[p].key) = p
  BY SlotIs, ElementsIn
<1>2. \A p \in 0 .. x.ceil - 1 : p \notin Elements(x) => x.slots[p] = Vacant(x, p)
  BY SlotIs
<1> QED BY <1>1, <1>2 DEF Store

\* An erase: the element's slot gets a default key, and begin() moves to the next.
LEMMA EraseIs ==
    ASSUME Setting, NEW x, Good(x), NEW p \in Elements(x)
    PROVE  /\ Good(EraseAt(x, p)) /\ EraseAt(x, p).this = x.this
           /\ Store(EraseAt(x, p)) = Store(x) \ {x.slots[p]}
<1> DEFINE b == BucketOf(x, x.slots[p].key)
           y == [x EXCEPT !.slots[p] = OnlyKey(IF p = GetSlotPos(x, x.default) THEN x.second ELSE x.default),
                          !.bucket[b] = @ \ {p}, !.filled = @ \ {p}, !.item_num = @ - 1]
           z == [y EXCEPT !.begin = GetNextSlot(y, p), !.begin_of = y.this]
<1>1. EraseAt(x, p) = z
  BY DEF EraseAt
<1>2. IsTable(x) /\ Sizes(x) /\ Filling(x) /\ Books(x) /\ Own(x)
  BY DEF Good, Own, Records
<1>3. /\ IsTable(y) /\ y.this = x.this /\ y.ceil = x.ceil /\ y.seed = x.seed /\ y.param = x.param
      /\ y.bucket = [x.bucket EXCEPT ![b] = @ \ {p}]
      /\ y.slots = [x.slots EXCEPT ![p] = OnlyKey(IF p = GetSlotPos(x, x.default) THEN x.second ELSE x.default)]
      /\ y.filled = x.filled \ {p} /\ y.item_num = x.item_num - 1
      /\ y.default = x.default /\ y.second = x.second /\ y.home = x.home
      /\ y.load = x.load /\ y.expand_at = x.expand_at
      /\ y.slot_capacity = x.slot_capacity /\ y.slot_block = x.slot_block
      /\ y.bucket_capacity = x.bucket_capacity /\ y.bucket_block = x.bucket_block
  BY <1>2 DEF IsTable, Fields
<1> HIDE DEF y
<1>4. /\ IsTable(z) /\ z.this = y.this /\ z.ceil = y.ceil /\ z.seed = y.seed /\ z.param = y.param
      /\ z.bucket = y.bucket /\ z.slots = y.slots /\ z.filled = y.filled /\ z.item_num = y.item_num
      /\ z.default = y.default /\ z.second = y.second /\ z.home = y.home
      /\ z.load = y.load /\ z.expand_at = y.expand_at
      /\ z.begin = GetNextSlot(y, p) /\ z.begin_of = y.this
      /\ z.slot_capacity = y.slot_capacity /\ z.slot_block = y.slot_block
      /\ z.bucket_capacity = y.bucket_capacity /\ z.bucket_block = y.bucket_block
  BY <1>3 DEF IsTable, Fields
<1> HIDE DEF z
<1>5. /\ p \in 0 .. x.ceil - 1 /\ x.slots[p] \in Item /\ GetSlotPos(x, x.slots[p].key) = p
      /\ x.home = GetSlotPos(x, x.default)
  BY <1>2, SlotIs, ElementsIn DEF Filling
<1>6. DOMAIN y.bucket = DOMAIN x.bucket
  BY <1>3
<1>7. Sizes(y)
  <2>1. y.param \in [DOMAIN x.param -> Parameter]
    BY <1>2, <1>3 DEF Sizes
  <2> QED BY <2>1, <1>2, <1>3, <1>6, SameSizes
<1>8. \A k : GetSlotPos(y, k) = GetSlotPos(x, k) /\ BucketOf(y, k) = BucketOf(x, k)
  BY <1>3, <1>6 DEF GetSlotPos, BucketOf
<1>9. /\ y.slots = [q \in 0 .. x.ceil - 1 |-> y.slots[q]]
      /\ y.slots[p] = Vacant(y, p)
      /\ \A q \in 0 .. x.ceil - 1 : q # p => y.slots[q] = x.slots[q]
  <2>1. x.slots = [q \in 0 .. x.ceil - 1 |-> x.slots[q]]
    BY <1>2 DEF Filling
  <2>2. y.slots = [q \in 0 .. x.ceil - 1 |-> IF q = p THEN y.slots[p] ELSE x.slots[q]]
    BY <1>3, <1>5, <2>1
  <2>3. y.slots[p] = OnlyKey(IF p = y.home THEN y.second ELSE y.default)
    BY <1>3, <1>5, <2>1
  <2>4. y.slots = [q \in 0 .. x.ceil - 1 |-> y.slots[q]]
    BY <2>2
  <2>5. \A q \in 0 .. x.ceil - 1 : q # p => y.slots[q] = x.slots[q]
    BY <2>2
  <2> QED BY <2>3, <2>4, <2>5 DEF Vacant
<1> DEFINE E == Store(x) \ {x.slots[p]}
<1>10. Filling(y) /\ Store(y) = E /\ Elements(y) = {GetSlotPos(y, e.key) : e \in E}
  <2>1. E \in SUBSET Item
    BY <1>2, StoreIs
  <2>2. \A e \in E : GetSlotPos(x, e.key) \in 0 .. x.ceil - 1 /\ GetSlotPos(x, e.key) # p /\ x.slots[GetSlotPos(x, e.key)] = e
    BY <1>2, StoreAt, ElementsIn
  <2>3. \A e \in E : y.slots[GetSlotPos(y, e.key)] = e
    BY <2>2, <1>8, <1>9
  <2>4. ASSUME NEW q \in 0 .. y.ceil - 1, \A e \in E : GetSlotPos(y, e.key) # q
        PROVE  y.slots[q] = Vacant(y, q)
    <3>1. CASE q = p
      BY <3>1, <1>9
    <3>2. CASE q # p
      <4>1. q \in 0 .. x.ceil - 1
        BY <2>4, <1>3
      <4>2. \A e \in Store(x) : GetSlotPos(x, e.key) # q
        BY <2>4, <3>2, <1>5, <1>8
      <4>3. x.slots[q] = Vacant(x, q)
        BY <4>1, <4>2, <1>2, StoreAt
      <4> QED BY <4>1, <4>3, <3>2, <1>3, <1>9 DEF Vacant
    <3> QED BY <3>1, <3>2
  <2>5. /\ y.default \in policy.generated /\ y.second \in policy.generated
        /\ y.home = GetSlotPos(y, y.default) /\ GetSlotPos(y, y.second) # y.home
    BY <1>2, <1>3, <1>8 DEF Filling
  <2>6. y.slots = [q \in 0 .. y.ceil - 1 |-> y.slots[q]]
    BY <1>3, <1>9
  <2>7. LaysOut(y, E)
    BY <2>1, <2>3, <2>4, <2>5, <2>6 DEF LaysOut
  <2> HIDE DEF E
  <2> QED BY <2>7, <1>7, LaidOut
<1>11. Elements(y) = Elements(x) \ {p}
  <2>1. \A e \in E : GetSlotPos(x, e.key) \in Elements(x) \ {p}
    BY <1>2, StoreAt
  <2>2. \A q \in Elements(x) \ {p} : x.slots[q] \in E /\ GetSlotPos(x, x.slots[q].key) = q
    BY <1>2, <1>5, SlotIs, ElementsIn DEF Store
  <2> QED BY <2>1, <2>2, <1>8, <1>10
<1>12. Elements(z) = Elements(y) /\ Store(z) = Store(y) /\ Filling(z) /\ Sizes(z)
       /\ \A k : BucketOf(z, k) = BucketOf(x, k)
  <2>1. y.param \in [DOMAIN y.param -> Parameter]
    BY <1>2, <1>3 DEF Sizes
  <2>2. Sizes(z)
    BY <2>1, <1>4, <1>7, SameSizes
  <2> QED BY <2>2, <1>4, <1>8, <1>10, SameTable
<1>13. Books(z)
  <2>1. z.filled = Elements(z)
    BY <1>2, <1>3, <1>4, <1>11, <1>12 DEF Books
  <2>2. z.item_num = Cardinality(Elements(z))
    <3>1. Cardinality(Elements(x) \ {p}) = Cardinality(Elements(x)) - 1
      BY <1>2, ElementsIn, FS_RemoveElement
    <3> QED BY <3>1, <1>2, <1>3, <1>4, <1>11, <1>12 DEF Books
  <2>3. b \in DOMAIN x.bucket
    BY <1>2, <1>5, PlaceIn, SettingFacts DEF Item
  <2>4. ASSUME NEW c \in DOMAIN x.bucket
        PROVE  z.bucket[c] = {q \in Elements(z) : BucketOf(z, z.slots[q].key) = c}
    <3>1. x.bucket[c] = {q \in Elements(x) : BucketOf(x, x.slots[q].key) = c}
      BY <1>2 DEF Books
    <3>2. z.bucket[c] = x.bucket[c] \ {p}
      BY <1>3, <1>4, <2>3, <3>1
    <3>3. \A q \in Elements(z) : q \in Elements(x) /\ q # p /\ z.slots[q] = x.slots[q]
      BY <1>2, <1>4, <1>9, <1>11, <1>12, ElementsIn
    <3> QED BY <3>1, <3>2, <3>3, <1>11, <1>12
  <2>5. z.bucket = [c \in DOMAIN z.bucket |-> z.bucket[c]] /\ DOMAIN z.bucket = DOMAIN x.bucket
    BY <1>2, <1>3, <1>4 DEF Books
  <2>6. z.bucket = [c \in DOMAIN z.bucket |-> {q \in Elements(z) : BucketOf(z, z.slots[q].key) = c}]
    BY <2>4, <2>5
  <2> QED BY <2>1, <2>2, <2>6 DEF Books
<1>14. Starts(z)
  <2>1. p \notin Elements(y) /\ p \in 0 .. y.ceil - 1
    BY <1>3, <1>5, <1>11
  <2>2. Elements(y) \ {p} = Elements(y)
    BY <2>1
  <2> QED BY <2>1, <2>2, <1>4, <1>7, <1>10, <1>12, NextIs DEF Starts
<1>15. Own(z)
  BY <1>2, <1>3, <1>4 DEF Own
<1> QED BY <1>1, <1>3, <1>4, <1>10, <1>12, <1>13, <1>14, <1>15 DEF Good, Records

\* A call that finds its slot empty puts the element there.
LEMMA PutIs ==
    ASSUME Setting, NEW x, Own(x), Sizes(x), Filling(x), Books(x),
           NEW k \in Callers, NEW v \in Value, GetSlotPos(x, k) \notin Elements(x)
    PROVE  LET z == PutAt(x, GetSlotPos(x, k), k, v)
           IN  Good(z) /\ z.this = x.this /\ Store(z) = Store(x) \cup {Element(k, v)}
<1> DEFINE p == GetSlotPos(x, k)
           b == BucketOf(x, k)
           z == PutAt(x, p, k, v)
<1>1. /\ IsTable(z) /\ z.this = x.this /\ z.ceil = x.ceil /\ z.seed = x.seed /\ z.param = x.param
      /\ z.bucket = [x.bucket EXCEPT ![b] = @ \cup {p}]
      /\ z.slots = [x.slots EXCEPT ![p] = Element(k, v)]
      /\ z.filled = x.filled \cup {p} /\ z.item_num = x.item_num + 1
      /\ z.default = x.default /\ z.second = x.second /\ z.home = x.home
      /\ z.load = x.load /\ z.expand_at = x.expand_at
      /\ z.begin = p /\ z.begin_of = x.this
      /\ z.slot_capacity = x.slot_capacity /\ z.slot_block = x.slot_block
      /\ z.bucket_capacity = x.bucket_capacity /\ z.bucket_block = x.bucket_block
  BY DEF IsTable, Fields, Own, PutAt
<1> HIDE DEF z
<1>2. k \in AnyKey /\ p \in 0 .. x.ceil - 1 /\ b \in DOMAIN x.bucket
  BY SettingFacts, PlaceIn
<1>3. Element(k, v) \in Item /\ Element(k, v).key = k
  BY DEF Element, Item
<1>4. DOMAIN z.bucket = DOMAIN x.bucket
  BY <1>1
<1>5. Sizes(z)
  <2>1. z.param \in [DOMAIN x.param -> Parameter]
    BY <1>1 DEF Sizes
  <2> QED BY <2>1, <1>1, <1>4, SameSizes
<1>6. \A j : GetSlotPos(z, j) = GetSlotPos(x, j) /\ BucketOf(z, j) = BucketOf(x, j)
  BY <1>1, <1>4 DEF GetSlotPos, BucketOf
<1>7. /\ z.slots = [q \in 0 .. x.ceil - 1 |-> z.slots[q]]
      /\ z.slots[p] = Element(k, v)
      /\ \A q \in 0 .. x.ceil - 1 : q # p => z.slots[q] = x.slots[q]
  BY <1>1, <1>2 DEF Filling
<1> DEFINE E == Store(x) \cup {Element(k, v)}
<1>8. Filling(z) /\ Store(z) = E /\ Elements(z) = {GetSlotPos(z, e.key) : e \in E}
  <2>1. E \subseteq Item
    BY <1>3, StoreIs
  <2>2. \A e \in Store(x) : GetSlotPos(x, e.key) \in 0 .. x.ceil - 1 /\ GetSlotPos(x, e.key) # p /\ x.slots[GetSlotPos(x, e.key)] = e
    BY StoreAt, ElementsIn
  <2>3. \A e \in E : z.slots[GetSlotPos(z, e.key)] = e
    BY <2>2, <1>3, <1>6, <1>7
  <2>4. ASSUME NEW q \in 0 .. z.ceil - 1, \A e \in E : GetSlotPos(z, e.key) # q
        PROVE  z.slots[q] = Vacant(z, q)
    <3>1. q # p /\ q \in 0 .. x.ceil - 1
      BY <2>4, <1>1, <1>3, <1>6
    <3>2. x.slots[q] = Vacant(x, q)
      BY <3>1, <2>4, <1>6, StoreAt
    <3> QED BY <3>1, <3>2, <1>1, <1>7 DEF Vacant
  <2>5. /\ z.default \in policy.generated /\ z.second \in policy.generated
        /\ z.home = GetSlotPos(z, z.default) /\ GetSlotPos(z, z.second) # z.home
    BY <1>1, <1>6 DEF Filling
  <2>6. z.slots = [q \in 0 .. z.ceil - 1 |-> z.slots[q]]
    BY <1>1, <1>7
  <2>7. LaysOut(z, E)
    BY <2>1, <2>3, <2>4, <2>5, <2>6 DEF LaysOut
  <2> HIDE DEF E
  <2> QED BY <2>7, <1>5, LaidOut
<1>9. Elements(z) = Elements(x) \cup {p}
  <2>1. \A e \in Store(x) : GetSlotPos(x, e.key) \in Elements(x)
    BY StoreAt
  <2>2. \A q \in Elements(x) : x.slots[q] \in Store(x) /\ GetSlotPos(x, x.slots[q].key) = q
    BY SlotIs, ElementsIn DEF Store
  <2> QED BY <2>1, <2>2, <1>3, <1>6, <1>8
<1>10. Books(z)
  <2>1. z.filled = Elements(z)
    BY <1>1, <1>9 DEF Books
  <2>2. z.item_num = Cardinality(Elements(z))
    <3>1. Cardinality(Elements(x) \cup {p}) = Cardinality(Elements(x)) + 1
      BY ElementsIn, FS_AddElement
    <3> QED BY <3>1, <1>1, <1>9 DEF Books
  <2>3. ASSUME NEW c \in DOMAIN x.bucket
        PROVE  z.bucket[c] = {q \in Elements(z) : BucketOf(z, z.slots[q].key) = c}
    <3>1. x.bucket[c] = {q \in Elements(x) : BucketOf(x, x.slots[q].key) = c}
      BY DEF Books
    <3>2. z.bucket[c] = IF c = b THEN x.bucket[c] \cup {p} ELSE x.bucket[c]
      BY <1>1, <1>2
    <3>3. \A q \in Elements(x) : q # p /\ z.slots[q] = x.slots[q]
      BY <1>7, ElementsIn
    <3>4. BucketOf(z, z.slots[p].key) = b
      BY <1>3, <1>6, <1>7
    <3> QED BY <3>1, <3>2, <3>3, <3>4, <1>6, <1>9
  <2>4. z.bucket = [c \in DOMAIN z.bucket |-> z.bucket[c]]
    BY <1>1 DEF Books
  <2>5. z.bucket = [c \in DOMAIN z.bucket |-> {q \in Elements(z) : BucketOf(z, z.slots[q].key) = c}]
    BY <2>3, <2>4, <1>4
  <2> QED BY <2>1, <2>2, <2>5 DEF Books
<1>11. Starts(z)
  BY <1>1, <1>9 DEF Starts
<1>12. Own(z)
  BY <1>1 DEF Own
<1> QED BY <1>1, <1>5, <1>8, <1>10, <1>11, <1>12 DEF Good, Records, z

\* clear() empties every slot and every record of it.
LEMMA ClearIs ==
    ASSUME Setting, NEW x, Good(x)
    PROVE  Good(Cleared(x)) /\ Cleared(x).this = x.this /\ Store(Cleared(x)) = {}
<1> DEFINE home == GetSlotPos(x, x.default)
           z == [x EXCEPT !.item_num = 0, !.begin = NoSlot, !.filled = {}, !.home = home,
                       !.bucket = [b \in DOMAIN x.bucket |-> {}],
                       !.slots = [p \in DOMAIN x.slots |->
                                    OnlyKey(IF p = home THEN x.second ELSE x.default)]]
<1>1. Own(x) /\ Sizes(x) /\ Filling(x)
  BY DEF Good
<1>2. Cleared(x) = z
  <2>1. x.default # NoKey
    BY <1>1, SettingFacts DEF Filling
  <2> QED BY <2>1 DEF Cleared
<1>3. /\ IsTable(z) /\ z.this = x.this /\ z.ceil = x.ceil /\ z.seed = x.seed /\ z.param = x.param
      /\ z.bucket = [b \in DOMAIN x.bucket |-> {}]
      /\ z.slots = [p \in DOMAIN x.slots |-> OnlyKey(IF p = home THEN x.second ELSE x.default)]
      /\ z.filled = {} /\ z.item_num = 0
      /\ z.default = x.default /\ z.second = x.second /\ z.home = home
      /\ z.load = x.load /\ z.expand_at = x.expand_at
      /\ z.begin = NoSlot /\ z.begin_of = x.begin_of
      /\ z.slot_capacity = x.slot_capacity /\ z.slot_block = x.slot_block
      /\ z.bucket_capacity = x.bucket_capacity /\ z.bucket_block = x.bucket_block
  BY <1>1 DEF IsTable, Fields, Own
<1> HIDE DEF z
<1>4. DOMAIN z.bucket = DOMAIN x.bucket
  BY <1>3
<1>5. Sizes(z)
  <2>1. z.param \in [DOMAIN x.param -> Parameter]
    BY <1>1, <1>3 DEF Sizes
  <2> QED BY <2>1, <1>1, <1>3, <1>4, SameSizes
<1>6. \A j : GetSlotPos(z, j) = GetSlotPos(x, j)
  BY <1>3, <1>4 DEF GetSlotPos, BucketOf
<1>7. LaysOut(z, {})
  <2>1. DOMAIN x.slots = 0 .. z.ceil - 1
    BY <1>1, <1>3 DEF Filling
  <2>2. \A p \in 0 .. z.ceil - 1 : z.slots[p] = Vacant(z, p)
    BY <2>1, <1>3 DEF Vacant
  <2>3. z.slots = [p \in 0 .. z.ceil - 1 |-> z.slots[p]]
    BY <2>1, <1>3
  <2>4. /\ z.default \in policy.generated /\ z.second \in policy.generated
        /\ z.home = GetSlotPos(z, z.default) /\ GetSlotPos(z, z.second) # z.home
    BY <1>1, <1>3, <1>6 DEF Filling
  <2> QED BY <2>2, <2>3, <2>4 DEF LaysOut
<1>8. Filling(z) /\ Store(z) = {} /\ Elements(z) = {}
  BY <1>5, <1>7, LaidOut
<1>9. Records(z)
  BY <1>3, <1>8, FS_EmptySet DEF Records, Books, Starts
<1>10. Own(z)
  BY <1>1, <1>3 DEF Own
<1> QED BY <1>2, <1>3, <1>5, <1>8, <1>9, <1>10 DEF Good

\* An assignment through operator[].
LEMMA SetValueIs ==
    ASSUME Setting, NEW x, Good(x), NEW k \in Callers, Contains(x, k), NEW v \in Value
    PROVE  LET z == [x EXCEPT !.slots[GetSlotPos(x, k)].value = v]
           IN  Good(z) /\ z.this = x.this /\ Store(z) = {e \in Store(x) : e.key # k} \cup {Element(k, v)}
<1> DEFINE p == GetSlotPos(x, k)
           z == [x EXCEPT !.slots[p].value = v]
<1>1. Own(x) /\ Sizes(x) /\ Filling(x) /\ Books(x) /\ Starts(x)
  BY DEF Good, Records
<1>2. /\ IsTable(z) /\ z.this = x.this /\ z.ceil = x.ceil /\ z.seed = x.seed /\ z.param = x.param
      /\ z.bucket = x.bucket
      /\ z.slots = [x.slots EXCEPT ![p] = [x.slots[p] EXCEPT !.value = v]]
      /\ z.filled = x.filled /\ z.item_num = x.item_num
      /\ z.default = x.default /\ z.second = x.second /\ z.home = x.home
      /\ z.load = x.load /\ z.expand_at = x.expand_at
      /\ z.begin = x.begin /\ z.begin_of = x.begin_of
      /\ z.slot_capacity = x.slot_capacity /\ z.slot_block = x.slot_block
      /\ z.bucket_capacity = x.bucket_capacity /\ z.bucket_block = x.bucket_block
  BY <1>1 DEF IsTable, Fields, Own
<1> HIDE DEF z
<1>3. k \in AnyKey /\ p \in Elements(x) /\ x.slots[p].key = k /\ p \in 0 .. x.ceil - 1 /\ x.slots[p] \in Item
  <2>1. k \in AnyKey
    BY SettingFacts
  <2>2. p \in Elements(x) /\ x.slots[p].key = k
    BY <2>1, <1>1, FindIs
  <2> QED BY <2>1, <2>2, <1>1, SlotIs, ElementsIn
<1>4. /\ z.slots = [q \in 0 .. x.ceil - 1 |-> z.slots[q]]
      /\ z.slots[p] = Element(k, v)
      /\ \A q \in 0 .. x.ceil - 1 : q # p => z.slots[q] = x.slots[q]
  <2>1. [x.slots[p] EXCEPT !.value = v] = Element(k, v)
    BY <1>3 DEF Element, Item
  <2> QED BY <2>1, <1>1, <1>2, <1>3 DEF Filling
<1> DEFINE new == Element(k, v)
<1>12. new.key = k /\ new.value = v /\ v # NoValue /\ new \in Item
  BY FphAssumption DEF Element, Item
<1> HIDE DEF new
<1>13. z.slots[p] = new
  BY <1>4 DEF new
<1>5. Sizes(z)
  <2>1. z.param \in [DOMAIN x.param -> Parameter]
    BY <1>1, <1>2 DEF Sizes
  <2> QED BY <2>1, <1>1, <1>2, SameSizes
<1>6. \A j : GetSlotPos(z, j) = GetSlotPos(x, j) /\ BucketOf(z, j) = BucketOf(x, j)
  BY <1>2 DEF GetSlotPos, BucketOf
<1> DEFINE E == {e \in Store(x) : e.key # k} \cup {new}
<1>7. LaysOut(z, E)
  <2>1. E \subseteq Item
    BY <1>1, <1>12, StoreIs
  <2>2. \A e \in Store(x) : /\ GetSlotPos(x, e.key) \in 0 .. x.ceil - 1
                            /\ e.key # k => GetSlotPos(x, e.key) # p /\ x.slots[GetSlotPos(x, e.key)] = e
    BY <1>1, <1>3, StoreAt, ElementsIn
  <2>3. \A e \in E : z.slots[GetSlotPos(z, e.key)] = e
    BY <2>2, <1>4, <1>6, <1>12, <1>13
  <2>4. ASSUME NEW q \in 0 .. z.ceil - 1, \A e \in E : GetSlotPos(z, e.key) # q
        PROVE  z.slots[q] = Vacant(z, q)
    <3>1. q # p /\ q \in 0 .. x.ceil - 1
      BY <2>4, <1>2, <1>6, <1>12
    <3>2. \A e \in Store(x) : GetSlotPos(x, e.key) # q
      BY <2>4, <3>1, <1>6
    <3>3. x.slots[q] = Vacant(x, q)
      BY <3>1, <3>2, <1>1, StoreAt
    <3> QED BY <3>1, <3>3, <1>2, <1>4 DEF Vacant
  <2>5. /\ z.default \in policy.generated /\ z.second \in policy.generated
        /\ z.home = GetSlotPos(z, z.default) /\ GetSlotPos(z, z.second) # z.home
    BY <1>1, <1>2, <1>6 DEF Filling
  <2>6. z.slots = [q \in 0 .. z.ceil - 1 |-> z.slots[q]]
    BY <1>2, <1>4
  <2> QED BY <2>1, <2>3, <2>4, <2>5, <2>6 DEF LaysOut
<1>8. Filling(z) /\ Store(z) = E
  <2> HIDE DEF E
  <2> QED BY <1>5, <1>7, LaidOut
<1>9. Elements(z) = Elements(x)
  <2>1. Elements(x) \subseteq 0 .. x.ceil - 1 /\ DOMAIN z.slots = DOMAIN x.slots
    BY <1>1, <1>2, ElementsIn
  <2>2. z.slots[p].value # NoValue /\ \A q \in DOMAIN x.slots : q # p => z.slots[q] = x.slots[q]
    <3>1. DOMAIN x.slots = 0 .. x.ceil - 1
      BY <1>1 DEF Filling
    <3> QED BY <3>1, <1>4, <1>12, <1>13
  <2> QED BY <2>1, <2>2, <1>3 DEF Elements
<1>10. Records(z)
  <2>1. \A q \in Elements(x) : z.slots[q].key = x.slots[q].key
    BY <1>1, <1>3, <1>4, <1>12, <1>13, ElementsIn
  <2>2. ASSUME NEW c \in DOMAIN x.bucket
        PROVE  z.bucket[c] = {q \in Elements(z) : BucketOf(z, z.slots[q].key) = c}
    <3>1. x.bucket[c] = {q \in Elements(x) : BucketOf(x, x.slots[q].key) = c}
      BY <1>1 DEF Books
    <3> QED BY <3>1, <2>1, <1>2, <1>6, <1>9
  <2>4. z.bucket = [c \in DOMAIN z.bucket |-> z.bucket[c]] /\ DOMAIN z.bucket = DOMAIN x.bucket
    BY <1>1, <1>2 DEF Books
  <2>3. z.bucket = [c \in DOMAIN z.bucket |-> {q \in Elements(z) : BucketOf(z, z.slots[q].key) = c}]
    BY <2>2, <2>4
  <2> QED BY <2>3, <1>1, <1>2, <1>9 DEF Records, Books, Starts
<1>11. Own(z)
  BY <1>1, <1>2 DEF Own
<1> QED BY <1>2, <1>5, <1>8, <1>10, <1>11 DEF Good, z, new

-----------------------------------------------------------------------------
(* Relocations.                                                              *)

\* The keys of a bucket.
Moving(x, b) == {x.slots[p].key : p \in x.bucket[b]}

\* The slots a bucket knows hold exactly the elements whose keys belong to it.
LEMMA MovingIs ==
    ASSUME Setting, NEW x, Sizes(x), Filling(x), Books(x), NEW b \in DOMAIN x.bucket
    PROVE  /\ x.bucket[b] = {p \in Elements(x) : BucketOf(x, x.slots[p].key) = b}
           /\ Moving(x, b) \subseteq Callers
           /\ \A e \in Store(x) : e.key \in Moving(x, b) <=> BucketOf(x, e.key) = b
           /\ \A j \in Moving(x, b) : BucketOf(x, j) = b /\ \E e \in Store(x) : e.key = j
<1>1. x.bucket[b] = {p \in Elements(x) : BucketOf(x, x.slots[p].key) = b}
  BY DEF Books
<1>2. \A p \in Elements(x) : x.slots[p] \in Item /\ x.slots[p].key \in Callers
  <2>1. \A p \in Elements(x) : x.slots[p] \in Item
    BY SlotIs, ElementsIn
  <2> QED BY <2>1 DEF Item
<1>3. \A e \in Store(x) : \E p \in Elements(x) : e = x.slots[p]
  BY DEF Store
<1>4. \A j \in Moving(x, b) : \E p \in Elements(x) : BucketOf(x, x.slots[p].key) = b /\ j = x.slots[p].key
  BY <1>1 DEF Moving
<1>5. \A p \in Elements(x) : x.slots[p] \in Store(x)
  BY DEF Store
<1>6. \A e \in Store(x) : BucketOf(x, e.key) = b => e.key \in Moving(x, b)
  BY <1>1, <1>3 DEF Moving
<1> QED BY <1>1, <1>2, <1>4, <1>5, <1>6

\* The parameter that was found sends the bucket's keys and the new one to slots
\* of their own, and into no other bucket's.
LEMMA NewParamIs ==
    ASSUME Setting, NEW x, Sizes(x), NEW k, NEW param \in NewParams(x, k)
    PROVE  LET b == BucketOf(x, k)
               K == Moving(x, b) \cup {k}
           IN  /\ param \in Parameter
               /\ \A i, j \in K : SlotUnder(x.seed, x.ceil, param, i) = SlotUnder(x.seed, x.ceil, param, j) => i = j
               /\ \A j \in K : SlotUnder(x.seed, x.ceil, param, j) \notin x.filled \ x.bucket[b]
<1> DEFINE b == BucketOf(x, k)
           K == Moving(x, b) \cup {k}
           others == x.filled \ x.bucket[b]
<1>1. \E bit \in Bit : param \in Fitting(x.seed, x.ceil, K, others, bit)
  <2>1. 0 \in Bit /\ 1 \in Bit
    BY DEF Bit
  <2> QED BY <2>1 DEF NewParams, Moving
<1>2. PICK bit \in Bit : param \in Fitting(x.seed, x.ceil, K, others, bit)
  BY <1>1
<1>3. /\ param \in [offset : 0 .. x.ceil - 1, bit : {bit}]
      /\ Apart(x.seed, x.ceil, param, K) /\ Image(x.seed, x.ceil, param, K) \cap others = {}
  BY <1>2 DEF Fitting
<1>4. x.ceil \in Nat
  BY CeilsType DEF Sizes
<1>5. param \in Parameter
  BY <1>3, <1>4 DEF Parameter
<1> QED BY <1>3, <1>5 DEF Apart, Image

\* Where the elements are once the bucket has landed; elsewhere the bucket's old
\* slots hold default keys that know where the default key is looked up now.
LEMMA LandedIs ==
    ASSUME Setting, NEW x, Sizes(x), Filling(x), Books(x), NEW b \in DOMAIN x.bucket, NEW y,
           \A i, j \in Moving(x, b) : GetSlotPos(y, i) = GetSlotPos(y, j) => i = j,
           \A j \in Moving(x, b) : /\ GetSlotPos(y, j) \notin Elements(x) \ x.bucket[b]
                                   /\ GetSlotPos(y, j) \in 0 .. x.ceil - 1
    PROVE  LET landed == Landed(x, y, b)
               took   == {GetSlotPos(y, j) : j \in Moving(x, b)}
           IN  /\ DOMAIN landed = 0 .. x.ceil - 1 /\ landed = [p \in 0 .. x.ceil - 1 |-> landed[p]]
               /\ \A e \in Store(x) : e.key \in Moving(x, b) => landed[GetSlotPos(y, e.key)] = e
               /\ \A p \in Elements(x) \ x.bucket[b] : landed[p] = x.slots[p]
               /\ \A p \in x.bucket[b] \ took :
                    landed[p] = OnlyKey(IF p = GetSlotPos(y, x.default) THEN x.second ELSE x.default)
               /\ \A p \in (0 .. x.ceil - 1) \ (Elements(x) \cup took) : landed[p] = Vacant(x, p)
<1> DEFINE landed == Landed(x, y, b)
           took   == {GetSlotPos(y, j) : j \in Moving(x, b)}
           lands(q, p) == q \in x.bucket[b] /\ GetSlotPos(y, x.slots[q].key) = p
           Lift(p) == IF p \in x.bucket[b]
                      THEN OnlyKey(IF p = GetSlotPos(y, x.default) THEN x.second ELSE x.default)
                      ELSE x.slots[p]
           Here(p) == CHOOSE q \in DOMAIN x.slots : lands(q, p)
<1>1. x.bucket[b] \subseteq DOMAIN x.slots /\ DOMAIN x.slots = 0 .. x.ceil - 1 /\ x.bucket[b] \subseteq Elements(x)
  BY MovingIs, ElementsIn DEF Filling
<1>2. landed = [p \in DOMAIN x.slots |-> IF \E q \in DOMAIN x.slots : lands(q, p) THEN x.slots[Here(p)] ELSE Lift(p)]
  <2> DEFINE lifted == [p \in DOMAIN x.slots |-> Lift(p)]
  <2>1. landed = [p \in DOMAIN x.slots |-> IF \E q \in DOMAIN x.slots : lands(q, p) THEN x.slots[Here(p)] ELSE lifted[p]]
    BY DEF Landed
  <2> HIDE DEF lands, Here, Lift
  <2> QED BY <2>1
<1>3. \A p : (\E q \in DOMAIN x.slots : lands(q, p)) <=> p \in took
  BY <1>1 DEF Moving
<1>4. \A q, r \in x.bucket[b] : x.slots[q].key = x.slots[r].key => q = r
  <2>1. \A q \in Elements(x) : GetSlotPos(x, x.slots[q].key) = q
    BY SlotIs, ElementsIn
  <2> QED BY <2>1, <1>1
<1>5. ASSUME NEW q \in x.bucket[b] PROVE landed[GetSlotPos(y, x.slots[q].key)] = x.slots[q]
  <2> DEFINE p == GetSlotPos(y, x.slots[q].key)
  <2>1. x.slots[q].key \in Moving(x, b)
    BY DEF Moving
  <2>2. p \in took /\ p \in DOMAIN x.slots
    BY <2>1, <1>1
  <2>3. lands(Here(p), p)
    <3> HIDE DEF lands
    <3> QED BY <2>2, <1>3
  <2>4. x.slots[Here(p)].key \in Moving(x, b)
    BY <2>3 DEF Moving
  <2>5. x.slots[Here(p)].key = x.slots[q].key
    BY <2>1, <2>3, <2>4
  <2>6. Here(p) = q
    BY <2>3, <2>5, <1>4
  <2> HIDE DEF Here, lands, Lift
  <2> QED BY <2>2, <2>6, <1>2, <1>3
<1>6. \A e \in Store(x) : e.key \in Moving(x, b) => landed[GetSlotPos(y, e.key)] = e
  <2> SUFFICES ASSUME NEW e \in Store(x), e.key \in Moving(x, b) PROVE landed[GetSlotPos(y, e.key)] = e
    OBVIOUS
  <2>1. PICK q \in Elements(x) : e = x.slots[q]
    BY DEF Store
  <2>2. q \in x.bucket[b]
    BY <2>1, MovingIs
  <2> QED BY <2>1, <2>2, <1>5
<1>7. \A p \in DOMAIN x.slots : p \notin took => landed[p] = Lift(p)
  <2> HIDE DEF Here, lands, Lift, took, landed
  <2> QED BY <1>2, <1>3
<1>8. DOMAIN landed = 0 .. x.ceil - 1 /\ landed = [p \in 0 .. x.ceil - 1 |-> landed[p]]
  <2> HIDE DEF Here, lands, Lift
  <2> QED BY <1>1, <1>2
<1>9. \A p \in Elements(x) \ x.bucket[b] : landed[p] = x.slots[p]
  <2>1. \A p \in Elements(x) \ x.bucket[b] : p \in DOMAIN x.slots /\ p \notin took
    BY <1>1, ElementsIn
  <2> QED BY <2>1, <1>7
<1>10. \A p \in x.bucket[b] \ took :
         landed[p] = OnlyKey(IF p = GetSlotPos(y, x.default) THEN x.second ELSE x.default)
  BY <1>1, <1>7
<1>11. \A p \in (0 .. x.ceil - 1) \ (Elements(x) \cup took) : landed[p] = Vacant(x, p)
  <2>1. \A p \in (0 .. x.ceil - 1) \ Elements(x) : x.slots[p] = Vacant(x, p) /\ p \notin x.bucket[b]
    BY <1>1, SlotIs
  <2> QED BY <2>1, <1>1, <1>7
<1> HIDE DEF landed, took
<1> QED BY <1>6, <1>8, <1>9, <1>10, <1>11 DEF landed, took

\* A relocation: the bucket's elements and the new one are where the new
\* parameter sends them, and the default keys have moved along.
LEMMA RelocateIs ==
    ASSUME Setting, NEW x, Good(x), NEW k \in Callers, ~ Contains(x, k), NEW v \in Value,
           NEW param \in NewParams(x, k), NEW z \in Relocated(x, k, v, param)
    PROVE  Good(z) /\ z.this = x.this /\ Store(z) = Store(x) \cup {Element(k, v)}
<1> DEFINE b      == BucketOf(x, k)
           y      == [x EXCEPT !.param[b] = param]
           home   == GetSlotPos(y, x.default)
           moving == {x.slots[p].key : p \in x.bucket[b]}
           landed == Landed(x, y, b)
           homeEmpty == /\ IsSlotEmpty(x, x.home) \/ x.home \in x.bucket[b] \cap {home}
                        /\ x.home \notin {GetSlotPos(y, j) : j \in moving}
           clash  == home = GetSlotPos(y, x.second)
           redrawn(f) ==
               [p \in DOMAIN landed |->
                  IF /\ clash
                     /\ \/ p = x.home /\ homeEmpty
                        \/ /\ p = home /\ p \in x.bucket[b]
                           /\ x.second \notin moving /\ landed[p].key = x.second
                  THEN OnlyKey(f) ELSE landed[p]]
           marked(f) ==
               [p \in DOMAIN landed |->
                  IF p = home /\ redrawn(f)[p].key = x.default THEN OnlyKey(f)
                  ELSE IF /\ p = x.home /\ p # home
                          /\ redrawn(f)[p].key = f
                          /\ ~ (x.second \in moving /\ p = GetSlotPos(y, f))
                  THEN OnlyKey(x.default)
                  ELSE redrawn(f)[p]]
           done(f) == IF BucketOf(x, x.default) = b /\ x.default \notin moving
                      THEN marked(f) ELSE redrawn(f)
           took   == {GetSlotPos(y, j) : j \in moving}
           w(f)   == [y EXCEPT !.slots = done(f), !.second = f, !.home = home,
                               !.bucket[b] = took,
                               !.filled = (x.filled \ x.bucket[b]) \cup took]
<1>1. PICK f \in SecondKeys(x, y, landed) : z = PutAt(w(f), GetSlotPos(y, k), k, v)
  BY DEF Relocated
<1>2. Own(x) /\ Sizes(x) /\ Filling(x) /\ Books(x) /\ IsTable(x)
  BY DEF Good, Records, Own
<1>3. /\ IsTable(y) /\ y.this = x.this /\ y.ceil = x.ceil /\ y.seed = x.seed
      /\ y.param = [x.param EXCEPT ![b] = param]
      /\ y.bucket = x.bucket /\ y.slots = x.slots
      /\ y.filled = x.filled /\ y.item_num = x.item_num
      /\ y.default = x.default /\ y.second = x.second /\ y.home = x.home
      /\ y.load = x.load /\ y.expand_at = x.expand_at
      /\ y.begin = x.begin /\ y.begin_of = x.begin_of
      /\ y.slot_capacity = x.slot_capacity /\ y.slot_block = x.slot_block
      /\ y.bucket_capacity = x.bucket_capacity /\ y.bucket_block = x.bucket_block
  BY <1>2 DEF IsTable, Fields
<1>4. moving = Moving(x, b)
  BY DEF Moving
<1> HIDE DEF y, moving
<1> DEFINE D == done(f)
           W == w(f)
<1>5. /\ IsTable(W) /\ W.this = x.this /\ W.ceil = x.ceil /\ W.seed = x.seed
      /\ W.param = y.param
      /\ W.bucket = [x.bucket EXCEPT ![b] = took] /\ W.slots = D
      /\ W.filled = (x.filled \ x.bucket[b]) \cup took /\ W.item_num = x.item_num
      /\ W.default = x.default /\ W.second = f /\ W.home = home
      /\ W.load = x.load /\ W.expand_at = x.expand_at
      /\ W.begin_of = x.begin_of
      /\ W.slot_capacity = x.slot_capacity /\ W.slot_block = x.slot_block
      /\ W.bucket_capacity = x.bucket_capacity /\ W.bucket_block = x.bucket_block
  <2> HIDE DEF done, took, home
  <2> QED BY <1>3 DEF IsTable, Fields
<1>6. z = PutAt(W, GetSlotPos(y, k), k, v)
  BY <1>1
<1> HIDE DEF w, W
\* Where keys are looked up now.
<1>7. k \in AnyKey /\ b \in DOMAIN x.bucket /\ x.ceil \in Nat
  BY <1>2, SettingFacts, PlaceIn, ElementsIn
<1>8. Sizes(y) /\ \A j : BucketOf(y, j) = BucketOf(x, j)
  <2>1. param \in Parameter
    BY <1>2, NewParamIs
  <2>2. y.param \in [DOMAIN x.param -> Parameter]
    BY <2>1, <1>2, <1>3 DEF Sizes
  <2> QED BY <2>2, <1>2, <1>3, SameSizes DEF BucketOf
<1>9. \A j \in AnyKey : /\ GetSlotPos(y, j) \in 0 .. x.ceil - 1
                        /\ BucketOf(x, j) # b => GetSlotPos(y, j) = GetSlotPos(x, j)
                        /\ BucketOf(x, j) = b => GetSlotPos(y, j) = SlotUnder(x.seed, x.ceil, param, j)
  <2> SUFFICES ASSUME NEW j \in AnyKey
               PROVE  /\ GetSlotPos(y, j) \in 0 .. x.ceil - 1
                      /\ BucketOf(x, j) # b => GetSlotPos(y, j) = GetSlotPos(x, j)
                      /\ BucketOf(x, j) = b => GetSlotPos(y, j) = SlotUnder(x.seed, x.ceil, param, j)
    OBVIOUS
  <2>1. GetSlotPos(y, j) \in 0 .. x.ceil - 1
    BY <1>3, <1>8, PlaceIn
  <2>2. GetSlotPos(y, j) = SlotUnder(x.seed, x.ceil, y.param[BucketOf(x, j)], j)
    BY <1>3, <1>8 DEF GetSlotPos
  <2>3. b \in DOMAIN x.param
    <3>1. \A i \in DOMAIN x.bucket : i \in DOMAIN x.param
      <4>1. PICK num \in Ceils : num <= x.bucket_capacity /\ DOMAIN x.bucket = 0 .. num - 1
        BY <1>2 DEF Sizes
      <4>2. num \in Nat /\ x.bucket_capacity \in Nat /\ DOMAIN x.param = 0 .. x.bucket_capacity - 1
        BY <1>2, CeilsType DEF Sizes
      <4> QED BY <4>1, <4>2
    <3> QED BY <3>1, <1>7
  <2>4. y.param[b] = param /\ \A c : c # b /\ c \in DOMAIN x.param => y.param[c] = x.param[c]
    BY <2>3, <1>3
  <2>5. BucketOf(x, j) # b => y.param[BucketOf(x, j)] = x.param[BucketOf(x, j)]
    BY <1>3
  <2> QED BY <2>1, <2>2, <2>4, <2>5 DEF GetSlotPos
<1>10. /\ moving \subseteq Callers /\ moving \subseteq AnyKey /\ \A j \in moving : BucketOf(x, j) = b
       /\ \A e \in Store(x) : e.key \in moving <=> BucketOf(x, e.key) = b
       /\ x.bucket[b] = {p \in Elements(x) : BucketOf(x, x.slots[p].key) = b}
       /\ k \notin moving
  <2>1. k \notin Moving(x, b)
    BY <1>2, <1>7, MovingIs, StoreIs
  <2> QED BY <2>1, <1>2, <1>4, <1>7, MovingIs, SettingFacts
<1>11. /\ \A i, j \in moving \cup {k} : GetSlotPos(y, i) = GetSlotPos(y, j) => i = j
       /\ \A j \in moving \cup {k} : GetSlotPos(y, j) \notin Elements(x) \ x.bucket[b]
  <2>1. \A j \in moving \cup {k} : GetSlotPos(y, j) = SlotUnder(x.seed, x.ceil, param, j)
    BY <1>7, <1>9, <1>10
  <2>2. x.filled = Elements(x)
    BY <1>2 DEF Books
  <2>3. /\ \A i, j \in moving \cup {k} : SlotUnder(x.seed, x.ceil, param, i) = SlotUnder(x.seed, x.ceil, param, j) => i = j
        /\ \A j \in moving \cup {k} : SlotUnder(x.seed, x.ceil, param, j) \notin x.filled \ x.bucket[b]
    BY <1>2, <1>4, NewParamIs
  <2> QED BY <2>1, <2>2, <2>3
<1>12. /\ DOMAIN landed = 0 .. x.ceil - 1 /\ landed = [p \in 0 .. x.ceil - 1 |-> landed[p]]
       /\ \A e \in Store(x) : e.key \in moving => landed[GetSlotPos(y, e.key)] = e
       /\ \A p \in Elements(x) \ x.bucket[b] : landed[p] = x.slots[p]
       /\ \A p \in x.bucket[b] \ took : landed[p] = OnlyKey(IF p = home THEN x.second ELSE x.default)
       /\ \A p \in (0 .. x.ceil - 1) \ (Elements(x) \cup took) : landed[p] = Vacant(x, p)
  <2>1. /\ \A i, j \in Moving(x, b) : GetSlotPos(y, i) = GetSlotPos(y, j) => i = j
        /\ \A j \in Moving(x, b) : /\ GetSlotPos(y, j) \notin Elements(x) \ x.bucket[b]
                                   /\ GetSlotPos(y, j) \in 0 .. x.ceil - 1
    BY <1>4, <1>9, <1>10, <1>11
  <2> QED BY <2>1, <1>2, <1>4, <1>7, LandedIs
<1>13. /\ x.default \in policy.generated /\ x.second \in policy.generated
       /\ x.default \in AnyKey /\ x.second \in AnyKey
       /\ x.default \notin moving /\ x.second \notin moving
       /\ x.home = GetSlotPos(x, x.default)
  BY <1>2, <1>10, SettingFacts DEF Filling
<1>14. /\ f \in policy.generated /\ f \in AnyKey /\ GetSlotPos(y, f) # home /\ f # x.default
       /\ ~ clash => f = x.second
  BY <1>13, SettingFacts DEF SecondKeys
<1>15. BucketOf(x, x.default) # b => home = x.home
  BY <1>9, <1>13
<1> HIDE DEF landed
\* One slot after the other.
<1> DEFINE R(p) == IF clash /\ ((p = x.home /\ homeEmpty) \/ (p = home /\ p \in x.bucket[b] /\ landed[p].key = x.second))
                   THEN OnlyKey(f) ELSE landed[p]
           M(p) == IF p = home /\ R(p).key = x.default THEN OnlyKey(f)
                   ELSE IF p = x.home /\ p # home /\ R(p).key = f THEN OnlyKey(x.default) ELSE R(p)
<1>16. /\ D = [p \in 0 .. x.ceil - 1 |-> D[p]]
       /\ \A p \in 0 .. x.ceil - 1 : D[p] = IF BucketOf(x, x.default) = b THEN M(p) ELSE R(p)
  <2>1. \A p \in 0 .. x.ceil - 1 : redrawn(f)[p] = R(p)
    <3> HIDE DEF homeEmpty, clash, home
    <3> QED BY <1>12, <1>13
  <2>2. \A p \in 0 .. x.ceil - 1 : marked(f)[p] = M(p)
    <3> HIDE DEF redrawn, R, home
    <3> QED BY <2>1, <1>12, <1>13
  <2>3. D = IF BucketOf(x, x.default) = b THEN marked(f) ELSE redrawn(f)
    BY <1>13
  <2>4. redrawn(f) = [p \in 0 .. x.ceil - 1 |-> redrawn(f)[p]]
    <3> HIDE DEF homeEmpty, clash, home
    <3> QED BY <1>12
  <2>5. marked(f) = [p \in 0 .. x.ceil - 1 |-> marked(f)[p]]
    <3> HIDE DEF redrawn, home
    <3> QED BY <1>12
  <2> HIDE DEF redrawn, marked, D, R, M
  <2> QED BY <2>1, <2>2, <2>3, <2>4, <2>5
<1> HIDE DEF redrawn, marked, done, D
<1>17. x.home \in Elements(x) => ~ IsSlotEmpty(x, x.home)
  BY <1>2, SlotIs, ElementsIn
<1>18. x.home \in 0 .. x.ceil - 1 /\ (x.home \notin Elements(x) => IsSlotEmpty(x, x.home))
  BY <1>2, <1>13, PlaceIn, SlotIs
<1>19. took \subseteq 0 .. x.ceil - 1 /\ took \cap (Elements(x) \ x.bucket[b]) = {}
  BY <1>9, <1>10, <1>11
<1>20. ASSUME NEW e \in Store(x), e.key \in moving PROVE D[GetSlotPos(y, e.key)] = e
  <2> DEFINE p == GetSlotPos(y, e.key)
  <2>1. p \in took /\ p \in 0 .. x.ceil - 1 /\ landed[p] = e
    BY <1>12, <1>19, <1>20
  <2>2. e.key # x.default /\ e.key # x.second /\ e.key # f
    BY <1>10, <1>13, <1>14, <1>20, SettingFacts
  <2>3. ~ (p = x.home /\ homeEmpty)
    BY <2>1
  <2> HIDE DEF p, home, homeEmpty, clash, took
  <2>4. R(p) = e
    BY <2>1, <2>2, <2>3
  <2> HIDE DEF R
  <2>5. M(p) = e
    BY <2>2, <2>4
  <2> HIDE DEF M
  <2>6. D[p] = e
    BY <2>1, <2>4, <2>5, <1>16
  <2> QED BY <2>6 DEF p
<1>21. ASSUME NEW p \in Elements(x) \ x.bucket[b] PROVE D[p] = x.slots[p]
  <2>1. p \in 0 .. x.ceil - 1 /\ x.slots[p] \in Store(x)
    BY <1>2, ElementsIn DEF Store
  <2>2. x.slots[p].key \in Callers /\ landed[p] = x.slots[p]
    BY <2>1, <1>2, <1>12, StoreIs DEF Item
  <2>3. landed[p].key # x.default /\ landed[p].key # x.second /\ landed[p].key # f
    BY <2>2, <1>13, <1>14, SettingFacts
  <2>4. ~ (p = x.home /\ homeEmpty)
    BY <1>17
  <2> HIDE DEF home, homeEmpty, clash, took
  <2>5. R(p) = landed[p]
    BY <2>3, <2>4
  <2> HIDE DEF R
  <2>6. M(p) = landed[p]
    BY <2>3, <2>5
  <2> HIDE DEF M
  <2> QED BY <2>1, <2>2, <2>5, <2>6, <1>16
<1>22. ASSUME NEW p \in 0 .. x.ceil - 1, p \notin took, p \notin Elements(x) \ x.bucket[b]
       PROVE  D[p] = OnlyKey(IF p = home THEN f ELSE x.default)
  <2>1. OnlyKey(x.default).key = x.default /\ OnlyKey(x.second).key = x.second /\ OnlyKey(f).key = f
    BY DEF OnlyKey
  <2>2. x.second # x.default
    BY <1>2 DEF Filling
  <2>3. homeEmpty <=> /\ x.home \notin Elements(x) \/ x.home \in x.bucket[b] \cap {home}
                      /\ x.home \notin took
    BY <1>17, <1>18
  <2>4. x.bucket[b] \subseteq Elements(x)
    BY <1>10
  <2>5. CASE p \in x.bucket[b]
    <3>1. landed[p] = OnlyKey(IF p = home THEN x.second ELSE x.default)
      BY <2>5, <1>12, <1>22
    <3> HIDE DEF home, homeEmpty, clash, took
    <3>2. R(p) = OnlyKey(IF p = home THEN f ELSE x.default)
      BY <3>1, <2>1, <2>2, <2>3, <2>4, <2>5, <1>14, <1>22
    <3> HIDE DEF R
    <3>3. M(p) = OnlyKey(IF p = home THEN f ELSE x.default)
      BY <3>2, <2>1, <1>14
    <3> QED BY <3>2, <3>3, <1>16
  <2>6. CASE p \notin x.bucket[b]
    <3>1. landed[p] = OnlyKey(IF p = x.home THEN x.second ELSE x.default) /\ p \notin Elements(x)
      BY <2>6, <1>12, <1>22 DEF Vacant
    <3> HIDE DEF home, homeEmpty, clash, took
    <3>2. R(p) = OnlyKey(IF p = x.home THEN f ELSE x.default)
      BY <3>1, <2>3, <2>6, <1>14, <1>22
    <3> HIDE DEF R
    <3>3. M(p) = OnlyKey(IF p = home THEN f ELSE x.default)
      BY <3>2, <2>1, <1>14
    <3> HIDE DEF M
    <3> QED BY <3>2, <3>3, <1>15, <1>16
  <2> QED BY <2>5, <2>6
\* The table before the new element is put into it.
<1>23. DOMAIN W.bucket = DOMAIN x.bucket
  BY <1>5
<1>24. Sizes(W) /\ \A j : GetSlotPos(W, j) = GetSlotPos(y, j) /\ BucketOf(W, j) = BucketOf(x, j)
  <2>1. W.param \in [DOMAIN y.param -> Parameter]
    BY <1>5, <1>8 DEF Sizes
  <2>2. Sizes(W)
    <3> HIDE DEF took, home
    <3> QED BY <2>1, <1>3, <1>5, <1>8, <1>23, SameSizes
  <2>3. W.seed = y.seed /\ W.ceil = y.ceil /\ W.param = y.param /\ DOMAIN W.bucket = DOMAIN y.bucket
    BY <1>3, <1>5, <1>23
  <2>4. \A j : GetSlotPos(W, j) = GetSlotPos(y, j) /\ BucketOf(W, j) = BucketOf(y, j)
    BY <2>3 DEF GetSlotPos, BucketOf
  <2> QED BY <2>2, <2>4, <1>8
<1>25. \A e \in Store(x) : e.key \in AnyKey /\ e \in Item /\ (e.key \notin moving =>
         /\ GetSlotPos(y, e.key) \in Elements(x) \ x.bucket[b] /\ x.slots[GetSlotPos(y, e.key)] = e)
  <2> SUFFICES ASSUME NEW e \in Store(x)
               PROVE  e.key \in AnyKey /\ e \in Item /\ (e.key \notin moving =>
                        /\ GetSlotPos(y, e.key) \in Elements(x) \ x.bucket[b] /\ x.slots[GetSlotPos(y, e.key)] = e)
    OBVIOUS
  <2>1. e \in Item /\ e.key \in AnyKey
    BY <1>2, StoreIs, SettingFacts DEF Item
  <2>2. GetSlotPos(x, e.key) \in Elements(x) /\ x.slots[GetSlotPos(x, e.key)] = e
    BY <1>2, StoreAt
  <2>3. e.key \notin moving => BucketOf(x, e.key) # b
    BY <1>10
  <2> QED BY <2>1, <2>2, <2>3, <1>9, <1>10
<1>26. LaysOut(W, Store(x))
  <2>1. Store(x) \subseteq Item
    BY <1>25
  <2>2. W.slots = [p \in 0 .. W.ceil - 1 |-> W.slots[p]]
    BY <1>5, <1>16
  <2>3. \A e \in Store(x) : D[GetSlotPos(y, e.key)] = e
    BY <1>20, <1>21, <1>25
  <2>4. ASSUME NEW p \in 0 .. W.ceil - 1, \A e \in Store(x) : GetSlotPos(W, e.key) # p
        PROVE  W.slots[p] = Vacant(W, p)
    <3>1. p \in 0 .. x.ceil - 1 /\ \A e \in Store(x) : GetSlotPos(y, e.key) # p
      BY <2>4, <1>5, <1>24
    <3>2. p \notin took
      <4>1. \A j \in moving : \E e \in Store(x) : e.key = j
        BY <1>2, <1>4, <1>7, MovingIs
      <4> QED BY <4>1, <3>1
    <3>3. p \notin Elements(x) \ x.bucket[b]
      <4> SUFFICES ASSUME p \in Elements(x) \ x.bucket[b] PROVE FALSE
        OBVIOUS
      <4>1. x.slots[p] \in Store(x) /\ GetSlotPos(x, x.slots[p].key) = p
        BY <1>2, SlotIs, ElementsIn DEF Store
      <4>2. BucketOf(x, x.slots[p].key) # b
        BY <1>10
      <4> QED BY <4>1, <4>2, <3>1, <1>9, <1>25
    <3>4. D[p] = OnlyKey(IF p = home THEN f ELSE x.default)
      BY <3>1, <3>2, <3>3, <1>22
    <3> QED BY <3>4, <1>5 DEF Vacant
  <2>5. /\ W.default \in policy.generated /\ W.second \in policy.generated
        /\ W.home = GetSlotPos(W, W.default) /\ GetSlotPos(W, W.second) # W.home
    BY <1>5, <1>13, <1>14, <1>24
  <2> HIDE DEF home, took
  <2> QED BY <2>1, <2>2, <2>3, <2>4, <2>5, <1>5, <1>24 DEF LaysOut
<1>27. Filling(W) /\ Store(W) = Store(x) /\ Elements(W) = {GetSlotPos(W, e.key) : e \in Store(x)}
  BY <1>24, <1>26, LaidOut
<1>28. Elements(W) = (Elements(x) \ x.bucket[b]) \cup took
  <2>1. \A e \in Store(x) : GetSlotPos(y, e.key) \in (Elements(x) \ x.bucket[b]) \cup took
    BY <1>25
  <2>2. \A p \in took : \E e \in Store(x) : p = GetSlotPos(y, e.key)
    <3>1. \A j \in moving : \E e \in Store(x) : e.key = j
      BY <1>2, <1>4, <1>7, MovingIs
    <3> QED BY <3>1
  <2>3. \A p \in Elements(x) \ x.bucket[b] : \E e \in Store(x) : p = GetSlotPos(y, e.key)
    <3> SUFFICES ASSUME NEW p \in Elements(x) \ x.bucket[b] PROVE \E e \in Store(x) : p = GetSlotPos(y, e.key)
      OBVIOUS
    <3>1. x.slots[p] \in Store(x) /\ GetSlotPos(x, x.slots[p].key) = p
      BY <1>2, SlotIs, ElementsIn DEF Store
    <3>2. BucketOf(x, x.slots[p].key) # b
      BY <1>10
    <3> QED BY <3>1, <3>2, <1>9, <1>25
  <2> HIDE DEF took
  <2> QED BY <2>1, <2>2, <2>3, <1>24, <1>27
<1>29. Books(W)
  <2>1. W.filled = Elements(W)
    BY <1>2, <1>5, <1>28 DEF Books
  <2>2. W.item_num = Cardinality(Elements(W))
    <3>1. Cardinality(Store(x)) = Cardinality(Elements(x)) /\ Cardinality(Store(W)) = Cardinality(Elements(W))
      BY <1>2, <1>24, <1>27, StoreIs
    <3> QED BY <3>1, <1>2, <1>5, <1>27 DEF Books
  <2>3. \A p \in Elements(x) \ x.bucket[b] : W.slots[p] = x.slots[p] /\ BucketOf(x, x.slots[p].key) # b
    BY <1>5, <1>10, <1>21
  <2>4. \A p \in took : BucketOf(x, W.slots[p].key) = b
    <3> SUFFICES ASSUME NEW j \in moving PROVE BucketOf(x, W.slots[GetSlotPos(y, j)].key) = b
      OBVIOUS
    <3>1. PICK e \in Store(x) : e.key = j
      BY <1>2, <1>4, <1>7, MovingIs
    <3>2. W.slots[GetSlotPos(y, j)] = e
      BY <3>1, <1>5, <1>20
    <3> QED BY <3>1, <3>2, <1>10
  <2>5. ASSUME NEW c \in DOMAIN x.bucket
        PROVE  W.bucket[c] = {p \in Elements(W) : BucketOf(W, W.slots[p].key) = c}
    <3>1. x.bucket[c] = {p \in Elements(x) : BucketOf(x, x.slots[p].key) = c}
      BY <1>2 DEF Books
    <3>2. W.bucket[c] = IF c = b THEN took ELSE x.bucket[c]
      BY <1>5
    <3> HIDE DEF took
    <3>3. CASE c = b
      BY <3>2, <3>3, <2>3, <2>4, <1>24, <1>28
    <3>4. CASE c # b
      <4>1. \A p \in x.bucket[c] : p \in Elements(x) \ x.bucket[b]
        BY <3>1, <3>4, <1>10
      <4> QED BY <4>1, <3>1, <3>2, <3>4, <2>3, <2>4, <1>24, <1>28
    <3> QED BY <3>3, <3>4
  <2>6. W.bucket = [c \in DOMAIN W.bucket |-> W.bucket[c]]
    BY <1>2, <1>5 DEF Books
  <2>7. W.bucket = [c \in DOMAIN W.bucket |-> {p \in Elements(W) : BucketOf(W, W.slots[p].key) = c}]
    BY <2>5, <2>6, <1>23
  <2> QED BY <2>1, <2>2, <2>7 DEF Books
<1>30. Own(W)
  BY <1>2, <1>5 DEF Own
<1>31. GetSlotPos(W, k) = GetSlotPos(y, k) /\ GetSlotPos(W, k) \notin Elements(W)
  <2>1. GetSlotPos(y, k) \notin took
    BY <1>10, <1>11
  <2> QED BY <2>1, <1>11, <1>24, <1>28
<1> QED BY <1>5, <1>6, <1>24, <1>27, <1>29, <1>30, <1>31, PutIs

-----------------------------------------------------------------------------
(* Build.                                                                    *)

\* A set of numbers with a bound has a largest.
LEMMA GreatestNatural ==
    ASSUME NEW T \in SUBSET Nat, T # {}, NEW N \in Nat, \A n \in T : n <= N
    PROVE  \E m \in T : \A n \in T : n <= m
<1> DEFINE U == {N - n : n \in T}
<1>1. U \in SUBSET Nat /\ U # {}
  <2>1. \A n \in T : N - n \in Nat
    OBVIOUS
  <2> QED BY <2>1
<1>2. PICK k \in U : \A j \in U : k <= j
  BY <1>1, LeastNatural
<1>3. PICK m \in T : k = N - m
  OBVIOUS
<1>4. \A n \in T : N - n \in U
  OBVIOUS
<1>5. \A n \in T : n <= m
  BY <1>2, <1>3, <1>4
<1> QED BY <1>5

\* Some bucket is placed first.
LEMMA FirstBucketIs ==
    ASSUME NEW num \in Nat \ {0}, NEW bucket, DOMAIN bucket = 0 .. num - 1,
           NEW N \in Nat, \A b \in 0 .. num - 1 : Cardinality(bucket[b]) \in 0 .. N
    PROVE  FirstBucket(bucket) \in 0 .. num - 1
<1> DEFINE size_(b) == Cardinality(bucket[b])
           First(b) == \A c \in 0 .. num - 1 : size_(c) < size_(b) \/ (size_(c) = size_(b) /\ c <= b)
           T == {size_(b) : b \in 0 .. num - 1}
<1>1. \E b \in 0 .. num - 1 : First(b)
  <2>1. T \in SUBSET Nat /\ T # {} /\ \A n \in T : n <= N
    OBVIOUS
  <2>2. PICK m \in T : \A n \in T : n <= m
    BY <2>1, GreatestNatural
  <2> DEFINE U == {b \in 0 .. num - 1 : size_(b) = m}
  <2>3. U \in SUBSET Nat /\ U # {} /\ \A b \in U : b <= num
    OBVIOUS
  <2>4. PICK b \in U : \A c \in U : c <= b
    <3> HIDE DEF U
    <3> QED BY <2>3, GreatestNatural
  <2>5. \A c \in 0 .. num - 1 : size_(c) <= m /\ size_(c) \in Nat
    BY <2>2
  <2>6. First(b)
    BY <2>4, <2>5
  <2> QED BY <2>6
<1>2. FirstBucket(bucket) = CHOOSE b \in 0 .. num - 1 : First(b)
  BY DEF FirstBucket
<1> HIDE DEF First
<1> QED BY <1>1, <1>2

\* A search that ends gives every key a slot of its own.
LEMMA PlacementIs ==
    ASSUME Setting, NEW s \in SeedOf, NEW ceil \in Ceils, NEW num \in Ceils,
           NEW K \in SUBSET AnyKey, IsFiniteSet(K), NEW P \in Placements(s, ceil, num, K)
    PROVE  /\ P \in [{GetBucketIndex(s, num, k) : k \in K} -> Parameter]
           /\ \A j, k \in K :
                SlotUnder(s, ceil, P[GetBucketIndex(s, num, j)], j) = SlotUnder(s, ceil, P[GetBucketIndex(s, num, k)], k) => j = k
<1> DEFINE at_(k) == GetBucketIndex(s, num, k)
           used == {at_(k) : k \in K}
           keys == [b \in used |-> {k \in K : at_(k) = b}]
           sooner(b, c) == \/ Cardinality(keys[b]) > Cardinality(keys[c])
                           \/ Cardinality(keys[b]) = Cardinality(keys[c]) /\ b > c
           taken(b) == UNION {Image(s, ceil, P[c], keys[c]) : c \in {d \in used : sooner(d, b)}}
           fits(b, bit) == Fitting(s, ceil, keys[b], taken(b), bit)
<1>1. /\ P \in [used -> [offset : 0 .. ceil - 1, bit : Bit]]
      /\ \A b \in used : P[b] \in IF fits(b, 0) # {} THEN fits(b, 0) ELSE fits(b, 1)
  BY DEF Placements
<1>2. \A b \in used : b \in Nat /\ Cardinality(keys[b]) \in Nat
  <2> SUFFICES ASSUME NEW k \in K PROVE at_(k) \in Nat /\ Cardinality(keys[at_(k)]) \in Nat
    OBVIOUS
  <2>1. at_(k) \in 0 .. num - 1 /\ num \in Nat
    BY BucketIn, CeilsType DEF Setting
  <2>2. IsFiniteSet(keys[at_(k)])
    <3>1. keys[at_(k)] \subseteq K
      OBVIOUS
    <3> QED BY <3>1, FS_Subset
  <2> QED BY <2>1, <2>2, FS_CardinalityType
<1>3. P \in [used -> Parameter]
  <2>1. ceil \in Nat
    BY CeilsType
  <2> QED BY <1>1, <2>1 DEF Parameter
<1>4. \A k \in K : at_(k) \in used /\ k \in keys[at_(k)]
  OBVIOUS
<1>5. ASSUME NEW b \in used
      PROVE  /\ \A i, j \in keys[b] : SlotUnder(s, ceil, P[b], i) = SlotUnder(s, ceil, P[b], j) => i = j
             /\ \A j \in keys[b] : \A c \in used : sooner(c, b) =>
                   \A i \in keys[c] : SlotUnder(s, ceil, P[c], i) # SlotUnder(s, ceil, P[b], j)
  <2>1. \E bit : P[b] \in fits(b, bit)
    <3> HIDE DEF fits
    <3> QED BY <1>1
  <2>2. Apart(s, ceil, P[b], keys[b]) /\ Image(s, ceil, P[b], keys[b]) \cap taken(b) = {}
    <3> HIDE DEF keys, taken
    <3> QED BY <2>1 DEF Fitting
  <2> HIDE DEF keys, used, sooner
  <2>3. \A j \in keys[b] : SlotUnder(s, ceil, P[b], j) \notin taken(b)
    <3> HIDE DEF taken
    <3> QED BY <2>2 DEF Image
  <2>4. \A c \in used : sooner(c, b) => \A i \in keys[c] : SlotUnder(s, ceil, P[c], i) \in taken(b)
    BY DEF Image
  <2> QED BY <2>2, <2>3, <2>4 DEF Apart
<1>6. ASSUME NEW j \in K, NEW k \in K, SlotUnder(s, ceil, P[at_(j)], j) = SlotUnder(s, ceil, P[at_(k)], k)
      PROVE  j = k
  <2> HIDE DEF keys
  <2>1. CASE at_(j) = at_(k)
    <3> HIDE DEF sooner, used
    <3> QED BY <2>1, <1>4, <1>5, <1>6
  <2>2. CASE at_(j) # at_(k)
    <3>1. sooner(at_(j), at_(k)) \/ sooner(at_(k), at_(j))
      BY <2>2, <1>2, <1>4
    <3> HIDE DEF sooner, used
    <3> QED BY <3>1, <1>4, <1>5, <1>6
  <2> QED BY <2>1, <2>2
<1> HIDE DEF used
<1>7. P \in [{GetBucketIndex(s, num, k) : k \in K} -> Parameter]
  BY <1>3 DEF used
<1> QED BY <1>6, <1>7

\* What a Build needs of the table it replaces: the arrays are as long as recorded.
Roomy(x) ==
    /\ x.slot_capacity \in Nat /\ x.slot_block \in {NoBlock, x.slot_capacity}
    /\ x.bucket_capacity \in Nat /\ x.bucket_capacity <= policy.max_ceil
    /\ x.bucket_block \in {NoBlock, x.bucket_capacity}
    /\ x.bucket_block # NoBlock => x.param \in [0 .. x.bucket_capacity - 1 -> Parameter]

\* A set of elements without two of one key.
Entry(E) == E \subseteq Item /\ IsFiniteSet(E) /\ \A e, f \in E : e.key = f.key => e = f

\* An array is as long as is recorded, whether or not it is kept.
LEMMA BlockIs ==
    ASSUME NEW old \in Nat, NEW least \in Nat, NEW block \in {NoBlock, old}, NEW again
    PROVE  /\ Capacity(least, old, again) \in Nat /\ least <= Capacity(least, old, again)
           /\ Capacity(least, old, again) \in {least, old}
           /\ ~ Reallocated(old, Capacity(least, old, again), block, again) =>
                block = Capacity(least, old, again) /\ old = block /\ block # NoBlock
BY DEF Capacity, Larger, Reallocated, NoBlock

\* The arrays are as long as is recorded, and have room.
LEMMA AllottedIs ==
    ASSUME Setting, NEW x, Own(x), Roomy(x),
           NEW ceil \in Nat, NEW num \in Nat, num <= policy.max_ceil, NEW again,
           NEW y \in Allotted(x, ceil, num, again)
    PROVE  /\ IsTable(y) /\ y.this = x.this /\ y.begin_of = x.begin_of /\ y.load = x.load
           /\ y.slot_capacity \in Nat /\ ceil <= y.slot_capacity /\ y.slot_block = y.slot_capacity
           /\ y.bucket_capacity \in Nat /\ num <= y.bucket_capacity /\ y.bucket_capacity <= policy.max_ceil
           /\ y.bucket_block = y.bucket_capacity
           /\ y.param \in [0 .. y.bucket_capacity - 1 -> Parameter]
<1> DEFINE slots_  == Capacity(ceil, x.slot_capacity, again)
           params_ == Capacity(num, x.bucket_capacity, again)
           newSlots  == Reallocated(x.slot_capacity, slots_, x.slot_block, again)
           newParams == Reallocated(x.bucket_capacity, params_, x.bucket_block, again)
<1>1. PICK memory \in IF newParams THEN [0 .. params_ - 1 -> policy.garbage] ELSE {x.param} :
        y = [x EXCEPT !.slot_capacity = slots_, !.bucket_capacity = params_, !.param = memory,
                      !.slot_block = IF newSlots THEN slots_ ELSE @,
                      !.bucket_block = IF newParams THEN params_ ELSE @]
  BY DEF Allotted
<1>2. /\ slots_ \in Nat /\ ceil <= slots_
      /\ ~ newSlots => x.slot_block = slots_
  <2>1. x.slot_capacity \in Nat /\ x.slot_block \in {NoBlock, x.slot_capacity}
    BY DEF Roomy
  <2> QED BY <2>1, BlockIs
<1>3. /\ params_ \in Nat /\ num <= params_ /\ params_ <= policy.max_ceil
      /\ ~ newParams => x.bucket_block = params_ /\ params_ = x.bucket_capacity /\ x.bucket_block # NoBlock
  <2>1. x.bucket_capacity \in Nat /\ x.bucket_block \in {NoBlock, x.bucket_capacity}
    BY DEF Roomy
  <2>2. /\ params_ \in Nat /\ num <= params_ /\ params_ \in {num, x.bucket_capacity}
        /\ ~ newParams => x.bucket_block = params_ /\ params_ = x.bucket_capacity /\ x.bucket_block # NoBlock
    <3> HIDE DEF newParams, params_
    <3> QED BY <2>1, BlockIs DEF newParams, params_
  <2>3. x.bucket_capacity <= policy.max_ceil
    BY DEF Roomy
  <2> QED BY <2>2, <2>3
<1> HIDE DEF slots_, params_, newSlots, newParams
<1>4. memory \in [0 .. params_ - 1 -> Parameter]
  <2>1. CASE newParams
    <3>1. policy.garbage \subseteq Parameter
      BY SettingFacts
    <3> QED BY <3>1, <2>1, <1>1
  <2>2. CASE ~ newParams
    BY <2>2, <1>1, <1>3 DEF Roomy
  <2> QED BY <2>1, <2>2
<1>5. /\ IsTable(y) /\ y.this = x.this /\ y.begin_of = x.begin_of /\ y.load = x.load
      /\ y.slot_capacity = slots_ /\ y.slot_block = IF newSlots THEN slots_ ELSE x.slot_block
      /\ y.bucket_capacity = params_ /\ y.bucket_block = IF newParams THEN params_ ELSE x.bucket_block
      /\ y.param = memory
  BY <1>1 DEF Own, IsTable, Fields
<1> QED BY <1>2, <1>3, <1>4, <1>5

\* A table that a Build has laid out.
LEMMA BuildImpIs ==
    ASSUME Setting, NEW x, Own(x), Roomy(x), NEW E, Entry(E),
           NEW ceil \in Ceils, InitCeil <= ceil, ceil <= policy.max_ceil,
           NEW num \in Ceils, num <= ceil, NEW again,
           NEW z \in BuildImp(x, E, ceil, num, again)
    PROVE  Good(z) /\ z.this = x.this /\ Store(z) = E
<1> DEFINE K == {e.key : e \in E}
           laid == UNION {{Laid(y, K, ceil, num, s, P) :
                             P \in Placements(s, ceil, num, K), y \in Allotted(x, ceil, num, again)} :
                          s \in policy.seeds}
           built == UNION {{Furnished(y, E, c) : c \in DefaultKeys(y)} : y \in laid}
           all == {Tracked(f) : f \in UNION {Begun(y) : y \in built}}
<1>0. BuildImp(x, E, ceil, num, again) = IF Cardinality(E) > ceil THEN {} ELSE all
  BY DEF BuildImp
<1>1. Cardinality(E) \in Nat /\ ceil \in Nat /\ num \in Nat \ {0} /\ Cardinality(E) <= ceil /\ z \in all
  <2>1. Cardinality(E) \in Nat /\ ceil \in Nat /\ num \in Nat \ {0}
    BY FS_CardinalityType, CeilsType DEF Entry
  <2> HIDE DEF all
  <2> QED BY <2>1, <1>0
<1>2. PICK s \in policy.seeds : \E P \in Placements(s, ceil, num, K) : \E a \in Allotted(x, ceil, num, again) :
        \E c \in DefaultKeys(Laid(a, K, ceil, num, s, P)) :
          \E f \in Begun(Furnished(Laid(a, K, ceil, num, s, P), E, c)) : z = Tracked(f)
  <2> HIDE DEF K, laid, built
  <2>1. PICK f \in UNION {Begun(y) : y \in built} : z = Tracked(f)
    BY <1>1
  <2>2. PICK w \in built : f \in Begun(w)
    BY <2>1
  <2>3. PICK y \in laid : \E c \in DefaultKeys(y) : w = Furnished(y, E, c)
    BY <2>2 DEF built
  <2> DEFINE some(s) == {Laid(a, K, ceil, num, s, P) :
                           P \in Placements(s, ceil, num, K), a \in Allotted(x, ceil, num, again)}
  <2>4. PICK s \in policy.seeds : y \in some(s)
    <3> HIDE DEF some
    <3>1. laid = UNION {some(s) : s \in policy.seeds}
      BY DEF laid, some
    <3> QED BY <2>3, <3>1
  <2>5. \E P \in Placements(s, ceil, num, K) : \E a \in Allotted(x, ceil, num, again) :
          y = Laid(a, K, ceil, num, s, P)
    BY <2>4
  <2> QED BY <2>1, <2>2, <2>3, <2>5
<1>12. PICK P \in Placements(s, ceil, num, K), a \in Allotted(x, ceil, num, again) :
        \E c \in DefaultKeys(Laid(a, K, ceil, num, s, P)) :
          \E f \in Begun(Furnished(Laid(a, K, ceil, num, s, P), E, c)) : z = Tracked(f)
  BY <1>2
<1> DEFINE y == Laid(a, K, ceil, num, s, P)
<1>13. PICK c \in DefaultKeys(y) : \E f \in Begun(Furnished(y, E, c)) : z = Tracked(f)
  BY <1>12
<1>3. PICK f \in Begun(Furnished(y, E, c)) : z = Tracked(f)
  BY <1>13
<1> HIDE DEF laid, built, all
<1> DEFINE g == [y EXCEPT !.default = c[1], !.second = c[2], !.home = GetSlotPos(y, c[1])]
           w == [g EXCEPT !.slots = Filled(g, E)]
           at_(k) == GetBucketIndex(s, num, k)
           pos(k) == SlotUnder(s, ceil, P[at_(k)], k)
\* The keys and where they are placed.
<1>4. /\ \A e \in E : e \in Item /\ e.key \in K /\ e.key \in Callers /\ e.key \in AnyKey
      /\ K \subseteq AnyKey /\ IsFiniteSet(K) /\ Cardinality(K) = Cardinality(E)
  <2>1. \A e \in E : e \in Item /\ e.key \in K /\ e.key \in Callers /\ e.key \in AnyKey
    BY SettingFacts DEF Entry, Item
  <2>2. \A k \in K : k \in AnyKey
    BY <2>1
  <2> DEFINE h == [e \in E |-> e.key]
  <2>3. h \in Bijection(E, K)
    BY DEF Bijection, Injection, Surjection, IsInjective, Entry
  <2>4. ExistsBijection(E, K) /\ IsFiniteSet(E)
    BY <2>3 DEF ExistsBijection, Entry
  <2>5. IsFiniteSet(K) /\ Cardinality(K) = Cardinality(E)
    BY <2>4, FS_Bijection
  <2> QED BY <2>1, <2>2, <2>5
<1> HIDE DEF K
<1>5. s \in SeedOf /\ s \in policy.seeds
  BY SettingFacts
<1>6. /\ P \in [{at_(k) : k \in K} -> Parameter]
      /\ \A j, k \in K : pos(j) = pos(k) => j = k
      /\ \A k \in AnyKey : at_(k) \in 0 .. num - 1
  <2>1. K \in SUBSET AnyKey /\ IsFiniteSet(K) /\ policy \in Policies
    BY <1>4 DEF Setting
  <2>2. \A k \in AnyKey : at_(k) \in 0 .. num - 1
    BY <1>5, <2>1, BucketIn
  <2>3. /\ P \in [{at_(k) : k \in K} -> Parameter]
        /\ \A j, k \in K : pos(j) = pos(k) => j = k
    BY <1>5, <2>1, PlacementIs
  <2> QED BY <2>2, <2>3
<1>7. /\ IsTable(a) /\ a.this = x.this /\ a.begin_of = x.begin_of /\ a.load = x.load
      /\ a.slot_capacity \in Nat /\ ceil <= a.slot_capacity /\ a.slot_block = a.slot_capacity
      /\ a.bucket_capacity \in Nat /\ num <= a.bucket_capacity /\ a.bucket_capacity <= policy.max_ceil
      /\ a.bucket_block = a.bucket_capacity
      /\ a.param \in [0 .. a.bucket_capacity - 1 -> Parameter]
  <2>1. num <= policy.max_ceil
    BY <1>1, SettingFacts, CeilsType
  <2> QED BY <2>1, <1>1, AllottedIs
<1> DEFINE bucket == [b \in 0 .. num - 1 |-> {SlotUnder(s, ceil, P[b], k) : k \in {j \in K : at_(j) = b}}]
           param == [b \in DOMAIN a.param |-> IF b \in DOMAIN P THEN P[b] ELSE a.param[b]]
<1>8. /\ IsTable(y) /\ y.this = a.this /\ y.begin_of = a.begin_of /\ y.load = a.load
      /\ y.slot_capacity = a.slot_capacity /\ y.slot_block = a.slot_block
      /\ y.bucket_capacity = a.bucket_capacity /\ y.bucket_block = a.bucket_block
      /\ y.ceil = ceil /\ y.seed = s /\ y.bucket = bucket /\ y.param = param
      /\ y.filled = UNION {bucket[b] : b \in 0 .. num - 1}
      /\ y.item_num = Cardinality(E) /\ y.expand_at = ExpandAt(ceil, a.load)
  BY <1>4, <1>7 DEF Laid, IsTable, Fields
<1> HIDE DEF y
<1>9. c \in policy.generated \X policy.generated /\ GetSlotPos(y, c[1]) # GetSlotPos(y, c[2])
      /\ f \in Begun(w)
  BY <1>3 DEF DefaultKeys, Furnished
<1>10. /\ g.ceil = ceil /\ g.seed = s /\ g.param = param /\ g.bucket = bucket
       /\ g.default = c[1] /\ g.second = c[2] /\ g.home = GetSlotPos(y, c[1])
       /\ IsTable(w) /\ w.this = y.this /\ w.begin_of = y.begin_of /\ w.load = y.load
       /\ w.slot_capacity = y.slot_capacity /\ w.slot_block = y.slot_block
       /\ w.bucket_capacity = y.bucket_capacity /\ w.bucket_block = y.bucket_block
       /\ w.ceil = ceil /\ w.seed = s /\ w.bucket = bucket /\ w.param = param
       /\ w.filled = y.filled /\ w.item_num = y.item_num /\ w.expand_at = y.expand_at
       /\ w.default = c[1] /\ w.second = c[2] /\ w.home = GetSlotPos(y, c[1]) /\ w.slots = Filled(g, E)
  <2> HIDE DEF bucket, param
  <2> QED BY <1>8 DEF IsTable, Fields
<1> HIDE DEF w
<1>14. PICK p \in IF w.item_num = 0 THEN {NoSlot} ELSE w.bucket[FirstBucket(w.bucket)] :
         f = [w EXCEPT !.begin = p, !.begin_of = w.this]
  BY <1>9 DEF Begun
<1>15. /\ IsTable(f) /\ f.this = x.this /\ f.begin_of = x.this /\ f.load = x.load
       /\ f.slot_capacity = a.slot_capacity /\ f.slot_block = a.slot_block
       /\ f.bucket_capacity = a.bucket_capacity /\ f.bucket_block = a.bucket_block
       /\ f.ceil = ceil /\ f.seed = s /\ f.bucket = bucket /\ f.param = param
       /\ f.filled = UNION {bucket[b] : b \in 0 .. num - 1}
       /\ f.item_num = Cardinality(E) /\ f.expand_at = ExpandAt(ceil, x.load)
       /\ f.default = c[1] /\ f.second = c[2] /\ f.home = GetSlotPos(y, c[1]) /\ f.slots = Filled(g, E)
       /\ f.begin = p
  <2> HIDE DEF bucket, param, g
  <2>1. IsTable(f) /\ f.this = w.this /\ f.begin_of = w.this /\ f.begin = p /\ f.load = w.load
        /\ f.slot_capacity = w.slot_capacity /\ f.slot_block = w.slot_block
        /\ f.bucket_capacity = w.bucket_capacity /\ f.bucket_block = w.bucket_block
        /\ f.ceil = w.ceil /\ f.seed = w.seed /\ f.bucket = w.bucket /\ f.param = w.param
        /\ f.filled = w.filled /\ f.item_num = w.item_num /\ f.expand_at = w.expand_at
        /\ f.default = w.default /\ f.second = w.second /\ f.home = w.home /\ f.slots = w.slots
    BY <1>10, <1>14 DEF IsTable, Fields
  <2> QED BY <2>1, <1>7, <1>8, <1>10
<1> HIDE DEF g
\* Where keys are looked up now.
<1>16. /\ \A k : GetSlotPos(g, k) = GetSlotPos(f, k) /\ GetSlotPos(y, k) = GetSlotPos(f, k)
       /\ \A k : BucketOf(f, k) = at_(k)
  <2>1. DOMAIN bucket = 0 .. num - 1 /\ Cardinality(0 .. num - 1) = num
    BY <1>1, FS_Interval
  <2> HIDE DEF bucket, param
  <2> QED BY <2>1, <1>8, <1>10, <1>15 DEF GetSlotPos, BucketOf
<1>17. param \in [0 .. a.bucket_capacity - 1 -> Parameter] /\ \A k \in K : param[at_(k)] = P[at_(k)]
  <2>1. DOMAIN a.param = 0 .. a.bucket_capacity - 1 /\ \A b \in DOMAIN a.param : a.param[b] \in Parameter
    BY <1>7
  <2>2. \A b \in DOMAIN P : P[b] \in Parameter
    BY <1>6
  <2>3. param \in [0 .. a.bucket_capacity - 1 -> Parameter]
    BY <2>1, <2>2
  <2>4. ASSUME NEW k \in K PROVE param[at_(k)] = P[at_(k)]
    <3>1. at_(k) \in DOMAIN P
      BY <1>6
    <3>2. at_(k) \in 0 .. num - 1
      BY <1>4, <1>6
    <3>3. at_(k) \in DOMAIN a.param
      BY <3>2, <2>1, <1>1, <1>7
    <3> QED BY <3>1, <3>3
  <2> QED BY <2>3, <2>4
<1>18. \A k \in K : GetSlotPos(f, k) = pos(k)
  <2> HIDE DEF param, bucket
  <2> QED BY <1>15, <1>16, <1>17 DEF GetSlotPos
<1>19. Sizes(f)
  <2>1. DOMAIN f.bucket = 0 .. num - 1
    BY <1>15
  <2> HIDE DEF param, bucket
  <2> QED BY <2>1, <1>5, <1>7, <1>15, <1>17 DEF Sizes
<1> HIDE DEF param
<1>20. LaysOut(f, E)
  <2> DEFINE here(q) == CHOOSE e \in E : GetSlotPos(g, e.key) = q
  <2>1. f.slots = [q \in 0 .. ceil - 1 |->
                     IF \E e \in E : GetSlotPos(g, e.key) = q THEN here(q)
                     ELSE OnlyKey(IF q = g.home THEN g.second ELSE g.default)]
    BY <1>10, <1>15 DEF Filled
  <2>2. \A e \in E : GetSlotPos(f, e.key) \in 0 .. ceil - 1 /\ GetSlotPos(f, e.key) = pos(e.key)
    BY <1>4, <1>15, <1>18, <1>19, PlaceIn
  <2>3. ASSUME NEW e \in E PROVE f.slots[GetSlotPos(f, e.key)] = e
    <3> DEFINE q == GetSlotPos(f, e.key)
    <3>1. GetSlotPos(g, e.key) = q /\ q \in 0 .. ceil - 1
      BY <2>2, <1>16
    <3>2. here(q) \in E /\ GetSlotPos(g, here(q).key) = q
      BY <3>1
    <3> HIDE DEF here
    <3>3. pos(here(q).key) = pos(e.key)
      BY <3>1, <3>2, <2>2, <1>16
    <3>4. here(q).key = e.key
      BY <3>2, <3>3, <1>4, <1>6
    <3>5. here(q) = e
      BY <3>2, <3>4 DEF Entry
    <3> HIDE DEF q
    <3> QED BY <3>1, <3>5, <2>1 DEF q
  <2> HIDE DEF here
  <2>4. f.slots = [q \in 0 .. f.ceil - 1 |-> f.slots[q]]
    BY <2>1, <1>15
  <2>5. ASSUME NEW q \in 0 .. f.ceil - 1, \A e \in E : GetSlotPos(f, e.key) # q
        PROVE  f.slots[q] = Vacant(f, q)
    <3>1. q \in 0 .. ceil - 1 /\ ~ \E e \in E : GetSlotPos(g, e.key) = q
      BY <2>5, <1>15, <1>16
    <3>2. f.slots[q] = OnlyKey(IF q = g.home THEN g.second ELSE g.default)
      BY <3>1, <2>1
    <3> QED BY <3>2, <1>10, <1>15 DEF Vacant
  <2>6. /\ f.default \in policy.generated /\ f.second \in policy.generated
        /\ f.home = GetSlotPos(f, f.default) /\ GetSlotPos(f, f.second) # f.home
    BY <1>9, <1>15, <1>16
  <2>7. E \subseteq Item
    BY DEF Entry
  <2> QED BY <2>3, <2>4, <2>5, <2>6, <2>7 DEF LaysOut
<1>21. Filling(f) /\ Store(f) = E /\ Elements(f) = {GetSlotPos(f, e.key) : e \in E}
  BY <1>19, <1>20, LaidOut
<1>22. Elements(f) = {pos(k) : k \in K}
  <2>1. \A e \in E : GetSlotPos(f, e.key) = pos(e.key)
    BY <1>4, <1>18
  <2>2. \A k \in K : \E e \in E : e.key = k
    BY DEF K
  <2> QED BY <2>1, <2>2, <1>4, <1>21
<1>23. f.bucket = [b \in 0 .. num - 1 |-> {q \in Elements(f) : BucketOf(f, f.slots[q].key) = b}]
  <2>1. \A k \in K : f.slots[pos(k)].key = k
    <3> SUFFICES ASSUME NEW k \in K PROVE f.slots[pos(k)].key = k
      OBVIOUS
    <3>1. PICK e \in E : e.key = k
      BY DEF K
    <3>2. f.slots[GetSlotPos(f, e.key)] = e
      BY <1>20 DEF LaysOut
    <3> QED BY <3>1, <3>2, <1>18
  <2>2. ASSUME NEW b \in 0 .. num - 1
        PROVE  bucket[b] = {q \in Elements(f) : BucketOf(f, f.slots[q].key) = b}
    <3>1. bucket[b] = {pos(k) : k \in {j \in K : at_(j) = b}}
      OBVIOUS
    <3> HIDE DEF bucket, at_, pos
    <3> QED BY <3>1, <2>1, <1>16, <1>22
  <2>3. bucket = [b \in 0 .. num - 1 |-> bucket[b]]
    OBVIOUS
  <2> HIDE DEF bucket
  <2> QED BY <2>2, <2>3, <1>15
<1>24. Books(f)
  <2>1. f.filled = Elements(f)
    <3>1. \A b \in 0 .. num - 1 : bucket[b] = {q \in Elements(f) : BucketOf(f, f.slots[q].key) = b}
      BY <1>15, <1>23
    <3>2. \A q \in Elements(f) : BucketOf(f, f.slots[q].key) \in 0 .. num - 1
      <4>1. \A q \in Elements(f) : f.slots[q].key \in AnyKey
        BY <1>4, <1>21 DEF Store
      <4> QED BY <4>1, <1>6, <1>16
    <3> HIDE DEF bucket
    <3> QED BY <3>1, <3>2, <1>15
  <2>2. f.item_num = Cardinality(Elements(f))
    BY <1>15, <1>19, <1>21, StoreIs
  <2>3. DOMAIN f.bucket = 0 .. num - 1
    BY <1>23
  <2> QED BY <2>1, <2>2, <2>3, <1>23 DEF Books
<1>25. Starts(f)
  <2>1. CASE Cardinality(E) = 0
    <3>1. E = {}
      BY <2>1, FS_EmptySet DEF Entry
    <3>2. w.item_num = 0
      BY <2>1, <1>8, <1>10
    <3> QED BY <3>1, <3>2, <1>14, <1>15, <1>21 DEF Starts
  <2>2. CASE Cardinality(E) # 0
    <3>1. p \in f.bucket[FirstBucket(f.bucket)]
      BY <2>2, <1>8, <1>10, <1>14, <1>15
    <3>2. DOMAIN f.bucket = 0 .. num - 1
      BY <1>23
    <3>3. \A b \in 0 .. num - 1 : f.bucket[b] \subseteq Elements(f)
      BY <1>23
    <3>4. \A b \in 0 .. num - 1 : Cardinality(f.bucket[b]) \in 0 .. ceil
      <4> SUFFICES ASSUME NEW b \in 0 .. num - 1 PROVE Cardinality(f.bucket[b]) \in 0 .. ceil
        OBVIOUS
      <4>1. IsFiniteSet(Elements(f)) /\ Cardinality(Elements(f)) \in Nat /\ Cardinality(Elements(f)) <= ceil
        BY <1>15, <1>19, <1>21, ElementsIn
      <4>2. IsFiniteSet(f.bucket[b]) /\ Cardinality(f.bucket[b]) <= Cardinality(Elements(f))
        BY <4>1, <3>3, FS_Subset
      <4>3. Cardinality(f.bucket[b]) \in Nat
        BY <4>2, FS_CardinalityType
      <4> QED BY <4>1, <4>2, <4>3, <1>1
    <3>5. FirstBucket(f.bucket) \in 0 .. num - 1
      BY <3>2, <3>4, <1>1, FirstBucketIs
    <3> QED BY <3>1, <3>3, <3>5, <1>15 DEF Starts
  <2> QED BY <2>1, <2>2
<1>26. Tracked(f) = f
  <2>1. Walk(f) = Elements(f)
    BY <1>19, <1>21, <1>24, <1>25, WalkIs DEF Records
  <2>2. [b \in DOMAIN f.bucket |-> {q \in Walk(f) : BucketOf(f, f.slots[q].key) = b}] = f.bucket
    BY <2>1, <1>24 DEF Books
  <2>3. Tracked(f) = [f EXCEPT !.bucket = f.bucket]
    BY <2>2 DEF Tracked
  <2> QED BY <2>3, <1>15 DEF IsTable, Fields
<1>27. Own(f)
  <2>1. ExpandAt(ceil, x.load) \in Nat
    BY <1>1, LoadType DEF Own
  <2> HIDE DEF bucket
  <2> QED BY <2>1, <1>15 DEF Own
<1> HIDE DEF bucket
<1> QED BY <1>3, <1>15, <1>19, <1>21, <1>24, <1>25, <1>26, <1>27 DEF Good, Records

-----------------------------------------------------------------------------
(* Tables before and after their first Build.                                *)

\* A table that no Build has laid out yet, or a copy of one.
Unbuilt(x) ==
    /\ Own(x) /\ x.slots = << >> /\ x.ceil = 0 /\ x.seed \in policy.seeds
    /\ x.param \in [{} -> Parameter] /\ x.bucket \in [{} -> {}] /\ x.filled = {} /\ x.item_num = 0
    /\ x.default = NoKey /\ x.second = NoKey /\ x.home = NoSlot /\ x.expand_at = 0 /\ x.begin = NoSlot
    /\ x.slot_capacity = 0 /\ x.slot_block \in {NoBlock, 0}
    /\ x.bucket_capacity = 0 /\ x.bucket_block \in {NoBlock, 0}

\* What a live map has for a table.
Whole(x) == Good(x) \/ Unbuilt(x)

\* A walk without elements ends at once.
LEMMA EmptyWalk ==
    ASSUME NEW x, x.item_num = 0, x.begin = NoSlot
    PROVE  Walk(x) = {}
<1> DEFINE Next_(p, n) == IF p = NoSlot THEN p ELSE Advanced(x, p, n - 1)
           Step == CHOOSE step : step = [n \in 0 .. 0 |-> IF n = 0 THEN NoSlot ELSE Next_(step[n - 1], n)]
           f == [n \in 0 .. 0 |-> NoSlot]
<1>1. Walk(x) = {Step[n] : n \in DOMAIN Step} \ {NoSlot}
  BY DEF Walk
<1> HIDE DEF Next_
<1>2. f = [n \in 0 .. 0 |-> IF n = 0 THEN NoSlot ELSE Next_(f[n - 1], n)]
  <2>1. \A n \in 0 .. 0 : n = 0
    OBVIOUS
  <2> QED BY <2>1
<1>3. Step = [n \in 0 .. 0 |-> IF n = 0 THEN NoSlot ELSE Next_(Step[n - 1], n)]
  <2> HIDE DEF f
  <2> QED BY <1>2
<1> HIDE DEF Step
<1>4. \A n \in DOMAIN Step : Step[n] = NoSlot
  <2>1. \A n \in 0 .. 0 : n = 0
    OBVIOUS
  <2>2. DOMAIN Step = 0 .. 0
    BY <1>3
  <2>3. Step[0] = NoSlot
    BY <1>3
  <2> QED BY <2>1, <2>2, <2>3
<1> QED BY <1>1, <1>4

\* What both kinds of tables have in common.
LEMMA WholeIs ==
    ASSUME Setting, NEW x, Whole(x)
    PROVE  /\ Own(x) /\ Roomy(x) /\ Entry(Store(x)) /\ AllElements(x) = Store(x) /\ Walk(x) = Elements(x)
           /\ x.item_num = Cardinality(Store(x)) /\ x.item_num \in Nat /\ x.ceil \in Nat
           /\ Unbuilt(x) => Store(x) = {} /\ Elements(x) = {}
           /\ x.item_num = 0 <=> Store(x) = {}
           /\ x.load \in Loads
<1>1. CASE Good(x)
  <2>1. Own(x) /\ Sizes(x) /\ Filling(x) /\ Records(x) /\ Books(x)
    BY <1>1 DEF Good, Records
  <2>2. Roomy(x)
    BY <2>1, SettingFacts, CeilsType DEF Roomy, Sizes
  <2>3. Entry(Store(x)) /\ Cardinality(Store(x)) = Cardinality(Elements(x))
    BY <2>1, StoreIs DEF Entry
  <2>4. Walk(x) = Elements(x)
    BY <2>1, WalkIs
  <2>5. AllElements(x) = Store(x)
    BY <2>4 DEF AllElements, Store
  <2>6. x.item_num = Cardinality(Store(x)) /\ x.item_num \in Nat
    BY <2>1, <2>3, ElementsIn DEF Books
  <2>7. x.ceil \in Nat
    BY <2>1, CeilsType DEF Sizes
  <2>8. Store(x) = {} <=> Cardinality(Store(x)) = 0
    BY <2>3, FS_EmptySet DEF Entry
  <2>9. ~ Unbuilt(x)
    BY <2>1, CeilsType DEF Sizes, Unbuilt
  <2> QED BY <2>1, <2>2, <2>3, <2>4, <2>5, <2>6, <2>7, <2>8, <2>9 DEF Own
<1>2. CASE Unbuilt(x)
  <2>1. Own(x)
    BY <1>2 DEF Unbuilt
  <2>2. Elements(x) = {} /\ Store(x) = {}
    BY <1>2 DEF Unbuilt, Elements, Store
  <2>3. Walk(x) = {}
    BY <1>2, EmptyWalk DEF Unbuilt
  <2>4. AllElements(x) = {}
    BY <2>3 DEF AllElements
  <2>5. Roomy(x)
    <3>1. policy.max_ceil \in Nat
      BY SettingFacts, CeilsType
    <3>2. 0 .. 0 - 1 = {}
      OBVIOUS
    <3> QED BY <3>1, <3>2, <1>2 DEF Unbuilt, Roomy
  <2>6. Entry({}) /\ Cardinality({}) = 0
    BY FS_EmptySet DEF Entry
  <2> QED BY <2>1, <2>2, <2>3, <2>4, <2>5, <2>6, <1>2 DEF Unbuilt, Own
<1> QED BY <1>1, <1>2 DEF Whole

\* A Build that succeeds had no more elements than slots.
LEMMA BuildFits ==
    ASSUME NEW x, NEW E, IsFiniteSet(E), NEW ceil \in Nat, NEW num, NEW again, NEW z \in BuildImp(x, E, ceil, num, again)
    PROVE  Cardinality(E) <= ceil
<1> DEFINE K == {e.key : e \in E}
           laid == UNION {{Laid(y, K, ceil, num, s, P) :
                             P \in Placements(s, ceil, num, K), y \in Allotted(x, ceil, num, again)} :
                          s \in policy.seeds}
           built == UNION {{Furnished(y, E, c) : c \in DefaultKeys(y)} : y \in laid}
           all == {Tracked(f) : f \in UNION {Begun(y) : y \in built}}
<1>1. BuildImp(x, E, ceil, num, again) = IF Cardinality(E) > ceil THEN {} ELSE all
  BY DEF BuildImp
<1> HIDE DEF all
<1> QED BY <1>1, FS_CardinalityType

\* Build<true, ..> makes a table of exactly the elements it is given.
LEMMA BuildIs ==
    ASSUME Setting, NEW x, Whole(x), NEW E, Entry(E),
           NEW ceil \in Ceils, InitCeil <= ceil, ceil <= policy.max_ceil,
           NEW again, NEW z \in Build(x, E, ceil, again)
    PROVE  Good(z) /\ z.this = x.this /\ Store(z) = E
<1>1. ceil \in Nat /\ ceil \in 1 .. ceil
  BY CeilsType
<1>2. BucketNum(ceil) \in Ceils /\ BucketNum(ceil) <= ceil
  BY <1>1, BucketNumIs
<1>3. z \in BuildImp(x, E, ceil, BucketNum(ceil), again)
  BY DEF Build
<1> QED BY <1>2, <1>3, WholeIs, BuildImpIs

\* So does Build<false, ..>, which chooses the number of slots itself.
LEMMA BuildForIs ==
    ASSUME Setting, NEW x, Whole(x), NEW E, Entry(E),
           NEW again, NEW z \in BuildFor(x, E, again)
    PROVE  Good(z) /\ z.this = x.this /\ Store(z) = E
<1> DEFINE n    == Cardinality(E)
           ceil == IF n = 0 THEN InitCeil ELSE Limited(Ceil2(CeilLoad(n, x.load)))
           num  == BucketNum(IF n = 0 THEN ceil ELSE n)
<1>1. z \in BuildImp(x, E, ceil, num, again)
  BY DEF BuildFor
<1>2. n \in Nat /\ IsFiniteSet(E)
  BY FS_CardinalityType DEF Entry
<1>3. ceil \in Ceils /\ InitCeil <= ceil /\ ceil <= policy.max_ceil
  <2>1. InitCeil \in Ceils /\ InitCeil <= policy.max_ceil /\ InitCeil <= InitCeil
    BY FphAssumption, PolicyAssumption, CeilsType DEF Setting
  <2>2. CeilLoad(n, x.load) \in Nat
    BY <1>2, WholeIs, LoadType
  <2> QED BY <2>1, <2>2, LimitedIs DEF Setting
<1>4. ceil \in Nat /\ 2 <= ceil
  BY <1>3, CeilsType
<1>5. n <= ceil
  BY <1>1, <1>2, <1>4, BuildFits
<1>6. num \in Ceils /\ num <= ceil
  <2>1. (IF n = 0 THEN ceil ELSE n) \in 1 .. ceil
    BY <1>2, <1>4, <1>5
  <2> QED BY <2>1, <1>3, BucketNumIs
<1> HIDE DEF ceil, num
<1> QED BY <1>1, <1>3, <1>6, WholeIs, BuildImpIs

-----------------------------------------------------------------------------
(* The operations.                                                           *)

\* rehash keeps the elements, whether it rebuilds the table or leaves it.
LEMMA RehashIs ==
    ASSUME Setting, NEW x, Whole(x), NEW count \in Nat, NEW z \in rehash(x, count)
    PROVE  Good(z) /\ z.this = x.this /\ Store(z) = Store(x)
<1> DEFINE least == Ceil2(CeilLoad(x.item_num, x.load))
           ceil  == Limited(IF count > least THEN Ceil2(count) ELSE least)
<1>1. z \in IF ceil = x.ceil THEN {x} ELSE Build(x, Store(x), ceil, TRUE)
  BY WholeIs DEF rehash
<1>2. ceil \in Ceils /\ InitCeil <= ceil /\ ceil <= policy.max_ceil
  <2>1. CeilLoad(x.item_num, x.load) \in Nat
    BY WholeIs, LoadType
  <2>2. ceil = Limited(Ceil2(count)) \/ ceil = Limited(Ceil2(CeilLoad(x.item_num, x.load)))
    OBVIOUS
  <2> HIDE DEF ceil
  <2> QED BY <2>1, <2>2, LimitedIs DEF Setting
<1> HIDE DEF ceil
<1>3. CASE ceil = x.ceil
  <2>1. z = x
    BY <1>1, <1>3
  <2>2. ~ Unbuilt(x)
    BY <1>2, <1>3, CeilsType DEF Unbuilt
  <2> QED BY <2>1, <2>2 DEF Whole
<1>4. CASE ceil # x.ceil
  <2>1. z \in Build(x, Store(x), ceil, TRUE)
    BY <1>1, <1>4
  <2>2. PICK again : z \in Build(x, Store(x), ceil, again)
    BY <2>1, Zenon
  <2> QED BY <2>2, <1>2, WholeIs, BuildIs
<1> QED BY <1>3, <1>4

\* A table that has no room yet gets some.
LEMMA GrownIs ==
    ASSUME Setting, NEW x, Whole(x), NEW z \in Grown(x)
    PROVE  Good(z) /\ z.this = x.this /\ Store(z) = Store(x)
<1> DEFINE full == x.item_num + 1 > x.expand_at /\ Ceil2(x.ceil + 1) <= policy.max_ceil
<1>1. z \in IF full THEN rehash(x, x.ceil + 1) ELSE {x}
  BY DEF Grown
<1>2. CASE full
  <2>1. x.ceil + 1 \in Nat
    BY WholeIs
  <2> QED BY <2>1, <1>1, <1>2, RehashIs
<1>3. CASE ~ full
  <2>1. ~ Unbuilt(x)
    <3> SUFFICES ASSUME Unbuilt(x) PROVE FALSE
      OBVIOUS
    <3>1. x.item_num + 1 = 1 /\ x.expand_at = 0 /\ x.ceil + 1 = 1
      BY DEF Unbuilt
    <3>2. Ceil2(1) = 2
      BY Ceil2Is
    <3>3. 2 <= policy.max_ceil
      BY SettingFacts, CeilsType
    <3> QED BY <3>1, <3>2, <3>3, <1>3
  <2> QED BY <2>1, <1>1, <1>3 DEF Whole
<1> QED BY <1>2, <1>3

\* What an emplace, and an assignment through operator[], make of the elements S.
Added(S, k, v) == IF \E e \in S : e.key = k THEN S ELSE S \cup {Element(k, v)}
Replaced(S, k, v) == {e \in S : e.key # k} \cup {Element(k, v)}

\* One more element with a key of its own.
LEMMA EntryAdded ==
    ASSUME NEW E, Entry(E), NEW k \in Callers, NEW v \in Value, \A e \in E : e.key # k
    PROVE  Entry(E \cup {Element(k, v)})
<1>1. Element(k, v) \in Item /\ Element(k, v).key = k
  BY DEF Element, Item
<1>2. IsFiniteSet(E \cup {Element(k, v)})
  BY FS_AddElement DEF Entry
<1> QED BY <1>1, <1>2 DEF Entry

\* FindOrAlloc adds the key to the store or finds it there: in a slot that was empty,
\* after a relocation, or in a table built anew.
LEMMA AllocatedIs ==
    ASSUME Setting, NEW x, Good(x), NEW k \in Callers, NEW v \in Value, NEW z \in Allocated(x, k, v)
    PROVE  Good(z) /\ z.this = x.this /\ Store(z) = Added(Store(x), k, v)
<1>1. Own(x) /\ Sizes(x) /\ Filling(x) /\ Books(x) /\ Whole(x)
  BY DEF Good, Records, Whole
<1>2. k \in AnyKey /\ (Contains(x, k) <=> \E e \in Store(x) : e.key = k)
  BY <1>1, SettingFacts, StoreIs
<1>3. CASE Contains(x, k)
  BY <1>2, <1>3 DEF Allocated, Added
<1>4. CASE ~ Contains(x, k)
  <2> SUFFICES Good(z) /\ z.this = x.this /\ Store(z) = Store(x) \cup {Element(k, v)}
    BY <1>2, <1>4 DEF Added
  <2>1. CASE IsSlotEmpty(x, GetSlotPos(x, k))
    <3>1. GetSlotPos(x, k) \in 0 .. x.ceil - 1
      BY <1>1, <1>2, PlaceIn
    <3>2. GetSlotPos(x, k) \notin Elements(x)
      BY <3>1, <2>1, <1>1, SlotIs
    <3>3. z = PutAt(x, GetSlotPos(x, k), k, v)
      BY <2>1, <1>4 DEF Allocated
    <3> QED BY <3>2, <3>3, <1>1, PutIs
  <2>2. CASE ~ IsSlotEmpty(x, GetSlotPos(x, k)) /\ NewParams(x, k) = {}
    <3>1. z \in Build(x, Store(x) \cup {Element(k, v)}, x.ceil, FALSE)
      BY <2>2, <1>1, <1>4, WholeIs DEF Allocated, Rebuilt
    <3>2. Entry(Store(x) \cup {Element(k, v)})
      BY <1>1, <1>2, <1>4, WholeIs, EntryAdded
    <3>3. x.ceil \in Ceils /\ InitCeil <= x.ceil /\ x.ceil <= policy.max_ceil
      BY <1>1 DEF Sizes
    <3>4. PICK again : z \in Build(x, Store(x) \cup {Element(k, v)}, x.ceil, again)
      BY <3>1, Zenon
    <3> QED BY <3>2, <3>3, <3>4, <1>1, BuildIs
  <2>3. CASE ~ IsSlotEmpty(x, GetSlotPos(x, k)) /\ NewParams(x, k) # {}
    <3>1. PICK param \in NewParams(x, k) : z \in Relocated(x, k, v, param)
      BY <2>3, <1>4 DEF Allocated
    <3> QED BY <3>1, <1>4, RelocateIs
  <2> QED BY <2>1, <2>2, <2>3
<1> QED BY <1>3, <1>4

\* emplace adds an element unless its key is there, and grows the table before.
LEMMA EmplacedIs ==
    ASSUME Setting, NEW x, Whole(x), NEW k \in Callers, NEW v \in Value, NEW z \in Emplaced(x, k, v)
    PROVE  Good(z) /\ z.this = x.this /\ Store(z) = Added(Store(x), k, v)
<1>1. PICK y \in Grown(x) : z \in Allocated(y, k, v)
  BY DEF Emplaced
<1>2. Good(y) /\ y.this = x.this /\ Store(y) = Store(x)
  BY GrownIs
<1> QED BY <1>1, <1>2, AllocatedIs

\* operator[] and the assignment leave the key's element with the new value.
LEMMA SubscriptedIs ==
    ASSUME Setting, NEW x, Whole(x), NEW k \in Callers, NEW v \in Value, NEW z \in Subscripted(x, k, v)
    PROVE  Good(z) /\ z.this = x.this /\ Store(z) = Replaced(Store(x), k, v)
<1>1. PICK y \in Emplaced(x, k, v) : z = [y EXCEPT !.slots[GetSlotPos(y, k)].value = v]
  BY DEF Subscripted
<1>2. Good(y) /\ y.this = x.this /\ Store(y) = Added(Store(x), k, v)
  BY EmplacedIs
<1>3. Element(k, v).key = k
  BY DEF Element
<1>4. \E e \in Store(y) : e.key = k
  BY <1>2, <1>3 DEF Added
<1>5. Contains(y, k)
  BY <1>2, <1>4, StoreIs, SettingFacts DEF Good
<1>6. Good(z) /\ z.this = y.this /\ Store(z) = Replaced(Store(y), k, v)
  BY <1>1, <1>2, <1>5, SetValueIs DEF Replaced
<1>7. Replaced(Store(y), k, v) = Replaced(Store(x), k, v)
  BY <1>2, <1>3 DEF Replaced, Added
<1> QED BY <1>2, <1>6, <1>7

\* A range that callers insert.
Ranged(es) ==
    /\ Len(es) \in Nat /\ DOMAIN es = 1 .. Len(es)
    /\ \A n \in DOMAIN es : es[n] \in Item
    /\ \A n, m \in DOMAIN es : es[n].key = es[m].key => n = m

\* The elements S and those of the range es whose keys S does not have.
Joined(S, es) == S \cup {es[n] : n \in {m \in DOMAIN es : \A f \in S : f.key # es[m].key}}

\* The ranges that callers give have elements of theirs, no key twice.
LEMMA RangedIs ==
    ASSUME Setting, NEW es \in policy.ranges \cup {<< >>}
    PROVE  Ranged(es) /\ Entry({es[n] : n \in DOMAIN es})
<1> DEFINE R == [key : Key, value : Value]
<1>1. CASE es \in policy.ranges
  <2>1. es \in Seq(R) /\ \A n, m \in DOMAIN es : es[n].key = es[m].key => n = m
    BY <1>1, PolicyAssumption DEF Setting
  <2> HIDE DEF R
  <2>2. Len(es) \in Nat /\ DOMAIN es = 1 .. Len(es) /\ \A n \in DOMAIN es : es[n] \in R
    BY <2>1, LenProperties, ElementOfSeq
  <2>3. \A n \in DOMAIN es : es[n].key \in Callers
    BY <1>1 DEF Callers, CallersOf, KeysIn
  <2>4. \A n \in DOMAIN es : es[n] \in Item
    BY <2>2, <2>3 DEF Item, R
  <2>5. IsFiniteSet({es[n] : n \in DOMAIN es})
    <3> DEFINE T == DOMAIN es
    <3> DEFINE h == [n \in T |-> es[n]]
    <3>1. IsFiniteSet(T)
      <4>1. 1 \in Int /\ Len(es) \in Int
        BY <2>2
      <4> QED BY <4>1, <2>2, FS_Interval
    <3>2. h \in Surjection(T, {es[n] : n \in T})
      BY DEF Surjection
    <3> HIDE DEF h
    <3> QED BY <3>1, <3>2, FS_Surjection
  <2> QED BY <2>1, <2>2, <2>4, <2>5 DEF Ranged, Entry
<1>2. CASE es = << >>
  <2>1. DOMAIN es = {} /\ Len(es) = 0 /\ 1 .. 0 = {}
    BY <1>2
  <2>2. {es[n] : n \in DOMAIN es} = {}
    BY <2>1
  <2> QED BY <2>1, <2>2, FS_EmptySet DEF Ranged, Entry
<1> QED BY <1>1, <1>2

\* The elements of the range are emplaced one after the other.
LEMMA InsertedIs ==
    ASSUME Setting, NEW x, Whole(x), NEW es, Ranged(es), NEW z \in Inserted(x, es)
    PROVE  /\ Whole(z) /\ z.this = x.this /\ Store(z) = Joined(Store(x), es)
           /\ Good(x) => Good(z)
<1> DEFINE N == Len(es)
           S == Store(x)
           From(Y, n) == UNION {Emplaced(y, es[n].key, es[n].value) : y \in Y}
           Fits(f, m) == /\ DOMAIN f = 0 .. m
                         /\ \A n \in 0 .. m : f[n] = IF n = 0 THEN {x} ELSE From(f[n - 1], n)
           After == CHOOSE after : after = [n \in 0 .. N |-> IF n = 0 THEN {x} ELSE From(after[n - 1], n)]
<1>1. z \in After[N] /\ N \in Nat
  BY DEF Inserted, Ranged
<1>2. ASSUME NEW m \in Nat PROVE \E f : Fits(f, m)
  <2> HIDE DEF From
  <2> DEFINE T == {n \in Nat : ~ \E f : Fits(f, n)}
  <2>1. \E f : Fits(f, 0)
    <3> DEFINE f == [n \in 0 .. 0 |-> {x}]
    <3>1. Fits(f, 0)
      OBVIOUS
    <3> QED BY <3>1
  <2>2. ASSUME NEW n \in Nat, NEW f, Fits(f, n) PROVE \E g : Fits(g, n + 1)
    <3> DEFINE g == [k \in 0 .. n + 1 |-> IF k = n + 1 THEN From(f[n], n + 1) ELSE f[k]]
    <3>1. ASSUME NEW k \in 0 .. n + 1 PROVE g[k] = IF k = 0 THEN {x} ELSE From(g[k - 1], k)
      <4>1. CASE k = n + 1
        <5>1. k - 1 = n /\ k - 1 \in 0 .. n + 1 /\ k - 1 # n + 1 /\ k # 0
          BY <4>1
        <5> QED BY <5>1, <4>1
      <4>2. CASE k # n + 1
        <5>1. k \in 0 .. n /\ (k # 0 => k - 1 \in 0 .. n /\ k - 1 # n + 1 /\ k - 1 \in 0 .. n + 1)
          BY <4>2
        <5>2. f[k] = IF k = 0 THEN {x} ELSE From(f[k - 1], k)
          BY <5>1, <2>2
        <5>3. g[k] = f[k] /\ (k # 0 => g[k - 1] = f[k - 1])
          BY <5>1, <4>2
        <5> QED BY <5>2, <5>3
      <4> QED BY <4>1, <4>2
    <3>2. Fits(g, n + 1)
      BY <3>1
    <3> QED BY <3>2
  <2>3. T = {}
    <3> HIDE DEF Fits
    <3> SUFFICES ASSUME T # {} PROVE FALSE
      OBVIOUS
    <3>1. PICK k \in T : \A j \in T : k <= j
      BY LeastNatural
    <3>2. k # 0
      BY <2>1, <3>1
    <3>3. k - 1 \in Nat /\ k - 1 \notin T /\ (k - 1) + 1 = k
      BY <3>1, <3>2
    <3> QED BY <2>2, <3>1, <3>3
  <2> QED BY <2>3
<1>3. Fits(After, N)
  <2>1. PICK f : Fits(f, N)
    BY <1>1, <1>2
  <2> DEFINE g == [n \in 0 .. N |-> f[n]]
  <2> HIDE DEF From, N
  <2>2. \A n \in 0 .. N : g[n] = IF n = 0 THEN {x} ELSE From(g[n - 1], n)
    BY <2>1, <1>1
  <2>3. g = [n \in 0 .. N |-> IF n = 0 THEN {x} ELSE From(g[n - 1], n)]
    BY <2>2
  <2> HIDE DEF g
  <2>4. After = [n \in 0 .. N |-> IF n = 0 THEN {x} ELSE From(After[n - 1], n)]
    BY <2>3
  <2> HIDE DEF After
  <2>5. DOMAIN After = 0 .. N
    BY <2>4
  <2>6. \A n \in 0 .. N : After[n] = IF n = 0 THEN {x} ELSE From(After[n - 1], n)
    BY <2>4
  <2> QED BY <2>5, <2>6
<1> HIDE DEF After
\* The elements after n of them.
<1> DEFINE Some(n) == {es[k] : k \in {m \in 1 .. n : \A f \in S : f.key # es[m].key}}
           Right(n) == \A y \in After[n] : /\ Whole(y) /\ y.this = x.this /\ Store(y) = S \cup Some(n)
                                           /\ Good(x) => Good(y)
           U == {n \in 0 .. N : ~ Right(n)}
<1>4. Right(0)
  <2>1. After[0] = {x}
    BY <1>1, <1>3
  <2>2. Some(0) = {}
    OBVIOUS
  <2> HIDE DEF Some
  <2> QED BY <2>1, <2>2
<1>5. ASSUME NEW n \in 0 .. N - 1, Right(n) PROVE Right(n + 1)
  <2> SUFFICES ASSUME NEW w \in After[n + 1]
               PROVE  Good(w) /\ w.this = x.this /\ Store(w) = S \cup Some(n + 1)
    BY DEF Whole
  <2>1. n + 1 \in 0 .. N /\ n + 1 # 0 /\ (n + 1) - 1 = n /\ n + 1 \in 1 .. N /\ n \in Nat
    BY <1>1
  <2> DEFINE e == es[n + 1]
  <2>2. e \in Item /\ e.key \in Callers /\ e.value \in Value /\ Element(e.key, e.value) = e
    BY <2>1 DEF Ranged, Item, Element
  <2>3. After[n + 1] = From(After[n], n + 1)
    BY <2>1, <1>3
  <2>4. PICK y \in After[n] : w \in Emplaced(y, e.key, e.value)
    BY <2>3
  <2>5. Whole(y) /\ y.this = x.this /\ Store(y) = S \cup Some(n)
    BY <1>5
  <2>6. Good(w) /\ w.this = y.this /\ Store(w) = Added(Store(y), e.key, e.value)
    <3>1. \A k \in Callers, v \in Value : w \in Emplaced(y, k, v) =>
             Good(w) /\ w.this = y.this /\ Store(w) = Added(Store(y), k, v)
      BY <2>5, EmplacedIs
    <3> HIDE DEF e
    <3> QED BY <3>1, <2>2, <2>4
  <2>7. Added(S \cup Some(n), e.key, e.value) = S \cup Some(n + 1)
    <3>1. \A k \in 1 .. n : k \in DOMAIN es /\ es[k].key # e.key
      <4>1. \A k \in 1 .. n : k \in DOMAIN es /\ n + 1 \in DOMAIN es /\ k # n + 1
        BY <2>1 DEF Ranged
      <4> QED BY <4>1 DEF Ranged
    <3>2. (\E f \in S \cup Some(n) : f.key = e.key) <=> \E f \in S : f.key = e.key
      BY <3>1
    <3>3. 1 .. n + 1 = (1 .. n) \cup {n + 1}
      BY <2>1
    <3>4. Some(n + 1) = IF \E f \in S : f.key = e.key THEN Some(n) ELSE Some(n) \cup {e}
      BY <3>3
    <3> HIDE DEF Some, e
    <3> QED BY <3>2, <3>4, <2>2 DEF Added
  <2> QED BY <2>5, <2>6, <2>7
<1>6. U = {}
  <2> HIDE DEF Right
  <2> SUFFICES ASSUME U # {} PROVE FALSE
    OBVIOUS
  <2>1. PICK k \in U : \A j \in U : k <= j
    <3>1. U \in SUBSET Nat
      OBVIOUS
    <3> QED BY <3>1, LeastNatural
  <2>2. k # 0
    BY <1>4, <2>1
  <2>3. k - 1 \in 0 .. N - 1 /\ k - 1 \notin U /\ k - 1 \in 0 .. N /\ (k - 1) + 1 = k
    BY <2>1, <2>2, <1>1
  <2>4. Right(k - 1)
    BY <2>3
  <2>5. Right(k)
    BY <2>3, <2>4, <1>5
  <2> QED BY <2>1, <2>5
<1>7. Right(N)
  BY <1>1, <1>6
<1>8. S \cup Some(N) = Joined(S, es)
  BY DEF Joined, Ranged
<1> HIDE DEF Some, S
<1> QED BY <1>1, <1>7, <1>8 DEF S

\* InsertNoDuplicated, which builds an empty table for the whole range, is an insert.
LEMMA InsertNoDuplicatedIs ==
    ASSUME Setting, NEW x, Whole(x), NEW es \in policy.ranges, NEW z \in InsertNoDuplicated(x, es)
    PROVE  Whole(z) /\ z.this = x.this /\ Store(z) = Joined(Store(x), es)
<1>1. Ranged(es) /\ Entry({es[n] : n \in DOMAIN es})
  BY RangedIs
<1>2. CASE x.item_num # 0
  BY <1>1, <1>2, InsertedIs DEF InsertNoDuplicated
<1>3. CASE x.item_num = 0
  <2>1. Store(x) = {}
    BY <1>3, WholeIs
  <2>2. Joined({}, es) = {es[n] : n \in DOMAIN es}
    BY DEF Joined
  <2>3. z \in BuildFor(x, {es[n] : n \in DOMAIN es}, FALSE)
    BY <1>3 DEF InsertNoDuplicated
  <2>4. PICK again : z \in BuildFor(x, {es[n] : n \in DOMAIN es}, again)
    BY <2>3, Zenon
  <2> QED BY <1>1, <2>1, <2>2, <2>4, BuildForIs DEF Whole
<1> QED BY <1>2, <1>3

\* A new FphTableParam is a table whose slots are yet to be built.
LEMMA BlankIs ==
    ASSUME Setting, NEW i \in Object
    PROVE  Unbuilt(Blank(i)) /\ Blank(i).this = i
<1> DEFINE s == CHOOSE s \in policy.seeds : TRUE
           z == Blank(i)
<1>5. z = [this |-> i, ceil |-> 0, seed |-> s, param |-> << >>,
           bucket |-> << >>, slots |-> << >>, filled |-> {}, item_num |-> 0,
           default |-> NoKey, second |-> NoKey, home |-> NoSlot, load |-> policy.default_load,
           expand_at |-> 0, begin |-> NoSlot, begin_of |-> i,
           slot_capacity |-> 0, slot_block |-> NoBlock, bucket_capacity |-> 0, bucket_block |-> NoBlock]
  BY DEF Blank
<1> HIDE DEF s, z
<1>6. DOMAIN z = Fields /\ IsTable(z)
  <2>1. DOMAIN z = Fields /\ z = [f \in DOMAIN z |-> z[f]]
    BY <1>5 DEF Fields
  <2> QED BY <2>1 DEF IsTable
<1>1. /\ IsTable(Blank(i)) /\ Blank(i).this = i /\ Blank(i).begin_of = i
      /\ Blank(i).slots = << >> /\ Blank(i).ceil = 0 /\ Blank(i).seed = s
      /\ Blank(i).param = << >> /\ Blank(i).bucket = << >> /\ Blank(i).filled = {} /\ Blank(i).item_num = 0
      /\ Blank(i).default = NoKey /\ Blank(i).second = NoKey /\ Blank(i).home = NoSlot
      /\ Blank(i).load = policy.default_load /\ Blank(i).expand_at = 0 /\ Blank(i).begin = NoSlot
      /\ Blank(i).slot_capacity = 0 /\ Blank(i).slot_block = NoBlock
      /\ Blank(i).bucket_capacity = 0 /\ Blank(i).bucket_block = NoBlock
  BY <1>5, <1>6 DEF z
<1>2. Blank(i).seed \in policy.seeds
  BY <1>1, PolicyAssumption DEF Setting, s
<1>3. policy.default_load \in Loads
  BY PolicyAssumption DEF Setting, Loads
<1>4. << >> \in [{} -> Parameter] /\ << >> \in [{} -> {}]
  OBVIOUS
<1> QED BY <1>1, <1>2, <1>3, <1>4 DEF Unbuilt, Own

\* A constructed map holds the range it was given.
LEMMA ConstructedIs ==
    ASSUME Setting, NEW i \in Object, NEW es \in policy.ranges \cup {<< >>}, NEW z \in Constructed(i, es)
    PROVE  Good(z) /\ z.this = i /\ Store(z) = Joined({}, es)
<1>1. PICK y \in BuildFor(Blank(i), {}, FALSE) : z \in Inserted(y, es)
  BY DEF Constructed
<1>2. PICK again : y \in BuildFor(Blank(i), {}, again)
  BY <1>1, Zenon
<1>3. Whole(Blank(i)) /\ Blank(i).this = i /\ Entry({})
  BY BlankIs, FS_EmptySet DEF Whole, Entry
<1>4. Good(y) /\ y.this = i /\ Store(y) = {}
  BY <1>2, <1>3, BuildForIs
<1>5. Ranged(es) /\ Whole(y)
  BY <1>4, RangedIs DEF Whole
<1> QED BY <1>1, <1>4, <1>5, InsertedIs

\* What a table records does not depend on where it is.
LEMMA SameRecords ==
    ASSUME NEW x, NEW z, Records(x), z.slots = x.slots, z.bucket = x.bucket, z.filled = x.filled,
           z.item_num = x.item_num, z.begin = x.begin, Elements(z) = Elements(x),
           \A k : BucketOf(z, k) = BucketOf(x, k)
    PROVE  Records(z)
<1>1. \A b : {p \in Elements(z) : BucketOf(z, z.slots[p].key) = b} = {p \in Elements(x) : BucketOf(x, x.slots[p].key) = b}
  OBVIOUS
<1>2. z.bucket = [b \in DOMAIN z.bucket |-> {p \in Elements(z) : BucketOf(z, z.slots[p].key) = b}]
  BY <1>1 DEF Records, Books
<1> QED BY <1>2 DEF Records, Books, Starts

\* A table that another map takes over.
LEMMA OwnedIs ==
    ASSUME Setting, NEW x, Whole(x), NEW i \in Object
    PROVE  /\ Whole(Owned(i, x)) /\ Owned(i, x).this = i /\ Store(Owned(i, x)) = Store(x)
<1> DEFINE z == Owned(i, x)
<1>1. Own(x)
  BY WholeIs
<1>2. /\ IsTable(z) /\ z.this = i /\ z.ceil = x.ceil /\ z.seed = x.seed /\ z.param = x.param
      /\ z.bucket = x.bucket /\ z.slots = x.slots /\ z.filled = x.filled /\ z.item_num = x.item_num
      /\ z.default = x.default /\ z.second = x.second /\ z.home = x.home
      /\ z.load = x.load /\ z.expand_at = x.expand_at
      /\ z.begin = x.begin /\ z.begin_of = i
      /\ z.slot_capacity = x.slot_capacity /\ z.slot_block = x.slot_block
      /\ z.bucket_capacity = x.bucket_capacity /\ z.bucket_block = x.bucket_block
  BY <1>1 DEF IsTable, Fields, Own, Owned
<1> HIDE DEF z
<1>3. Own(z)
  BY <1>1, <1>2 DEF Own
<1>4. /\ \A k : GetSlotPos(z, k) = GetSlotPos(x, k) /\ BucketOf(z, k) = BucketOf(x, k)
      /\ Elements(z) = Elements(x) /\ Store(z) = Store(x)
      /\ Filling(x) => Filling(z)
  BY <1>2, SameTable
<1>5. CASE Good(x)
  <2>1. z.param \in [DOMAIN x.param -> Parameter]
    BY <1>2, <1>5 DEF Good, Sizes
  <2>2. Sizes(z)
    BY <2>1, <1>2, <1>5, SameSizes DEF Good
  <2>3. Records(z)
    BY <1>2, <1>4, <1>5, SameRecords DEF Good
  <2> QED BY <2>2, <2>3, <1>2, <1>3, <1>4, <1>5 DEF Good, Whole, z
<1>6. CASE Unbuilt(x)
  BY <1>2, <1>3, <1>4, <1>6 DEF Unbuilt, Whole, z
<1> QED BY <1>5, <1>6 DEF Whole

\* max_load_factor(..) changes nothing but when the table grows.
LEMMA SetLoadIs ==
    ASSUME Setting, NEW x, Whole(x), NEW load \in policy.loads
    PROVE  LET z == [x EXCEPT !.load = load, !.expand_at = ExpandAt(x.ceil, load)]
           IN  Whole(z) /\ z.this = x.this /\ Store(z) = Store(x)
<1> DEFINE z == [x EXCEPT !.load = load, !.expand_at = ExpandAt(x.ceil, load)]
<1>1. Own(x) /\ x.ceil \in Nat
  BY WholeIs
<1>2. /\ IsTable(z) /\ z.this = x.this /\ z.ceil = x.ceil /\ z.seed = x.seed /\ z.param = x.param
      /\ z.bucket = x.bucket /\ z.slots = x.slots /\ z.filled = x.filled /\ z.item_num = x.item_num
      /\ z.default = x.default /\ z.second = x.second /\ z.home = x.home
      /\ z.load = load /\ z.expand_at = ExpandAt(x.ceil, load)
      /\ z.begin = x.begin /\ z.begin_of = x.begin_of
      /\ z.slot_capacity = x.slot_capacity /\ z.slot_block = x.slot_block
      /\ z.bucket_capacity = x.bucket_capacity /\ z.bucket_block = x.bucket_block
  BY <1>1 DEF IsTable, Fields, Own
<1> HIDE DEF z
<1>7. load \in Loads
  BY PolicyAssumption DEF Setting, Loads
<1>8. ExpandAt(x.ceil, load) \in Nat /\ ExpandAt(0, load) = 0
  BY <1>1, <1>7, LoadType
<1>3. Own(z)
  BY <1>1, <1>2, <1>7, <1>8 DEF Own
<1>4. /\ \A k : GetSlotPos(z, k) = GetSlotPos(x, k) /\ BucketOf(z, k) = BucketOf(x, k)
      /\ Elements(z) = Elements(x) /\ Store(z) = Store(x)
      /\ Filling(x) => Filling(z)
  BY <1>2, SameTable
<1>5. CASE Good(x)
  <2>1. z.param \in [DOMAIN x.param -> Parameter]
    BY <1>2, <1>5 DEF Good, Sizes
  <2>2. Sizes(z)
    BY <2>1, <1>2, <1>5, SameSizes DEF Good
  <2>3. Records(z)
    BY <1>2, <1>4, <1>5, SameRecords DEF Good
  <2> QED BY <2>2, <2>3, <1>2, <1>3, <1>4, <1>5 DEF Good, Whole, z
<1>6. CASE Unbuilt(x)
  BY <1>2, <1>3, <1>4, <1>6, <1>8 DEF Unbuilt, Whole, z
<1> QED BY <1>5, <1>6 DEF Whole

\* A copy: the parameters in use, and an element wherever there was one.
LEMMA CopiedIs ==
    ASSUME Setting, NEW x, Whole(x), NEW i \in Object, NEW z \in Copied(i, x)
    PROVE  Whole(z) /\ z.this = i /\ Store(z) = Store(x)
<1> DEFINE param(rest) == [b \in DOMAIN rest |-> IF b \in DOMAIN x.bucket THEN x.param[b] ELSE rest[b]]
           slots == [p \in DOMAIN x.slots |-> IF IsSlotEmpty(x, p) THEN OnlyKey(x.slots[p].key) ELSE x.slots[p]]
           y(rest) == [ParamCopy(i, x) EXCEPT !.home = x.home, !.begin = x.begin,
                         !.slot_block = x.slot_capacity, !.bucket_block = x.bucket_capacity,
                         !.param = param(rest), !.slots = slots]
           copy(rest) == [y(rest) EXCEPT !.bucket = [b \in DOMAIN x.bucket |->
                            {GetSlotPos(y(rest), x.slots[p].key) : p \in x.bucket[b]}]]
<1>1. PICK rest \in [0 .. x.bucket_capacity - 1 -> policy.garbage] : z = copy(rest)
  BY DEF Copied
<1> DEFINE w == y(rest)
           bucket == [b \in DOMAIN x.bucket |-> {GetSlotPos(w, x.slots[p].key) : p \in x.bucket[b]}]
<1>2. Own(x) /\ IsTable(x)
  BY WholeIs DEF Own
<1>3. /\ IsTable(w) /\ w.this = i /\ w.begin_of = i /\ w.ceil = x.ceil /\ w.seed = x.seed
      /\ w.param = param(rest) /\ w.bucket = x.bucket /\ w.slots = slots
      /\ w.filled = x.filled /\ w.item_num = x.item_num
      /\ w.default = x.default /\ w.second = x.second /\ w.home = x.home
      /\ w.load = x.load /\ w.expand_at = x.expand_at /\ w.begin = x.begin
      /\ w.slot_capacity = x.slot_capacity /\ w.slot_block = x.slot_capacity
      /\ w.bucket_capacity = x.bucket_capacity /\ w.bucket_block = x.bucket_capacity
  <2> HIDE DEF param, slots
  <2>1. /\ IsTable(ParamCopy(i, x)) /\ ParamCopy(i, x).this = i /\ ParamCopy(i, x).begin_of = i
        /\ ParamCopy(i, x).ceil = x.ceil /\ ParamCopy(i, x).seed = x.seed /\ ParamCopy(i, x).bucket = x.bucket
        /\ ParamCopy(i, x).filled = x.filled /\ ParamCopy(i, x).item_num = x.item_num
        /\ ParamCopy(i, x).default = x.default /\ ParamCopy(i, x).second = x.second
        /\ ParamCopy(i, x).load = x.load /\ ParamCopy(i, x).expand_at = x.expand_at
        /\ ParamCopy(i, x).slot_capacity = x.slot_capacity /\ ParamCopy(i, x).bucket_capacity = x.bucket_capacity
    BY <1>2 DEF ParamCopy, IsTable, Fields
  <2> QED BY <2>1 DEF IsTable, Fields
<1>4. z = [w EXCEPT !.bucket = bucket]
  BY <1>1
<1> HIDE DEF w
<1>5. /\ IsTable(z) /\ z.this = i /\ z.begin_of = i /\ z.ceil = x.ceil /\ z.seed = x.seed
      /\ z.param = param(rest) /\ z.bucket = bucket /\ z.slots = slots
      /\ z.filled = x.filled /\ z.item_num = x.item_num
      /\ z.default = x.default /\ z.second = x.second /\ z.home = x.home
      /\ z.load = x.load /\ z.expand_at = x.expand_at /\ z.begin = x.begin
      /\ z.slot_capacity = x.slot_capacity /\ z.slot_block = x.slot_capacity
      /\ z.bucket_capacity = x.bucket_capacity /\ z.bucket_block = x.bucket_capacity
  <2> HIDE DEF param, slots, bucket
  <2> QED BY <1>3, <1>4 DEF IsTable, Fields
<1>6. Own(z)
  BY <1>2, <1>5 DEF Own
<1>7. policy.garbage \subseteq Parameter
  BY SettingFacts
<1>8. CASE Good(x)
  <2>1. Sizes(x) /\ Filling(x) /\ Books(x) /\ Starts(x)
    BY <1>8 DEF Good, Records
  <2>2. \A b \in DOMAIN x.bucket : b \in 0 .. x.bucket_capacity - 1
    <3>1. PICK num \in Ceils : num <= x.bucket_capacity /\ DOMAIN x.bucket = 0 .. num - 1
      BY <2>1 DEF Sizes
    <3> QED BY <3>1, <2>1, CeilsType DEF Sizes
  <2>3. param(rest) \in [0 .. x.bucket_capacity - 1 -> Parameter]
        /\ \A b \in DOMAIN x.bucket : param(rest)[b] = x.param[b]
    BY <2>1, <2>2, <1>7 DEF Sizes
  <2>4. slots = x.slots
    <3>1. \A p \in DOMAIN x.slots : IsSlotEmpty(x, p) => OnlyKey(x.slots[p].key) = x.slots[p]
      <4> SUFFICES ASSUME NEW p \in DOMAIN x.slots, IsSlotEmpty(x, p) PROVE OnlyKey(x.slots[p].key) = x.slots[p]
        OBVIOUS
      <4>1. x.slots[p] = Vacant(x, p)
        BY <2>1, SlotIs DEF Filling
      <4> QED BY <4>1 DEF Vacant, OnlyKey
    <3>2. DOMAIN x.slots = 0 .. x.ceil - 1 /\ x.slots = [p \in 0 .. x.ceil - 1 |-> x.slots[p]]
      BY <2>1 DEF Filling
    <3> QED BY <3>1, <3>2
  <2> HIDE DEF param, slots
  <2>5. \A k \in AnyKey : GetSlotPos(w, k) = GetSlotPos(x, k) /\ BucketOf(w, k) = BucketOf(x, k)
    <3>1. \A k \in AnyKey : BucketOf(x, k) \in DOMAIN x.bucket
      BY <2>1, PlaceIn
    <3> QED BY <3>1, <2>3, <1>3 DEF GetSlotPos, BucketOf
  <2>6. bucket = x.bucket
    <3>1. ASSUME NEW b \in DOMAIN x.bucket PROVE bucket[b] = x.bucket[b]
      <4>1. \A p \in x.bucket[b] : p \in Elements(x)
        BY <2>1, MovingIs
      <4>2. \A p \in Elements(x) : x.slots[p] \in Item /\ GetSlotPos(x, x.slots[p].key) = p
        BY <2>1, SlotIs, ElementsIn
      <4>3. \A p \in Elements(x) : x.slots[p].key \in AnyKey
        BY <4>2, SettingFacts DEF Item
      <4>4. \A p \in x.bucket[b] : GetSlotPos(w, x.slots[p].key) = p
        BY <4>1, <4>2, <4>3, <2>5
      <4> QED BY <4>4
    <3>2. x.bucket = [b \in DOMAIN x.bucket |-> x.bucket[b]]
      BY <2>1 DEF Books
    <3>3. bucket = [b \in DOMAIN x.bucket |-> bucket[b]]
      OBVIOUS
    <3> HIDE DEF bucket
    <3> QED BY <3>1, <3>2, <3>3
  <2> HIDE DEF bucket
  <2>7. \A k \in AnyKey : GetSlotPos(z, k) = GetSlotPos(x, k)
    <3>1. \A k : GetSlotPos(z, k) = GetSlotPos(w, k)
      BY <1>3, <1>5, <2>6 DEF GetSlotPos, BucketOf
    <3> QED BY <3>1, <2>5
  <2>8. Sizes(z)
    BY <1>5, <2>1, <2>3, <2>6 DEF Sizes
  <2>9. Filling(z)
    <3>1. x.default \in AnyKey /\ x.second \in AnyKey
      BY <2>1, SettingFacts DEF Filling
    <3>2. \A p : x.slots[p] \in Item => x.slots[p].key \in AnyKey
      BY SettingFacts DEF Item
    <3>3. \A p \in 0 .. z.ceil - 1 :
            \/ z.slots[p] \in Item /\ GetSlotPos(z, z.slots[p].key) = p
            \/ z.slots[p] = Vacant(z, p)
      <4>1. z.ceil = x.ceil /\ z.slots = x.slots /\ \A p : Vacant(z, p) = Vacant(x, p)
        BY <2>4, <1>5 DEF Vacant
      <4>2. \A p \in 0 .. x.ceil - 1 :
              \/ x.slots[p] \in Item /\ GetSlotPos(x, x.slots[p].key) = p
              \/ x.slots[p] = Vacant(x, p)
        BY <2>1 DEF Filling
      <4> QED BY <4>1, <4>2, <3>2, <2>7
    <3>4. z.home = GetSlotPos(z, z.default) /\ GetSlotPos(z, z.second) # z.home
      BY <3>1, <2>1, <2>7, <1>5 DEF Filling
    <3> QED BY <3>3, <3>4, <2>1, <2>4, <1>5 DEF Filling
  <2>10. Elements(z) = Elements(x) /\ Store(z) = Store(x)
    BY <2>4, <1>5 DEF Elements, Store
  <2>11. Records(z)
    <3>1. \A k : BucketOf(z, k) = BucketOf(x, k)
      BY <1>5, <2>6 DEF BucketOf
    <3> QED BY <3>1, <2>1, <2>4, <2>6, <2>10, <1>5, SameRecords DEF Records
  <2> QED BY <1>5, <1>6, <2>8, <2>9, <2>10, <2>11 DEF Good, Whole
<1>9. CASE Unbuilt(x)
  <2>1. x.slots = << >> /\ DOMAIN x.bucket = {} /\ x.bucket_capacity = 0
    BY <1>9 DEF Unbuilt
  <2>2. slots = << >> /\ bucket \in [{} -> {}] /\ Store(x) = {}
    BY <2>1, <1>9, WholeIs
  <2>3. param(rest) \in [{} -> Parameter]
    <3>1. 0 .. 0 - 1 = {}
      OBVIOUS
    <3> QED BY <3>1, <2>1
  <2> HIDE DEF param, slots, bucket
  <2>4. Unbuilt(z)
    BY <2>1, <2>2, <2>3, <1>5, <1>6, <1>9 DEF Unbuilt
  <2>5. Whole(z)
    BY <2>4 DEF Whole
  <2> QED BY <2>2, <2>4, <2>5, <1>5, WholeIs
<1> QED BY <1>8, <1>9 DEF Whole

-----------------------------------------------------------------------------
(* Types.                                                                    *)

\* A record with the fields of a table is in a set of tables if its fields are.
LEMMA TableInSet ==
    ASSUME NEW x, IsTable(x), NEW n, NEW b, NEW m,
           x.this \in Object, x.ceil = n, x.seed \in SeedOf,
           x.param \in [0 .. m - 1 -> Parameter], x.bucket \in [0 .. b - 1 -> SUBSET (0 .. n - 1)],
           x.slots \in [0 .. n - 1 -> [key : AnyKey, value : Value \cup {NoValue}]],
           x.filled \in SUBSET (0 .. n - 1), x.item_num \in 0 .. n,
           x.default \in AnyKey \cup {NoKey}, x.second \in AnyKey \cup {NoKey},
           x.home \in Nat \cup {NoSlot}, x.load \in Nat \X Nat, x.expand_at \in Nat,
           x.begin \in Nat \cup {NoSlot}, x.begin_of \in Object,
           x.slot_capacity \in Nat, x.slot_block \in Nat \cup {NoBlock},
           x.bucket_capacity \in Nat, x.bucket_block \in Nat \cup {NoBlock}
    PROVE  x \in FphTable(n, b, m)
<1>1. x = [this |-> x.this, ceil |-> x.ceil, seed |-> x.seed, param |-> x.param, bucket |-> x.bucket,
           slots |-> x.slots, filled |-> x.filled, item_num |-> x.item_num, default |-> x.default,
           second |-> x.second, home |-> x.home, load |-> x.load, expand_at |-> x.expand_at,
           begin |-> x.begin, begin_of |-> x.begin_of, slot_capacity |-> x.slot_capacity,
           slot_block |-> x.slot_block, bucket_capacity |-> x.bucket_capacity,
           bucket_block |-> x.bucket_block]
  BY DEF IsTable, Fields
<1>2. x.ceil \in {n}
  OBVIOUS
<1> QED BY <1>1, <1>2 DEF FphTable

\* A live map's table has its type.
LEMMA WholeType ==
    ASSUME Setting, NEW x, Whole(x)
    PROVE  /\ x \in FphTable(x.ceil, Cardinality(DOMAIN x.bucket), x.bucket_block)
           /\ x.ceil \in NoBlock .. Words /\ Cardinality(DOMAIN x.bucket) \in NoBlock .. Words
           /\ x.bucket_block \in NoBlock .. Words
<1>1. Own(x) /\ x.load \in Nat \X Nat
  BY WholeIs DEF Loads
<1>2. CASE Good(x)
  <2>1. Sizes(x) /\ Filling(x) /\ Books(x) /\ Starts(x)
    BY <1>2 DEF Good, Records
  <2>2. PICK num \in Ceils : num <= x.bucket_capacity /\ DOMAIN x.bucket = 0 .. num - 1
    BY <2>1 DEF Sizes
  <2>3. /\ num \in Nat /\ num <= Words /\ x.ceil \in Nat /\ x.ceil <= Words /\ Words \in Nat
        /\ policy.max_ceil \in Nat /\ policy.max_ceil <= Words /\ NoBlock = -1
    BY <2>1, CeilsType, WordsType, SettingFacts DEF Sizes, NoBlock
  <2>4. Cardinality(DOMAIN x.bucket) = num
    BY <2>2, <2>3, FS_Interval
  <2>5. x.bucket_block = x.bucket_capacity /\ x.bucket_capacity \in Nat /\ x.bucket_capacity <= policy.max_ceil
    BY <2>1 DEF Sizes
  <2>6. Elements(x) \subseteq 0 .. x.ceil - 1 /\ x.item_num \in 0 .. x.ceil
    BY <2>1, ElementsIn DEF Books
  <2>7. x.bucket \in [0 .. num - 1 -> SUBSET (0 .. x.ceil - 1)]
    <3>1. x.bucket = [b \in 0 .. num - 1 |-> {p \in Elements(x) : BucketOf(x, x.slots[p].key) = b}]
      BY <2>1, <2>2 DEF Books
    <3>2. \A b : {p \in Elements(x) : BucketOf(x, x.slots[p].key) = b} \in SUBSET (0 .. x.ceil - 1)
      BY <2>6
    <3> QED BY <3>1, <3>2
  <2>8. x.default \in AnyKey /\ x.second \in AnyKey
    BY <2>1, SettingFacts DEF Filling
  <2>9. x.slots \in [0 .. x.ceil - 1 -> [key : AnyKey, value : Value \cup {NoValue}]]
    <3>1. \A e \in Item : e \in [key : AnyKey, value : Value \cup {NoValue}]
      BY SettingFacts DEF Item
    <3>2. \A p : Vacant(x, p) \in [key : AnyKey, value : Value \cup {NoValue}]
      BY <2>8 DEF Vacant, OnlyKey
    <3> QED BY <3>1, <3>2, <2>1 DEF Filling
  <2>10. x.home \in Nat
    BY <2>1, <2>8, PlaceIn DEF Filling
  <2>11. x.filled = Elements(x) /\ x.begin \in Nat \cup {NoSlot} /\ x.seed \in SeedOf
         /\ x.param \in [0 .. x.bucket_block - 1 -> Parameter]
         /\ x.slot_capacity \in Nat /\ x.slot_block \in Nat
    BY <2>1, <2>6, SettingFacts DEF Books, Starts, Sizes
  <2>12. x \in FphTable(x.ceil, num, x.bucket_block)
    BY <1>1, <2>5, <2>6, <2>7, <2>8, <2>9, <2>10, <2>11, TableInSet DEF Own
  <2> QED BY <2>3, <2>4, <2>5, <2>12
<1>3. CASE Unbuilt(x)
  <2>1. Cardinality(DOMAIN x.bucket) = 0 /\ x.ceil = 0 /\ x.bucket_block \in {NoBlock, 0}
    BY <1>3, FS_EmptySet DEF Unbuilt
  <2>2. Words \in Nat /\ NoBlock = -1 /\ NoSlot = -1 /\ 0 .. -1 = {} /\ 0 .. 0 - 1 = {} /\ 0 .. (-1) - 1 = {}
    BY WordsType DEF NoBlock, NoSlot
  <2>3. x.slots \in [{} -> [key : AnyKey, value : Value \cup {NoValue}]]
    BY <1>3 DEF Unbuilt
  <2>4. x.bucket \in [{} -> SUBSET {}]
    BY <1>3 DEF Unbuilt
  <2>5. x.seed \in SeedOf
    BY <1>3, SettingFacts DEF Unbuilt
  <2>6. x \in FphTable(0, 0, x.bucket_block)
    <3>1. 0 .. x.bucket_block - 1 = {}
      BY <2>1, <2>2
    <3>2. x.param \in [0 .. x.bucket_block - 1 -> Parameter] /\ x.filled \in SUBSET (0 .. 0 - 1)
          /\ x.slots \in [0 .. 0 - 1 -> [key : AnyKey, value : Value \cup {NoValue}]]
          /\ x.bucket \in [0 .. 0 - 1 -> SUBSET (0 .. 0 - 1)] /\ x.item_num \in 0 .. 0
      BY <3>1, <2>2, <2>3, <2>4, <1>3 DEF Unbuilt
    <3>3. /\ x.this \in Object /\ x.begin_of \in Object /\ x.expand_at \in Nat /\ x.ceil = 0
          /\ x.default \in AnyKey \cup {NoKey} /\ x.second \in AnyKey \cup {NoKey}
          /\ x.home \in Nat \cup {NoSlot} /\ x.begin \in Nat \cup {NoSlot}
          /\ x.slot_capacity \in Nat /\ x.slot_block \in Nat \cup {NoBlock}
          /\ x.bucket_capacity \in Nat /\ x.bucket_block \in Nat \cup {NoBlock}
          /\ IsTable(x)
      BY <1>3 DEF Unbuilt, Own
    <3> QED BY <3>2, <3>3, <2>5, <1>1, TableInSet
  <2> QED BY <2>1, <2>2, <2>6
<1> QED BY <1>2, <1>3 DEF Whole

\* What is no map is no table either.
LEMMA WholeIsMap ==
    ASSUME Setting, NEW x, Whole(x)
    PROVE  x # Dead /\ x # MovedFrom
BY WholeType, ObjectAssumption

-----------------------------------------------------------------------------
(* The invariant.                                                            *)

\* The keys that key_gen_ may return are none that a caller stores.
KeysApart == \A p \in Policies : p.generated \cap CallersOf(p) = {}

\* What may live at i.
MapAt(i, x) == x = Dead \/ x = MovedFrom \/ (Whole(x) /\ x.this = i)

\* Every table is its object's own, and well kept.
Kept ==
    /\ policy \in Policies
    /\ tab = [i \in Object |-> tab[i]]
    /\ \A i \in Object : MapAt(i, tab[i])

\* The keys that a loop on slot p has passed.
KeysBefore(x, p) == {x.slots[q].key : q \in Before(x, p)}

\* A loop stands on an element, after as many ++ as there are elements before it,
\* all of which it has seen; or it has ended and has seen them all.
LoopKept ==
    loop # Idle =>
        /\ loop = [of |-> loop.of, at |-> loop.at, cnt |-> loop.cnt, seen |-> loop.seen]
        /\ loop.of \in Object
        /\ \/ /\ loop.at = NoSlot
              /\ HasParam(loop.of) => {Table.slots[p].key : p \in Elements(Table)} \subseteq loop.seen
           \/ /\ HasParam(loop.of) /\ Good(Table) /\ loop.at \in Elements(Table)
              /\ loop.cnt = Cardinality(Before(Table, loop.at))
              /\ KeysBefore(Table, loop.at) \subseteq loop.seen

\* The inductive invariant.
FphInv == Kept /\ LoopKept

\* The policy never changes, so what is said of a table by it stays true.
LEMMA Settled ==
    ASSUME policy' = policy
    PROVE  \A x : /\ Good(x)' <=> Good(x)
                  /\ Whole(x)' <=> Whole(x)
<1> SUFFICES ASSUME NEW x PROVE (Good(x)' <=> Good(x)) /\ (Whole(x)' <=> Whole(x))
  OBVIOUS
<1>1. \A s, n, k : GetBucketIndex(s, n, k)' = GetBucketIndex(s, n, k)
  BY DEF GetBucketIndex, MapToIndex
<1>2. \A s, n, p, k : SlotUnder(s, n, p, k)' = SlotUnder(s, n, p, k)
  BY DEF SlotUnder, MapToIndex, ReverseMap
<1>3. \A y, k : BucketOf(y, k)' = BucketOf(y, k)
  BY <1>1 DEF BucketOf
<1>4. \A y, k : GetSlotPos(y, k)' = GetSlotPos(y, k)
  BY <1>2, <1>3 DEF GetSlotPos
<1>5. Item' = Item
  BY DEF Item, Callers, CallersOf
<1>6. Sizes(x)' <=> Sizes(x)
  BY DEF Sizes
<1>7. Filling(x)' <=> Filling(x)
  BY <1>4, <1>5 DEF Filling
<1>8. Records(x)' <=> Records(x)
  <2>1. Books(x)' <=> Books(x)
    <3>1. \A b : {p \in Elements(x) : BucketOf(x, x.slots[p].key)' = b} = {p \in Elements(x) : BucketOf(x, x.slots[p].key) = b}
      BY <1>3
    <3> DEFINE mine(b) == {p \in Elements(x) : BucketOf(x, x.slots[p].key) = b}
               then(b) == {p \in Elements(x) : BucketOf(x, x.slots[p].key)' = b}
    <3>2. [b \in DOMAIN x.bucket |-> then(b)] = [b \in DOMAIN x.bucket |-> mine(b)]
      BY <3>1
    <3>3. Books(x)' <=> /\ x.filled = Elements(x) /\ x.bucket = [b \in DOMAIN x.bucket |-> then(b)]
                        /\ x.item_num = Cardinality(Elements(x))
      BY Zenon DEF Books
    <3>4. Books(x) <=> /\ x.filled = Elements(x) /\ x.bucket = [b \in DOMAIN x.bucket |-> mine(b)]
                       /\ x.item_num = Cardinality(Elements(x))
      BY Zenon DEF Books
    <3> HIDE DEF mine, then
    <3> QED BY <3>2, <3>3, <3>4
  <2> QED BY <2>1 DEF Records, Starts
<1>9. Unbuilt(x)' <=> Unbuilt(x)
  BY DEF Unbuilt
<1> QED BY <1>6, <1>7, <1>8, <1>9 DEF Good, Whole

\* It holds when there are no maps.
LEMMA InitKept == Init => FphInv
<1> SUFFICES ASSUME Init PROVE FphInv
  OBVIOUS
<1>1. policy \in Policies /\ loop = Idle /\ tab = [i \in Object |-> Dead]
  BY DEF Init
<1>2. \A i \in Object : tab[i] = Dead
  BY <1>1
<1>3. tab = [i \in Object |-> tab[i]]
  BY <1>1
<1> QED BY <1>1, <1>2, <1>3 DEF FphInv, Kept, MapAt, LoopKept

\* What the lemmas about tables suppose holds of every map.
LEMMA KeptSetting ==
    ASSUME KeysApart, Kept
    PROVE  /\ Setting /\ policy.objects \subseteq Object /\ policy.keys \subseteq Callers
           /\ \A i \in Object : HasParam(i) => Whole(tab[i]) /\ tab[i].this = i
<1>1. Setting
  BY DEF KeysApart, Kept, Setting, Callers
<1>2. policy.keys \subseteq Callers
  BY DEF Callers, CallersOf
<1> QED BY <1>1, <1>2, ObjectAssumption DEF Kept, HasParam, MapAt

\* The other objects keep what they have.
LEMMA BecomesKept ==
    ASSUME Kept, NEW i \in Object, NEW X, Becomes(i, X), \A x \in X : MapAt(i, x)
    PROVE  Kept'
<1>1. PICK x \in X : tab' = [tab EXCEPT ![i] = x]
  BY DEF Becomes
<1>2. policy' = policy
  BY DEF Becomes
<1>3. tab' = [j \in Object |-> tab'[j]]
  BY <1>1 DEF Kept
<1>4. \A j \in Object : MapAt(j, tab'[j])
  BY <1>1 DEF Kept
<1>5. \A j \in Object : MapAt(j, tab[j])'
  BY <1>2, <1>4, Settled DEF MapAt
<1> QED BY <1>2, <1>3, <1>5 DEF Kept

\* clear() leaves no element, of a moved-from map too.
LEMMA ResetIs ==
    ASSUME Setting, Kept, NEW i \in Object, Live(i)
    PROVE  Whole(Reset(i)) /\ Reset(i).this = i /\ Store(Reset(i)) = {}
<1>1. CASE tab[i] = MovedFrom
  BY <1>1, BlankIs, WholeIs DEF Reset, Whole
<1>2. CASE tab[i] # MovedFrom /\ Good(tab[i])
  <2>1. tab[i].this = i
    BY <1>2, WholeIsMap DEF Kept, MapAt, Live
  <2> QED BY <1>2, <2>1, ClearIs DEF Reset, Whole
<1>3. CASE tab[i] # MovedFrom /\ Unbuilt(tab[i])
  <2>1. Cleared(tab[i]) = tab[i]
    BY <1>3 DEF Cleared, Unbuilt
  <2>2. tab[i].this = i
    BY <1>3 DEF Kept, MapAt, Live
  <2> QED BY <1>3, <2>1, <2>2, WholeIs DEF Reset, Whole
<1> QED BY <1>1, <1>2, <1>3 DEF Kept, MapAt, Live, Whole

\* A look-up of erase hits the key's element or none.
LEMMA ErasedIs ==
    ASSUME Setting, NEW x, Good(x), NEW k \in AnyKey
    PROVE  Good(Erased(x, k)) /\ Erased(x, k).this = x.this /\ Store(Erased(x, k)) = {e \in Store(x) : e.key # k}
<1>1. Sizes(x) /\ Filling(x)
  BY DEF Good
<1>2. CASE Contains(x, k)
  <2> DEFINE p == GetSlotPos(x, k)
  <2>1. p \in Elements(x) /\ x.slots[p].key = k /\ p \in Nat
    <3>1. p \in Elements(x) /\ x.slots[p].key = k
      BY <1>1, <1>2, FindIs
    <3> HIDE DEF p
    <3> QED BY <3>1, <1>1, ElementsIn
  <2>2. Erased(x, k) = EraseAt(x, p)
    BY <1>2, <2>1 DEF Erased, find, NoSlot
  <2>3. x.slots[p] \in Store(x)
    BY <2>1 DEF Store
  <2>4. Store(x) \ {x.slots[p]} = {e \in Store(x) : e.key # k}
    BY <1>1, <2>1, <2>3, StoreIs
  <2> QED BY <2>1, <2>2, <2>4, EraseIs
<1>3. CASE ~ Contains(x, k)
  <2>1. Erased(x, k) = x
    BY <1>3 DEF Erased, find
  <2>2. \A e \in Store(x) : e.key # k
    BY <1>1, <1>3, StoreIs
  <2> QED BY <2>1, <2>2
<1> QED BY <1>2, <1>3

\* A table has slots once it was built, and only then.
LEMMA BuiltIsGood ==
    ASSUME Setting, NEW x, Whole(x)
    PROVE  Built(x) <=> Good(x)
<1>1. ASSUME Good(x) PROVE Built(x)
  <2>1. DOMAIN x.slots = 0 .. x.ceil - 1 /\ 2 <= x.ceil /\ x.ceil \in Nat
    BY <1>1, CeilsType DEF Good, Sizes, Filling
  <2>2. 0 \in DOMAIN x.slots
    BY <2>1
  <2> QED BY <2>2 DEF Built
<1>2. ASSUME Unbuilt(x) PROVE ~ Built(x)
  BY <1>2 DEF Unbuilt, Built
<1> QED BY <1>1, <1>2 DEF Whole

-----------------------------------------------------------------------------
(* Every call keeps the tables.                                              *)

\* A call on one map leaves it a table that is as it should be.
LEMMA CallKept ==
    ASSUME KeysApart, Kept, NEW i \in policy.objects,
           \/ Construct(i) \/ Clear(i) \/ Destroy(i)
           \/ \E k \in policy.keys, v \in Value : Emplace(i, k, v) \/ Subscript(i, k, v)
           \/ \E es \in policy.ranges : InsertRange(i, es) \/ BuildRange(i, es) \/ AssignRange(i, es)
           \/ \E k \in policy.keys : Erase(i, k)
           \/ \E count \in policy.counts : Rehash(i, count) \/ Reserve(i, count)
           \/ \E load \in policy.loads : SetLoad(i, load)
    PROVE  Kept'
<1> DEFINE Mine(x) == Whole(x) /\ x.this = i
<1>1. Setting /\ i \in Object /\ policy.keys \subseteq Callers /\ (HasParam(i) => Mine(tab[i]))
  BY KeptSetting
<1>2. ASSUME NEW X, Becomes(i, X), \A x \in X : Mine(x) PROVE Kept'
  BY <1>1, <1>2, BecomesKept DEF MapAt
<1>3. \A es \in policy.ranges \cup {<< >>} : Ranged(es)
  BY <1>1, RangedIs
<1>4. CASE Construct(i)
  <2>1. PICK es \in policy.ranges \cup {<< >>} : Becomes(i, Constructed(i, es))
    BY <1>4 DEF Construct
  <2>2. \A x \in Constructed(i, es) : Mine(x)
    BY <1>1, ConstructedIs DEF Whole
  <2> QED BY <2>1, <2>2, <1>2
<1>5. CASE Clear(i)
  <2>1. Live(i) /\ Becomes(i, {Reset(i)})
    BY <1>5 DEF Clear
  <2>2. \A x \in {Reset(i)} : Mine(x)
    BY <2>1, <1>1, ResetIs
  <2> QED BY <2>1, <2>2, <1>2
<1>6. CASE Destroy(i)
  BY <1>1, <1>6, BecomesKept DEF Destroy, MapAt
<1>7. ASSUME NEW k \in policy.keys, NEW v \in Value, Emplace(i, k, v) \/ Subscript(i, k, v) PROVE Kept'
  <2>1. HasParam(i) /\ k \in Callers
    BY <1>1, <1>7 DEF Emplace, Subscript
  <2>2. CASE Emplace(i, k, v)
    <3>1. \A x \in Emplaced(tab[i], k, v) : Mine(x)
      BY <1>1, <2>1, EmplacedIs DEF Whole
    <3> QED BY <3>1, <1>2, <2>2 DEF Emplace
  <2>3. CASE Subscript(i, k, v)
    <3>1. \A x \in Subscripted(tab[i], k, v) : Mine(x)
      BY <1>1, <2>1, SubscriptedIs DEF Whole
    <3> QED BY <3>1, <1>2, <2>3 DEF Subscript
  <2> QED BY <1>7, <2>2, <2>3
<1>8. ASSUME NEW es \in policy.ranges, InsertRange(i, es) \/ BuildRange(i, es) \/ AssignRange(i, es)
      PROVE  Kept'
  <2>1. CASE InsertRange(i, es)
    <3>1. HasParam(i)
      BY <2>1 DEF InsertRange
    <3>2. \A x \in Inserted(tab[i], es) : Mine(x)
      BY <1>1, <1>3, <3>1, InsertedIs
    <3> QED BY <3>2, <1>2, <2>1 DEF InsertRange
  <2>2. CASE BuildRange(i, es)
    <3>1. HasParam(i)
      BY <2>2 DEF BuildRange
    <3>2. \A x \in InsertNoDuplicated(tab[i], es) : Mine(x)
      BY <1>1, <3>1, InsertNoDuplicatedIs
    <3> QED BY <3>2, <1>2, <2>2 DEF BuildRange
  <2>3. CASE AssignRange(i, es)
    <3>1. Mine(Reset(i))
      BY <1>1, <2>3, ResetIs DEF AssignRange
    <3>2. \A x \in Assigned(i, es) : Mine(x)
      BY <1>1, <1>3, <3>1, InsertedIs DEF Assigned
    <3> QED BY <3>2, <1>2, <2>3 DEF AssignRange
  <2> QED BY <1>8, <2>1, <2>2, <2>3
<1>9. ASSUME NEW k \in policy.keys, Erase(i, k) PROVE Kept'
  <2>1. HasParam(i) /\ Built(tab[i])
    BY <1>9 DEF Erase, HasSlots, Built
  <2>2. Good(tab[i]) /\ tab[i].this = i /\ k \in AnyKey
    BY <2>1, <1>1, BuiltIsGood, SettingFacts
  <2>3. \A x \in {Erased(tab[i], k)} : Mine(x)
    BY <2>2, <1>1, ErasedIs DEF Whole
  <2> QED BY <2>3, <1>2, <1>9 DEF Erase
<1>10. ASSUME NEW count \in policy.counts, Rehash(i, count) \/ Reserve(i, count) PROVE Kept'
  <2>1. HasParam(i) /\ count \in Nat
    BY <1>1, <1>10, PolicyAssumption DEF Rehash, Reserve, Setting
  <2>2. CeilLoad(count, tab[i].load) \in Nat
    BY <2>1, <1>1, WholeIs, LoadType
  <2>3. \A n \in Nat : \A x \in rehash(tab[i], n) : Mine(x)
    BY <2>1, <1>1, RehashIs DEF Whole
  <2>4. CASE Rehash(i, count)
    BY <2>1, <2>3, <2>4, <1>2 DEF Rehash
  <2>5. CASE Reserve(i, count)
    BY <2>2, <2>3, <2>5, <1>2 DEF Reserve
  <2> QED BY <1>10, <2>4, <2>5
<1>11. ASSUME NEW load \in policy.loads, SetLoad(i, load) PROVE Kept'
  <2> DEFINE z == [tab[i] EXCEPT !.load = load, !.expand_at = ExpandAt(tab[i].ceil, load)]
  <2>1. HasParam(i) /\ Becomes(i, {z})
    BY <1>11 DEF SetLoad
  <2>2. Mine(z)
    BY <2>1, <1>1, SetLoadIs
  <2> HIDE DEF z
  <2> QED BY <2>1, <2>2, <1>2
<1> QED BY <1>4, <1>5, <1>6, <1>7, <1>8, <1>9, <1>10, <1>11

\* What is copied, moved or swapped is a table at its new place.
LEMMA AtIs ==
    ASSUME KeysApart, Kept, NEW i \in Object, NEW x \in Object, Live(x)
    PROVE  /\ MapAt(i, At(i, tab[x]))
           /\ \A z \in Copies(i, x) : MapAt(i, z)
<1>1. Setting
  BY KeptSetting
<1>2. CASE tab[x] = MovedFrom
  BY <1>2 DEF At, Copies, MapAt
<1>3. CASE tab[x] # MovedFrom
  <2>1. Whole(tab[x])
    BY <1>3 DEF Kept, Live, MapAt
  <2> QED BY <1>1, <1>3, <2>1, OwnedIs, CopiedIs DEF At, Copies, MapAt
<1> QED BY <1>2, <1>3

\* So do copies, moves and swaps.
LEMMA PairKept ==
    ASSUME KeysApart, Kept, NEW i \in policy.objects, NEW x \in policy.objects,
           CopyConstruct(i, x) \/ CopyAssign(i, x) \/ MoveConstruct(i, x) \/ Swap(i, x)
    PROVE  Kept'
<1>1. i \in Object /\ x \in Object
  BY KeptSetting
<1>2. CASE CopyConstruct(i, x) \/ CopyAssign(i, x)
  <2>1. Live(x) /\ Becomes(i, Copies(i, x))
    BY <1>2 DEF CopyConstruct, CopyAssign
  <2> QED BY <2>1, <1>1, AtIs, BecomesKept
<1>3. ASSUME NEW f, tab' = [j \in Object |-> f[j]], policy' = policy, \A j \in Object : MapAt(j, f[j]) PROVE Kept'
  <2>1. \A j \in Object : tab'[j] = f[j]
    BY <1>3
  <2>2. tab' = [j \in Object |-> tab'[j]]
    BY <1>3
  <2>3. \A j \in Object : MapAt(j, tab'[j])
    BY <1>3, <2>1
  <2>4. \A j \in Object : MapAt(j, tab[j])'
    BY <1>3, <2>3, Settled DEF MapAt
  <2> QED BY <1>3, <2>2, <2>4 DEF Kept
<1>4. CASE MoveConstruct(i, x)
  <2> DEFINE f == [tab EXCEPT ![i] = At(i, tab[x]), ![x] = MovedFrom]
  <2>1. Live(x) /\ i # x /\ tab' = f /\ policy' = policy
    BY <1>4 DEF MoveConstruct, Free
  <2>2. MapAt(i, At(i, tab[x])) /\ MapAt(x, MovedFrom)
    BY <2>1, <1>1, AtIs DEF MapAt
  <2>3. f = [j \in Object |-> f[j]] /\ \A j \in Object : MapAt(j, f[j])
    BY <2>1, <2>2, <1>1 DEF Kept
  <2> HIDE DEF f
  <2> QED BY <2>1, <2>3, <1>3
<1>5. CASE Swap(i, x)
  <2> DEFINE f == [tab EXCEPT ![i] = At(i, tab[x]), ![x] = At(x, tab[i])]
  <2>1. Live(x) /\ Live(i) /\ i # x /\ tab' = f /\ policy' = policy
    BY <1>5 DEF Swap
  <2>2. MapAt(i, At(i, tab[x])) /\ MapAt(x, At(x, tab[i]))
    BY <2>1, <1>1, AtIs
  <2>3. f = [j \in Object |-> f[j]] /\ \A j \in Object : MapAt(j, f[j])
    BY <2>1, <2>2, <1>1 DEF Kept
  <2> HIDE DEF f
  <2> QED BY <2>1, <2>3, <1>3
<1> QED BY <1>2, <1>4, <1>5

-----------------------------------------------------------------------------
(* The loop.                                                                 *)

\* Nothing is before begin().
LEMMA NoneBefore ==
    ASSUME Setting, NEW x, Good(x), x.begin \in Elements(x)
    PROVE  Before(x, x.begin) = {} /\ Cardinality(Before(x, x.begin)) = 0
<1>1. Sizes(x) /\ Filling(x)
  BY DEF Good
<1>2. \A q \in Elements(x) : Dist(x, q) \in Nat /\ Dist(x, x.begin) = 0
  BY <1>1, DistIs, ElementsIn
<1>3. Before(x, x.begin) = {}
  BY <1>2 DEF Before
<1> QED BY <1>3, FS_EmptySet

\* There is a table.
Slotted(x) == x # Dead /\ x # MovedFrom

\* A loop that has ended, or stands on an element of x.
LoopAt(x, p, cnt, seen) ==
    \/ p = NoSlot /\ (Slotted(x) => {x.slots[q].key : q \in Elements(x)} \subseteq seen)
    \/ /\ Slotted(x) /\ Good(x) /\ p \in Elements(x)
       /\ cnt = Cardinality(Before(x, p)) /\ KeysBefore(x, p) \subseteq seen

\* A step of the loop keeps the invariant if it leaves the loop on an element or at its end.
LEMMA LoopStepKept ==
    ASSUME Kept', policy' = policy, NEW i \in Object, NEW x, tab'[i] = x,
           NEW p, NEW cnt, NEW seen, loop' = [of |-> i, at |-> p, cnt |-> cnt, seen |-> seen],
           LoopAt(x, p, cnt, seen)
    PROVE  FphInv'
<1>1. loop' = [of |-> loop'.of, at |-> loop'.at, cnt |-> loop'.cnt, seen |-> loop'.seen]
      /\ loop'.of = i /\ loop'.at = p /\ loop'.cnt = cnt /\ loop'.seen = seen
  OBVIOUS
<1>2. Table' = x
  BY <1>1 DEF Table
<1>3. HasParam(loop.of)' <=> Slotted(x)
  BY <1>1 DEF HasParam, Slotted
<1>4. Good(Table)' <=> Good(x)
  BY <1>2, Settled
<1>5. KeysBefore(Table, loop.at)' = KeysBefore(x, p) /\ Before(Table, loop.at)' = Before(x, p)
      /\ Elements(Table)' = Elements(x)
  BY <1>1, <1>2 DEF KeysBefore, Before, Dist, Ahead, Elements
<1>6. {Table.slots[q].key : q \in Elements(Table)}' = {x.slots[q].key : q \in Elements(x)}
  BY <1>2 DEF Elements
<1>7. CASE p = NoSlot /\ (Slotted(x) => {x.slots[q].key : q \in Elements(x)} \subseteq seen)
  BY <1>1, <1>3, <1>6, <1>7 DEF FphInv, LoopKept
<1>8. CASE /\ Slotted(x) /\ Good(x) /\ p \in Elements(x)
           /\ cnt = Cardinality(Before(x, p)) /\ KeysBefore(x, p) \subseteq seen
  BY <1>1, <1>3, <1>4, <1>5, <1>8 DEF FphInv, LoopKept
<1> QED BY <1>7, <1>8 DEF LoopAt

\* begin() is the first element: there is none that the loop has missed.
LEMMA BeginKept ==
    ASSUME KeysApart, FphInv, NEW i \in policy.objects, Begin(i)
    PROVE  FphInv'
<1>1. Setting /\ Kept /\ i \in Object /\ tab' = tab /\ policy' = policy /\ Live(i)
      /\ loop' = [of |-> i, at |-> begin(i), cnt |-> 0, seen |-> {}]
  BY KeptSetting DEF FphInv, Begin
<1>2. Kept'
  BY <1>1, Settled DEF Kept, MapAt
<1>3. LoopAt(tab[i], begin(i), 0, {})
  <2>1. CASE ~ HasParam(i)
    BY <2>1 DEF LoopAt, Slotted, HasParam, begin
  <2>2. CASE HasParam(i) /\ Elements(tab[i]) = {}
    <3>1. Whole(tab[i]) /\ begin(i) = tab[i].begin
      BY <1>1, <2>2, KeptSetting DEF begin
    <3>2. begin(i) = NoSlot
      BY <3>1, <2>2 DEF Whole, Good, Records, Starts, Unbuilt
    <3> QED BY <3>2, <2>2 DEF LoopAt
  <2>3. CASE HasParam(i) /\ Elements(tab[i]) # {}
    <3>1. Whole(tab[i]) /\ begin(i) = tab[i].begin
      BY <1>1, <2>3, KeptSetting DEF begin
    <3>2. Good(tab[i])
      BY <3>1, <2>3, <1>1, WholeIs DEF Whole
    <3>3. tab[i].begin \in Elements(tab[i])
      BY <3>2, <2>3 DEF Good, Records, Starts
    <3>4. Before(tab[i], begin(i)) = {} /\ Cardinality(Before(tab[i], begin(i))) = 0
      BY <3>1, <3>2, <3>3, <1>1, NoneBefore
    <3> QED BY <3>1, <3>2, <3>3, <3>4, <2>3 DEF LoopAt, KeysBefore, Slotted, HasParam
  <2> QED BY <2>1, <2>2, <2>3
<1> QED BY <1>1, <1>2, <1>3, LoopStepKept

\* Where a loop stands, its table is well kept.
LEMMA StandingIs ==
    ASSUME FphInv, Standing
    PROVE  /\ loop = [of |-> loop.of, at |-> loop.at, cnt |-> loop.cnt, seen |-> loop.seen]
           /\ loop.of \in Object /\ HasParam(loop.of) /\ Good(Table) /\ loop.at \in Elements(Table)
           /\ loop.cnt = Cardinality(Before(Table, loop.at))
           /\ KeysBefore(Table, loop.at) \subseteq loop.seen
BY DEF FphInv, Standing, LoopKept

\* ++ goes on to the nearest element that is left, and ends the loop after the last.
LEMMA AdvanceKept ==
    ASSUME KeysApart, FphInv, Advance
    PROVE  FphInv'
<1> DEFINE x == Table
           p == loop.at
           q == Advanced(x, p, loop.cnt)
           seen == loop.seen \cup {x.slots[p].key}
<1>1. Setting /\ Kept /\ tab' = tab /\ policy' = policy /\ Standing
      /\ loop' = [loop EXCEPT !.at = q, !.cnt = @ + 1, !.seen = @ \cup {x.slots[p].key}]
  BY KeptSetting DEF FphInv, Advance
<1>2. Kept'
  BY <1>1, Settled DEF Kept, MapAt
<1>3. /\ loop = [of |-> loop.of, at |-> loop.at, cnt |-> loop.cnt, seen |-> loop.seen]
      /\ loop.of \in Object /\ HasParam(loop.of) /\ Good(x) /\ p \in Elements(x)
      /\ loop.cnt = Cardinality(Before(x, p)) /\ KeysBefore(x, p) \subseteq loop.seen
  BY <1>1, StandingIs
<1>4. tab'[loop.of] = x
  BY <1>1 DEF Table
<1>5. Slotted(x)
  BY <1>3 DEF HasParam, Table, Slotted
<1> HIDE DEF x, p, q
<1>6. loop' = [of |-> loop.of, at |-> q, cnt |-> loop.cnt + 1, seen |-> seen]
  BY <1>1, <1>3
<1>7. x.begin \in Elements(x)
  BY <1>3 DEF Good, Records, Starts
<1>8. IF loop.cnt + 1 >= x.item_num THEN q = NoSlot /\ Elements(x) = Before(x, p) \cup {p}
      ELSE /\ q \in Elements(x) /\ Before(x, q) = Before(x, p) \cup {p}
           /\ Cardinality(Before(x, q)) = loop.cnt + 1
  BY <1>1, <1>3, <1>7, AdvanceIs DEF Good, q
<1>9. {x.slots[r].key : r \in Before(x, p) \cup {p}} \subseteq seen
  BY <1>3 DEF KeysBefore
<1>10. LoopAt(x, q, loop.cnt + 1, seen)
  BY <1>3, <1>5, <1>8, <1>9 DEF LoopAt, KeysBefore
<1> HIDE DEF seen
<1> QED BY <1>1, <1>2, <1>3, <1>4, <1>6, <1>10, LoopStepKept

\* erase(it) returns the table's new begin(): the loop starts over on what is left.
LEMMA EraseHereKept ==
    ASSUME KeysApart, FphInv, EraseHere
    PROVE  FphInv'
<1> DEFINE x == EraseAt(Table, loop.at)
           i == loop.of
<1>1. Setting /\ Kept /\ policy' = policy /\ Standing
      /\ tab' = [tab EXCEPT ![i] = x] /\ loop' = [loop EXCEPT !.at = x.begin, !.cnt = 0, !.seen = {}]
  BY KeptSetting DEF FphInv, EraseHere
<1>2. /\ loop = [of |-> loop.of, at |-> loop.at, cnt |-> loop.cnt, seen |-> loop.seen]
      /\ i \in Object /\ HasParam(i) /\ Good(Table) /\ loop.at \in Elements(Table)
  BY <1>1, StandingIs
<1>3. Good(x) /\ x.this = i
  BY <1>1, <1>2, EraseIs, KeptSetting DEF Table
<1> HIDE DEF x, i
<1>4. Kept'
  <2>1. \A j \in Object : MapAt(j, tab'[j])
    BY <1>1, <1>2, <1>3 DEF Kept, MapAt, Whole
  <2>2. \A j \in Object : MapAt(j, tab[j])'
    BY <1>1, <2>1, Settled DEF MapAt
  <2>3. tab' = [j \in Object |-> tab'[j]]
    BY <1>1 DEF Kept
  <2> QED BY <1>1, <2>2, <2>3 DEF Kept
<1>5. loop' = [of |-> i, at |-> x.begin, cnt |-> 0, seen |-> {}]
  BY <1>1, <1>2 DEF i
<1>6. tab'[i] = x
  BY <1>1, <1>2 DEF Kept
<1>7. Slotted(x)
  BY <1>1, <1>3, WholeIsMap DEF Whole, Slotted
<1>8. LoopAt(x, x.begin, 0, {})
  <2>1. CASE x.begin = NoSlot /\ Elements(x) = {}
    BY <2>1 DEF LoopAt
  <2>2. CASE x.begin \in Elements(x)
    BY <1>1, <1>3, <1>7, <2>2, NoneBefore DEF KeysBefore, LoopAt
  <2> QED BY <1>3, <2>1, <2>2 DEF Good, Records, Starts
<1> QED BY <1>1, <1>2, <1>4, <1>5, <1>6, <1>8, LoopStepKept

\* Every step keeps the invariant: calls are made where no loop is under way.
LEMMA StepKept ==
    ASSUME KeysApart, FphInv, [Next]_vars
    PROVE  FphInv'
<1>1. ASSUME loop = Idle, Kept', loop' = loop PROVE FphInv'
  BY <1>1 DEF FphInv, LoopKept
<1>2. ASSUME NEW i \in policy.objects, loop = Idle,
             \/ Construct(i) \/ Clear(i) \/ Destroy(i)
             \/ \E k \in policy.keys, v \in Value : Emplace(i, k, v) \/ Subscript(i, k, v)
             \/ \E es \in policy.ranges : InsertRange(i, es) \/ BuildRange(i, es) \/ AssignRange(i, es)
             \/ \E k \in policy.keys : Erase(i, k)
             \/ \E count \in policy.counts : Rehash(i, count) \/ Reserve(i, count)
             \/ \E load \in policy.loads : SetLoad(i, load)
      PROVE  FphInv'
  <2>1. Kept'
    BY <1>2, CallKept DEF FphInv
  <2>2. loop' = loop
    BY <1>2 DEF Construct, Clear, Destroy, Emplace, Subscript, InsertRange, BuildRange, AssignRange,
                Erase, Rehash, Reserve, SetLoad, Becomes
  <2> QED BY <2>1, <2>2, <1>1, <1>2
<1>3. ASSUME NEW i \in policy.objects, NEW x \in policy.objects, loop = Idle,
             CopyConstruct(i, x) \/ CopyAssign(i, x) \/ MoveConstruct(i, x) \/ Swap(i, x)
      PROVE  FphInv'
  <2>1. Kept'
    BY <1>3, PairKept DEF FphInv
  <2>2. loop' = loop
    BY <1>3 DEF CopyConstruct, CopyAssign, MoveConstruct, Swap, Becomes
  <2> QED BY <2>1, <2>2, <1>1, <1>3
<1>4. ASSUME tab' = tab, policy' = policy, loop' = Idle \/ loop' = loop PROVE FphInv'
  <2>1. Kept'
    BY <1>4, Settled DEF FphInv, Kept, MapAt
  <2>2. CASE loop' = Idle
    BY <2>1, <2>2 DEF FphInv, LoopKept, Idle
  <2>3. CASE loop' = loop /\ loop # Idle
    <3>1. LoopAt(tab[loop.of], loop.at, loop.cnt, loop.seen)
          /\ loop = [of |-> loop.of, at |-> loop.at, cnt |-> loop.cnt, seen |-> loop.seen] /\ loop.of \in Object
      BY <2>3 DEF FphInv, LoopKept, LoopAt, Slotted, HasParam, Table
    <3> QED BY <3>1, <2>1, <2>3, <1>4, LoopStepKept
  <2> QED BY <1>4, <2>2, <2>3
<1>5. CASE End
  BY <1>4, <1>5 DEF End
<1>6. CASE UNCHANGED vars
  BY <1>4, <1>6 DEF vars
<1>7. CASE \E i \in policy.objects : Begin(i)
  BY <1>7, BeginKept
<1> QED BY <1>2, <1>3, <1>5, <1>6, <1>7, AdvanceKept, EraseHereKept DEF Next

-----------------------------------------------------------------------------
(* What the invariant says of a table.                                       *)

\* The lemmas apply to every table.
LEMMA TablesWhole ==
    ASSUME KeysApart, Kept, NEW x \in Tables
    PROVE  Setting /\ Whole(x)
BY KeptSetting DEF Tables

\* A map's contents are its store, and size() is their number.
LEMMA ContentsIs ==
    ASSUME Setting, NEW x, Whole(x)
    PROVE  /\ Contents(x) = {<<e.key, e.value>> : e \in Store(x)}
           /\ IsFiniteSet(Contents(x)) /\ Cardinality(Contents(x)) = x.item_num
<1>1. Contents(x) = {<<e.key, e.value>> : e \in Store(x)}
  BY DEF Contents, Store
<1>2. Entry(Store(x)) /\ x.item_num = Cardinality(Store(x))
  BY WholeIs
<1>3. IsFiniteSet(Contents(x)) /\ Cardinality(Contents(x)) = Cardinality(Store(x))
  <2> DEFINE f == [e \in Store(x) |-> <<e.key, e.value>>]
  <2>1. f \in Bijection(Store(x), Contents(x))
    BY <1>1, <1>2 DEF Bijection, Injection, Surjection, IsInjective, Entry
  <2>2. ExistsBijection(Store(x), Contents(x))
    BY <2>1 DEF ExistsBijection
  <2> QED BY <2>2, <1>2, FS_Bijection DEF Entry
<1> QED BY <1>1, <1>2, <1>3

\* The invariant implies TypeOK.
LEMMA TypesHold == KeysApart /\ FphInv => TypeOK
<1> SUFFICES ASSUME KeysApart, FphInv PROVE TypeOK
  OBVIOUS
<1>1. Kept /\ policy \in Policies /\ loop.of \in Object \cup {Dead}
  BY DEF FphInv, Kept, LoopKept, Idle
<1>2. ASSUME NEW x \in Tables
      PROVE  /\ x \in FphTable(x.ceil, Cardinality(DOMAIN x.bucket), x.bucket_block)
             /\ Built(x) =>
                  /\ x.ceil \in Ceils /\ InitCeil <= x.ceil /\ x.ceil <= policy.max_ceil
                  /\ x.seed \in policy.seeds
                  /\ x.home \in DOMAIN x.slots
  <2>1. Setting /\ Whole(x)
    BY <1>1, TablesWhole
  <2>2. x \in FphTable(x.ceil, Cardinality(DOMAIN x.bucket), x.bucket_block)
    BY <2>1, WholeType
  <2>3. ASSUME Built(x)
        PROVE  /\ x.ceil \in Ceils /\ InitCeil <= x.ceil /\ x.ceil <= policy.max_ceil
               /\ x.seed \in policy.seeds /\ x.home \in DOMAIN x.slots
    <3>1. Sizes(x) /\ Filling(x)
      BY <2>1, <2>3, BuiltIsGood DEF Good
    <3>2. x.home \in DOMAIN x.slots
      <4>1. x.default \in AnyKey
        BY <2>1, <3>1, SettingFacts DEF Filling
      <4>2. GetSlotPos(x, x.default) \in 0 .. x.ceil - 1
        BY <2>1, <3>1, <4>1, PlaceIn
      <4> QED BY <3>1, <4>2 DEF Filling
    <3> QED BY <3>1, <3>2 DEF Sizes
  <2> QED BY <2>2, <2>3
<1> QED BY <1>1, <1>2 DEF TypeOK

\* What tells an element from an empty slot, the filled slots and the buckets agree.
LEMMA RecordsHold == KeysApart /\ FphInv => RecordsAgree
<1> SUFFICES ASSUME KeysApart, FphInv PROVE RecordsAgree
  OBVIOUS
<1>1. ASSUME NEW x \in Tables
      PROVE  /\ DestroySlots(x) = Elements(x) /\ x.filled = Elements(x)
             /\ \A b \in DOMAIN x.bucket :
                  x.bucket[b] = {p \in Elements(x) : BucketOf(x, x.slots[p].key) = b}
  <2>1. Setting /\ Whole(x)
    BY <1>1, TablesWhole DEF FphInv
  <2>2. CASE Good(x)
    <3>1. Sizes(x) /\ Filling(x) /\ Books(x)
      BY <2>2 DEF Good, Records
    <3>2. \A p \in 0 .. x.ceil - 1 : p \in Elements(x) <=> ~ IsSlotEmpty(x, p)
      BY <2>1, <3>1, SlotIs
    <3>3. DOMAIN x.slots = 0 .. x.ceil - 1
      BY <3>1 DEF Filling
    <3>4. DestroySlots(x) = Elements(x)
      BY <3>2, <3>3 DEF DestroySlots, Elements
    <3>5. ASSUME NEW b \in DOMAIN x.bucket
          PROVE  x.bucket[b] = {p \in Elements(x) : BucketOf(x, x.slots[p].key) = b}
      BY <2>1, <3>1, MovingIs
    <3> QED BY <3>1, <3>4, <3>5 DEF Books
  <2>3. CASE Unbuilt(x)
    <3>1. DOMAIN x.slots = {} /\ DOMAIN x.bucket = {} /\ x.filled = {}
      BY <2>3 DEF Unbuilt
    <3> QED BY <3>1 DEF DestroySlots, Elements
  <2> QED BY <2>1, <2>2, <2>3 DEF Whole
<1> QED BY <1>1 DEF RecordsAgree, EmptyIsUnused, BucketsTrack

\* A look-up is one probe: it hits the key's element, or a default key or another's.
LEMMA LookUpsHold == KeysApart /\ FphInv => LookUpsExact
<1> SUFFICES ASSUME KeysApart, FphInv, NEW x \in Tables, Built(x)
             PROVE  /\ x.home = GetSlotPos(x, x.default) /\ GetSlotPos(x, x.second) # x.home
                    /\ \A k \in AnyKey :
                         LET p == find(x, k)
                             q == equal_range(x, k)[2]
                         IN  IF \E e \in Elements(x) : x.slots[e].key = k
                             THEN /\ p \in Elements(x) /\ x.slots[p].key = k
                                  /\ at(x, k) = x.slots[p].value
                                  /\ q \in (Elements(x) \cup {NoSlot}) \ {p}
                             ELSE p = NoSlot /\ q = NoSlot /\ at(x, k) = NoValue
  BY DEF LookUpsExact, FindExact, DefaultsApart
<1>1. Setting /\ Good(x)
  BY TablesWhole, BuiltIsGood DEF FphInv
<1>2. Sizes(x) /\ Filling(x)
  BY <1>1 DEF Good
<1>3. ASSUME NEW k \in AnyKey
      PROVE  LET p == find(x, k)
                 q == equal_range(x, k)[2]
             IN  IF \E e \in Elements(x) : x.slots[e].key = k
                 THEN /\ p \in Elements(x) /\ x.slots[p].key = k
                      /\ at(x, k) = x.slots[p].value
                      /\ q \in (Elements(x) \cup {NoSlot}) \ {p}
                 ELSE p = NoSlot /\ q = NoSlot /\ at(x, k) = NoValue
  <2>1. CASE Contains(x, k)
    <3> DEFINE p == GetSlotPos(x, k)
    <3>1. p \in Elements(x) /\ x.slots[p].key = k
      BY <1>1, <1>2, <2>1, FindIs
    <3>2. p \in 0 .. x.ceil - 1 /\ x.ceil \in Nat /\ p # NoSlot
      <4> HIDE DEF p
      <4> QED BY <1>2, <3>1, ElementsIn DEF NoSlot
    <3>3. find(x, k) = p /\ at(x, k) = x.slots[p].value
      BY <2>1 DEF find, at, GetPointerNoCheck, Contains
    <3>4. equal_range(x, k) = <<p, Advanced(x, p, 0)>>
      BY <3>2, <3>3 DEF equal_range
    <3> HIDE DEF p
    <3>5. Advanced(x, p, 0) \in (Elements(x) \cup {NoSlot}) \ {p}
      <4>1. Advanced(x, p, 0) = NoSlot \/ Advanced(x, p, 0) = GetNextSlot(x, p)
        BY DEF Advanced
      <4>2. GetNextSlot(x, p) = NoSlot \/ GetNextSlot(x, p) \in Elements(x) \ {p}
        BY <1>1, <1>2, <3>2, NextIs
      <4> QED BY <4>1, <4>2, <3>2
    <3> QED BY <3>1, <3>3, <3>4, <3>5
  <2>2. CASE ~ Contains(x, k)
    <3>1. ~ \E e \in Elements(x) : x.slots[e].key = k
      BY <1>1, <1>2, <2>2, FindIs
    <3>2. find(x, k) = NoSlot /\ at(x, k) = NoValue
      BY <2>2 DEF find, at, GetPointerNoCheck, Contains
    <3>3. equal_range(x, k) = <<NoSlot, NoSlot>>
      BY <3>2 DEF equal_range
    <3> QED BY <3>1, <3>2, <3>3
  <2> QED BY <2>1, <2>2
<1> QED BY <1>2, <1>3 DEF Filling

\* A walk of size() steps from begin() visits the elements.
LEMMA WalksHold == KeysApart /\ FphInv => WalkVisitsAll
<1> SUFFICES ASSUME KeysApart, FphInv PROVE WalkVisitsAll
  OBVIOUS
<1>1. \A x \in Tables : Walk(x) = Elements(x)
  BY TablesWhole, WholeIs DEF FphInv
<1>2. ASSUME NEW i \in Object, Live(i)
      PROVE  size(i) = Cardinality(ContentsOf(i)) /\ (begin(i) = NoSlot <=> size(i) = 0)
  <2>1. CASE ~ HasParam(i)
    <3>1. ContentsOf(i) = {} /\ size(i) = 0 /\ begin(i) = NoSlot
      BY <1>2, <2>1 DEF ContentsOf, size, begin, HasParam, Live
    <3> QED BY <3>1, FS_EmptySet
  <2>2. CASE HasParam(i)
    <3> DEFINE x == tab[i]
    <3>1. Setting /\ Whole(x)
      BY <2>2, KeptSetting DEF FphInv
    <3>2. ContentsOf(i) = Contents(x) /\ size(i) = x.item_num /\ begin(i) = x.begin
      BY <2>2 DEF ContentsOf, size, begin, HasParam
    <3> HIDE DEF x
    <3>3. size(i) = Cardinality(ContentsOf(i))
      BY <3>1, <3>2, ContentsIs
    <3>4. x.begin = NoSlot <=> x.item_num = 0
      <4>1. CASE Good(x)
        <5>1. Starts(x) /\ x.item_num = Cardinality(Elements(x)) /\ Sizes(x) /\ Filling(x)
          BY <4>1 DEF Good, Records, Books
        <5>2. Elements(x) \subseteq 0 .. x.ceil - 1 /\ IsFiniteSet(Elements(x)) /\ x.ceil \in Nat
          BY <5>1, ElementsIn
        <5>3. x.item_num = 0 <=> Elements(x) = {}
          BY <5>1, <5>2, FS_EmptySet
        <5>4. NoSlot \notin Elements(x)
          BY <5>2 DEF NoSlot
        <5> QED BY <5>1, <5>3, <5>4 DEF Starts
      <4>2. CASE Unbuilt(x)
        BY <4>2 DEF Unbuilt
      <4> QED BY <3>1, <4>1, <4>2 DEF Whole
    <3> QED BY <3>2, <3>3, <3>4
  <2> QED BY <2>1, <2>2
<1> QED BY <1>1, <1>2 DEF WalkVisitsAll

\* The arrays are as long as is recorded, and begin() is the map's own.
LEMMA PartsHold == KeysApart /\ FphInv => PartsMatch
<1> SUFFICES ASSUME KeysApart, FphInv PROVE PartsMatch
  OBVIOUS
<1>1. ASSUME NEW x \in Tables
      PROVE  /\ x.slot_block \in {x.slot_capacity, NoBlock} /\ x.ceil <= x.slot_capacity
             /\ x.bucket_block \in {x.bucket_capacity, NoBlock}
             /\ Cardinality(DOMAIN x.bucket) <= x.bucket_capacity
  <2>1. Setting /\ Whole(x)
    BY <1>1, TablesWhole DEF FphInv
  <2>2. CASE Good(x)
    <3>1. Sizes(x)
      BY <2>2 DEF Good
    <3>2. PICK num \in Ceils : num <= x.bucket_capacity /\ DOMAIN x.bucket = 0 .. num - 1
      BY <3>1 DEF Sizes
    <3>3. Cardinality(DOMAIN x.bucket) = num
      BY <3>2, CeilsType, FS_Interval
    <3> QED BY <3>1, <3>2, <3>3 DEF Sizes
  <2>3. CASE Unbuilt(x)
    <3>1. Cardinality(DOMAIN x.bucket) = 0
      BY <2>3, FS_EmptySet DEF Unbuilt
    <3> QED BY <2>3, <3>1 DEF Unbuilt
  <2> QED BY <2>1, <2>2, <2>3 DEF Whole
<1>2. ASSUME NEW i \in Object, HasParam(i) PROVE tab[i].begin_of = i
  <2>1. Whole(tab[i]) /\ tab[i].this = i
    BY <1>2, KeptSetting DEF FphInv
  <2> QED BY <2>1 DEF Whole, Good, Unbuilt, Own
<1> QED BY <1>1, <1>2 DEF PartsMatch, BlocksMatch, BeginsAreOwn

\* A loop ends when it has seen what is left.
LEMMA LoopsHold == KeysApart /\ FphInv => LoopSeesAll
<1> SUFFICES ASSUME KeysApart, FphInv, loop # Idle, HasParam(loop.of)
             PROVE  IF loop.at = NoSlot THEN {Table.slots[p].key : p \in Elements(Table)} \subseteq loop.seen
                    ELSE loop.at \in Elements(Table) /\ loop.cnt < Table.item_num
  BY DEF LoopSeesAll
<1>1. CASE loop.at = NoSlot
  <2>1. ASSUME Good(Table) PROVE loop.at \notin Elements(Table)
    <3>1. Elements(Table) \subseteq 0 .. Table.ceil - 1 /\ Table.ceil \in Nat
      BY <2>1, ElementsIn DEF Good
    <3> QED BY <1>1, <3>1 DEF NoSlot
  <2> QED BY <1>1, <2>1 DEF FphInv, LoopKept
<1>2. CASE loop.at # NoSlot
  <2>1. Good(Table) /\ loop.at \in Elements(Table) /\ loop.cnt = Cardinality(Before(Table, loop.at))
    BY <1>2 DEF FphInv, LoopKept
  <2>2. Setting
    BY KeptSetting DEF FphInv
  <2>3. Table.begin \in Elements(Table) /\ Sizes(Table) /\ Filling(Table) /\ Records(Table)
    BY <2>1 DEF Good, Records, Starts
  <2>4. loop.cnt < Table.item_num
    BY <2>1, <2>2, <2>3, AdvanceIs
  <2> QED BY <1>2, <2>1, <2>4
<1> QED BY <1>1, <1>2

-----------------------------------------------------------------------------
(* What calls do to the contents.                                            *)

\* A store as a map's contents.
Pairs(S) == {<<e.key, e.value>> : e \in S}

\* What is left of a store, or of contents, without a key.
Without(S, k) == {e \in S : e.key # k}
Dropped(E, k) == {e \in E : e[1] # k}

\* To drop a key from the contents is to take its element from the store.
LEMMA PairsBut ==
    ASSUME NEW S, NEW k
    PROVE  Pairs(Without(S, k)) = Dropped(Pairs(S), k)
<1>1. \A e \in S : <<e.key, e.value>>[1] = e.key
  OBVIOUS
<1>2. \A p : p \in Dropped(Pairs(S), k) <=> p \in Pairs(Without(S, k))
  BY <1>1 DEF Pairs, Without, Dropped
<1> QED BY <1>2

\* The keys of the contents are those of the store.
LEMMA PairsIs ==
    ASSUME Setting, NEW S, S \subseteq Item
    PROVE  /\ Pairs(S) \subseteq Key \X Value
           /\ \A k : k \in Maps!KeysOf(Pairs(S)) <=> \E e \in S : e.key = k
<1>1. Pairs(S) \subseteq Key \X Value
  BY SettingFacts DEF Pairs, Item
<1>3. \A k : k \in Maps!KeysOf(Pairs(S)) <=> \E e \in S : e.key = k
  <2>1. ASSUME NEW k, NEW e \in S, e.key = k PROVE k \in Maps!KeysOf(Pairs(S))
    <3>1. <<e.key, e.value>> \in Pairs(S) /\ <<e.key, e.value>>[1] = k
      BY <2>1 DEF Pairs
    <3> QED BY <3>1 DEF Maps!KeysOf
  <2>2. ASSUME NEW k \in Maps!KeysOf(Pairs(S)) PROVE \E e \in S : e.key = k
    <3>1. PICK y \in Pairs(S) : y[1] = k
      BY <2>2 DEF Maps!KeysOf
    <3>2. PICK e \in S : y = <<e.key, e.value>>
      BY DEF Pairs
    <3> QED BY <3>1, <3>2
  <2> QED BY <2>1, <2>2
<1> QED BY <1>1, <1>3

\* To join a range to a store is to insert its entries into the contents.
LEMMA JoinedPairs ==
    ASSUME Setting, NEW S, S \subseteq Item, NEW es, Ranged(es)
    PROVE  /\ Pairs(Joined(S, es)) = Maps!With(Pairs(S), Entries(es))
           /\ Pairs(Joined({}, es)) = Entries(es)
<1> DEFINE new == {n \in DOMAIN es : \A f \in S : f.key # es[n].key}
<1>1. Pairs(Joined(S, es)) = Pairs(S) \cup {<<es[n].key, es[n].value>> : n \in new}
  BY DEF Pairs, Joined
<1>2. \A n \in DOMAIN es : n \in new <=> es[n].key \notin Maps!KeysOf(Pairs(S))
  BY PairsIs
<1>3. {e \in Entries(es) : e[1] \notin Maps!KeysOf(Pairs(S))} = {<<es[n].key, es[n].value>> : n \in new}
  <2>1. \A n : <<es[n].key, es[n].value>>[1] = es[n].key
    OBVIOUS
  <2>2. new \subseteq DOMAIN es
    OBVIOUS
  <2> HIDE DEF new
  <2>3. ASSUME NEW e \in Entries(es), e[1] \notin Maps!KeysOf(Pairs(S))
        PROVE  e \in {<<es[n].key, es[n].value>> : n \in new}
    <3>1. PICK n \in DOMAIN es : e = <<es[n].key, es[n].value>>
      BY DEF Entries
    <3> QED BY <3>1, <2>1, <2>3, <1>2
  <2>4. ASSUME NEW n \in new
        PROVE  <<es[n].key, es[n].value>> \in Entries(es) /\ <<es[n].key, es[n].value>>[1] \notin Maps!KeysOf(Pairs(S))
    BY <2>1, <2>2, <1>2 DEF Entries
  <2> QED BY <2>3, <2>4
<1>4. Pairs(Joined({}, es)) = Entries(es)
  BY DEF Pairs, Joined, Entries
<1> QED BY <1>1, <1>3, <1>4 DEF Maps!With

\* What a map holds are pairs of keys and values.
LEMMA StoreOf ==
    ASSUME Setting, NEW x, Whole(x)
    PROVE  Store(x) \subseteq Item /\ Contents(x) = Pairs(Store(x)) /\ Contents(x) \subseteq Key \X Value
<1>1. Store(x) \subseteq Item /\ Contents(x) = Pairs(Store(x))
  BY WholeIs, ContentsIs DEF Entry, Pairs
<1> QED BY <1>1, PairsIs

\* Erasing, inserting, assigning and copying do to the contents what they say.
LEMMA CallsHold == KeysApart /\ FphInv => CallsAreTrue
<1> SUFFICES ASSUME KeysApart, FphInv, NEW i \in Object, Live(i)
             PROVE  /\ HasSlots(i) => \A k \in policy.keys :
                         Contents(Erased(tab[i], k)) = {e \in ContentsOf(i) : e[1] # k}
                    /\ \A es \in policy.ranges :
                         /\ \A x \in Assigned(i, es) : Contents(x) = Entries(es)
                         /\ HasParam(i) => \A x \in Inserted(tab[i], es) :
                                             Contents(x) = Maps!With(ContentsOf(i), Entries(es))
                    /\ \A o \in Object : HasParam(o) =>
                         \A x \in Copies(i, o) : Contents(x) = ContentsOf(o)
  BY DEF CallsAreTrue
<1>1. Setting /\ Kept /\ policy.keys \subseteq Callers /\ Callers \subseteq AnyKey
  BY KeptSetting, SettingFacts DEF FphInv
<1>2. ASSUME NEW j \in Object, HasParam(j)
      PROVE  Whole(tab[j]) /\ ContentsOf(j) = Pairs(Store(tab[j])) /\ Store(tab[j]) \subseteq Item
  <2>1. Whole(tab[j]) /\ ContentsOf(j) = Contents(tab[j])
    BY <1>1, <1>2, KeptSetting DEF ContentsOf, HasParam
  <2> QED BY <2>1, <1>1, StoreOf
<1>3. ASSUME HasSlots(i), NEW k \in policy.keys
      PROVE  Contents(Erased(tab[i], k)) = {e \in ContentsOf(i) : e[1] # k}
  <2>1. HasParam(i) /\ Built(tab[i])
    BY <1>3 DEF HasSlots, Built
  <2>2. Good(tab[i]) /\ k \in AnyKey
    BY <2>1, <1>1, <1>2, BuiltIsGood
  <2>3. Whole(Erased(tab[i], k)) /\ Store(Erased(tab[i], k)) = {e \in Store(tab[i]) : e.key # k}
    BY <2>2, <1>1, ErasedIs DEF Whole
  <2>4. Contents(Erased(tab[i], k)) = Pairs({e \in Store(tab[i]) : e.key # k})
    BY <2>3, <1>1, StoreOf
  <2>5. ContentsOf(i) = Pairs(Store(tab[i])) /\ Store(tab[i]) \subseteq Item
    BY <2>1, <1>2
  <2>6. Pairs(Without(Store(tab[i]), k)) = Dropped(ContentsOf(i), k)
    BY <2>5, PairsBut
  <2> QED BY <2>4, <2>6 DEF Without, Dropped
<1>4. ASSUME NEW es \in policy.ranges, NEW x \in Assigned(i, es) PROVE Contents(x) = Entries(es)
  <2>1. Ranged(es) /\ Whole(Reset(i)) /\ Store(Reset(i)) = {}
    BY <1>1, ResetIs, RangedIs
  <2>2. Whole(x) /\ Store(x) = Joined({}, es)
    BY <2>1, <1>1, InsertedIs DEF Assigned
  <2>3. Contents(x) = Pairs(Joined({}, es))
    BY <2>2, <1>1, StoreOf
  <2> QED BY <2>1, <2>3, <1>1, JoinedPairs
<1>5. ASSUME NEW es \in policy.ranges, HasParam(i), NEW x \in Inserted(tab[i], es)
      PROVE  Contents(x) = Maps!With(ContentsOf(i), Entries(es))
  <2>1. Ranged(es) /\ Whole(tab[i]) /\ Store(tab[i]) \subseteq Item
    BY <1>1, <1>2, <1>5, RangedIs
  <2>2. Whole(x) /\ Store(x) = Joined(Store(tab[i]), es)
    BY <2>1, <1>1, InsertedIs
  <2>3. Contents(x) = Pairs(Joined(Store(tab[i]), es))
    BY <2>2, <1>1, StoreOf
  <2>4. Contents(x) = Maps!With(Pairs(Store(tab[i])), Entries(es))
    BY <2>1, <2>3, <1>1, JoinedPairs
  <2> QED BY <2>4, <1>2, <1>5
<1>6. ASSUME NEW o \in Object, HasParam(o), NEW x \in Copies(i, o) PROVE Contents(x) = ContentsOf(o)
  <2>1. x \in Copied(i, tab[o])
    BY <1>6 DEF Copies, HasParam
  <2>2. Whole(tab[o]) /\ ContentsOf(o) = Pairs(Store(tab[o]))
    BY <1>2, <1>6
  <2>3. Whole(x) /\ Store(x) = Store(tab[o])
    BY <2>1, <2>2, <1>1, CopiedIs
  <2> QED BY <2>2, <2>3, <1>1, StoreOf
<1> QED BY <1>3, <1>4, <1>5, <1>6

-----------------------------------------------------------------------------
(* The theorems.  Their hypothesis is that key_gen_ returns no key that a     *)
(* caller stores.                                                            *)

\* Every state a program can reach by calls and loops over maps satisfies the invariant:
\* each table is well kept, and each loop has seen what it has passed.
THEOREM FphSafety == KeysApart => (Spec => []FphInv)
<1> SUFFICES ASSUME KeysApart PROVE Spec => []FphInv
  OBVIOUS
<1>1. FphInv /\ [Next]_vars => FphInv'
  BY StepKept
<1> QED BY <1>1, InitKept, PTL DEF Spec

\* Build and every call leave tables of the right types: numbers of slots that are
\* powers of two within the limits, seeds that were drawn, slots for the default keys.
THEOREM TypeCorrect == KeysApart => (Spec => []TypeOK)
<1> SUFFICES ASSUME KeysApart PROVE Spec => []TypeOK
  OBVIOUS
<1>1. FphInv => TypeOK
  BY TypesHold
<1> QED BY <1>1, FphSafety, PTL

\* The objects in the slots, IsSlotEmpty, random_table_ and the buckets never disagree
\* on what is in use, through every relocation, rebuild, copy and move: the destructor
\* destroys each element once and nothing else.
THEOREM RecordsNeverPart == KeysApart => (Spec => []RecordsAgree)
<1> SUFFICES ASSUME KeysApart PROVE Spec => []RecordsAgree
  OBVIOUS
<1>1. FphInv => RecordsAgree
  BY RecordsHold
<1> QED BY <1>1, FphSafety, PTL

\* find, at, contains and equal_range hit exactly the keys that are stored, and never a
\* default key or the remains of a moved element.
THEOREM LookUpsAreExact == KeysApart => (Spec => []LookUpsExact)
<1> SUFFICES ASSUME KeysApart PROVE Spec => []LookUpsExact
  OBVIOUS
<1>1. FphInv => LookUpsExact
  BY LookUpsHold
<1> QED BY <1>1, FphSafety, PTL

\* From wherever the last call left begin(), iteration visits each element once and
\* stops, so rehash and the rebuild lose none.
THEOREM WalksAreWhole == KeysApart => (Spec => []WalkVisitsAll)
<1> SUFFICES ASSUME KeysApart PROVE Spec => []WalkVisitsAll
  OBVIOUS
<1>1. FphInv => WalkVisitsAll
  BY WalksHold
<1> QED BY <1>1, FphSafety, PTL

\* Every array is as long as the capacity it will be deallocated with and long enough
\* for its slots or buckets, and an iterator calls back on the map it is of.
THEOREM PartsAlwaysMatch == KeysApart => (Spec => []PartsMatch)
<1> SUFFICES ASSUME KeysApart PROVE Spec => []PartsMatch
  OBVIOUS
<1>1. FphInv => PartsMatch
  BY PartsHold
<1> QED BY <1>1, FphSafety, PTL

\* A loop that erases as it goes, for (it = begin(); it != end();), ends only after it
\* stood on each element that is left, although erase moves begin().
THEOREM LoopsSeeAll == KeysApart => (Spec => []LoopSeesAll)
<1> SUFFICES ASSUME KeysApart PROVE Spec => []LoopSeesAll
  OBVIOUS
<1>1. FphInv => LoopSeesAll
  BY LoopsHold
<1> QED BY <1>1, FphSafety, PTL

\* erase, insert(first, last), = {..} and copies do to the contents exactly what they
\* say, whichever of their branches they take.
THEOREM CallsAlwaysTrue == KeysApart => (Spec => []CallsAreTrue)
<1> SUFFICES ASSUME KeysApart PROVE Spec => []CallsAreTrue
  OBVIOUS
<1>1. FphInv => CallsAreTrue
  BY CallsHold
<1> QED BY <1>1, FphSafety, PTL

-----------------------------------------------------------------------------
(* The refinement: tables as maps.                                           *)

\* What all objects hold, as MapSpec sees it, and what a table stands for.
Held == [i \in Object |-> ContentsOf(i)]
Holding(x) == IF x = Dead THEN Dead ELSE IF x = MovedFrom THEN {} ELSE Contents(x)

\* What an object holds is no map exactly when there is none.
LEMMA HoldingIs ==
    ASSUME Setting, NEW i \in Object, NEW x, MapAt(i, x)
    PROVE  /\ Holding(x) # Dead <=> x # Dead
           /\ x # Dead => Holding(x) \subseteq Key \X Value
<1>1. CASE x = Dead
  BY <1>1 DEF Holding
<1>2. CASE x = MovedFrom /\ x # Dead
  <2>1. Holding(x) = {}
    BY <1>2 DEF Holding
  <2> QED BY <1>2, <2>1, ObjectAssumption
<1>3. CASE Whole(x) /\ x # MovedFrom /\ x # Dead
  <2>1. Holding(x) \subseteq Key \X Value
    BY <1>3, StoreOf DEF Holding
  <2>2. Holding(x) \in SUBSET (Key \X Value)
    BY <2>1
  <2> QED BY <1>3, <2>1, <2>2, ObjectAssumption
<1> QED BY <1>1, <1>2, <1>3 DEF MapAt

\* An object is live as a map exactly if it is live.
LEMMA HeldIs ==
    ASSUME KeysApart, Kept, NEW i \in Object
    PROVE  /\ Held[i] = Holding(tab[i]) /\ (Maps!Live(i) <=> Live(i))
           /\ HasParam(i) => /\ Held[i] = Pairs(Store(tab[i])) /\ Store(tab[i]) \subseteq Item
                             /\ Whole(tab[i]) /\ tab[i].this = i /\ Live(i)
<1>1. Setting /\ MapAt(i, tab[i])
  BY KeptSetting DEF Kept
<1>2. Held[i] = Holding(tab[i])
  BY DEF Held, ContentsOf, Holding
<1>3. Maps!Live(i) <=> Live(i)
  <2>1. Maps!Live(i) <=> Held[i] # Dead
    BY DEF Maps!Live, Held
  <2> QED BY <1>1, <1>2, <2>1, HoldingIs DEF Live
<1>4. ASSUME HasParam(i) PROVE /\ Held[i] = Pairs(Store(tab[i])) /\ Store(tab[i]) \subseteq Item
                               /\ Whole(tab[i]) /\ tab[i].this = i /\ Live(i)
  <2>1. Whole(tab[i]) /\ tab[i].this = i /\ Live(i)
    BY <1>4, KeptSetting DEF HasParam, Live
  <2>2. Holding(tab[i]) = Contents(tab[i])
    BY <1>4 DEF Holding, HasParam
  <2> QED BY <2>1, <2>2, <1>1, <1>2, StoreOf
<1> QED BY <1>2, <1>3, <1>4

\* One object's new table is its map's new contents.
LEMMA HeldBecomes ==
    ASSUME Kept, NEW i \in Object, NEW x, tab' = [tab EXCEPT ![i] = x]
    PROVE  Held' = [Held EXCEPT ![i] = Holding(x)]
<1>1. Held' = [j \in Object |-> Holding(tab'[j])]
  BY DEF Held, Holding, ContentsOf, Contents, Elements
<1>2. Held = [j \in Object |-> Holding(tab[j])]
  BY DEF Held, Holding, ContentsOf
<1>3. \A j \in Object : tab'[j] = IF j = i THEN x ELSE tab[j]
  BY DEF Kept
<1>4. \A j \in Object : Holding(tab'[j]) = IF j = i THEN Holding(x) ELSE Holding(tab[j])
  BY <1>3
<1>5. [Held EXCEPT ![i] = Holding(x)] = [j \in Object |-> IF j = i THEN Holding(x) ELSE Holding(tab[j])]
  BY <1>2
<1> HIDE DEF Held
<1> QED BY <1>1, <1>4, <1>5

\* The step to a table with the store S is the step to the contents Pairs(S).
LEMMA HeldStep ==
    ASSUME KeysApart, Kept, NEW i \in Object, NEW X, Becomes(i, X), NEW S,
           \A x \in X : Whole(x) /\ Store(x) = S
    PROVE  Maps!Becomes(i, Pairs(S)) /\ (S = {} => Maps!Becomes(i, {}))
<1>1. PICK x \in X : Held' = [Held EXCEPT ![i] = Holding(x)]
  BY HeldBecomes DEF Becomes
<1>2. Whole(x) /\ Store(x) = S /\ Setting
  BY KeptSetting
<1>3. Holding(x) = Pairs(S)
  BY <1>2, StoreOf, WholeIsMap DEF Holding
<1>4. S = {} => Pairs(S) = {}
  BY DEF Pairs
<1> QED BY <1>1, <1>3, <1>4 DEF Maps!Becomes, Held

\* A step of the maps, or none.
MapMove == Maps!Next \/ Held' = Held

\* A call that keeps the store leaves the maps as they are.
LEMMA SameHeld ==
    ASSUME KeysApart, Kept, NEW i \in Object, HasParam(i), NEW X, Becomes(i, X),
           \A x \in X : Whole(x) /\ Store(x) = Store(tab[i])
    PROVE  Held' = Held
<1>1. PICK x \in X : Held' = [Held EXCEPT ![i] = Holding(x)]
  BY HeldBecomes DEF Becomes
<1>2. Whole(x) /\ Store(x) = Store(tab[i]) /\ Setting
  BY KeptSetting
<1>3. Holding(x) = Pairs(Store(x))
  BY <1>2, StoreOf, WholeIsMap DEF Holding
<1>4. Holding(x) = Held[i]
  BY <1>2, <1>3, HeldIs
<1> HIDE DEF Held
<1>5. Held = [j \in Object |-> Held[j]]
  BY DEF Held
<1> QED BY <1>1, <1>4, <1>5

\* emplace adds an entry or leaves the map, and operator[] may replace one.
LEMMA AddMoves ==
    ASSUME KeysApart, Kept, NEW i \in Object, NEW k \in policy.keys, NEW v \in Value,
           Emplace(i, k, v) \/ Subscript(i, k, v)
    PROVE  MapMove
<1> DEFINE x == tab[i]
           E == Held[i]
           more == E \cup {<<k, v>>}
           new == {e \in E : e[1] # k} \cup {<<k, v>>}
<1>1. Setting /\ HasParam(i) /\ k \in Callers /\ k \in Key /\ k \in AnyKey
  BY KeptSetting, SettingFacts DEF Emplace, Subscript
<1>2. Whole(x) /\ Live(i) /\ Maps!Live(i) /\ E = Pairs(Store(x)) /\ Store(x) \subseteq Item
  BY <1>1, HeldIs
<1> HIDE DEF x, E
<1>3. k \in Maps!KeysOf(E) <=> \E e \in Store(x) : e.key = k
  BY <1>1, <1>2, PairsIs
<1>4. \A S : Pairs(S \cup {Element(k, v)}) = Pairs(S) \cup {<<k, v>>}
  <2> SUFFICES ASSUME NEW S PROVE Pairs(S \cup {Element(k, v)}) = Pairs(S) \cup {<<k, v>>}
    OBVIOUS
  <2>1. Element(k, v).key = k /\ Element(k, v).value = v
    BY DEF Element
  <2>2. \A p : p \in Pairs(S \cup {Element(k, v)}) <=> p \in Pairs(S) \/ p = <<k, v>>
    BY <2>1 DEF Pairs
  <2> QED BY <2>2
<1>5. Dropped(E, k) = Pairs(Without(Store(x), k))
  BY <1>2, PairsBut
<1>6. Pairs(Replaced(Store(x), k, v)) = new
  BY <1>4, <1>5 DEF Replaced, Without, Dropped
<1> DEFINE there == \E e \in Store(x) : e.key = k
<1>7. ~ there => /\ Pairs(Added(Store(x), k, v)) = more
                 /\ Replaced(Store(x), k, v) = Added(Store(x), k, v)
  <2> SUFFICES ASSUME ~ there PROVE /\ Pairs(Added(Store(x), k, v)) = more
                                    /\ Replaced(Store(x), k, v) = Added(Store(x), k, v)
    OBVIOUS
  <2>1. Added(Store(x), k, v) = Store(x) \cup {Element(k, v)} /\ {e \in Store(x) : e.key # k} = Store(x)
    BY DEF Added
  <2> QED BY <2>1, <1>2, <1>4 DEF Replaced
<1>8. CASE Emplace(i, k, v) /\ there
  <2>1. Becomes(i, Emplaced(x, k, v))
    BY <1>8 DEF Emplace, x
  <2>2. \A z \in Emplaced(x, k, v) : Whole(z) /\ Store(z) = Store(x)
    BY <1>1, <1>2, <1>8, EmplacedIs DEF Added, Whole
  <2> QED BY <2>1, <2>2, <1>1, SameHeld DEF MapMove, x
<1>9. ASSUME ~ there, NEW X, Becomes(i, X), \A z \in X : Whole(z) /\ Store(z) = Added(Store(x), k, v)
      PROVE  MapMove
  <2>1. Maps!Becomes(i, more)
    BY <1>7, <1>9, HeldStep
  <2>2. Maps!Emplace(i, k, v)
    BY <2>1, <1>2, <1>3, <1>9 DEF Maps!Emplace, E, Held
  <2> QED BY <2>2, <1>1 DEF Maps!Next, MapMove
<1>10. CASE Emplace(i, k, v) /\ ~ there
  <2>1. Becomes(i, Emplaced(x, k, v))
    BY <1>10 DEF Emplace, x
  <2>2. \A z \in Emplaced(x, k, v) : Whole(z) /\ Store(z) = Added(Store(x), k, v)
    BY <1>1, <1>2, EmplacedIs DEF Whole
  <2> QED BY <2>1, <2>2, <1>9, <1>10
<1>11. CASE Subscript(i, k, v)
  <2>1. Becomes(i, Subscripted(x, k, v))
    BY <1>11 DEF Subscript, x
  <2>2. \A z \in Subscripted(x, k, v) : Whole(z) /\ Store(z) = Replaced(Store(x), k, v)
    BY <1>1, <1>2, SubscriptedIs DEF Whole
  <2>3. CASE ~ there
    BY <2>1, <2>2, <2>3, <1>7, <1>9
  <2>4. CASE there
    <3>1. Maps!Becomes(i, new)
      BY <2>1, <2>2, <1>6, HeldStep
    <3>2. Maps!Assign(i, k, v)
      BY <3>1, <2>4, <1>2, <1>3 DEF Maps!Assign, E, Held
    <3> QED BY <3>2, <1>1 DEF Maps!Next, MapMove
  <2> QED BY <2>3, <2>4
<1> QED BY <1>8, <1>10, <1>11

\* A constructor, insert(first, last) and = {..} carry over their range.
LEMMA RangeMoves ==
    ASSUME KeysApart, Kept, NEW i \in Object,
           \/ Construct(i)
           \/ \E es \in policy.ranges : InsertRange(i, es) \/ BuildRange(i, es) \/ AssignRange(i, es)
    PROVE  MapMove
<1> DEFINE ranges == {Entries(es) : es \in policy.ranges}
<1>1. Setting
  BY KeptSetting
<1>2. CASE Construct(i)
  <2>1. PICK es \in policy.ranges \cup {<< >>} : Becomes(i, Constructed(i, es)) /\ ~ Live(i)
    BY <1>2 DEF Construct, Free
  <2>2. Ranged(es)
    BY <1>1, RangedIs
  <2>3. Maps!Becomes(i, Pairs(Joined({}, es)))
    <3>1. \A x \in Constructed(i, es) : Whole(x) /\ Store(x) = Joined({}, es)
      BY <1>1, ConstructedIs DEF Whole
    <3> QED BY <2>1, <3>1, HeldStep
  <2>4. Pairs(Joined({}, es)) = Entries(es)
    <3>1. {} \subseteq Item
      OBVIOUS
    <3> QED BY <3>1, <2>2, <1>1, JoinedPairs
  <2>5. Entries(es) \in ranges \cup {{}}
    <3>1. Entries(<< >>) = {}
      BY DEF Entries
    <3> QED BY <3>1
  <2>6. ~ Maps!Live(i)
    BY <2>1, HeldIs
  <2>7. Maps!Create(i)
    BY <2>3, <2>4, <2>5, <2>6 DEF Maps!Create
  <2> QED BY <2>7 DEF Maps!Next, MapMove
<1>3. ASSUME NEW es \in policy.ranges, NEW S, S \subseteq Item, Maps!Live(i), NEW X, Becomes(i, X),
             \A x \in X : Whole(x) /\ Store(x) = Joined(S, es)
      PROVE  Maps!Extend(i, Pairs(S), Entries(es))
  <2>1. Maps!Becomes(i, Pairs(Joined(S, es)))
    BY <1>3, HeldStep
  <2>2. Pairs(Joined(S, es)) = Maps!With(Pairs(S), Entries(es))
    BY <1>1, <1>3, RangedIs, JoinedPairs
  <2> QED BY <2>1, <2>2, <1>3 DEF Maps!Extend
<1>4. ASSUME NEW es \in policy.ranges, InsertRange(i, es) \/ BuildRange(i, es) PROVE MapMove
  <2>1. HasParam(i) /\ Whole(tab[i]) /\ Store(tab[i]) \subseteq Item /\ Held[i] = Pairs(Store(tab[i])) /\ Maps!Live(i)
    BY <1>4, HeldIs DEF InsertRange, BuildRange
  <2>2. Maps!Extend(i, Pairs(Store(tab[i])), Entries(es))
    <3>1. CASE InsertRange(i, es)
      <4>1. \A x \in Inserted(tab[i], es) : Whole(x) /\ Store(x) = Joined(Store(tab[i]), es)
        BY <1>1, <2>1, RangedIs, InsertedIs
      <4> QED BY <4>1, <3>1, <2>1, <1>3 DEF InsertRange
    <3>2. CASE BuildRange(i, es)
      <4>1. \A x \in InsertNoDuplicated(tab[i], es) : Whole(x) /\ Store(x) = Joined(Store(tab[i]), es)
        BY <1>1, <2>1, InsertNoDuplicatedIs
      <4> QED BY <4>1, <3>2, <2>1, <1>3 DEF BuildRange
    <3> QED BY <3>1, <3>2, <1>4
  <2>3. Maps!InsertRange(i, Entries(es))
    BY <2>1, <2>2 DEF Maps!InsertRange, Held
  <2>4. Entries(es) \in ranges
    OBVIOUS
  <2> QED BY <2>3, <2>4 DEF Maps!Next, MapMove
<1>5. ASSUME NEW es \in policy.ranges, AssignRange(i, es) PROVE MapMove
  <2>1. Live(i) /\ Maps!Live(i) /\ Becomes(i, Assigned(i, es))
    BY <1>5, HeldIs DEF AssignRange
  <2>2. Whole(Reset(i)) /\ Store(Reset(i)) = {}
    BY <2>1, <1>1, ResetIs
  <2>3. \A x \in Assigned(i, es) : Whole(x) /\ Store(x) = Joined({}, es)
    BY <2>2, <1>1, RangedIs, InsertedIs DEF Assigned
  <2>4. Maps!Extend(i, Pairs({}), Entries(es))
    <3>1. {} \subseteq Item
      OBVIOUS
    <3> QED BY <3>1, <2>1, <2>3, <1>3
  <2>5. Pairs({}) = {}
    BY DEF Pairs
  <2>6. Maps!AssignRange(i, Entries(es))
    BY <2>4, <2>5 DEF Maps!AssignRange
  <2>7. Entries(es) \in ranges
    OBVIOUS
  <2> QED BY <2>6, <2>7 DEF Maps!Next, MapMove
<1> QED BY <1>2, <1>4, <1>5

\* erase takes one key's entry.
LEMMA EraseMoves ==
    ASSUME KeysApart, Kept, NEW i \in Object, HasParam(i), NEW k \in Key, NEW z, tab' = [tab EXCEPT ![i] = z],
           Whole(z), Store(z) = Without(Store(tab[i]), k)
    PROVE  MapMove
<1>1. Setting /\ Maps!Live(i) /\ Held[i] = Pairs(Store(tab[i]))
  BY KeptSetting, HeldIs
<1>2. Held' = [Held EXCEPT ![i] = Holding(z)]
  BY HeldBecomes
<1>3. Holding(z) = Pairs(Without(Store(tab[i]), k))
  BY <1>1, StoreOf, WholeIsMap DEF Holding
<1>4. Pairs(Without(Store(tab[i]), k)) = Dropped(Held[i], k)
  BY <1>1, PairsBut
<1>5. Dropped(Held[i], k) = {e \in Held[i] : e[1] \notin {k}}
  BY DEF Dropped
<1>6. Maps!Erase(i, {k})
  BY <1>1, <1>2, <1>3, <1>4, <1>5 DEF Maps!Erase, Maps!Becomes, Held
<1>7. {k} \in SUBSET Key
  OBVIOUS
<1> QED BY <1>6, <1>7 DEF Maps!Next, MapMove

\* The other calls on one map.
LEMMA CallMoves ==
    ASSUME KeysApart, Kept, NEW i \in policy.objects,
           \/ Clear(i) \/ Destroy(i)
           \/ \E k \in policy.keys : Erase(i, k)
           \/ \E count \in policy.counts : Rehash(i, count) \/ Reserve(i, count)
           \/ \E load \in policy.loads : SetLoad(i, load)
    PROVE  MapMove
<1>1. Setting /\ i \in Object /\ policy.keys \subseteq Callers
  BY KeptSetting
<1>2. CASE Clear(i)
  <2>1. Live(i) /\ Maps!Live(i) /\ Becomes(i, {Reset(i)})
    BY <1>1, <1>2, HeldIs DEF Clear
  <2>2. \A x \in {Reset(i)} : Whole(x) /\ Store(x) = {}
    BY <2>1, <1>1, ResetIs
  <2>3. Maps!Becomes(i, {})
    BY <2>1, <2>2, <1>1, HeldStep
  <2>4. Maps!Clear(i)
    BY <2>1, <2>3 DEF Maps!Clear
  <2> QED BY <2>4, <1>1 DEF Maps!Next, MapMove
<1>3. CASE Destroy(i)
  <2>1. Live(i) /\ Maps!Live(i) /\ Becomes(i, {Dead})
    BY <1>1, <1>3, HeldIs DEF Destroy
  <2>2. Held' = [Held EXCEPT ![i] = Holding(Dead)]
    BY <2>1, <1>1, HeldBecomes DEF Becomes
  <2>3. Maps!Becomes(i, Dead)
    BY <2>2 DEF Maps!Becomes, Held, Holding
  <2>4. Maps!Destroy(i)
    BY <2>1, <2>3 DEF Maps!Destroy
  <2> QED BY <2>4, <1>1 DEF Maps!Next, MapMove
<1>4. ASSUME NEW k \in policy.keys, Erase(i, k) PROVE MapMove
  <2>1. HasParam(i) /\ Built(tab[i]) /\ Becomes(i, {Erased(tab[i], k)})
    BY <1>4 DEF Erase, HasSlots, Built
  <2>2. Good(tab[i]) /\ k \in AnyKey /\ k \in Key
    BY <2>1, <1>1, HeldIs, BuiltIsGood, SettingFacts
  <2>3. Whole(Erased(tab[i], k)) /\ Store(Erased(tab[i], k)) = Without(Store(tab[i]), k)
    BY <2>2, <1>1, ErasedIs DEF Whole, Without
  <2>4. tab' = [tab EXCEPT ![i] = Erased(tab[i], k)]
    BY <2>1 DEF Becomes
  <2> QED BY <2>1, <2>2, <2>3, <2>4, <1>1, EraseMoves
<1>5. ASSUME NEW count \in policy.counts, Rehash(i, count) \/ Reserve(i, count) PROVE MapMove
  <2>1. HasParam(i) /\ count \in Nat /\ Whole(tab[i])
    BY <1>1, <1>5, PolicyAssumption, HeldIs DEF Rehash, Reserve, Setting
  <2>2. CeilLoad(count, tab[i].load) \in Nat
    BY <2>1, <1>1, WholeIs, LoadType
  <2>3. \A n \in Nat : \A x \in rehash(tab[i], n) : Whole(x) /\ Store(x) = Store(tab[i])
    BY <2>1, <1>1, RehashIs DEF Whole
  <2>4. PICK n \in Nat : Becomes(i, rehash(tab[i], n))
    BY <2>1, <2>2, <1>5 DEF Rehash, Reserve
  <2> QED BY <2>1, <2>3, <2>4, <1>1, SameHeld DEF MapMove
<1>6. ASSUME NEW load \in policy.loads, SetLoad(i, load) PROVE MapMove
  <2> DEFINE z == [tab[i] EXCEPT !.load = load, !.expand_at = ExpandAt(tab[i].ceil, load)]
  <2>1. HasParam(i) /\ Becomes(i, {z}) /\ Whole(tab[i])
    BY <1>1, <1>6, HeldIs DEF SetLoad
  <2>2. Whole(z) /\ Store(z) = Store(tab[i])
    BY <2>1, <1>1, SetLoadIs
  <2> HIDE DEF z
  <2> QED BY <2>1, <2>2, <1>1, SameHeld DEF MapMove
<1> QED BY <1>2, <1>3, <1>4, <1>5, <1>6

\* A copy, and what is taken over, holds what the other held.
LEMMA HoldingAt ==
    ASSUME KeysApart, Kept, NEW i \in Object, NEW x \in Object, Live(x)
    PROVE  /\ Holding(At(i, tab[x])) = Held[x]
           /\ \A z \in Copies(i, x) : Holding(z) = Held[x]
<1>1. Setting /\ Held[x] = Holding(tab[x])
  BY KeptSetting, HeldIs
<1>2. CASE tab[x] = MovedFrom
  BY <1>1, <1>2 DEF At, Copies
<1>3. CASE tab[x] # MovedFrom
  <2>1. HasParam(x)
    BY <1>3 DEF HasParam, Live
  <2>2. Whole(tab[x]) /\ Held[x] = Pairs(Store(tab[x]))
    BY <2>1, HeldIs
  <2>3. \A z : Whole(z) /\ Store(z) = Store(tab[x]) => Holding(z) = Held[x]
    BY <2>2, <1>1, StoreOf, WholeIsMap DEF Holding
  <2>4. Whole(Owned(i, tab[x])) /\ Store(Owned(i, tab[x])) = Store(tab[x])
    BY <2>2, <1>1, OwnedIs
  <2>5. \A z \in Copied(i, tab[x]) : Whole(z) /\ Store(z) = Store(tab[x])
    BY <2>2, <1>1, CopiedIs
  <2> QED BY <1>3, <2>3, <2>4, <2>5 DEF At, Copies
<1> QED BY <1>2, <1>3

\* Copies, moves and swaps carry whole contents; a map assigned to itself stays.
LEMMA PairMoves ==
    ASSUME KeysApart, Kept, NEW i \in policy.objects, NEW x \in policy.objects,
           CopyConstruct(i, x) \/ CopyAssign(i, x) \/ MoveConstruct(i, x) \/ Swap(i, x)
    PROVE  MapMove
<1>1. i \in Object /\ x \in Object
  BY KeptSetting
<1>2. \A j \in Object : Maps!Live(j) <=> Live(j)
  BY HeldIs
<1>3. Held = [j \in Object |-> Held[j]] /\ \A j \in Object : Held[j] = Holding(tab[j])
  BY HeldIs DEF Held
<1>4. Held' = [j \in Object |-> Holding(tab'[j])]
  BY DEF Held, Holding, ContentsOf, Contents, Elements
<1>5. Live(x) => /\ Holding(At(i, tab[x])) = Held[x]
                 /\ \A z \in Copies(i, x) : Holding(z) = Held[x]
  BY <1>1, HoldingAt
<1>6. CASE CopyConstruct(i, x) \/ CopyAssign(i, x)
  <2>1. Live(x) /\ Becomes(i, Copies(i, x))
    BY <1>6 DEF CopyConstruct, CopyAssign
  <2>2. Held' = [Held EXCEPT ![i] = Held[x]]
    <3>1. PICK z \in Copies(i, x) : tab' = [tab EXCEPT ![i] = z]
      BY <2>1 DEF Becomes
    <3>2. Holding(z) = Held[x]
      BY <2>1, <1>5
    <3> QED BY <3>1, <3>2, <1>1, HeldBecomes
  <2>3. Maps!Becomes(i, Held[x])
    BY <2>2 DEF Maps!Becomes, Held
  <2>4. CASE CopyConstruct(i, x)
    <3>1. Maps!CopyConstruct(i, x)
      BY <2>1, <2>3, <2>4, <1>1, <1>2 DEF Maps!CopyConstruct, CopyConstruct, Free, Held
    <3> QED BY <3>1, <1>1 DEF Maps!Next, MapMove
  <2>5. CASE CopyAssign(i, x) /\ i = x
    <3>1. Held' = Held
      <4> HIDE DEF Held
      <4> QED BY <2>2, <2>5, <1>1, <1>3
    <3> QED BY <3>1 DEF MapMove
  <2>6. CASE CopyAssign(i, x) /\ i # x
    <3>1. Held[x] \in SUBSET Held[x]
      OBVIOUS
    <3>2. Maps!CopyAssign(i, x)
      BY <2>1, <2>3, <2>6, <3>1, <1>1, <1>2 DEF Maps!CopyAssign, CopyAssign, Held
    <3> QED BY <3>2, <1>1 DEF Maps!Next, MapMove
  <2> QED BY <1>6, <2>4, <2>5, <2>6
<1>7. CASE MoveConstruct(i, x)
  <2>1. Live(x) /\ ~ Live(i) /\ i # x /\ tab' = [tab EXCEPT ![i] = At(i, tab[x]), ![x] = MovedFrom]
    BY <1>7 DEF MoveConstruct, Free
  <2>2. \A j \in Object : tab'[j] = IF j = x THEN MovedFrom ELSE IF j = i THEN At(i, tab[x]) ELSE tab[j]
    BY <2>1, <1>1 DEF Kept
  <2>3. Holding(MovedFrom) = {}
    BY ObjectAssumption DEF Holding
  <2>4. Held' = [Held EXCEPT ![i] = Held[x], ![x] = {}]
    <3> HIDE DEF Held
    <3> QED BY <2>1, <2>2, <2>3, <1>3, <1>4, <1>5
  <2>5. Maps!MoveConstruct(i, x)
    BY <2>1, <2>4, <1>1, <1>2 DEF Maps!MoveConstruct, Maps!Moved, Held
  <2> QED BY <2>5, <1>1 DEF Maps!Next, MapMove
<1>8. CASE Swap(i, x)
  <2>1. Live(x) /\ Live(i) /\ i # x /\ tab' = [tab EXCEPT ![i] = At(i, tab[x]), ![x] = At(x, tab[i])]
    BY <1>8 DEF Swap
  <2>2. \A j \in Object : tab'[j] = IF j = x THEN At(x, tab[i]) ELSE IF j = i THEN At(i, tab[x]) ELSE tab[j]
    BY <2>1, <1>1 DEF Kept
  <2>3. Holding(At(x, tab[i])) = Held[i]
    BY <2>1, <1>1, HoldingAt
  <2>4. Held' = [Held EXCEPT ![i] = Held[x], ![x] = Held[i]]
    <3> HIDE DEF Held
    <3> QED BY <2>1, <2>2, <2>3, <1>3, <1>4, <1>5
  <2>5. Maps!Swap(i, x)
    BY <2>1, <2>4, <1>1, <1>2 DEF Maps!Swap, Held
  <2> QED BY <2>5, <1>1 DEF Maps!Next, MapMove
<1> QED BY <1>6, <1>7, <1>8

\* Every step is a step of the maps or none.
LEMMA StepMoves ==
    ASSUME KeysApart, FphInv, [Next]_vars
    PROVE  MapMove
<1>1. Kept /\ policy.objects \subseteq Object
  BY KeptSetting DEF FphInv
<1>2. ASSUME tab' = tab PROVE MapMove
  BY <1>2 DEF MapMove, Held, ContentsOf, Contents, Elements
<1>3. CASE EraseHere
  <2> DEFINE x == EraseAt(Table, loop.at)
             k == Table.slots[loop.at].key
  <2>1. Setting /\ Standing /\ loop.of \in Object /\ HasParam(loop.of) /\ Good(Table) /\ loop.at \in Elements(Table)
        /\ tab' = [tab EXCEPT ![loop.of] = x] /\ policy' = policy
    BY <1>3, StandingIs, KeptSetting DEF FphInv, EraseHere
  <2>2. Good(x) /\ Store(x) = Store(Table) \ {Table.slots[loop.at]}
    BY <2>1, EraseIs
  <2>3. Sizes(Table) /\ Filling(Table) /\ Table.slots[loop.at] \in Store(Table)
    BY <2>1 DEF Good, Store
  <2>4. k \in Key /\ Store(Table) \ {Table.slots[loop.at]} = Without(Store(Table), k)
    BY <2>1, <2>3, StoreIs, SettingFacts DEF Without, Item
  <2> HIDE DEF x, k
  <2>5. Whole(x) /\ Store(x) = Without(Store(tab[loop.of]), k)
    BY <2>2, <2>4 DEF Whole, Table
  <2> QED BY <1>1, <2>1, <2>4, <2>5, EraseMoves
<1>4. CASE \/ \E i \in policy.objects : Begin(i)
           \/ Advance \/ End \/ UNCHANGED vars
  BY <1>2, <1>4 DEF Begin, Advance, End, vars
<1>5. ASSUME NEW i \in policy.objects,
             \/ Construct(i) \/ Clear(i) \/ Destroy(i)
             \/ \E k \in policy.keys, v \in Value : Emplace(i, k, v) \/ Subscript(i, k, v)
             \/ \E es \in policy.ranges : InsertRange(i, es) \/ BuildRange(i, es) \/ AssignRange(i, es)
             \/ \E k \in policy.keys : Erase(i, k)
             \/ \E count \in policy.counts : Rehash(i, count) \/ Reserve(i, count)
             \/ \E load \in policy.loads : SetLoad(i, load)
      PROVE  MapMove
  BY <1>1, <1>5, CallMoves, AddMoves, RangeMoves
<1>6. ASSUME NEW i \in policy.objects, NEW x \in policy.objects,
             CopyConstruct(i, x) \/ CopyAssign(i, x) \/ MoveConstruct(i, x) \/ Swap(i, x)
      PROVE  MapMove
  BY <1>1, <1>6, PairMoves
<1> QED BY <1>3, <1>4, <1>5, <1>6 DEF Next

\* At first there is no map.
LEMMA InitMaps == KeysApart /\ Init => Maps!Init
<1> SUFFICES ASSUME KeysApart, Init PROVE Maps!Init
  OBVIOUS
<1>1. Held = [i \in Object |-> Dead]
  BY DEF Init, Held, ContentsOf
<1>2. Kept
  BY InitKept DEF FphInv
<1>3. ASSUME NEW es \in policy.ranges PROVE Entries(es) \in SUBSET Maps!Entry
  <2>1. Ranged(es) /\ Callers \subseteq Key
    BY <1>2, KeptSetting, RangedIs, SettingFacts
  <2> QED BY <2>1 DEF Ranged, Entries, Maps!Entry, Item
<1>4. {Entries(es) : es \in policy.ranges} \subseteq SUBSET Maps!Entry
  BY <1>3
<1> QED BY <1>1, <1>4 DEF Maps!Init, Held

\* The tables implement maps with unique keys, which copying, moving and swapping
\* carry over whole: no relocation, growth or rebuild loses, doubles or changes an entry.
THEOREM TablesAreMaps == KeysApart => (Spec => MapSpec)
<1> SUFFICES ASSUME KeysApart PROVE Spec => MapSpec
  OBVIOUS
<1>1. Init => Maps!Init
  BY InitMaps
<1>2. FphInv /\ [Next]_vars =>
        [Maps!Next /\ UNCHANGED <<FALSE, FALSE, {Entries(es) : es \in policy.ranges}>>]_<<
          [i \in Object |-> ContentsOf(i)], FALSE, FALSE, {Entries(es) : es \in policy.ranges}>>
  <2> SUFFICES ASSUME FphInv, [Next]_vars
               PROVE  [Maps!Next /\ UNCHANGED <<FALSE, FALSE, {Entries(es) : es \in policy.ranges}>>]_<<
                        [i \in Object |-> ContentsOf(i)], FALSE, FALSE, {Entries(es) : es \in policy.ranges}>>
    OBVIOUS
  <2>1. policy' = policy
    BY DEF Next, vars, Begin, Advance, EraseHere, End, Construct, Clear, Destroy, Emplace, Subscript,
           InsertRange, BuildRange, AssignRange, Erase, Rehash, Reserve, SetLoad, CopyConstruct,
           CopyAssign, MoveConstruct, Swap, Becomes
  <2>2. {Entries(es) : es \in policy.ranges}' = {Entries(es) : es \in policy.ranges}
    BY <2>1 DEF Entries
  <2> QED BY <2>2, StepMoves DEF MapMove, Held
<1> QED BY <1>1, <1>2, FphSafety, PTL DEF Spec, MapSpec, Maps!Spec

=============================================================================
