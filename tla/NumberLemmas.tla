---------------------------- MODULE NumberLemmas ----------------------------
(* Facts about numbers that the proofs of several components need.           *)
EXTENDS Integers, FiniteSetTheorems, TLAPS

\* The first n numbers are n.
LEMMA FirstNumbers ==
    ASSUME NEW n \in Nat
    PROVE  IsFiniteSet(0 .. n - 1) /\ Cardinality(0 .. n - 1) = n
<1>1. /\ IsFiniteSet(0 .. n - 1)
      /\ Cardinality(0 .. n - 1) = IF 0 > n - 1 THEN 0 ELSE (n - 1) - 0 + 1
  BY FS_Interval
<1> QED BY <1>1

LEMMA Distribute ==
    ASSUME NEW a \in Int, NEW b \in Int, NEW c \in Int
    PROVE  (a + b) * c = a * c + b * c /\ a * c \in Int /\ b * c \in Int
  OBVIOUS

\* A non-empty set of naturals has a least element: a loop that stops at a first
\* place stops somewhere, and what holds of 0 and is handed on holds of all.
LEMMA LeastNatural ==
    ASSUME NEW T \in SUBSET Nat, T # {}
    PROVE  \E m \in T : \A k \in T : m <= k
<1> DEFINE R == StrictSubsetOrdering(Nat)
           S == FiniteSubsetsOf(Nat)
           U == {0 .. n - 1 : n \in T}
<1>1. IsWellFoundedOn(R, S)
  BY FS_StrictSubsetOrderingWellFounded
<1>2. U \subseteq S
  <2> SUFFICES ASSUME NEW n \in T PROVE 0 .. n - 1 \in S
    OBVIOUS
  <2>1. IsFiniteSet(0 .. n - 1)
    BY FS_Interval
  <2> QED BY <2>1 DEF FiniteSubsetsOf
<1>3. U # {}
  OBVIOUS
<1> HIDE DEF R, S, U
<1>4. PICK x \in U : \A y \in U : ~ (<<y, x>> \in R)
  BY <1>1, <1>2, <1>3, WFMin
<1>5. PICK m \in T : x = 0 .. m - 1
  BY DEF U
<1>6. \A k \in T : m <= k
  <2> SUFFICES ASSUME NEW k \in T, k < m PROVE FALSE
    OBVIOUS
  <2>1. 0 .. k - 1 \in U
    BY DEF U
  <2>2. <<0 .. k - 1, x>> \in R
    <3>1. 0 .. k - 1 \subseteq 0 .. m - 1
      OBVIOUS
    <3>2. k \in 0 .. m - 1 /\ k \notin 0 .. k - 1
      OBVIOUS
    <3>3. 0 .. k - 1 # 0 .. m - 1
      BY <3>2
    <3> QED BY <3>1, <3>3, <1>5 DEF R, StrictSubsetOrdering
  <2> QED BY <2>1, <2>2, <1>4
<1> QED BY <1>6

-----------------------------------------------------------------------------
(* Arithmetic of counters that wrap.                                         *)

LEMMA AddMod ==
    ASSUME NEW M \in Nat \ {0}, NEW a \in Int, NEW b \in Int
    PROVE  ((a % M) + b) % M = (a + b) % M
<1> DEFINE q == a \div M
           r == a % M
           p == (r + b) \div M
           t == (r + b) % M
<1>1. q \in Int /\ r \in 0 .. M - 1 /\ a = q * M + r
  OBVIOUS
<1>2. p \in Int /\ t \in 0 .. M - 1 /\ r + b = p * M + t
  BY <1>1
<1> HIDE DEF q, r, p, t
<1>3. a + b = (q + p) * M + t
  BY <1>1, <1>2
<1>4. ((q + p) * M + t) % M = t
  BY <1>1, <1>2
<1> QED BY <1>3, <1>4 DEF t, r

\* What a counter gained is read off as the difference, however often it wrapped.
LEMMA GainMod ==
    ASSUME NEW M \in Nat \ {0}, NEW s \in 0 .. M - 1, NEW d \in Int
    PROVE  (((s + d) % M) - s) % M = d % M
<1>1. (s + d) % M \in Int /\ - s \in Int /\ s + d \in Int
  OBVIOUS
<1>2. (((s + d) % M) + (- s)) % M = ((s + d) + (- s)) % M
  BY <1>1, AddMod
<1>3. ((s + d) % M) + (- s) = ((s + d) % M) - s /\ (s + d) + (- s) = d
  BY <1>1
<1> QED BY <1>2, <1>3

-----------------------------------------------------------------------------
(* Powers of two, which the models define by recursion.                      *)

Doubling(P) == P = [n \in Nat |-> IF n = 0 THEN 1 ELSE 2 * P[n - 1]]

\* The function so defined exists.
LEMMA DoublingExists == \E P : Doubling(P)
<1> DEFINE Fits(f, n) == /\ f \in [0 .. n -> Nat \ {0}]
                         /\ \A k \in 0 .. n : f[k] = IF k = 0 THEN 1 ELSE 2 * f[k - 1]
           T == {n \in Nat : ~ \E f : Fits(f, n)}
<1>1. \E f : Fits(f, 0)
  <2> DEFINE f == [k \in 0 .. 0 |-> 1]
  <2>1. Fits(f, 0)
    OBVIOUS
  <2> QED BY <2>1
<1>2. ASSUME NEW n \in Nat, NEW f, Fits(f, n) PROVE \E g : Fits(g, n + 1)
  <2> DEFINE g == [k \in 0 .. n + 1 |-> IF k = n + 1 THEN 2 * f[n] ELSE f[k]]
  <2>1. f[n] \in Nat \ {0} /\ 2 * f[n] \in Nat \ {0}
    BY <1>2
  <2>2. g \in [0 .. n + 1 -> Nat \ {0}]
    BY <2>1, <1>2
  <2>3. ASSUME NEW k \in 0 .. n + 1 PROVE g[k] = IF k = 0 THEN 1 ELSE 2 * g[k - 1]
    <3>1. CASE k = n + 1
      <4>1. k - 1 = n /\ k - 1 \in 0 .. n + 1 /\ k - 1 # n + 1 /\ k # 0
        BY <3>1
      <4> QED BY <4>1, <3>1
    <3>2. CASE k # n + 1
      <4>1. k \in 0 .. n /\ (k # 0 => k - 1 \in 0 .. n /\ k - 1 # n + 1 /\ k - 1 \in 0 .. n + 1)
        BY <3>2
      <4>2. f[k] = IF k = 0 THEN 1 ELSE 2 * f[k - 1]
        BY <4>1, <1>2
      <4>3. g[k] = f[k] /\ (k # 0 => g[k - 1] = f[k - 1])
        BY <4>1, <3>2
      <4> QED BY <4>2, <4>3
    <3> QED BY <3>1, <3>2
  <2>4. Fits(g, n + 1)
    BY <2>2, <2>3
  <2> QED BY <2>4
<1>3. T = {}
  <2> HIDE DEF Fits
  <2> SUFFICES ASSUME T # {} PROVE FALSE
    OBVIOUS
  <2>1. PICK m \in T : \A k \in T : m <= k
    BY LeastNatural
  <2>2. m # 0
    BY <1>1, <2>1
  <2>3. m - 1 \in Nat /\ m - 1 \notin T /\ (m - 1) + 1 = m
    BY <2>1, <2>2
  <2> QED BY <1>2, <2>1, <2>3
<1>4. ASSUME NEW n \in Nat, NEW m \in Nat, NEW f, NEW g, Fits(f, n), Fits(g, m),
             NEW k \in Nat, k <= n, k <= m
      PROVE  f[k] = g[k]
  <2> DEFINE D == {i \in Nat : i <= n /\ i <= m /\ f[i] # g[i]}
  <2>1. D = {}
    <3> SUFFICES ASSUME D # {} PROVE FALSE
      OBVIOUS
    <3>1. PICK i \in D : \A j \in D : i <= j
      BY LeastNatural
    <3>2. i \in 0 .. n /\ i \in 0 .. m /\ f[i] # g[i]
      OBVIOUS
    <3>3. f[i] = (IF i = 0 THEN 1 ELSE 2 * f[i - 1]) /\ g[i] = (IF i = 0 THEN 1 ELSE 2 * g[i - 1])
      BY <3>2, <1>4
    <3>4. i # 0
      BY <3>2, <3>3
    <3>5. i - 1 \in Nat /\ i - 1 <= n /\ i - 1 <= m /\ i - 1 \notin D
      BY <3>1, <3>2, <3>4
    <3>6. f[i - 1] = g[i - 1]
      BY <3>5
    <3> QED BY <3>2, <3>3, <3>6
  <2> QED BY <2>1, <1>4
<1> DEFINE F(n) == CHOOSE f : Fits(f, n)
           P == [n \in Nat |-> F(n)[n]]
<1>5. \A n \in Nat : Fits(F(n), n)
  <2> HIDE DEF Fits
  <2> QED BY <1>3
<1> HIDE DEF F
<1>6. \A n \in Nat : P[n] \in Nat \ {0}
  BY <1>5
<1>7. \A n \in Nat : P[n] = IF n = 0 THEN 1 ELSE 2 * P[n - 1]
  <2> SUFFICES ASSUME NEW n \in Nat PROVE P[n] = IF n = 0 THEN 1 ELSE 2 * P[n - 1]
    OBVIOUS
  <2>1. F(n)[n] = IF n = 0 THEN 1 ELSE 2 * F(n)[n - 1]
    <3>1. Fits(F(n), n) /\ n \in 0 .. n
      <4> HIDE DEF Fits
      <4> QED BY <1>5
    <3> QED BY <3>1
  <2>2. ASSUME n # 0 PROVE F(n)[n - 1] = F(n - 1)[n - 1]
    <3>1. n - 1 \in Nat /\ n - 1 <= n /\ n - 1 <= n - 1
      BY <2>2
    <3>2. Fits(F(n), n) /\ Fits(F(n - 1), n - 1)
      BY <1>5, <3>1
    <3> HIDE DEF Fits
    <3> QED BY <1>4, <3>1, <3>2
  <2> QED BY <2>1, <2>2
<1>8. Doubling(P)
  BY <1>7 DEF Doubling
<1> QED BY <1>8

LEMMA DoublingIs ==
    ASSUME NEW P, Doubling(P)
    PROVE  /\ \A n \in Nat : P[n] \in Nat \ {0}
           /\ P[0] = 1
           /\ \A n \in Nat : P[n + 1] = 2 * P[n]
<1>1. \A n \in Nat : P[n] = IF n = 0 THEN 1 ELSE 2 * P[n - 1]
  BY DEF Doubling
<1>2. \A n \in Nat : P[n + 1] = 2 * P[n]
  BY <1>1
<1> DEFINE T == {n \in Nat : P[n] \notin Nat \ {0}}
<1>3. T = {}
  <2> SUFFICES ASSUME T # {} PROVE FALSE
    OBVIOUS
  <2>1. PICK m \in T : \A k \in T : m <= k
    BY LeastNatural
  <2>2. m # 0
    BY <1>1, <2>1
  <2>3. m - 1 \in Nat /\ m - 1 \notin T
    BY <2>1, <2>2
  <2> QED BY <1>1, <2>1, <2>2, <2>3
<1> QED BY <1>1, <1>2, <1>3

\* Shifting by one place and then by others is shifting by all of them.
LEMMA DoublingAdds ==
    ASSUME NEW P, Doubling(P), NEW m \in Nat
    PROVE  \A n \in Nat : P[m + n] = P[m] * P[n]
<1> DEFINE T == {n \in Nat : P[m + n] # P[m] * P[n]}
<1>1. T = {}
  <2> SUFFICES ASSUME T # {} PROVE FALSE
    OBVIOUS
  <2>1. PICK n \in T : \A k \in T : n <= k
    BY LeastNatural
  <2>2. n # 0
    BY <2>1, DoublingIs
  <2>3. n - 1 \in Nat /\ n - 1 \notin T /\ (n - 1) + 1 = n
    BY <2>1, <2>2
  <2>4. P[m + (n - 1)] = P[m] * P[n - 1]
    BY <2>3
  <2>5. P[n] = 2 * P[n - 1] /\ P[m + n] = 2 * P[m + (n - 1)]
    <3>1. m + (n - 1) \in Nat /\ (m + (n - 1)) + 1 = m + n
      BY <2>3
    <3> QED BY <2>3, <3>1, DoublingIs
  <2>6. P[m] \in Nat /\ P[n - 1] \in Nat
    BY <2>3, DoublingIs
  <2>7. P[m + n] = P[m] * P[n]
    BY <2>4, <2>5, <2>6
  <2> QED BY <2>1, <2>7
<1> QED BY <1>1

-----------------------------------------------------------------------------
(* Sums over finite sets.  A fold takes one element after the other out of a *)
(* set; the function it is defined by exists.                                *)

Chooses(c, S) == \A s \in SUBSET S : s # {} => c[s] \in s
IsSum(it, S, V, c) ==
    /\ it \in [SUBSET S -> Int]
    /\ \A s \in SUBSET S : it[s] = IF s = {} THEN 0 ELSE V[c[s]] + it[s \ {c[s]}]

\* What CHOOSE takes out of the subsets of S.
AnyOf(S) == [s \in SUBSET S |-> CHOOSE x \in s : TRUE]

LEMMA AnyChooses == ASSUME NEW S PROVE Chooses(AnyOf(S), S)
  BY DEF Chooses, AnyOf

LEMMA SumExists ==
    ASSUME NEW S, IsFiniteSet(S), NEW V \in [S -> Int], NEW c, Chooses(c, S)
    PROVE  \E it : IsSum(it, S, V, c)
<1> USE DEF Chooses
<1> DEFINE D(m) == {s \in SUBSET S : Cardinality(s) <= m}
           Fits(it, m) ==
             /\ it \in [D(m) -> Int]
             /\ \A s \in D(m) : it[s] = IF s = {} THEN 0 ELSE V[c[s]] + it[s \ {c[s]}]
           T == {m \in Nat : ~ \E it : Fits(it, m)}
<1>1. \A s \in SUBSET S : IsFiniteSet(s) /\ Cardinality(s) \in Nat
  BY FS_Subset, FS_CardinalityType
<1>2. \E it : Fits(it, 0)
  <2> DEFINE it == [s \in D(0) |-> 0]
  <2>1. \A s \in D(0) : s = {}
    BY <1>1, FS_EmptySet
  <2>2. Fits(it, 0)
    BY <2>1
  <2> QED BY <2>2
<1>3. ASSUME NEW m \in Nat, \E it : Fits(it, m) PROVE \E it : Fits(it, m + 1)
  <2>1. PICK it : Fits(it, m)
    BY <1>3
  <2> DEFINE up == [s \in D(m + 1) |-> IF s = {} THEN 0 ELSE V[c[s]] + it[s \ {c[s]}]]
  <2>2. \A s \in D(m + 1) : s # {} => s \ {c[s]} \in D(m) /\ c[s] \in S
    <3> SUFFICES ASSUME NEW s \in D(m + 1), s # {} PROVE s \ {c[s]} \in D(m) /\ c[s] \in S
      OBVIOUS
    <3>1. c[s] \in s /\ IsFiniteSet(s) /\ Cardinality(s) \in Nat /\ Cardinality(s) <= m + 1
      BY <1>1
    <3>2. Cardinality(s \ {c[s]}) = Cardinality(s) - 1
      BY <3>1, FS_RemoveElement
    <3>3. Cardinality(s \ {c[s]}) <= m
      BY <3>1, <3>2
    <3> QED BY <3>1, <3>3
  <2>3. \A s \in D(m) : s \in D(m + 1)
    BY <1>1
  <2>4. \A s \in D(m) : up[s] = it[s]
    BY <2>1, <2>3
  <2>5. up \in [D(m + 1) -> Int]
    BY <2>1, <2>2
  <2>6. \A s \in D(m + 1) : up[s] = IF s = {} THEN 0 ELSE V[c[s]] + up[s \ {c[s]}]
    BY <2>2, <2>4
  <2>7. Fits(up, m + 1)
    BY <2>5, <2>6
  <2> QED BY <2>7
<1>4. T = {}
  <2> SUFFICES ASSUME T # {} PROVE FALSE
    OBVIOUS
  <2> HIDE DEF Fits
  <2>1. PICK m \in T : \A k \in T : m <= k
    BY LeastNatural
  <2>2. m # 0
    BY <1>2, <2>1
  <2>3. m - 1 \in Nat /\ m - 1 \notin T
    BY <2>1, <2>2
  <2>4. \E it : Fits(it, (m - 1) + 1)
    BY <1>3, <2>3
  <2> QED BY <2>1, <2>4
<1>5. Cardinality(S) \in Nat /\ D(Cardinality(S)) = SUBSET S
  BY <1>1, FS_Subset
<1> HIDE DEF Fits, D
<1>6. PICK it : Fits(it, Cardinality(S))
  BY <1>4, <1>5
<1> QED BY <1>5, <1>6 DEF Fits, IsSum

\* and what satisfies the recursion is that function.
LEMMA SumIsOnly ==
    ASSUME NEW S, IsFiniteSet(S), NEW V \in [S -> Int], NEW c, Chooses(c, S), NEW g,
           DOMAIN g = SUBSET S, g = [s \in SUBSET S |-> g[s]],
           \A s \in SUBSET S : g[s] = IF s = {} THEN 0 ELSE V[c[s]] + g[s \ {c[s]}]
    PROVE  IsSum(g, S, V, c)
<1>1. PICK it : IsSum(it, S, V, c)
  BY SumExists
<1> DEFINE U == {m \in Nat : \E s \in SUBSET S : Cardinality(s) = m /\ g[s] # it[s]}
<1>2. U = {}
  <2> SUFFICES ASSUME U # {} PROVE FALSE
    OBVIOUS
  <2>1. PICK m \in U : \A k \in U : m <= k
    BY LeastNatural
  <2>2. PICK s \in SUBSET S : Cardinality(s) = m /\ g[s] # it[s]
    BY <2>1
  <2> DEFINE y == c[s]
  <2>3. s # {}
    BY <1>1, <2>2 DEF IsSum
  <2>4. y \in s /\ IsFiniteSet(s)
    BY <2>3, FS_Subset DEF Chooses
  <2>5. it[s] = V[y] + it[s \ {y}] /\ g[s] = V[y] + g[s \ {y}]
    BY <1>1, <2>3 DEF IsSum
  <2> HIDE DEF y
  <2>6. s \ {y} \in SUBSET S /\ Cardinality(s \ {y}) = m - 1 /\ Cardinality(s \ {y}) \in Nat
    BY <2>2, <2>4, FS_RemoveElement, FS_Subset, FS_CardinalityType
  <2>7. g[s \ {y}] # it[s \ {y}]
    BY <2>2, <2>5
  <2>8. m - 1 \in U /\ m \in Nat
    BY <2>1, <2>6, <2>7
  <2> HIDE DEF U
  <2> QED BY <2>1, <2>8
<1>3. \A s \in SUBSET S : g[s] = it[s]
  <2> SUFFICES ASSUME NEW s \in SUBSET S PROVE g[s] = it[s]
    OBVIOUS
  <2>1. Cardinality(s) \in Nat
    BY FS_Subset, FS_CardinalityType
  <2> QED BY <1>2, <2>1
<1>4. g = it
  BY <1>1, <1>3 DEF IsSum
<1> QED BY <1>1, <1>4

\* There is only one.
LEMMA SumOnlyOne ==
    ASSUME NEW S, IsFiniteSet(S), NEW V \in [S -> Int], NEW c, Chooses(c, S),
           NEW it, IsSum(it, S, V, c), NEW jt, IsSum(jt, S, V, c)
    PROVE  it[S] = jt[S]
<1> DEFINE U == {m \in Nat : \E s \in SUBSET S : Cardinality(s) = m /\ jt[s] # it[s]}
<1>1. U = {}
  <2> SUFFICES ASSUME U # {} PROVE FALSE
    OBVIOUS
  <2>1. PICK m \in U : \A k \in U : m <= k
    BY LeastNatural
  <2>2. PICK s \in SUBSET S : Cardinality(s) = m /\ jt[s] # it[s]
    BY <2>1
  <2> DEFINE y == c[s]
  <2>3. s # {}
    BY <2>2 DEF IsSum
  <2>4. y \in s /\ IsFiniteSet(s)
    BY <2>3, FS_Subset DEF Chooses
  <2>5. it[s] = V[y] + it[s \ {y}] /\ jt[s] = V[y] + jt[s \ {y}]
    BY <2>3 DEF IsSum
  <2> HIDE DEF y
  <2>6. s \ {y} \in SUBSET S /\ Cardinality(s \ {y}) = m - 1 /\ Cardinality(s \ {y}) \in Nat
    BY <2>2, <2>4, FS_RemoveElement, FS_Subset, FS_CardinalityType
  <2>7. jt[s \ {y}] # it[s \ {y}]
    BY <2>2, <2>5
  <2>8. m - 1 \in U /\ m \in Nat
    BY <2>1, <2>6, <2>7
  <2> HIDE DEF U
  <2> QED BY <2>1, <2>8
<1>2. Cardinality(S) \in Nat
  BY FS_CardinalityType
<1> QED BY <1>1, <1>2

\* The elements may be taken out in any order,
LEMMA SumAnyOrder ==
    ASSUME NEW S, IsFiniteSet(S), NEW V \in [S -> Int], NEW c, Chooses(c, S),
           NEW it, IsSum(it, S, V, c)
    PROVE  \A s \in SUBSET S : \A x \in s : it[s] = V[x] + it[s \ {x}]
<1> DEFINE Fine(s) == \A x \in s : it[s] = V[x] + it[s \ {x}]
           T == {m \in Nat : \E s \in SUBSET S : Cardinality(s) = m /\ ~ Fine(s)}
<1>1. \A s \in SUBSET S : /\ IsFiniteSet(s) /\ Cardinality(s) \in Nat
                          /\ \A x \in s : Cardinality(s \ {x}) = Cardinality(s) - 1
  <2> SUFFICES ASSUME NEW s \in SUBSET S
               PROVE  /\ IsFiniteSet(s) /\ Cardinality(s) \in Nat
                      /\ \A x \in s : Cardinality(s \ {x}) = Cardinality(s) - 1
    OBVIOUS
  <2>1. IsFiniteSet(s) /\ Cardinality(s) \in Nat
    BY FS_Subset, FS_CardinalityType
  <2> QED BY <2>1, FS_RemoveElement
<1>2. T = {}
  <2> SUFFICES ASSUME T # {} PROVE FALSE
    OBVIOUS
  <2>1. PICK m \in T : \A k \in T : m <= k
    BY LeastNatural
  <2>2. PICK s \in SUBSET S : Cardinality(s) = m /\ ~ Fine(s)
    BY <2>1
  <2>3. PICK x \in s : it[s] # V[x] + it[s \ {x}]
    BY <2>2
  <2> DEFINE y == c[s]
  <2>4. y \in s /\ it[s] = V[y] + it[s \ {y}]
    BY <2>3 DEF Chooses, IsSum
  <2> HIDE DEF y
  <2>5. x # y
    BY <2>3, <2>4
  <2>6. ASSUME NEW z \in s PROVE s \ {z} \in SUBSET S /\ Fine(s \ {z})
    <3>1. Cardinality(s \ {z}) < m
      BY <1>1, <2>2
    <3>2. s \ {z} \in SUBSET S /\ Cardinality(s \ {z}) \in Nat
      BY <1>1
    <3> QED BY <2>1, <3>1, <3>2
  <2>7. it[s \ {y}] = V[x] + it[(s \ {y}) \ {x}]
    BY <2>4, <2>5, <2>6
  <2>8. it[s \ {x}] = V[y] + it[(s \ {x}) \ {y}]
    BY <2>4, <2>5, <2>6
  <2>9. (s \ {y}) \ {x} = (s \ {x}) \ {y} /\ (s \ {x}) \ {y} \in SUBSET S
    OBVIOUS
  <2>10. V[x] \in Int /\ V[y] \in Int /\ it[(s \ {x}) \ {y}] \in Int
    BY <2>3, <2>4, <2>9 DEF IsSum
  <2> QED BY <2>3, <2>4, <2>7, <2>8, <2>9, <2>10
<1>3. ASSUME NEW s \in SUBSET S PROVE Fine(s)
  <2>1. Cardinality(s) \in Nat
    BY <1>1
  <2> HIDE DEF Fine
  <2> QED BY <1>2, <2>1
<1> QED BY <1>3

\* and a sum is the same over another set that stands for the first one's elements.
StandsFor(b, S, T) ==
    /\ b \in [S -> T]
    /\ \A x, y \in S : b[x] = b[y] => x = y
    /\ \A z \in T : \E x \in S : z = b[x]

LEMMA SumMoved ==
    ASSUME NEW S, IsFiniteSet(S), NEW V \in [S -> Int], NEW c, Chooses(c, S),
           NEW it, IsSum(it, S, V, c),
           NEW T, IsFiniteSet(T), NEW W \in [T -> Int], NEW d, Chooses(d, T),
           NEW jt, IsSum(jt, T, W, d),
           NEW b, StandsFor(b, S, T), \A x \in S : W[b[x]] = V[x]
    PROVE  it[S] = jt[T]
<1> DEFINE Img(s) == {b[x] : x \in s}
           Fine(s) == it[s] = jt[Img(s)]
           U == {m \in Nat : \E s \in SUBSET S : Cardinality(s) = m /\ ~ Fine(s)}
<1>1. \A s \in SUBSET S : IsFiniteSet(s) /\ Cardinality(s) \in Nat
  BY FS_Subset, FS_CardinalityType
<1>2. U = {}
  <2> SUFFICES ASSUME U # {} PROVE FALSE
    OBVIOUS
  <2>1. PICK m \in U : \A k \in U : m <= k
    BY LeastNatural
  <2>2. PICK s \in SUBSET S : Cardinality(s) = m /\ ~ Fine(s)
    BY <2>1
  <2>3. s # {}
    <3>1. it[{}] = 0 /\ jt[{}] = 0
      BY DEF IsSum
    <3> QED BY <2>2, <3>1
  <2>4. PICK x \in s : TRUE
    BY <2>3
  <2>5. s \ {x} \in SUBSET S /\ Cardinality(s \ {x}) = m - 1 /\ Cardinality(s \ {x}) \in Nat
    BY <1>1, <2>2, FS_RemoveElement
  <2>6. Fine(s \ {x})
    <3>1. m \in Nat /\ m - 1 \notin U
      <4>1. m \in Nat
        BY <1>1, <2>2
      <4> HIDE DEF U
      <4> QED BY <2>1, <4>1
    <3> HIDE DEF Fine
    <3> QED BY <2>5, <3>1
  <2>7. Img(s) \in SUBSET T /\ b[x] \in Img(s)
    BY DEF StandsFor
  <2>8. Img(s) \ {b[x]} = Img(s \ {x})
    BY DEF StandsFor
  <2>9. it[s] = V[x] + it[s \ {x}]
    BY SumAnyOrder
  <2>10. jt[Img(s)] = W[b[x]] + jt[Img(s) \ {b[x]}]
    <3> HIDE DEF Img
    <3> QED BY <2>7, SumAnyOrder
  <2> QED BY <2>2, <2>6, <2>8, <2>9, <2>10
<1>3. Fine(S)
  <2>1. Cardinality(S) \in Nat
    BY <1>1
  <2> HIDE DEF Fine
  <2> QED BY <1>2, <2>1
<1>4. Img(S) = T
  BY DEF StandsFor
<1> QED BY <1>3, <1>4

=============================================================================
