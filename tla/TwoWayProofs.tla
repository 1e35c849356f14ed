---------------------------- MODULE TwoWayProofs ----------------------------
(* The two-way table, for every key set, hash, BUCKET, capacity and sequence *)
(* of calls.  First its safety: where keys are, what memory is owned.  Then   *)
(* that it is a map: no entry is held twice or lost while grows nest,         *)
(* look-ups return what was put in, and the table implements KeyValueMap.  A  *)
(* grow moves entries from hand to hand, so these proofs follow each entry    *)
(* together with the place that holds it.  Counting and adding up entries     *)
(* then shows that insert dies only of crowding, with the slots of its entry  *)
(* full of keys that have no other choice, and that the checksum is that of   *)
(* the caller's entries.                                                     *)
EXTENDS TwoWay, TwoWayReads, NumberLemmas, SequenceTheorems

-----------------------------------------------------------------------------
(* Slots and places.                                                         *)

\* n_1 and n_2 are well defined: the first place of a slot not below EMPTY.
LEMMA FillIsFirst ==
    ASSUME NEW slot \in Slot
    PROVE  Fill(slot) \in 0 .. BUCKET /\ IsFill(slot, Fill(slot))
<1> USE SizeAssumption
<1> DEFINE T == {n \in 0 .. BUCKET : n < BUCKET => ~ (slot.keys[n] < EMPTY)}
<1>1. T \in SUBSET Nat /\ BUCKET \in T
  OBVIOUS
<1>2. PICK m \in T : \A k \in T : m <= k
  BY <1>1, LeastNatural
<1>3. IsFill(slot, m)
  <2>1. \A p \in 0 .. m - 1 : slot.keys[p] < EMPTY
    BY <1>2
  <2> QED BY <2>1 DEF IsFill
<1> QED BY <1>3 DEF Fill

\* The hash names slots of the array.
LEMMA IndexInArray ==
    ASSUME NEW c \in Nat \ {0}, NEW h \in Nat
    PROVE  h % c \in 0 .. c - 1
  OBVIOUS

-----------------------------------------------------------------------------
(* What the operations do to an array.                                       *)

\* A new array is typed, and empty.
LEMMA NewArrayGood ==
    ASSUME NEW c \in Nat \ {0}
    PROVE  /\ NewArray(c) \in Array(c)
           /\ Occupied(NewArray(c)) = {}
<1>1. EmptySlot \in Slot
  BY DEF EmptySlot, Slot
<1>2. NewArray(c) \in Array(c)
  BY <1>1 DEF NewArray, Array
<1>3. \A i \in 0 .. c - 1, p \in Pos : NewArray(c)[i].keys[p] = EMPTY
  BY DEF NewArray, EmptySlot
<1>4. DOMAIN NewArray(c) = 0 .. c - 1
  BY DEF NewArray
<1>5. Occupied(NewArray(c)) = {}
  BY <1>3, <1>4 DEF Occupied
<1> QED BY <1>2, <1>5

\* An empty array is compact and places no key wrongly.
LEMMA EmptyIsGood ==
    ASSUME NEW A, NEW c, Occupied(A) = {}
    PROVE  Compact(A) /\ Placed(A, c)
  BY DEF Compact, Placed

\* fill_empty on a used array: typed, and empty.
LEMMA FillEmptyGood ==
    ASSUME NEW c \in Nat \ {0}, NEW A \in Array(c)
    PROVE  /\ FillEmpty(A) \in Array(c)
           /\ Occupied(FillEmpty(A)) = {}
<1> DEFINE B == FillEmpty(A)
<1>1. DOMAIN A = 0 .. c - 1 /\ DOMAIN B = 0 .. c - 1
  BY DEF Array, FillEmpty
<1>2. ASSUME NEW i \in 0 .. c - 1
      PROVE  B[i] \in Slot /\ \A p \in Pos : B[i].keys[p] = EMPTY
  <2>1. A[i] \in Slot
    BY DEF Array
  <2>2. B[i] = [A[i] EXCEPT !.keys = [p \in Pos |-> EMPTY]]
    BY <1>1 DEF FillEmpty
  <2> QED BY <2>1, <2>2 DEF Slot
<1>3. B \in Array(c)
  BY <1>1, <1>2 DEF Array, FillEmpty
<1>4. Occupied(B) = {}
  BY <1>1, <1>2 DEF Occupied
<1> QED BY <1>3, <1>4

\* insert writes into the first free place of a slot, so the slot stays compact.
LEMMA PutGood ==
    ASSUME NEW c \in Nat \ {0}, NEW A \in Array(c), NEW i \in 0 .. c - 1,
           NEW e \in Key \X Value, NEW n \in Pos, IsFill(A[i], n),
           Compact(A)
    PROVE  /\ Put(A, i, n, e) \in Array(c)
           /\ Occupied(Put(A, i, n, e)) = Occupied(A) \cup {<<i, n>>}
           /\ <<i, n>> \notin Occupied(A)
           /\ Compact(Put(A, i, n, e))
           /\ Placed(A, c) /\ i \in {H1[e[1]] % c, H2[e[1]] % c}
                => Placed(Put(A, i, n, e), c)
<1> DEFINE B == Put(A, i, n, e)
<1> USE SizeAssumption, KeyAssumption
<1>1. DOMAIN A = 0 .. c - 1 /\ DOMAIN B = 0 .. c - 1 /\ A[i] \in Slot
  BY DEF Array, Put
<1>2. \A h \in 0 .. c - 1 : h # i => B[h] = A[h]
  BY <1>1 DEF Put
<1>3. B[i] = [keys |-> [A[i].keys EXCEPT ![n] = e[1]],
              values |-> [A[i].values EXCEPT ![n] = e[2]]]
  BY <1>1 DEF Put
<1>4. A[i].keys \in [Pos -> Key \cup {EMPTY}]
        /\ A[i].values \in [Pos -> Value \cup {Indeterminate}]
  BY <1>1 DEF Slot
<1>5. /\ B[i].keys[n] = e[1] /\ B[i].values[n] = e[2]
      /\ \A p \in Pos : p # n => /\ B[i].keys[p] = A[i].keys[p]
                                 /\ B[i].values[p] = A[i].values[p]
  BY <1>3, <1>4
<1>6. B[i] \in Slot
  BY <1>3, <1>4 DEF Slot
<1>7. B \in Array(c)
  BY <1>1, <1>6 DEF Array, Put
<1>8. e[1] # EMPTY /\ A[i].keys[n] = EMPTY
  <2>1. ~ (A[i].keys[n] < EMPTY)
    BY DEF IsFill, Pos
  <2> QED BY <2>1, <1>4
<1> HIDE DEF B
<1>9. <<i, n>> \notin Occupied(A)
  BY <1>8 DEF Occupied
<1>10. Occupied(B) = Occupied(A) \cup {<<i, n>>}
  <2>1. ASSUME NEW h \in 0 .. c - 1, NEW p \in Pos
        PROVE  B[h].keys[p] # EMPTY <=> A[h].keys[p] # EMPTY \/ <<h, p>> = <<i, n>>
    BY <1>2, <1>5, <1>8
  <2> QED BY <2>1, <1>1, <1>8 DEF Occupied
<1>11. Compact(B)
  <2> SUFFICES ASSUME NEW ip \in Occupied(B)
               PROVE  /\ B[ip[1]].values[ip[2]] \in Value
                      /\ \A q \in 0 .. ip[2] : B[ip[1]].keys[q] # EMPTY
    BY DEF Compact
  <2>1. ip[1] \in 0 .. c - 1 /\ ip[2] \in Pos /\ ip = <<ip[1], ip[2]>>
    BY <1>1 DEF Occupied
  <2>2. \A q \in 0 .. ip[2] : q \in Pos
    BY <2>1 DEF Pos
  <2>3. CASE ip = <<i, n>>
    <3>1. \A q \in 0 .. n - 1 : A[i].keys[q] < EMPTY /\ q \in Pos
      BY DEF IsFill, Pos
    <3>2. \A q \in 0 .. n - 1 : B[i].keys[q] # EMPTY
      BY <3>1, <1>4, <1>5
    <3>3. B[i].keys[n] # EMPTY /\ B[i].values[n] \in Value
      BY <1>5, <1>8
    <3>4. ip[1] = i /\ ip[2] = n
      BY <2>3
    <3>5. \A q \in 0 .. n : q \in 0 .. n - 1 \/ q = n
      BY DEF Pos
    <3> QED BY <3>2, <3>3, <3>4, <3>5
  <2>4. CASE ip # <<i, n>>
    <3>1. ip \in Occupied(A)
      BY <1>10, <2>4
    <3>2. /\ A[ip[1]].values[ip[2]] \in Value
          /\ \A q \in 0 .. ip[2] : A[ip[1]].keys[q] # EMPTY
      BY <3>1 DEF Compact
    <3>3. ~ (ip[1] = i /\ ip[2] = n)
      BY <2>1, <2>4
    <3> QED BY <3>2, <3>3, <2>1, <2>2, <1>2, <1>5, <1>8
  <2> QED BY <2>3, <2>4
<1>12. ASSUME Placed(A, c), i \in {H1[e[1]] % c, H2[e[1]] % c}
       PROVE  Placed(B, c)
  <2> SUFFICES ASSUME NEW ip \in Occupied(B)
               PROVE  ip[1] \in {H1[B[ip[1]].keys[ip[2]]] % c,
                                 H2[B[ip[1]].keys[ip[2]]] % c}
    BY DEF Placed
  <2>1. ip[1] \in 0 .. c - 1 /\ ip[2] \in Pos /\ ip = <<ip[1], ip[2]>>
    BY <1>1 DEF Occupied
  <2>2. CASE ip = <<i, n>>
    BY <2>2, <1>5, <1>12
  <2>3. CASE ip # <<i, n>>
    <3>1. ip \in Occupied(A)
      BY <1>10, <2>3
    <3>2. B[ip[1]].keys[ip[2]] = A[ip[1]].keys[ip[2]]
      BY <2>1, <2>3, <1>2, <1>5
    <3> QED BY <3>1, <3>2, <1>12 DEF Placed
  <2> QED BY <2>2, <2>3
<1> QED BY <1>7, <1>9, <1>10, <1>11, <1>12 DEF B

\* erase closes the gap it makes: one place less is occupied, the last of the
\* slot, and the keys that moved are still in their slot.
LEMMA RemoveGood ==
    ASSUME NEW c \in Nat \ {0}, NEW A \in Array(c), NEW i \in 0 .. c - 1,
           NEW p \in Pos, A[i].keys[p] # EMPTY, Compact(A)
    PROVE  /\ Remove(A, i, p) \in Array(c)
           /\ \E m \in Pos : /\ <<i, m>> \in Occupied(A)
                             /\ Occupied(Remove(A, i, p)) = Occupied(A) \ {<<i, m>>}
           /\ Compact(Remove(A, i, p))
           /\ Placed(A, c) => Placed(Remove(A, i, p), c)
<1> DEFINE B == Remove(A, i, p)
           m == Fill(A[i]) - 1
           moved(q) == IF q < p THEN q ELSE q + 1
<1> USE SizeAssumption, KeyAssumption
<1>1. DOMAIN A = 0 .. c - 1 /\ DOMAIN B = 0 .. c - 1 /\ A[i] \in Slot
  BY DEF Array, Remove
<1>2. \A h \in 0 .. c - 1 : h # i => B[h] = A[h]
  BY <1>1 DEF Remove
<1>3. B[i] = Without(A[i], p)
  BY <1>1 DEF Remove
<1>4. A[i].keys \in [Pos -> Key \cup {EMPTY}]
        /\ A[i].values \in [Pos -> Value \cup {Indeterminate}]
  BY <1>1 DEF Slot
<1>5. \A q \in Pos : q # BUCKET - 1 => moved(q) \in Pos
  BY DEF Pos
<1>6. \A q \in Pos :
        /\ q = BUCKET - 1 => B[i].keys[q] = EMPTY
        /\ q # BUCKET - 1 => /\ B[i].keys[q] = A[i].keys[moved(q)]
                             /\ B[i].values[q] = A[i].values[moved(q)]
  BY <1>3 DEF Without
<1>7. B[i] \in Slot
  <2>1. \A q \in Pos : B[i].keys[q] \in Key \cup {EMPTY}
    <3> HIDE DEF B, moved
    <3> QED BY <1>4, <1>5, <1>6
  <2>2. \A q \in Pos : B[i].values[q] \in Value \cup {Indeterminate}
    <3> SUFFICES ASSUME NEW q \in Pos
                 PROVE  B[i].values[q] \in Value \cup {Indeterminate}
      OBVIOUS
    <3>1. CASE q # BUCKET - 1
      <4> HIDE DEF B, moved
      <4> QED BY <3>1, <1>4, <1>5, <1>6
    <3>2. CASE q = BUCKET - 1
      BY <3>2, <1>3, <1>4 DEF Without
    <3> QED BY <3>1, <3>2
  <2>3. /\ B[i].keys = [q \in Pos |-> B[i].keys[q]]
        /\ B[i].values = [q \in Pos |-> B[i].values[q]]
        /\ B[i] = [keys |-> B[i].keys, values |-> B[i].values]
    BY <1>3 DEF Without
  <2> QED BY <2>1, <2>2, <2>3 DEF Slot
<1>8. B \in Array(c)
  BY <1>1, <1>7 DEF Array, Remove
<1>9. \A q \in Pos : A[i].keys[q] # EMPTY =>
         /\ A[i].values[q] \in Value
         /\ \A r \in 0 .. q : A[i].keys[r] # EMPTY
  <2> SUFFICES ASSUME NEW q \in Pos, A[i].keys[q] # EMPTY
               PROVE  /\ A[i].values[q] \in Value
                      /\ \A r \in 0 .. q : A[i].keys[r] # EMPTY
    OBVIOUS
  <2>1. <<i, q>> \in Occupied(A)
    BY <1>1 DEF Occupied
  <2> QED BY <2>1 DEF Compact
<1>10. Fill(A[i]) \in 0 .. BUCKET /\ IsFill(A[i], Fill(A[i]))
  BY <1>1, FillIsFirst
<1>11. \A q \in Pos : A[i].keys[q] # EMPTY <=> q <= m
  <2> SUFFICES ASSUME NEW q \in Pos PROVE A[i].keys[q] # EMPTY <=> q <= m
    OBVIOUS
  <2>1. q <= m => A[i].keys[q] < EMPTY
    BY <1>10 DEF IsFill, Pos
  <2>2. CASE q > m
    <3>1. Fill(A[i]) \in Pos /\ ~ (A[i].keys[Fill(A[i])] < EMPTY)
      BY <2>2, <1>10 DEF IsFill, Pos
    <3>2. A[i].keys[Fill(A[i])] = EMPTY
      BY <3>1, <1>4
    <3>3. Fill(A[i]) \in 0 .. q
      BY <2>2, <3>1 DEF Pos
    <3> QED BY <3>2, <3>3, <1>9, <2>2, <1>10 DEF Pos
  <2> QED BY <2>1, <2>2, <1>4, <1>10 DEF Pos
<1>12. m \in Pos /\ p <= m
  BY <1>10, <1>11 DEF Pos
<1> HIDE DEF B, m
<1>13. \A q \in Pos : B[i].keys[q] # EMPTY <=> q < m
  <2> SUFFICES ASSUME NEW q \in Pos PROVE B[i].keys[q] # EMPTY <=> q < m
    OBVIOUS
  <2>1. q \in 0 .. BUCKET - 1 /\ m \in 0 .. BUCKET - 1 /\ p \in 0 .. BUCKET - 1
    BY <1>12 DEF Pos
  <2>2. CASE q = BUCKET - 1
    <3>1. B[i].keys[q] = EMPTY
      BY <2>2, <1>6
    <3>2. ~ (q < m)
      BY <2>1, <2>2
    <3> QED BY <3>1, <3>2
  <2>3. CASE q # BUCKET - 1
    <3>1. B[i].keys[q] # EMPTY <=> moved(q) <= m
      BY <2>3, <1>5, <1>6, <1>11
    <3> QED BY <3>1, <2>1, <1>12
  <2> QED BY <2>2, <2>3
<1>14. Occupied(B) = Occupied(A) \ {<<i, m>>}
  <2>1. ASSUME NEW h \in 0 .. c - 1, NEW q \in Pos
        PROVE  B[h].keys[q] # EMPTY <=> A[h].keys[q] # EMPTY /\ <<h, q>> # <<i, m>>
    <3>1. CASE h = i
      BY <3>1, <1>11, <1>12, <1>13 DEF Pos
    <3>2. CASE h # i
      BY <3>2, <1>2
    <3> QED BY <3>1, <3>2
  <2> QED BY <2>1, <1>1 DEF Occupied
<1>15. <<i, m>> \in Occupied(A)
  BY <1>1, <1>11, <1>12 DEF Occupied, Pos
<1>16. ASSUME NEW ip \in Occupied(B), ip[1] = i
       PROVE  /\ ip[2] \in Pos /\ ip[2] # BUCKET - 1 /\ ip[2] < m
              /\ A[i].keys[moved(ip[2])] # EMPTY
              /\ B[i].keys[ip[2]] = A[i].keys[moved(ip[2])]
              /\ B[i].values[ip[2]] = A[i].values[moved(ip[2])]
  <2>1. ip[2] \in Pos /\ B[i].keys[ip[2]] # EMPTY
    BY <1>16 DEF Occupied
  <2>2. ip[2] < m /\ ip[2] # BUCKET - 1 /\ moved(ip[2]) <= m
    BY <2>1, <1>12, <1>13 DEF Pos
  <2>3. moved(ip[2]) \in Pos
    BY <2>1, <2>2, <1>5
  <2>4. A[i].keys[moved(ip[2])] # EMPTY
    BY <2>2, <2>3, <1>11
  <2> HIDE DEF moved
  <2> QED BY <2>1, <2>2, <2>4, <1>6
<1>17. ASSUME NEW ip \in Occupied(B), ip[1] # i
       PROVE  ip \in Occupied(A) /\ ip[1] \in 0 .. c - 1 /\ B[ip[1]] = A[ip[1]]
  BY <1>1, <1>2, <1>14, <1>17 DEF Occupied
<1>18. Compact(B)
  <2> SUFFICES ASSUME NEW ip \in Occupied(B)
               PROVE  /\ B[ip[1]].values[ip[2]] \in Value
                      /\ \A q \in 0 .. ip[2] : B[ip[1]].keys[q] # EMPTY
    BY DEF Compact
  <2>1. CASE ip[1] = i
    <3>1. \A q \in 0 .. ip[2] : q \in Pos /\ q < m
      BY <2>1, <1>16, <1>12 DEF Pos
    <3> QED BY <3>1, <2>1, <1>5, <1>9, <1>13, <1>16
  <2>2. CASE ip[1] # i
    BY <2>2, <1>17 DEF Compact
  <2> QED BY <2>1, <2>2
<1>19. ASSUME Placed(A, c)
       PROVE  Placed(B, c)
  <2> SUFFICES ASSUME NEW ip \in Occupied(B)
               PROVE  ip[1] \in {H1[B[ip[1]].keys[ip[2]]] % c,
                                 H2[B[ip[1]].keys[ip[2]]] % c}
    BY DEF Placed
  <2>1. CASE ip[1] = i
    <3>1. <<i, moved(ip[2])>> \in Occupied(A)
      BY <2>1, <1>1, <1>5, <1>16 DEF Occupied
    <3> QED BY <3>1, <2>1, <1>16, <1>19 DEF Placed
  <2>2. CASE ip[1] # i
    BY <2>2, <1>17, <1>19 DEF Placed
  <2> QED BY <2>1, <2>2
<1> QED BY <1>8, <1>12, <1>14, <1>15, <1>18, <1>19 DEF B

-----------------------------------------------------------------------------
(* The inductive invariant.  The type invariant needs Ownership, or writing  *)
(* the table's array could change one that a grow reads, and SlotsCompact,   *)
(* or a grow could insert a value nobody wrote.                              *)

IInv == TypeOK /\ Ownership /\ SlotsCompact /\ KeysPlaced /\ SizeIsCount

\* The places of an array are finitely many, so its keys can be counted.
LEMMA OccupiedFinite ==
    ASSUME NEW c \in Nat \ {0}, NEW A \in Array(c)
    PROVE  IsFiniteSet(Occupied(A))
<1>1. IsFiniteSet(0 .. c - 1) /\ IsFiniteSet(Pos)
  BY SizeAssumption, FS_Interval DEF Pos
<1>2. IsFiniteSet((0 .. c - 1) \X Pos)
  BY <1>1, FS_Product
<1>3. Occupied(A) \subseteq (0 .. c - 1) \X Pos
  BY DEF Occupied, Array
<1> QED BY <1>2, <1>3, FS_Subset

\* An empty table satisfies the invariant.
LEMMA InitInv == Init => IInv
<1> SUFFICES ASSUME Init PROVE IInv
  OBVIOUS
<1> USE SizeAssumption
<1>1. PICK a \in Addr : data = a /\ heap = [b \in {a} |-> NewArray(InitialCapacity)]
  BY DEF Init
<1> DEFINE A == NewArray(InitialCapacity)
<1>2. A \in Array(InitialCapacity) /\ Occupied(A) = {}
  BY NewArrayGood
<1>3. heap[data] = A /\ DOMAIN heap = {data}
  BY <1>1
<1>4. Compact(A) /\ Placed(A, InitialCapacity)
  BY <1>2, EmptyIsGood
<1> HIDE DEF A
<1>5. frames = <<>> /\ Len(frames) = 0 /\ frames \in Seq(Frame)
  BY DEF Init
<1>6. TypeOK
  BY <1>1, <1>2, <1>3, <1>5 DEF Init, TypeOK
<1>7. Ownership
  BY <1>3, <1>5 DEF Init, Ownership
<1>8. SlotsCompact /\ KeysPlaced
  BY <1>3, <1>4 DEF Init, SlotsCompact, KeysPlaced
<1>9. SizeIsCount
  BY <1>2, <1>3, FS_EmptySet DEF Init, SizeIsCount
<1> QED BY <1>6, <1>7, <1>8, <1>9 DEF IInv

\* What insert, erase and clear have to show: that the new array is good.
LEMMA TableChanges ==
    ASSUME IInv, status = "live", UNCHANGED <<data, capacity, frames, status>>,
           NEW B \in Array(capacity), Compact(B), Placed(B, capacity),
           heap' = [heap EXCEPT ![data] = B],
           arg' \in (Key \X Value) \cup {NULL},
           size_' = Cardinality(Occupied(B))
    PROVE  IInv'
<1> USE DEF IInv
<1>1. DOMAIN heap' = DOMAIN heap /\ data \in DOMAIN heap
        /\ heap'[data] = B /\ \A a \in DOMAIN heap : a # data => heap'[a] = heap[a]
  BY DEF Ownership
<1>2. \A n \in 1 .. Len(frames) :
        heap'[frames[n].old] = heap[frames[n].old]
  BY <1>1 DEF Ownership
<1>3. size_' \in Int
  BY OccupiedFinite, FS_CardinalityType DEF TypeOK
<1>4. TypeOK'
  BY <1>1, <1>2, <1>3 DEF TypeOK
<1>5. Ownership'
  BY <1>1 DEF Ownership
<1>6. SlotsCompact'
  BY <1>1 DEF SlotsCompact
<1>7. KeysPlaced' /\ SizeIsCount'
  BY <1>1 DEF KeysPlaced, SizeIsCount
<1> QED BY <1>4, <1>5, <1>6, <1>7

\* A grow that runs has a frame.
LEMMA TopIsFrame ==
    ASSUME TypeOK, InGrow
    PROVE  /\ frames \in Seq(Frame) /\ Len(frames) \in Nat \ {0} /\ Len(frames) \in 1 .. Len(frames)
           /\ Top \in Frame
<1>1. frames \in Seq(Frame) /\ frames # << >>
  BY DEF InGrow, TypeOK
<1>2. Len(frames) \in Nat /\ Len(frames) # 0
  BY <1>1, EmptySeq, LenProperties
<1>3. Len(frames) \in 1 .. Len(frames)
  BY <1>2
<1> QED BY <1>1, <1>2, <1>3, ElementOfSeq DEF Top

\* A grow that moves on changes its frame only.
LEMMA FrameMoves ==
    ASSUME IInv, InGrow, UNCHANGED <<heap, data, capacity, size_, status>>,
           NEW i \in Nat, NEW j \in 0 .. BUCKET, i <= Top.old_capacity,
           frames' = [frames EXCEPT ![Len(frames)] = [Top EXCEPT !.i = i, !.j = j]],
           arg' \in (Key \X Value) \cup {NULL}
    PROVE  IInv'
<1> USE DEF IInv
<1> DEFINE f == [Top EXCEPT !.i = i, !.j = j]
<1>1. frames \in Seq(Frame) /\ Len(frames) \in 1 .. Len(frames) /\ Top \in Frame
  BY TopIsFrame
<1>2. f \in Frame /\ f.old = Top.old /\ f.old_capacity = Top.old_capacity /\ f.i = i
  BY <1>1 DEF Frame
<1>3. frames' \in Seq(Frame) /\ Len(frames') = Len(frames)
  BY <1>1, <1>2, ExceptSeq
<1>4. \A n \in 1 .. Len(frames) :
        /\ frames'[n].old = frames[n].old
        /\ frames'[n].old_capacity = frames[n].old_capacity
        /\ frames'[n].i = IF n = Len(frames) THEN i ELSE frames[n].i
  <2> SUFFICES ASSUME NEW n \in 1 .. Len(frames)
               PROVE  /\ frames'[n].old = frames[n].old
                      /\ frames'[n].old_capacity = frames[n].old_capacity
                      /\ frames'[n].i = IF n = Len(frames) THEN i ELSE frames[n].i
    OBVIOUS
  <2>1. frames'[n] = IF n = Len(frames) THEN f ELSE frames[n]
    BY <1>1, <1>2, ExceptSeq
  <2> QED BY <2>1, <1>2 DEF Top
<1> HIDE DEF f
<1>5. TypeOK'
  BY <1>1, <1>3, <1>4 DEF TypeOK, Top
<1>6. Ownership'
  <2>1. {frames'[n].old : n \in 1 .. Len(frames')} = {frames[n].old : n \in 1 .. Len(frames)}
    BY <1>3, <1>4
  <2>2. \A m, n \in 1 .. Len(frames') : m # n => frames'[m].old # frames'[n].old
    BY <1>3, <1>4 DEF Ownership
  <2> QED BY <2>1, <2>2 DEF Ownership
<1>7. SlotsCompact' /\ KeysPlaced' /\ SizeIsCount'
  BY DEF SlotsCompact, KeysPlaced, SizeIsCount
<1> QED BY <1>5, <1>6, <1>7

-----------------------------------------------------------------------------
(* One lemma per action.                                                     *)

\* insert writes into the first free place of one of the two slots its hash names.
LEMMA PlaceIsPut ==
    ASSUME IInv, Place
    PROVE  \E i \in 0 .. capacity - 1, n \in Pos :
             /\ i \in {Index1(arg[1]), Index2(arg[1])}
             /\ IsFill(heap[data][i], n)
             /\ Store(i, n, arg)
<1> USE SizeAssumption, HashAssumption DEF IInv
<1> DEFINE A == heap[data]
           k == arg[1]
           n_1 == Fill(Slot1(k))
           n_2 == Fill(Slot2(k))
<1>1. A \in Array(capacity) /\ capacity \in Nat \ {0} /\ arg \in Key \X Value
  BY DEF TypeOK, Place, Running
<1>2. Index1(k) \in 0 .. capacity - 1 /\ Index2(k) \in 0 .. capacity - 1
  BY <1>1, IndexInArray DEF Index1, Index2
<1>3. Slot1(k) = A[Index1(k)] /\ Slot2(k) = A[Index2(k)]
        /\ A[Index1(k)] \in Slot /\ A[Index2(k)] \in Slot
  BY <1>1, <1>2 DEF Array, Slot1, Slot2
<1>4. /\ n_1 \in 0 .. BUCKET /\ IsFill(A[Index1(k)], n_1)
      /\ n_2 \in 0 .. BUCKET /\ IsFill(A[Index2(k)], n_2)
  BY <1>3, FillIsFirst
<1>5. CASE n_1 <= n_2 /\ Store(Index1(k), n_1, arg)
  <2>1. n_1 \in Pos
    BY <1>4, <1>5 DEF Place, HasRoom, Pos
  <2> QED BY <1>2, <1>4, <1>5, <2>1
<1>6. CASE n_1 > n_2 /\ Store(Index2(k), n_2, arg)
  <2>1. n_2 \in Pos
    BY <1>4, <1>6 DEF Pos
  <2> QED BY <1>2, <1>4, <1>6, <2>1
<1> QED BY <1>5, <1>6 DEF Place

LEMMA PlaceInv == ASSUME IInv, Place PROVE IInv'
<1> USE SizeAssumption, HashAssumption DEF IInv
<1> DEFINE A == heap[data]
<1>1. A \in Array(capacity) /\ Compact(A) /\ Placed(A, capacity)
        /\ size_ = Cardinality(Occupied(A)) /\ capacity \in Nat \ {0}
        /\ arg \in Key \X Value /\ status = "live"
  BY DEF TypeOK, Ownership, SlotsCompact, KeysPlaced, SizeIsCount, Place, Running
<1>2. PICK i \in 0 .. capacity - 1, n \in Pos :
        /\ i \in {Index1(arg[1]), Index2(arg[1])} /\ IsFill(A[i], n) /\ Store(i, n, arg)
  BY PlaceIsPut
<1> DEFINE B == Put(A, i, n, arg)
<1>3. i \in {H1[arg[1]] % capacity, H2[arg[1]] % capacity}
  BY <1>2 DEF Index1, Index2
<1>4. /\ B \in Array(capacity) /\ Compact(B) /\ Placed(B, capacity)
      /\ Occupied(B) = Occupied(A) \cup {<<i, n>>} /\ <<i, n>> \notin Occupied(A)
  BY <1>1, <1>2, <1>3, PutGood
<1>5. size_' = Cardinality(Occupied(B))
  BY <1>1, <1>4, OccupiedFinite, FS_AddElement DEF Place
<1>6. heap' = [heap EXCEPT ![data] = B]
  BY <1>2 DEF Store
<1> HIDE DEF B
<1> QED BY <1>1, <1>4, <1>5, <1>6, TableChanges DEF Place

\* erase removes the key at the place that its loop hits.
LEMMA EraseIsRemove ==
    ASSUME IInv, NEW k \in Key, Erase(k)
    PROVE  \E i \in 0 .. capacity - 1, p \in Pos :
             /\ heap[data][i].keys[p] = k
             /\ heap' = [heap EXCEPT ![data] = Remove(heap[data], i, p)]
<1> USE SizeAssumption, HashAssumption, KeyAssumption DEF IInv
<1> DEFINE n == FirstHit(k)
           i == ProbeSlot(k, n)
           p == n \div 2
<1>1. capacity \in Nat \ {0}
  BY DEF TypeOK
<1>2. n \in Hits(k)
  <2>1. Hits(k) \in SUBSET Nat /\ Hits(k) # {}
    BY DEF Hits, Erase
  <2>2. \E m \in Hits(k) : \A l \in Hits(k) : m <= l
    BY <2>1, LeastNatural
  <2> QED BY <2>2 DEF FirstHit
<1>3. n \in 0 .. 2 * BUCKET - 1 /\ heap[data][i].keys[p] = k
  BY <1>2 DEF Hits, ProbeKey
<1>4. p \in Pos
  BY <1>3 DEF Pos
<1>5. i \in 0 .. capacity - 1
  BY <1>1, IndexInArray DEF ProbeSlot, Index1, Index2
<1>6. heap' = [heap EXCEPT ![data] = Remove(heap[data], i, p)]
  BY DEF Erase
<1> QED BY <1>3, <1>4, <1>5, <1>6

LEMMA EraseInv == ASSUME IInv, NEW k \in Key, Erase(k) PROVE IInv'
<1> USE SizeAssumption, HashAssumption, KeyAssumption DEF IInv
<1> DEFINE A == heap[data]
<1>1. A \in Array(capacity) /\ Compact(A) /\ Placed(A, capacity)
        /\ size_ = Cardinality(Occupied(A)) /\ capacity \in Nat \ {0}
        /\ status = "live" /\ arg = NULL
  BY DEF TypeOK, Ownership, SlotsCompact, KeysPlaced, SizeIsCount, Erase, Idle
<1>2. PICK i \in 0 .. capacity - 1, p \in Pos :
        A[i].keys[p] = k /\ heap' = [heap EXCEPT ![data] = Remove(A, i, p)]
  BY EraseIsRemove
<1> DEFINE B == Remove(A, i, p)
<1>3. A[i].keys[p] # EMPTY
  BY <1>2
<1> HIDE DEF A
<1>4. PICK m \in Pos : <<i, m>> \in Occupied(A) /\ Occupied(B) = Occupied(A) \ {<<i, m>>}
  BY ONLY <1>1, <1>2, <1>3, RemoveGood
<1>5. B \in Array(capacity) /\ Compact(B) /\ Placed(B, capacity)
  BY ONLY <1>1, <1>2, <1>3, RemoveGood
<1>6. size_' = Cardinality(Occupied(B))
  <2>1. IsFiniteSet(Occupied(A))
    BY <1>1, OccupiedFinite
  <2>2. Cardinality(Occupied(A) \ {<<i, m>>}) = Cardinality(Occupied(A)) - 1
    BY <1>4, <2>1, FS_RemoveElement
  <2>3. size_' = size_ - 1
    BY DEF Erase
  <2> HIDE DEF B
  <2> QED BY <1>1, <1>4, <2>2, <2>3
<1> HIDE DEF B
<1> QED BY <1>1, <1>2, <1>5, <1>6, TableChanges DEF Erase, A, B

LEMMA ClearInv == ASSUME IInv, Clear PROVE IInv'
<1> USE DEF IInv
<1> DEFINE B == FillEmpty(heap[data])
<1>1. heap[data] \in Array(capacity) /\ capacity \in Nat \ {0}
        /\ status = "live" /\ arg = NULL
  BY DEF TypeOK, Clear, Idle
<1>2. B \in Array(capacity) /\ Occupied(B) = {}
  BY <1>1, FillEmptyGood
<1>3. Compact(B) /\ Placed(B, capacity)
  BY <1>2, EmptyIsGood
<1>4. size_' = Cardinality(Occupied(B))
  BY <1>2, FS_EmptySet DEF Clear
<1>5. heap' = [heap EXCEPT ![data] = B]
  BY DEF Clear
<1> HIDE DEF B
<1> QED BY <1>1, <1>2, <1>3, <1>4, <1>5, TableChanges DEF Clear

LEMMA MigrateInv == ASSUME IInv, Migrate PROVE IInv'
<1> USE SizeAssumption DEF IInv
<1> DEFINE A == heap[Top.old]
<1>1. frames \in Seq(Frame) /\ Len(frames) \in 1 .. Len(frames) /\ Top \in Frame
  BY TopIsFrame DEF Migrate
<1>2. A \in Array(Top.old_capacity) /\ Top.old \in DOMAIN heap
  BY <1>1 DEF TypeOK, Ownership, Top
<1>3. Top.i \in 0 .. Top.old_capacity - 1 /\ Top.j \in Pos
        /\ Top.i \in Nat /\ Top.j + 1 \in 0 .. BUCKET /\ Top.i <= Top.old_capacity
  BY <1>1 DEF Frame, Migrate, AtEntry, Pos
<1>4. A[Top.i] \in Slot /\ A[Top.i].keys[Top.j] # EMPTY
  BY <1>2, <1>3 DEF Array, Migrate, AtEntry
<1>5. <<Top.i, Top.j>> \in Occupied(A)
  BY <1>2, <1>3, <1>4 DEF Occupied, Array
<1>6. A[Top.i].values[Top.j] \in Value
  BY <1>2, <1>5 DEF SlotsCompact, Compact
<1>7. A[Top.i].keys[Top.j] \in Key
  BY <1>3, <1>4 DEF Slot
<1>8. arg' \in Key \X Value
  BY <1>6, <1>7 DEF Migrate
<1>9. frames' = [frames EXCEPT ![Len(frames)] =
                   [Top EXCEPT !.i = Top.i, !.j = Top.j + 1]]
  <2>1. [Top EXCEPT !.j = Top.j + 1] = [Top EXCEPT !.i = Top.i, !.j = Top.j + 1]
    BY <1>1 DEF Frame
  <2> QED BY <2>1 DEF Migrate, SetTop
<1> QED BY <1>3, <1>8, <1>9, FrameMoves DEF Migrate

LEMMA NextSlotInv == ASSUME IInv, NextSlot PROVE IInv'
<1> USE SizeAssumption DEF IInv
<1>1. frames \in Seq(Frame) /\ Len(frames) \in 1 .. Len(frames) /\ Top \in Frame
  BY TopIsFrame DEF NextSlot
<1>2. Top.i + 1 \in Nat /\ 0 \in 0 .. BUCKET /\ Top.i + 1 <= Top.old_capacity
  BY <1>1 DEF Frame, NextSlot
<1>3. arg' \in (Key \X Value) \cup {NULL}
  BY DEF NextSlot, TypeOK
<1>4. frames' = [frames EXCEPT ![Len(frames)] = [Top EXCEPT !.i = Top.i + 1, !.j = 0]]
  BY DEF NextSlot, SetTop
<1> QED BY <1>2, <1>3, <1>4, FrameMoves DEF NextSlot

LEMMA InsertInv ==
    ASSUME IInv, NEW k \in Key, NEW v \in Value, Insert(k, v) PROVE IInv'
  BY DEF IInv, TypeOK, Ownership, SlotsCompact, KeysPlaced, SizeIsCount, Insert, Idle

LEMMA GrowFailsInv == ASSUME IInv, GrowFails PROVE IInv'
  BY DEF IInv, TypeOK, Ownership, SlotsCompact, KeysPlaced, SizeIsCount, GrowFails,
         Running

\* grow takes a new block and one more frame; the other frames stay.
LEMMA GrowPushes ==
    ASSUME IInv, Grow
    PROVE  /\ Len(frames) \in Nat /\ Len(frames') = Len(frames) + 1
           /\ frames' \in Seq(Frame)
           /\ \A n \in 1 .. Len(frames) : frames'[n] = frames[n]
           /\ LET f == frames'[Len(frames) + 1]
              IN  f.old = data /\ f.old_capacity = capacity /\ f.i = 0 /\ f.j = 0
                    /\ f.retry = arg
           /\ data' \in Addr \ DOMAIN heap /\ DOMAIN heap' = DOMAIN heap \cup {data'}
           /\ heap'[data'] = NewArray(2 * capacity)
           /\ \A b \in DOMAIN heap : heap'[b] = heap[b]
<1> DEFINE f == [old |-> data, old_capacity |-> capacity, i |-> 0, j |-> 0,
                 retry |-> arg]
<1>1. f \in Frame
  BY SizeAssumption DEF IInv, TypeOK, Grow, Running, Frame
<1>2. f.old = data /\ f.old_capacity = capacity /\ f.i = 0 /\ f.j = 0 /\ f.retry = arg
  OBVIOUS
<1>3. frames' = Append(frames, f) /\ frames \in Seq(Frame) /\ Len(frames) \in Nat
  BY LenProperties DEF Grow, IInv, TypeOK
<1> HIDE DEF f
<1>4. /\ frames' \in Seq(Frame) /\ Len(frames') = Len(frames) + 1
      /\ \A n \in 1 .. Len(frames) : frames'[n] = frames[n]
      /\ frames'[Len(frames) + 1] = f
  BY <1>1, <1>3, AppendProperties
<1>5. PICK a \in Addr \ DOMAIN heap : data' = a /\ Allocate(a, NewArray(2 * capacity))
  BY DEF Grow
<1>6. /\ DOMAIN heap' = DOMAIN heap \cup {a} /\ heap'[a] = NewArray(2 * capacity)
      /\ \A b \in DOMAIN heap : heap'[b] = heap[b]
  BY <1>5 DEF Allocate
<1> QED BY <1>2, <1>3, <1>4, <1>5, <1>6

\* The return of grow takes the frame away again; the others stay.
LEMMA GrowReturnPops ==
    ASSUME IInv, GrowReturn
    PROVE  /\ Len(frames) \in Nat \ {0} /\ Len(frames') = Len(frames) - 1
           /\ frames' \in Seq(Frame) /\ Top \in Frame
           /\ \A n \in 1 .. Len(frames) - 1 : frames'[n] = frames[n]
<1> DEFINE m == Len(frames)
<1>1. frames \in Seq(Frame) /\ m \in Nat \ {0} /\ m \in 1 .. m /\ Top \in Frame
  BY TopIsFrame DEF GrowReturn, IInv
<1>2. frames' = SubSeq(frames, 1, m - 1)
  BY DEF GrowReturn
<1>3. \A n \in 1 .. m - 1 : frames[n] \in Frame
  BY <1>1, ElementOfSeq
<1> HIDE DEF m
<1>4. m - 1 \in Int /\ 1 \in Int /\ (m - 1) - 1 + 1 = m - 1
        /\ \A n \in 1 .. m - 1 : 1 + n - 1 = n
  BY <1>1
<1>5. /\ SubSeq(frames, 1, m - 1) \in Seq(Frame)
      /\ Len(SubSeq(frames, 1, m - 1)) = IF 1 <= m - 1 THEN m - 1 ELSE 0
      /\ \A n \in 1 .. m - 1 : SubSeq(frames, 1, m - 1)[n] = frames[n]
  BY <1>3, <1>4, SubSeqProperties
<1>6. /\ frames' \in Seq(Frame) /\ Len(frames') = m - 1
      /\ \A n \in 1 .. m - 1 : frames'[n] = frames[n]
  BY <1>1, <1>2, <1>5
<1> QED BY <1>1, <1>6 DEF m

LEMMA GrowInv == ASSUME IInv, Grow PROVE IInv'
<1> USE DEF IInv
<1> DEFINE c == 2 * capacity
           A == NewArray(c)
           f == frames'[Len(frames) + 1]
<1>1. /\ capacity \in Nat \ {0} /\ data \in Addr /\ frames \in Seq(Frame)
      /\ Len(frames) \in Nat /\ arg \in Key \X Value /\ status = "live"
      /\ data \in DOMAIN heap
  BY LenProperties DEF TypeOK, Ownership, Grow, Running
<1>2. data' \in Addr \ DOMAIN heap
  BY GrowPushes
<1>3. c \in Nat \ {0} /\ A \in Array(c) /\ Occupied(A) = {}
        /\ Compact(A) /\ Placed(A, c)
  BY <1>1, NewArrayGood, EmptyIsGood
<1> HIDE DEF A
<1>4. /\ DOMAIN heap' = DOMAIN heap \cup {data'} /\ heap'[data'] = A
      /\ \A b \in DOMAIN heap : heap'[b] = heap[b]
  BY GrowPushes DEF A
<1>6. f.old = data /\ f.old_capacity = capacity /\ f.i = 0
  BY GrowPushes
<1>8. /\ frames' \in Seq(Frame) /\ Len(frames') = Len(frames) + 1
      /\ \A n \in 1 .. Len(frames) : frames'[n] = frames[n]
      /\ frames'[Len(frames) + 1] = f
  BY GrowPushes
<1> HIDE DEF f
<1>9. \A n \in 1 .. Len(frames') : n \in 1 .. Len(frames) \/ n = Len(frames) + 1
  BY <1>1, <1>8
<1>10. capacity' = c /\ size_' = 0 /\ arg' = NULL /\ status' = status
  BY DEF Grow
<1>11. \A n \in 1 .. Len(frames) : frames[n].old \in DOMAIN heap
  BY DEF Ownership
<1>12. TypeOK'
  <2>1. ASSUME NEW n \in 1 .. Len(frames')
        PROVE  /\ heap'[frames'[n].old] \in Array(frames'[n].old_capacity)
               /\ frames'[n].i <= frames'[n].old_capacity
    <3>1. CASE n \in 1 .. Len(frames)
      BY <3>1, <1>4, <1>8, <1>11 DEF TypeOK
    <3>2. CASE n = Len(frames) + 1
      BY <3>2, <1>1, <1>4, <1>6, <1>8 DEF TypeOK
    <3> QED BY <3>1, <3>2, <1>9
  <2>2. DOMAIN heap' \subseteq Addr
    BY <1>2, <1>4 DEF TypeOK
  <2> QED BY <2>1, <2>2, <1>1, <1>2, <1>3, <1>4, <1>8, <1>10 DEF TypeOK
<1>13. Ownership'
  <2>1. {frames'[n].old : n \in 1 .. Len(frames')} =
          {frames[n].old : n \in 1 .. Len(frames)} \cup {data}
    <3>1. Len(frames) + 1 \in 1 .. Len(frames')
            /\ \A n \in 1 .. Len(frames) : n \in 1 .. Len(frames')
      BY <1>1, <1>8
    <3> QED BY <3>1, <1>6, <1>8, <1>9
  <2>2. \A m, n \in 1 .. Len(frames') : m # n => frames'[m].old # frames'[n].old
    BY <1>6, <1>8, <1>9 DEF Ownership
  <2>3. data' \notin {frames[n].old : n \in 1 .. Len(frames)} \cup {data}
    BY <1>1, <1>2 DEF Ownership
  <2> QED BY <2>1, <2>2, <2>3, <1>1, <1>2, <1>4, <1>10 DEF Ownership
<1>14. SlotsCompact'
  BY <1>3, <1>4 DEF SlotsCompact
<1>15. KeysPlaced'
  BY <1>2, <1>3, <1>4, <1>10 DEF KeysPlaced, Placed
<1>16. SizeIsCount'
  BY <1>2, <1>3, <1>4, <1>10, FS_EmptySet DEF SizeIsCount
<1> QED BY <1>12, <1>13, <1>14, <1>15, <1>16

LEMMA GrowReturnInv == ASSUME IInv, GrowReturn PROVE IInv'
<1> USE DEF IInv
<1> DEFINE m == Len(frames)
<1>1. frames \in Seq(Frame) /\ m \in Nat \ {0} /\ m \in 1 .. m /\ Top \in Frame
  BY GrowReturnPops DEF TypeOK
<1> HIDE DEF m
<1>4. /\ frames' \in Seq(Frame) /\ Len(frames') = m - 1
      /\ \A n \in 1 .. m - 1 : frames'[n] = frames[n]
  BY GrowReturnPops DEF m
<1>5. /\ DOMAIN heap' = DOMAIN heap \ {Top.old}
      /\ \A b \in DOMAIN heap' : heap'[b] = heap[b]
  BY DEF GrowReturn, Free
<1>6. Top = frames[m] /\ status = "live" /\ status' = "live"
        /\ data' = data /\ capacity' = capacity /\ size_' = size_
  BY DEF Top, GrowReturn, InGrow, m
<1>7. \A n \in 1 .. m - 1 : n \in 1 .. m /\ n # m
  BY <1>1
<1>8. data \in DOMAIN heap' /\ \A n \in 1 .. m - 1 : frames[n].old \in DOMAIN heap'
  BY <1>1, <1>5, <1>6, <1>7 DEF Ownership, m
<1>9. arg' \in Key \X Value
  BY <1>1 DEF GrowReturn, Frame
<1>10. TypeOK'
  <2>1. ASSUME NEW n \in 1 .. Len(frames')
        PROVE  /\ heap'[frames'[n].old] \in Array(frames'[n].old_capacity)
               /\ frames'[n].i <= frames'[n].old_capacity
    BY <1>4, <1>5, <1>7, <1>8 DEF TypeOK, m
  <2> QED BY <2>1, <1>4, <1>5, <1>6, <1>8, <1>9 DEF TypeOK
<1>11. Ownership'
  <2>1. \A l, n \in 1 .. Len(frames') : l # n => frames'[l].old # frames'[n].old
    BY <1>4, <1>7 DEF Ownership, m
  <2>2. {frames[n].old : n \in 1 .. m} =
          {frames'[n].old : n \in 1 .. Len(frames')} \cup {Top.old}
    <3>1. \A n \in 1 .. m : n \in 1 .. m - 1 \/ n = m
      BY <1>1
    <3> QED BY <3>1, <1>1, <1>4, <1>6, <1>7
  <2>3. Top.old \notin {frames'[n].old : n \in 1 .. Len(frames')} \cup {data}
    BY <1>1, <1>4, <1>6, <1>7 DEF Ownership, m
  <2>4. DOMAIN heap = {frames[n].old : n \in 1 .. m} \cup {data}
          /\ data \notin {frames[n].old : n \in 1 .. m}
    BY <1>6 DEF Ownership, m
  <2>5. data' \notin {frames'[n].old : n \in 1 .. Len(frames')}
    BY <2>2, <2>4, <1>6
  <2>6. DOMAIN heap' = {frames'[n].old : n \in 1 .. Len(frames')} \cup {data'}
    BY <2>2, <2>3, <2>4, <1>5, <1>6
  <2>7. status' # "destroyed"
    BY <1>6
  <2> QED BY <2>1, <2>5, <2>6, <2>7 DEF Ownership
<1>12. SlotsCompact' /\ KeysPlaced' /\ SizeIsCount'
  BY <1>5, <1>6, <1>8 DEF SlotsCompact, KeysPlaced, SizeIsCount
<1> QED BY <1>10, <1>11, <1>12

LEMMA DestroyInv == ASSUME IInv, Destroy PROVE IInv'
<1> USE DEF IInv
<1>1. frames = <<>> /\ Len(frames) = 0 /\ DOMAIN heap = {data}
  BY DEF Destroy, Idle, Ownership
<1>2. DOMAIN heap' = {} /\ status' = "destroyed"
  BY <1>1 DEF Destroy, Free
<1>3. UNCHANGED <<data, capacity, size_, frames, arg>>
  BY DEF Destroy
<1>4. TypeOK'
  BY <1>1, <1>2, <1>3 DEF TypeOK
<1>5. Ownership'
  BY <1>1, <1>2, <1>3 DEF Ownership
<1>6. SlotsCompact' /\ KeysPlaced' /\ SizeIsCount'
  BY <1>2 DEF SlotsCompact, KeysPlaced, SizeIsCount
<1> QED BY <1>4, <1>5, <1>6

-----------------------------------------------------------------------------
(* The theorems.                                                             *)

\* Every step of insert, grow, erase, clear and the destructor keeps the
\* invariant.
THEOREM Safety == Spec => []IInv
<1>1. Init => IInv
  BY InitInv
<1>2. IInv /\ [Next]_vars => IInv'
  <2> SUFFICES ASSUME IInv, [Next]_vars PROVE IInv'
    OBVIOUS
  <2>1. CASE \E k \in Key, v \in Value : Insert(k, v)
    BY <2>1, InsertInv
  <2>2. CASE \E k \in Key : Erase(k)
    BY <2>2, EraseInv
  <2>3. CASE Clear
    BY <2>3, ClearInv
  <2>4. CASE Destroy
    BY <2>4, DestroyInv
  <2>5. CASE Internal
    BY <2>5, PlaceInv, GrowInv, GrowFailsInv, MigrateInv, NextSlotInv, GrowReturnInv
       DEF Internal
  <2>6. CASE UNCHANGED vars
    BY <2>6 DEF vars, IInv, TypeOK, Ownership, SlotsCompact, KeysPlaced, SizeIsCount
  <2> QED BY <2>1, <2>2, <2>3, <2>4, <2>5, <2>6 DEF Next
<1> QED BY <1>1, <1>2, PTL DEF Spec

\* insert, erase and grow only ever read and write allocated arrays of the
\* capacity they index with, and every variable keeps its type.
THEOREM TypeCorrect == Spec => []TypeOK
  BY Safety, PTL DEF IInv

\* No block is leaked, freed twice or read after it was freed, however deep the
\* grows nest.
THEOREM NoLeakNoDoubleFree == Spec => []Ownership
  BY Safety, PTL DEF IInv

\* Each key in the table is in one of the two slots find looks at, in the part of
\* the slot its loop reaches before an EMPTY place.
THEOREM KeysWhereFindLooks == Spec => [](SlotsCompact /\ KeysPlaced)
  BY Safety, PTL DEF IInv

\* size() is the number of keys in the array, at every step.
THEOREM SizeIsRight == Spec => []SizeIsCount
  BY Safety, PTL DEF IInv

\* The table's own loops can rely on where its keys are and on their number, at
\* every step of nested grows.
THEOREM TableIsSound == Spec => []TableSound
  BY Safety, PTL DEF IInv, TableSound
-----------------------------------------------------------------------------
(* What follows for callers and for the depth of the recursion.              *)

\* Between calls the entries are those of the table's array.
LEMMA IdleContent == ASSUME IInv, Idle PROVE Content = Entries(heap[data])
  BY DEF Idle, Content, Pending

\* Between calls a probe of find or contains that hits reads an entry.
LEMMA HitIsEntry ==
    ASSUME IInv, Idle, NEW k \in Key, NEW n \in Hits(k)
    PROVE  /\ <<ProbeSlot(k, n), n \div 2>> \in Occupied(heap[data])
           /\ EntryAt(heap[data], <<ProbeSlot(k, n), n \div 2>>)[1] = k
           /\ k \in KeysOf(Content)
<1> USE SizeAssumption, HashAssumption, KeyAssumption
<1> DEFINE i == ProbeSlot(k, n)
           p == n \div 2
<1>1. heap[data] \in Array(capacity) /\ capacity \in Nat \ {0}
  BY DEF IInv, TypeOK, Idle
<1>2. n \in 0 .. 2 * BUCKET - 1 /\ heap[data][i].keys[p] = k
  BY DEF Hits, ProbeKey
<1>3. p \in Pos /\ i \in 0 .. capacity - 1
  <2>1. n \div 2 \in 0 .. BUCKET - 1
    BY <1>2
  <2>2. H1[k] \in Nat /\ H2[k] \in Nat
    OBVIOUS
  <2>3. Index1(k) \in 0 .. capacity - 1 /\ Index2(k) \in 0 .. capacity - 1
    BY <1>1, <2>2, IndexInArray DEF Index1, Index2
  <2> QED BY <2>1, <2>3 DEF Pos, ProbeSlot
<1> HIDE DEF i, p
<1>4. <<i, p>> \in Occupied(heap[data])
  BY <1>1, <1>2, <1>3 DEF Occupied, Array
<1>5. EntryAt(heap[data], <<i, p>>) \in Entries(heap[data])
        /\ EntryAt(heap[data], <<i, p>>)[1] = k
  BY <1>2, <1>4 DEF Entries, EntryAt
<1>6. k \in KeysOf(Content)
  BY <1>5, IdleContent DEF KeysOf
<1> QED BY <1>4, <1>5, <1>6 DEF i, p

\* Between calls contains reaches every key of the table: the places before it, in
\* its slot, are taken.
LEMMA EntryIsContained ==
    ASSUME IInv, Idle, NEW k \in KeysOf(Content)
    PROVE  Contains(k)
<1> USE SizeAssumption, HashAssumption, KeyAssumption
<1>1. /\ heap[data] \in Array(capacity) /\ capacity \in Nat \ {0}
      /\ Compact(heap[data]) /\ Placed(heap[data], capacity)
  BY DEF IInv, TypeOK, Ownership, SlotsCompact, KeysPlaced, Idle
<1>2. PICK ip \in Occupied(heap[data]) : heap[data][ip[1]].keys[ip[2]] = k
  BY IdleContent DEF KeysOf, Entries, EntryAt
<1>3. ip[1] \in {Index1(k), Index2(k)} /\ ip[2] \in 0 .. BUCKET - 1
  BY <1>1, <1>2 DEF Placed, Index1, Index2, Occupied, Pos
<1>4. \A q \in 0 .. ip[2] : heap[data][ip[1]].keys[q] # EMPTY
  BY <1>1, <1>2 DEF Compact
<1>5. ASSUME NEW n \in 0 .. 2 * BUCKET - 1, n \div 2 = ip[2], ProbeSlot(k, n) = ip[1]
      PROVE  Contains(k)
  <2>1. n \in Hits(k)
    BY <1>2, <1>5 DEF Hits, ProbeKey
  <2>2. \A q \in 0 .. n \div 2 : Slot1(k).keys[q] # EMPTY \/ Slot2(k).keys[q] # EMPTY
    BY <1>3, <1>4, <1>5 DEF Slot1, Slot2
  <2> QED BY <2>1, <2>2 DEF Contains
<1>6. CASE ip[1] = Index1(k)
  <2> DEFINE n == 2 * ip[2]
  <2>1. n \in 0 .. 2 * BUCKET - 1 /\ n \div 2 = ip[2] /\ n % 2 = 0
    BY <1>3
  <2> QED BY <2>1, <1>5, <1>6 DEF ProbeSlot
<1>7. CASE ip[1] = Index2(k)
  <2> DEFINE n == 2 * ip[2] + 1
  <2>1. n \in 0 .. 2 * BUCKET - 1 /\ n \div 2 = ip[2] /\ n % 2 = 1
    BY <1>3
  <2> QED BY <2>1, <1>5, <1>7 DEF ProbeSlot
<1> QED BY <1>3, <1>6, <1>7

\* contains is true of exactly the keys in the table.
THEOREM ContainsIsExact == Spec => []ContainsExact
<1>1. IInv => ContainsExact
  <2> SUFFICES ASSUME IInv, Idle, NEW k \in Key
               PROVE  Contains(k) <=> k \in KeysOf(Content)
    BY DEF ContainsExact
  <2>1. Contains(k) => \E n \in Hits(k) : TRUE
    BY DEF Contains
  <2> QED BY <2>1, HitIsEntry, EntryIsContained
<1> QED BY <1>1, Safety, PTL

\* The loops of find and erase, which have no bound, are left by a hit for every
\* key of the table.
THEOREM FindEnds ==
    Spec => [](Idle => \A k \in KeysOf(Content) : Hits(k) # {})
<1>1. IInv => (Idle => \A k \in KeysOf(Content) : Hits(k) # {})
  <2> SUFFICES ASSUME IInv, Idle, NEW k \in KeysOf(Content) PROVE Hits(k) # {}
    OBVIOUS
  <2> QED BY EntryIsContained DEF Contains
<1> QED BY <1>1, Safety, PTL

\* What the loops of grow change in their own frame.
LEMMA MovedTop ==
    ASSUME IInv, Migrate \/ NextSlot
    PROVE  \E f \in Frame : /\ f.old_capacity = Top.old_capacity
                            /\ frames' = [frames EXCEPT ![Len(frames)] = f]
<1>1. Top \in Frame
  BY TopIsFrame DEF Migrate, NextSlot, IInv
<1>2. CASE Migrate
  <2> DEFINE f == [Top EXCEPT !.j = @ + 1]
  <2>1. f \in Frame /\ f.old_capacity = Top.old_capacity
    BY <1>1, <1>2, SizeAssumption DEF Frame, Migrate, AtEntry
  <2> QED BY <2>1, <1>2 DEF Migrate, SetTop
<1>3. CASE NextSlot
  <2> DEFINE f == [Top EXCEPT !.i = @ + 1, !.j = 0]
  <2>1. f \in Frame /\ f.old_capacity = Top.old_capacity
    <3>1. Top.i \in Nat /\ Top.i + 1 \in Nat /\ 0 \in 0 .. BUCKET
      BY <1>1, SizeAssumption DEF Frame
    <3> QED BY <1>1, <3>1 DEF Frame
  <2> QED BY <2>1, <1>3 DEF NextSlot, SetTop
<1> QED BY <1>2, <1>3

\* One more frame, one less: the capacities still double from frame to frame.
LEMMA NestedStep == ASSUME IInv, NestedGrow, [Next]_vars PROVE NestedGrow'
<1>1. frames \in Seq(Frame) /\ Len(frames) \in Nat /\ capacity \in Nat \ {0}
  BY LenProperties DEF IInv, TypeOK
<1>2. \A n \in 1 .. Len(frames) : frames[n] \in Frame
  BY <1>1, ElementOfSeq
<1>3. CASE UNCHANGED <<frames, capacity>>
  BY <1>3 DEF NestedGrow
<1>4. CASE Grow
  <2> DEFINE f == frames'[Len(frames) + 1]
  <2>2. f.old_capacity = capacity /\ capacity' = 2 * capacity
    BY <1>4, GrowPushes DEF Grow
  <2>3. /\ Len(frames') = Len(frames) + 1 /\ frames'[Len(frames) + 1] = f
        /\ \A n \in 1 .. Len(frames) : frames'[n] = frames[n]
    BY <1>4, GrowPushes
  <2> HIDE DEF f
  <2> SUFFICES ASSUME NEW n \in 1 .. Len(frames')
               PROVE  2 * frames'[n].old_capacity <=
                        (IF n = Len(frames') THEN capacity' ELSE frames'[n + 1].old_capacity)
    BY DEF NestedGrow
  <2>4. CASE n = Len(frames) + 1
    BY <2>2, <2>3, <2>4, <1>1
  <2>5. CASE n \in 1 .. Len(frames)
    <3>1. 2 * frames[n].old_capacity <=
            (IF n = Len(frames) THEN capacity ELSE frames[n + 1].old_capacity)
      BY <2>5 DEF NestedGrow
    <3>2. n # Len(frames') /\ n + 1 \in 1 .. Len(frames) + 1
      BY <2>3, <2>5, <1>1
    <3>3. CASE n = Len(frames)
      BY <3>1, <3>2, <3>3, <2>2, <2>3, <2>5
    <3>4. CASE n # Len(frames)
      BY <3>1, <3>2, <3>4, <2>3, <2>5, <1>1
    <3> QED BY <3>3, <3>4
  <2> QED BY <2>3, <2>4, <2>5, <1>1
<1>5. CASE Migrate \/ NextSlot
  <2>1. PICK f \in Frame : /\ f.old_capacity = Top.old_capacity
                           /\ frames' = [frames EXCEPT ![Len(frames)] = f]
    BY <1>5, MovedTop
  <2>2. capacity' = capacity
    BY <1>5 DEF Migrate, NextSlot
  <2>3. /\ Len(frames') = Len(frames)
        /\ \A n \in 1 .. Len(frames) : frames'[n].old_capacity = frames[n].old_capacity
    BY <1>1, <2>1, ExceptSeq DEF Top
  <2> SUFFICES ASSUME NEW n \in 1 .. Len(frames)
               PROVE  2 * frames'[n].old_capacity <=
                        (IF n = Len(frames) THEN capacity ELSE frames'[n + 1].old_capacity)
    BY <2>2, <2>3 DEF NestedGrow
  <2>4. n # Len(frames) => n + 1 \in 1 .. Len(frames)
    BY <1>1
  <2> QED BY <2>3, <2>4 DEF NestedGrow
<1>6. CASE GrowReturn
  <2> DEFINE m == Len(frames)
  <2>1. m \in Nat \ {0} /\ capacity' = capacity
    BY <1>6, GrowReturnPops DEF GrowReturn
  <2>2. /\ Len(frames') = m - 1
        /\ \A n \in 1 .. m - 1 : frames'[n] = frames[n]
    BY <1>6, GrowReturnPops
  <2> SUFFICES ASSUME NEW n \in 1 .. m - 1
               PROVE  2 * frames[n].old_capacity <=
                        (IF n = m - 1 THEN capacity ELSE frames[n + 1].old_capacity)
    <3>1. \A n \in 1 .. m - 1 : n # m - 1 => n + 1 \in 1 .. m - 1
      BY <2>1
    <3> QED BY <3>1, <2>1, <2>2 DEF NestedGrow
  <2>3. 2 * frames[n].old_capacity <= frames[n + 1].old_capacity
    BY <2>1 DEF NestedGrow
  <2>4. 2 * frames[m].old_capacity <= capacity
    BY <2>1 DEF NestedGrow
  <2>5. frames[m].old_capacity \in Nat /\ frames[n].old_capacity \in Nat
    BY <1>2, <2>1 DEF Frame
  <2>6. CASE n = m - 1
    <3>1. n + 1 = m
      BY <2>6, <2>1
    <3> QED BY <2>3, <2>4, <2>5, <2>6, <3>1, <1>1
  <2>7. CASE n # m - 1
    BY <2>3, <2>7
  <2> QED BY <2>6, <2>7
<1>7. Place \/ GrowFails \/ Clear \/ Destroy \/ UNCHANGED vars
        \/ (\E k \in Key : Erase(k)) \/ (\E k \in Key, v \in Value : Insert(k, v))
        => UNCHANGED <<frames, capacity>>
  BY DEF Place, GrowFails, Clear, Destroy, Erase, Insert, vars
<1> QED BY <1>3, <1>4, <1>5, <1>6, <1>7 DEF Next, Internal

\* Each nested grow at least doubles the capacity of the one around it, so the
\* recursion is no deeper than the doublings that memory allows.
THEOREM GrowNestsByDoubling == Spec => []NestedGrow
<1>1. Init => NestedGrow
  BY EmptySeq DEF Init, NestedGrow
<1> QED BY <1>1, NestedStep, Safety, PTL DEF Spec

-----------------------------------------------------------------------------
(* The entries and who holds them: the table's array, insert, a grow that    *)
(* will retry, or the part of its old array that a grow has not read.        *)

DataHeld  == {<<<<"data", ip>>, EntryAt(heap[data], ip)>> : ip \in Occupied(heap[data])}
ArgHeld   == {<<<<"arg">>, e>> : e \in Pending}
RetryHeld == {<<<<"retry", n>>, frames[n].retry>> : n \in 1 .. Len(frames)}
OldHeld   == UNION {{<<<<"old", n, ip>>, EntryAt(heap[frames[n].old], ip)>> :
                       ip \in Unread(frames[n])} : n \in 1 .. Len(frames)}
Held      == DataHeld \cup ArgHeld \cup RetryHeld \cup OldHeld

\* No key is held twice.
HeldOnce == \A g, h \in Held : g[2][1] = h[2][1] => g = h

\* The table's content is what is held.
LEMMA ContentIsHeld ==
    ASSUME status # "destroyed"
    PROVE  Content = {h[2] : h \in Held}
<1>1. \A e : e \in Content =>  \E h \in Held : e = h[2]
  <2> SUFFICES ASSUME NEW e \in Content PROVE \E h \in Held : e = h[2]
    OBVIOUS
  <2>1. CASE e \in Entries(heap[data])
    <3>1. PICK ip \in Occupied(heap[data]) : e = EntryAt(heap[data], ip)
      BY <2>1 DEF Entries
    <3>2. <<<<"data", ip>>, e>> \in Held
      BY <3>1 DEF Held, DataHeld
    <3> QED BY <3>2
  <2>2. CASE e \in Pending
    <3>1. <<<<"arg">>, e>> \in Held
      BY <2>2 DEF Held, ArgHeld
    <3> QED BY <3>1
  <2>3. ASSUME NEW n \in 1 .. Len(frames), e \in Remaining(frames[n])
        PROVE  \E h \in Held : e = h[2]
    <3>1. PICK ip \in Unread(frames[n]) : e = EntryAt(heap[frames[n].old], ip)
      BY <2>3 DEF Remaining
    <3>2. <<<<"old", n, ip>>, e>> \in Held
      BY <3>1 DEF Held, OldHeld
    <3> QED BY <3>2
  <2>4. ASSUME NEW n \in 1 .. Len(frames), e = frames[n].retry
        PROVE  \E h \in Held : e = h[2]
    <3>1. <<<<"retry", n>>, e>> \in Held
      BY <2>4 DEF Held, RetryHeld
    <3> QED BY <3>1
  <2> QED BY <2>1, <2>2, <2>3, <2>4 DEF Content
<1>2. \A h \in Held : h[2] \in Content
  <2>1. \A h \in DataHeld : h[2] \in Content
    BY DEF DataHeld, Content, Entries
  <2>2. \A h \in ArgHeld : h[2] \in Content
    BY DEF ArgHeld, Content
  <2>3. \A h \in RetryHeld : h[2] \in Content
    BY DEF RetryHeld, Content
  <2>4. \A h \in OldHeld : h[2] \in Content
    <3> SUFFICES ASSUME NEW h \in OldHeld PROVE h[2] \in Content
      OBVIOUS
    <3>1. PICK n \in 1 .. Len(frames) : \E ip \in Unread(frames[n]) :
            h = <<<<"old", n, ip>>, EntryAt(heap[frames[n].old], ip)>>
      BY DEF OldHeld
    <3>2. h[2] \in Remaining(frames[n])
      BY <3>1 DEF Remaining
    <3> QED BY <3>2 DEF Content
  <2> QED BY <2>1, <2>2, <2>3, <2>4 DEF Held
<1> QED BY <1>1, <1>2

\* KeysUnique says of places what HeldOnce says of entries.
LEMMA PlacesAreHeld ==
    ASSUME NEW k, NEW x \in Places(k)
    PROVE  \E h \in Held : h[1] = x /\ h[2][1] = k
<1>1. CASE \E ip \in KeyIs(heap[data], Occupied(heap[data]), k) : x = <<"data", ip>>
  <2>1. PICK ip \in Occupied(heap[data]) :
          x = <<"data", ip>> /\ heap[data][ip[1]].keys[ip[2]] = k
    BY <1>1 DEF KeyIs
  <2>2. <<x, EntryAt(heap[data], ip)>> \in Held
    BY <2>1 DEF Held, DataHeld
  <2> QED BY <2>1, <2>2 DEF EntryAt
<1>2. CASE \E e \in Pending : e[1] = k /\ x = <<"arg">>
  <2>1. PICK e \in Pending : e[1] = k /\ x = <<"arg">>
    BY <1>2
  <2>2. <<x, e>> \in Held
    BY <2>1 DEF Held, ArgHeld
  <2> QED BY <2>1, <2>2
<1>3. ASSUME NEW n \in 1 .. Len(frames), frames[n].retry[1] = k, x = <<"retry", n>>
      PROVE  \E h \in Held : h[1] = x /\ h[2][1] = k
  <2>1. <<x, frames[n].retry>> \in Held
    BY <1>3 DEF Held, RetryHeld
  <2> QED BY <2>1, <1>3
<1>4. ASSUME NEW n \in 1 .. Len(frames),
             NEW ip \in KeyIs(heap[frames[n].old], Unread(frames[n]), k),
             x = <<"old", n, ip>>
      PROVE  \E h \in Held : h[1] = x /\ h[2][1] = k
  <2>1. ip \in Unread(frames[n]) /\ heap[frames[n].old][ip[1]].keys[ip[2]] = k
    BY DEF KeyIs
  <2>2. <<x, EntryAt(heap[frames[n].old], ip)>> \in Held
    BY <1>4, <2>1 DEF Held, OldHeld
  <2> QED BY <2>1, <2>2 DEF EntryAt
<1> QED BY <1>1, <1>2, <1>3, <1>4 DEF Places

LEMMA OnceIsUnique == HeldOnce => KeysUnique
<1> SUFFICES ASSUME HeldOnce, NEW k \in Key PROVE Cardinality(Places(k)) <= 1
  BY DEF KeysUnique
<1>1. \A x, y \in Places(k) : x = y
  BY PlacesAreHeld DEF HeldOnce
<1>2. Places(k) = {} \/ \E x : Places(k) = {x}
  BY <1>1
<1>3. CASE Places(k) = {}
  BY <1>3, FS_EmptySet
<1>4. ASSUME NEW x, Places(k) = {x} PROVE Cardinality(Places(k)) <= 1
  <2>1. Cardinality({x}) = 1
    BY FS_Singleton
  <2> QED BY <2>1, <1>4
<1> QED BY <1>2, <1>3, <1>4

\* What every step of the table is to its entries: each that is held afterwards
\* was held before, perhaps elsewhere; R says where it went.
LEMMA EntriesMove ==
    ASSUME HeldOnce, NEW R,
           \A h \in Held' : \E g \in Held : g[2] = h[2] /\ h = R[g]
    PROVE  HeldOnce'
<1> SUFFICES ASSUME NEW g \in Held', NEW h \in Held', g[2][1] = h[2][1]
             PROVE  g = h
  BY DEF HeldOnce
<1>1. PICK x \in Held : x[2] = g[2] /\ g = R[x]
  OBVIOUS
<1>2. PICK y \in Held : y[2] = h[2] /\ h = R[y]
  OBVIOUS
<1> QED BY <1>1, <1>2 DEF HeldOnce
\* Writing the table's array leaves alone what grows hold.
LEMMA OthersKept ==
    ASSUME IInv, status = "live", NEW B, heap' = [heap EXCEPT ![data] = B],
           UNCHANGED <<data, frames>>
    PROVE  heap'[data] = B /\ RetryHeld' = RetryHeld /\ OldHeld' = OldHeld
<1>1. data \in DOMAIN heap /\ heap'[data] = B
        /\ \A n \in 1 .. Len(frames) : heap'[frames[n].old] = heap[frames[n].old]
  BY DEF IInv, Ownership
<1>2. RetryHeld' = RetryHeld
  BY DEF RetryHeld
<1>3. ASSUME NEW n \in 1 .. Len(frames)
      PROVE  Unread(frames[n])' = Unread(frames[n])
  BY <1>1 DEF Unread
<1>4. OldHeld' = OldHeld
  BY <1>1, <1>3 DEF OldHeld
<1> QED BY <1>1, <1>2, <1>4
-----------------------------------------------------------------------------
(* The entries of the array that insert and erase write.                     *)

\* insert adds its entry and moves no other.
LEMMA PutEntries ==
    ASSUME NEW c \in Nat \ {0}, NEW A \in Array(c), NEW i \in 0 .. c - 1,
           NEW e \in Key \X Value, NEW n \in Pos, A[i].keys[n] = EMPTY
    PROVE  /\ \A ip : ip \in Occupied(Put(A, i, n, e)) <=> ip \in Occupied(A) \/ ip = <<i, n>>
           /\ EntryAt(Put(A, i, n, e), <<i, n>>) = e
           /\ \A ip \in Occupied(A) : EntryAt(Put(A, i, n, e), ip) = EntryAt(A, ip)
<1> DEFINE B == Put(A, i, n, e)
<1>1. DOMAIN A = 0 .. c - 1 /\ DOMAIN B = 0 .. c - 1 /\ A[i] \in Slot
  BY DEF Array, Put
<1>2. \A h \in 0 .. c - 1 : h # i => B[h] = A[h]
  BY <1>1 DEF Put
<1>3. B[i] = [keys |-> [A[i].keys EXCEPT ![n] = e[1]],
              values |-> [A[i].values EXCEPT ![n] = e[2]]]
  BY <1>1 DEF Put
<1>4. A[i].keys \in [Pos -> Key \cup {EMPTY}]
        /\ A[i].values \in [Pos -> Value \cup {Indeterminate}]
  BY <1>1 DEF Slot
<1>5. /\ B[i].keys[n] = e[1] /\ B[i].values[n] = e[2]
      /\ \A p \in Pos : p # n => /\ B[i].keys[p] = A[i].keys[p]
                                 /\ B[i].values[p] = A[i].values[p]
  BY <1>3, <1>4
<1> HIDE DEF B
<1>6. EntryAt(B, <<i, n>>) = e
  BY <1>5 DEF EntryAt
<1>7. ASSUME NEW ip \in Occupied(A) PROVE EntryAt(B, ip) = EntryAt(A, ip)
  <2>1. ip[1] \in 0 .. c - 1 /\ ip[2] \in Pos /\ A[ip[1]].keys[ip[2]] # EMPTY
    BY <1>1 DEF Occupied
  <2>2. ip[1] # i \/ ip[2] # n
    BY <2>1
  <2> QED BY <2>1, <2>2, <1>2, <1>5 DEF EntryAt
<1>8. \A ip : ip \in Occupied(B) <=> ip \in Occupied(A) \/ ip = <<i, n>>
  <2>1. e[1] # EMPTY
    BY KeyAssumption
  <2>2. ASSUME NEW h \in 0 .. c - 1, NEW p \in Pos
        PROVE  B[h].keys[p] # EMPTY <=> A[h].keys[p] # EMPTY \/ <<h, p>> = <<i, n>>
    BY <1>2, <1>5, <2>1
  <2> QED BY <2>1, <2>2, <1>1 DEF Occupied
<1> QED BY <1>6, <1>7, <1>8 DEF B

\* Where an entry is after the one at place p of slot i is removed.
Lower(ip, i, p) == IF ip[1] = i /\ ip[2] > p THEN <<i, ip[2] - 1>> ELSE ip

\* erase moves the entries behind the erased one down, and keeps them all.
LEMMA RemoveEntries ==
    ASSUME NEW c \in Nat \ {0}, NEW A \in Array(c), NEW i \in 0 .. c - 1, NEW p \in Pos
    PROVE  /\ \A jp \in Occupied(Remove(A, i, p)) : \E ip \in Occupied(A) \ {<<i, p>>} :
                  jp = Lower(ip, i, p) /\ EntryAt(Remove(A, i, p), jp) = EntryAt(A, ip)
           /\ \A ip \in Occupied(A) \ {<<i, p>>} :
                  /\ Lower(ip, i, p) \in Occupied(Remove(A, i, p))
                  /\ EntryAt(Remove(A, i, p), Lower(ip, i, p)) = EntryAt(A, ip)
<1> DEFINE B == Remove(A, i, p)
<1> USE SizeAssumption
<1>1. DOMAIN A = 0 .. c - 1 /\ DOMAIN B = 0 .. c - 1
  BY DEF Array, Remove
<1>2. \A h \in 0 .. c - 1 : h # i => B[h] = A[h]
  BY <1>1 DEF Remove
<1>3. B[i] = Without(A[i], p)
  BY <1>1 DEF Remove
<1>4. \A q \in Pos :
        /\ q = BUCKET - 1 => B[i].keys[q] = EMPTY
        /\ q < p => B[i].keys[q] = A[i].keys[q] /\ B[i].values[q] = A[i].values[q]
        /\ q >= p /\ q # BUCKET - 1 => /\ B[i].keys[q] = A[i].keys[q + 1]
                                       /\ B[i].values[q] = A[i].values[q + 1]
  BY <1>3 DEF Without, Pos
<1> HIDE DEF B
<1>5. ASSUME NEW jp \in Occupied(B)
      PROVE  \E ip \in Occupied(A) \ {<<i, p>>} :
               jp = Lower(ip, i, p) /\ EntryAt(B, jp) = EntryAt(A, ip)
  <2>1. jp[1] \in 0 .. c - 1 /\ jp[2] \in Pos /\ jp = <<jp[1], jp[2]>>
          /\ B[jp[1]].keys[jp[2]] # EMPTY
    BY <1>1 DEF Occupied
  <2>2. jp[2] \in Int /\ p \in Int
    BY <2>1 DEF Pos
  <2>3. CASE jp[1] # i
    <3>1. jp \in Occupied(A)
      BY <2>1, <2>3, <1>1, <1>2 DEF Occupied
    <3>2. jp = Lower(jp, i, p) /\ EntryAt(B, jp) = EntryAt(A, jp) /\ jp # <<i, p>>
      BY <2>1, <2>3, <1>2 DEF Lower, EntryAt
    <3> QED BY <3>1, <3>2
  <2>4. CASE jp[1] = i /\ jp[2] < p
    <3>1. /\ B[i].keys[jp[2]] = A[i].keys[jp[2]] /\ B[i].values[jp[2]] = A[i].values[jp[2]]
      BY <2>1, <2>4, <1>4
    <3>2. jp \in Occupied(A)
      BY <2>1, <2>4, <3>1, <1>1 DEF Occupied
    <3>3. jp # <<i, p>>
      BY <2>1, <2>2, <2>4
    <3>4. jp = Lower(jp, i, p)
      BY <2>2, <2>4 DEF Lower
    <3>5. EntryAt(B, jp) = EntryAt(A, jp)
      BY <2>4, <3>1 DEF EntryAt
    <3> QED BY <3>2, <3>3, <3>4, <3>5
  <2>5. CASE jp[1] = i /\ jp[2] >= p
    <3> DEFINE ip == <<i, jp[2] + 1>>
    <3>1. jp[2] # BUCKET - 1
      BY <2>1, <2>5, <1>4
    <3>2. /\ B[i].keys[jp[2]] = A[i].keys[jp[2] + 1]
          /\ B[i].values[jp[2]] = A[i].values[jp[2] + 1]
      BY <2>1, <2>5, <3>1, <1>4
    <3>3. jp[2] + 1 \in Pos
      BY <2>1, <3>1 DEF Pos
    <3>4. ip \in Occupied(A)
      BY <2>1, <2>5, <3>2, <3>3, <1>1 DEF Occupied
    <3>5. ip # <<i, p>>
      BY <2>2, <2>5
    <3>6. jp = Lower(ip, i, p)
      BY <2>1, <2>2, <2>5 DEF Lower
    <3>7. EntryAt(B, jp) = EntryAt(A, ip)
      BY <2>5, <3>2 DEF EntryAt
    <3> QED BY <3>4, <3>5, <3>6, <3>7
  <2> QED BY <2>2, <2>3, <2>4, <2>5
<1>6. ASSUME NEW ip \in Occupied(A) \ {<<i, p>>}
      PROVE  Lower(ip, i, p) \in Occupied(B) /\ EntryAt(B, Lower(ip, i, p)) = EntryAt(A, ip)
  <2>1. ip[1] \in 0 .. c - 1 /\ ip[2] \in Pos /\ ip = <<ip[1], ip[2]>>
          /\ A[ip[1]].keys[ip[2]] # EMPTY
    BY <1>1 DEF Occupied
  <2>2. ip[2] \in Int /\ p \in Int
    BY <2>1 DEF Pos
  <2>3. CASE ip[1] # i
    <3>1. Lower(ip, i, p) = ip /\ B[ip[1]] = A[ip[1]]
      BY <2>1, <2>3, <1>2 DEF Lower
    <3> QED BY <3>1, <2>1, <1>1 DEF Occupied, EntryAt
  <2>4. CASE ip[1] = i /\ ip[2] < p
    <3>1. /\ B[i].keys[ip[2]] = A[i].keys[ip[2]] /\ B[i].values[ip[2]] = A[i].values[ip[2]]
      BY <2>1, <2>4, <1>4
    <3>2. Lower(ip, i, p) = ip
      BY <2>2, <2>4 DEF Lower
    <3> QED BY <2>1, <2>4, <3>1, <3>2, <1>1 DEF Occupied, EntryAt
  <2>5. CASE ip[1] = i /\ ip[2] > p
    <3>1. ip[2] - 1 \in Pos /\ ip[2] - 1 >= p /\ ip[2] - 1 # BUCKET - 1 /\ ip[2] - 1 + 1 = ip[2]
      BY <2>1, <2>2, <2>5 DEF Pos
    <3>2. /\ B[i].keys[ip[2] - 1] = A[i].keys[ip[2]]
          /\ B[i].values[ip[2] - 1] = A[i].values[ip[2]]
      BY <3>1, <1>4
    <3>3. Lower(ip, i, p) = <<i, ip[2] - 1>>
      BY <2>5 DEF Lower
    <3> QED BY <2>1, <2>5, <3>1, <3>2, <3>3, <1>1 DEF Occupied, EntryAt
  <2>6. ip[1] = i => ip[2] # p
    BY <2>1
  <2> QED BY <2>2, <2>3, <2>4, <2>5, <2>6
<1> QED BY <1>5, <1>6 DEF B
-----------------------------------------------------------------------------
(* Every step of an insert and its grows hands entries on and loses none.    *)

\* R says where each entry is after the step.
Carried(R) ==
    /\ \A h \in Held' : \E g \in Held : g[2] = h[2] /\ h = R[g]
    /\ \A g \in Held : \E h \in Held' : h[2] = g[2]

LEMMA Hands ==
    /\ \A h \in DataHeld : h[1][1] = "data"
    /\ \A h \in ArgHeld : h[1][1] = "arg"
    /\ \A h \in RetryHeld : h[1][1] = "retry"
    /\ \A h \in OldHeld : h[1][1] = "old"
  BY DEF DataHeld, ArgHeld, RetryHeld, OldHeld

\* From insert into the array.
LEMMA PlaceCarries == ASSUME IInv, Place PROVE \E R : Carried(R)
<1> USE KeyAssumption, SizeAssumption DEF IInv
<1> DEFINE A == heap[data]
<1>1. A \in Array(capacity) /\ Compact(A) /\ capacity \in Nat \ {0}
        /\ arg \in Key \X Value /\ arg # NULL /\ arg' = NULL /\ status = "live"
        /\ UNCHANGED <<data, frames>>
  BY DEF TypeOK, Ownership, SlotsCompact, Place, Running
<1>2. PICK i \in 0 .. capacity - 1, n \in Pos :
        /\ i \in {Index1(arg[1]), Index2(arg[1])} /\ IsFill(A[i], n) /\ Store(i, n, arg)
  BY PlaceIsPut
<1> DEFINE B == Put(A, i, n, arg)
<1>3. A[i].keys[n] = EMPTY
  <2>1. A[i].keys \in [Pos -> Key \cup {EMPTY}]
    BY <1>1 DEF Array, Slot
  <2>2. ~ (A[i].keys[n] < EMPTY)
    BY <1>2 DEF IsFill, Pos
  <2> QED BY <2>1, <2>2
<1>4. \A ip : ip \in Occupied(B) <=> ip \in Occupied(A) \/ ip = <<i, n>>
  BY <1>1, <1>3, PutEntries
<1>5. /\ EntryAt(B, <<i, n>>) = arg
      /\ \A ip \in Occupied(A) : EntryAt(B, ip) = EntryAt(A, ip)
  BY <1>1, <1>3, PutEntries
<1>6. heap' = [heap EXCEPT ![data] = B]
  BY <1>2 DEF Store
<1> HIDE DEF B
<1> DEFINE new == <<<<"data", <<i, n>>>>, arg>>
           R == [g \in Held |-> IF g[1][1] = "arg" THEN new ELSE g]
<1>7. heap'[data] = B /\ RetryHeld' = RetryHeld /\ OldHeld' = OldHeld
  BY <1>1, <1>6, OthersKept
<1>8. DataHeld' = DataHeld \cup {new}
  BY <1>1, <1>4, <1>5, <1>7 DEF DataHeld
<1>9. ArgHeld = {<<<<"arg">>, arg>>} /\ ArgHeld' = {}
  BY <1>1 DEF ArgHeld, Pending
<1>10. new[2] = arg /\ <<<<"arg">>, arg>>[2] = arg /\ <<<<"arg">>, arg>>[1][1] = "arg"
  OBVIOUS
<1> HIDE DEF new
<1>11. Carried(R)
  <2>1. ASSUME NEW h \in Held' PROVE \E g \in Held : g[2] = h[2] /\ h = R[g]
    <3>1. CASE h = new
      BY <3>1, <1>9, <1>10 DEF Held
    <3>2. CASE h # new
      <4>1. h \in DataHeld \cup RetryHeld \cup OldHeld
        BY <3>2, <1>7, <1>8, <1>9 DEF Held
      <4> QED BY <4>1, Hands DEF Held
    <3> QED BY <3>1, <3>2
  <2>2. ASSUME NEW g \in Held PROVE \E h \in Held' : h[2] = g[2]
    BY <1>7, <1>8, <1>9, <1>10 DEF Held
  <2> QED BY <2>1, <2>2 DEF Carried
<1> QED BY <1>11
\* A grow takes over the array, unread, and the entry that made insert grow.
LEMMA GrowCarries == ASSUME IInv, Grow PROVE \E R : Carried(R)
<1>1. PICK m \in Nat : m = Len(frames)
  BY GrowPushes
<1> DEFINE old(ip) == <<<<"old", m + 1, ip>>, EntryAt(heap[data], ip)>>
           retry == <<<<"retry", m + 1>>, arg>>
           New == {old(ip) : ip \in Occupied(heap[data])}
           R == [g \in Held |-> IF g[1][1] = "data" THEN old(g[1][2])
                                ELSE IF g[1][1] = "arg" THEN retry ELSE g]
<1>2. /\ capacity \in Nat \ {0} /\ arg # NULL /\ arg' = NULL /\ data \in DOMAIN heap
      /\ heap[data] \in Array(capacity) /\ \A n \in 1 .. m : frames[n].old \in DOMAIN heap
  BY <1>1 DEF IInv, TypeOK, Ownership, Grow, Running
<1>3. /\ m \in Nat /\ Len(frames') = m + 1
      /\ \A n \in 1 .. m : frames'[n] = frames[n]
      /\ frames'[m + 1].old = data /\ frames'[m + 1].i = 0 /\ frames'[m + 1].j = 0
      /\ frames'[m + 1].retry = arg
      /\ heap'[data'] = NewArray(2 * capacity)
      /\ \A b \in DOMAIN heap : heap'[b] = heap[b]
  BY <1>1, GrowPushes
<1>4. \A n \in 1 .. Len(frames') : n \in 1 .. m \/ n = m + 1
  BY <1>3
<1>5. m + 1 \in 1 .. Len(frames') /\ \A n \in 1 .. m : n \in 1 .. Len(frames')
  BY <1>3
<1>6. DataHeld' = {}
  <2>1. Occupied(NewArray(2 * capacity)) = {}
    BY <1>2, NewArrayGood
  <2> QED BY <2>1, <1>3 DEF DataHeld
<1>7. ArgHeld = {<<<<"arg">>, arg>>} /\ ArgHeld' = {}
  BY <1>2 DEF ArgHeld, Pending
<1>8. RetryHeld' = RetryHeld \cup {retry}
  BY <1>1, <1>3, <1>4, <1>5 DEF RetryHeld
<1>9. OldHeld' = OldHeld \cup New
  <2>1. ASSUME NEW n \in 1 .. m
        PROVE  /\ Unread(frames[n])' = Unread(frames[n])
               /\ heap'[frames'[n].old] = heap[frames[n].old]
    BY <1>2, <1>3 DEF Unread
  <2>2. Unread(frames[m + 1])' = Occupied(heap[data])
    <3>1. heap'[frames'[m + 1].old] = heap[data]
      BY <1>2, <1>3
    <3>2. ASSUME NEW ip \in Occupied(heap[data])
          PROVE  ip[1] > 0 \/ (ip[1] = 0 /\ ip[2] >= 0)
      <4>1. ip[1] \in 0 .. capacity - 1 /\ ip[2] \in Pos
        BY <1>2 DEF Occupied, Array
      <4> QED BY <4>1, <1>2 DEF Pos
    <3>3. Occupied(heap[data]) = {ip \in Occupied(heap[data]) :
                                    ip[1] > 0 \/ (ip[1] = 0 /\ ip[2] >= 0)}
      BY <3>2
    <3>4. Unread(frames[m + 1])' = {ip \in Occupied(heap'[frames'[m + 1].old]) :
                                      \/ ip[1] > frames'[m + 1].i
                                      \/ ip[1] = frames'[m + 1].i /\ ip[2] >= frames'[m + 1].j}
      BY DEF Unread
    <3>5. Unread(frames[m + 1])' = {ip \in Occupied(heap[data]) :
                                      ip[1] > 0 \/ (ip[1] = 0 /\ ip[2] >= 0)}
      BY <3>1, <3>4, <1>3
    <3> QED BY <3>3, <3>5
  <2>3. heap'[frames'[m + 1].old] = heap[data]
    BY <1>2, <1>3
  <2>4. ASSUME NEW h \in OldHeld' PROVE h \in OldHeld \cup New
    <3>1. PICK n \in 1 .. Len(frames') : \E ip \in Unread(frames[n])' :
            h = <<<<"old", n, ip>>, EntryAt(heap'[frames'[n].old], ip)>>
      BY DEF OldHeld
    <3>2. CASE n \in 1 .. m
      BY <3>1, <3>2, <2>1, <1>1 DEF OldHeld
    <3>3. CASE n = m + 1
      <4>1. PICK ip \in Occupied(heap[data]) :
              h = <<<<"old", m + 1, ip>>, EntryAt(heap'[frames'[m + 1].old], ip)>>
        BY <3>1, <3>3, <2>2
      <4>2. h = old(ip)
        BY <4>1, <2>3
      <4> QED BY <4>2
    <3> QED BY <3>2, <3>3, <1>4
  <2>5. ASSUME NEW h \in OldHeld PROVE h \in OldHeld'
    <3>1. PICK n \in 1 .. m : \E ip \in Unread(frames[n]) :
            h = <<<<"old", n, ip>>, EntryAt(heap[frames[n].old], ip)>>
      BY <1>1 DEF OldHeld
    <3> QED BY <3>1, <2>1, <1>5 DEF OldHeld
  <2>6. ASSUME NEW ip \in Occupied(heap[data]) PROVE old(ip) \in OldHeld'
    <3>1. ip \in Unread(frames[m + 1])'
      BY <2>2
    <3>2. <<<<"old", m + 1, ip>>, EntryAt(heap'[frames'[m + 1].old], ip)>> \in OldHeld'
      BY <3>1, <1>5 DEF OldHeld
    <3> QED BY <3>2, <2>3
  <2> QED BY <2>4, <2>5, <2>6
<1>10. \A g \in DataHeld : old(g[1][2]) \in New /\ old(g[1][2])[2] = g[2]
  BY DEF DataHeld
<1>11. \A h \in New : \E g \in DataHeld : g[2] = h[2] /\ h = old(g[1][2])
  <2> SUFFICES ASSUME NEW ip \in Occupied(heap[data])
               PROVE  \E g \in DataHeld : g[2] = old(ip)[2] /\ old(ip) = old(g[1][2])
    OBVIOUS
  <2>1. <<<<"data", ip>>, EntryAt(heap[data], ip)>> \in DataHeld
    BY DEF DataHeld
  <2> QED BY <2>1
<1>12. retry[2] = arg /\ <<<<"arg">>, arg>>[2] = arg /\ <<<<"arg">>, arg>>[1][1] = "arg"
  OBVIOUS
<1> HIDE DEF New, old, retry
<1>13. ASSUME NEW h \in Held' PROVE \E g \in Held : g[2] = h[2] /\ h = R[g]
  <2>1. CASE h \in RetryHeld \cup OldHeld
    BY <2>1, Hands DEF Held
  <2>2. CASE h = retry
    BY <2>2, <1>7, <1>12 DEF Held
  <2>3. CASE h \in New
    BY <2>3, <1>11, Hands DEF Held
  <2> QED BY <2>1, <2>2, <2>3, <1>6, <1>7, <1>8, <1>9 DEF Held
<1>14. ASSUME NEW g \in Held PROVE \E h \in Held' : h[2] = g[2]
  BY <1>7, <1>8, <1>9, <1>10, <1>12 DEF Held
<1> QED BY <1>13, <1>14 DEF Carried
\* The loops of grow move their own frame's place and nothing else in any frame.
LEMMA LoopMoves ==
    ASSUME IInv, Migrate \/ NextSlot
    PROVE  /\ Len(frames) \in Nat \ {0} /\ Len(frames') = Len(frames)
           /\ Top \in Frame /\ Top.i < Top.old_capacity
           /\ \A n \in 1 .. Len(frames) :
                /\ frames'[n].old = frames[n].old /\ frames'[n].retry = frames[n].retry
                /\ n # Len(frames) => frames'[n] = frames[n]
           /\ Migrate => frames'[Len(frames)].i = Top.i /\ frames'[Len(frames)].j = Top.j + 1
           /\ NextSlot => frames'[Len(frames)].i = Top.i + 1 /\ frames'[Len(frames)].j = 0
           /\ DataHeld' = DataHeld /\ RetryHeld' = RetryHeld
           /\ heap[Top.old] \in Array(Top.old_capacity) /\ Compact(heap[Top.old])
<1>1. frames \in Seq(Frame) /\ Len(frames) \in Nat \ {0} /\ Top \in Frame
  BY TopIsFrame DEF Migrate, NextSlot, IInv
<1>2. Len(frames) \in 1 .. Len(frames)
  BY <1>1, SMTT(20)
<1>3. ASSUME NEW f \in Frame, frames' = [frames EXCEPT ![Len(frames)] = f],
             f.old = Top.old, f.retry = Top.retry
      PROVE  /\ Len(frames') = Len(frames) /\ frames'[Len(frames)] = f
             /\ \A n \in 1 .. Len(frames) :
                  /\ frames'[n].old = frames[n].old /\ frames'[n].retry = frames[n].retry
                  /\ n # Len(frames) => frames'[n] = frames[n]
  <2>1. /\ Len(frames') = Len(frames)
        /\ \A n \in 1 .. Len(frames) :
             frames'[n] = IF n = Len(frames) THEN f ELSE frames[n]
    BY <1>1, <1>2, <1>3, ExceptSeq
  <2> QED BY <2>1, <1>2, <1>3 DEF Top
<1>4. /\ Len(frames') = Len(frames)
      /\ \A n \in 1 .. Len(frames) :
           /\ frames'[n].old = frames[n].old /\ frames'[n].retry = frames[n].retry
           /\ n # Len(frames) => frames'[n] = frames[n]
      /\ Migrate => frames'[Len(frames)].i = Top.i /\ frames'[Len(frames)].j = Top.j + 1
      /\ NextSlot => frames'[Len(frames)].i = Top.i + 1 /\ frames'[Len(frames)].j = 0
  <2>1. CASE Migrate /\ ~ NextSlot
    <3> DEFINE f == [Top EXCEPT !.j = @ + 1]
    <3>1. f \in Frame /\ f.old = Top.old /\ f.retry = Top.retry /\ f.i = Top.i /\ f.j = Top.j + 1
      <4>1. Top.j \in 0 .. BUCKET /\ Top.j < BUCKET
        BY <1>1, <2>1 DEF Frame, Migrate, AtEntry
      <4>2. Top.j + 1 \in 0 .. BUCKET
        BY <4>1, SizeAssumption
      <4> QED BY <1>1, <4>2 DEF Frame
    <3>2. frames' = [frames EXCEPT ![Len(frames)] = f]
      BY <2>1 DEF Migrate, SetTop
    <3> HIDE DEF f
    <3> QED BY <1>3, <2>1, <3>1, <3>2
  <2>2. CASE NextSlot /\ ~ Migrate
    <3> DEFINE f == [Top EXCEPT !.i = @ + 1, !.j = 0]
    <3>1. f \in Frame /\ f.old = Top.old /\ f.retry = Top.retry /\ f.i = Top.i + 1 /\ f.j = 0
      <4>1. Top.i \in Nat /\ Top.i + 1 \in Nat /\ 0 \in 0 .. BUCKET
        BY <1>1, SizeAssumption DEF Frame
      <4> QED BY <1>1, <4>1 DEF Frame
    <3>2. frames' = [frames EXCEPT ![Len(frames)] = f]
      BY <2>2 DEF NextSlot, SetTop
    <3> HIDE DEF f
    <3> QED BY <1>3, <2>2, <3>1, <3>2
  <2>3. ~ (Migrate /\ NextSlot)
    BY DEF Migrate, NextSlot
  <2> QED BY <2>1, <2>2, <2>3
<1>5. UNCHANGED <<heap, data>> /\ Top.i < Top.old_capacity
  BY <1>1 DEF Migrate, NextSlot
<1>6. DataHeld' = DataHeld /\ RetryHeld' = RetryHeld
  BY <1>4, <1>5 DEF DataHeld, RetryHeld
<1>7. heap[Top.old] \in Array(Top.old_capacity) /\ Compact(heap[Top.old])
  BY <1>2 DEF IInv, TypeOK, Ownership, SlotsCompact, Top
<1> QED BY <1>1, <1>4, <1>5, <1>6, <1>7

\* From the part a grow has not read into the hands of insert.
LEMMA MigrateCarries == ASSUME IInv, Migrate PROVE \E R : Carried(R)
<1> USE SizeAssumption
<1>1. PICK m \in Nat \ {0} : m = Len(frames)
  BY LoopMoves
<1>2. PICK f \in Frame : f = frames[m]
  BY <1>1, LoopMoves DEF Top
<1> DEFINE A == heap[f.old]
           ip == <<f.i, f.j>>
           read == <<<<"old", m, ip>>, EntryAt(A, ip)>>
           taken == <<<<"arg">>, EntryAt(A, ip)>>
           R == [g \in Held |-> IF g = read THEN taken ELSE g]
<1>3. /\ Len(frames') = m /\ m \in 1 .. m /\ f.i < f.old_capacity /\ f = Top
      /\ \A n \in 1 .. m : /\ frames'[n].old = frames[n].old
                           /\ n # m => frames'[n] = frames[n]
      /\ frames'[m].i = f.i /\ frames'[m].j = f.j + 1
      /\ DataHeld' = DataHeld /\ RetryHeld' = RetryHeld
      /\ A \in Array(f.old_capacity) /\ heap' = heap
  <2>1. f = Top /\ m \in 1 .. m
    BY <1>1, <1>2 DEF Top
  <2>2. /\ Len(frames') = m /\ f.i < f.old_capacity /\ DataHeld' = DataHeld
        /\ RetryHeld' = RetryHeld /\ A \in Array(f.old_capacity) /\ heap' = heap
    <3>1. heap' = heap
      BY DEF Migrate
    <3> QED BY <1>1, <2>1, <3>1, LoopMoves
  <2>3. \A n \in 1 .. m : /\ frames'[n].old = frames[n].old
                          /\ n # m => frames'[n] = frames[n]
    BY <1>1, LoopMoves
  <2>4. frames'[m].i = f.i /\ frames'[m].j = f.j + 1
    BY <1>1, <2>1, LoopMoves DEF Migrate
  <2> QED BY <2>1, <2>2, <2>3, <2>4
<1>4. ip \in Occupied(A)
  <2>1. f.i \in 0 .. f.old_capacity - 1 /\ f.j \in Pos /\ A[f.i].keys[f.j] # EMPTY
    BY <1>2, <1>3 DEF Migrate, AtEntry, Frame, Pos
  <2> QED BY <2>1, <1>3 DEF Occupied, Array
<1>5. ip \in Unread(f)
  BY <1>4, <1>2 DEF Unread, Frame
<1>6. arg = NULL /\ arg' = EntryAt(A, ip) /\ arg' # NULL
  <2>1. arg' \in Key \X Value
    <3>1. A[f.i].values[f.j] \in Value
      BY <1>3, <1>4, LoopMoves DEF Compact
    <3>2. A[f.i].keys[f.j] \in Key
      <4>1. f.i \in 0 .. f.old_capacity - 1 /\ f.j \in Pos /\ A[f.i].keys[f.j] # EMPTY
        BY <1>4, <1>3 DEF Occupied, Array
      <4>2. A[f.i].keys \in [Pos -> Key \cup {EMPTY}]
        BY <4>1, <1>3 DEF Array, Slot
      <4> HIDE DEF A
      <4> QED BY <4>1, <4>2
    <3> QED BY <3>1, <3>2, <1>3 DEF Migrate
  <2> QED BY <2>1, <1>3, HeapAssumption DEF Migrate, InGrow, EntryAt
<1>7. ArgHeld = {} /\ ArgHeld' = {taken}
  BY <1>6 DEF ArgHeld, Pending
<1>8. ASSUME NEW n \in 1 .. m, n # m
      PROVE  Unread(frames[n])' = Unread(frames[n])
  BY <1>3, <1>8 DEF Unread
<1>9. Unread(frames[m])' = Unread(f) \ {ip}
  <2>1. ASSUME NEW x \in Occupied(A)
        PROVE  x[1] > f.i \/ (x[1] = f.i /\ x[2] >= f.j + 1)
                 <=> (x[1] > f.i \/ (x[1] = f.i /\ x[2] >= f.j)) /\ x # ip
    <3>1. x[1] \in Int /\ x[2] \in Int /\ x = <<x[1], x[2]>> /\ f.i \in Int /\ f.j \in Int
      BY <1>2, <1>3 DEF Occupied, Array, Pos, Frame
    <3> QED BY <3>1
  <2>2. Unread(frames[m])' = {x \in Occupied(A) :
                                x[1] > f.i \/ (x[1] = f.i /\ x[2] >= f.j + 1)}
    BY <1>2, <1>3 DEF Unread
  <2>3. Unread(f) = {x \in Occupied(A) : x[1] > f.i \/ (x[1] = f.i /\ x[2] >= f.j)}
    BY DEF Unread
  <2> QED BY <2>1, <2>2, <2>3
<1>10. OldHeld' = OldHeld \ {read}
  <2>1. ASSUME NEW h \in OldHeld' PROVE h \in OldHeld \ {read}
    <3>1. PICK n \in 1 .. m : \E x \in Unread(frames[n])' :
            h = <<<<"old", n, x>>, EntryAt(heap[frames[n].old], x)>>
      BY <1>3 DEF OldHeld
    <3>2. CASE n # m
      BY <3>1, <3>2, <1>1, <1>8 DEF OldHeld
    <3>3. CASE n = m
      BY <3>1, <3>3, <1>1, <1>2, <1>9 DEF OldHeld
    <3> QED BY <3>2, <3>3
  <2>2. ASSUME NEW h \in OldHeld, h # read PROVE h \in OldHeld'
    <3>1. PICK n \in 1 .. m : \E x \in Unread(frames[n]) :
            h = <<<<"old", n, x>>, EntryAt(heap[frames[n].old], x)>>
      BY <1>1 DEF OldHeld
    <3>2. PICK x \in Unread(frames[n]) :
            h = <<<<"old", n, x>>, EntryAt(heap[frames[n].old], x)>>
      BY <3>1
    <3>3. x \in Unread(frames[n])'
      BY <3>2, <2>2, <1>2, <1>8, <1>9
    <3>4. h = <<<<"old", n, x>>, EntryAt(heap'[frames'[n].old], x)>>
      BY <3>2, <1>3
    <3> QED BY <3>3, <3>4, <1>3 DEF OldHeld
  <2> QED BY <2>1, <2>2
<1>11. read \in OldHeld
  <2>1. ip \in Unread(frames[m]) /\ heap[frames[m].old] = A
    BY <1>2, <1>5
  <2>2. <<<<"old", m, ip>>, EntryAt(heap[frames[m].old], ip)>> \in OldHeld
    BY <2>1, <1>1, <1>3 DEF OldHeld
  <2> QED BY <2>1, <2>2
<1>12. taken[2] = read[2] /\ read[1][1] = "old"
  OBVIOUS
<1> HIDE DEF taken, read
<1>13. ASSUME NEW h \in Held' PROVE \E g \in Held : g[2] = h[2] /\ h = R[g]
  <2>1. CASE h = taken
    BY <2>1, <1>11, <1>12 DEF Held
  <2>2. CASE h \in DataHeld \cup RetryHeld \cup (OldHeld \ {read})
    BY <2>2, <1>12, Hands DEF Held
  <2> QED BY <2>1, <2>2, <1>3, <1>7, <1>10 DEF Held
<1>14. ASSUME NEW g \in Held PROVE \E h \in Held' : h[2] = g[2]
  BY <1>3, <1>7, <1>10, <1>12 DEF Held
<1> QED BY <1>13, <1>14 DEF Carried
\* The loop of grow leaves a slot when it has read the slot's entries.
LEMMA NextSlotKeeps == ASSUME IInv, NextSlot PROVE Held' = Held
<1> USE SizeAssumption
<1>1. PICK m \in Nat \ {0} : m = Len(frames)
  BY LoopMoves
<1>2. PICK f \in Frame : f = frames[m]
  BY <1>1, LoopMoves DEF Top
<1> DEFINE A == heap[f.old]
<1>3. /\ Len(frames') = m /\ m \in 1 .. m /\ f = Top
      /\ \A n \in 1 .. m : /\ frames'[n].old = frames[n].old
                           /\ n # m => frames'[n] = frames[n]
      /\ frames'[m].i = f.i + 1 /\ frames'[m].j = 0
      /\ DataHeld' = DataHeld /\ RetryHeld' = RetryHeld
      /\ A \in Array(f.old_capacity) /\ Compact(A) /\ heap' = heap /\ arg' = arg
  BY <1>1, <1>2, LoopMoves DEF Top, NextSlot
<1>4. ASSUME NEW x \in Occupied(A)
      PROVE  x[1] > f.i + 1 \/ (x[1] = f.i + 1 /\ x[2] >= 0)
               <=> x[1] > f.i \/ (x[1] = f.i /\ x[2] >= f.j)
  <2>1. x[1] \in Int /\ x[2] \in 0 .. BUCKET - 1 /\ f.i \in Int /\ f.j \in 0 .. BUCKET
    BY <1>2, <1>3 DEF Occupied, Array, Pos, Frame
  <2>2. ASSUME x[1] = f.i, x[2] >= f.j PROVE FALSE
    <3>1. f.j < BUCKET /\ f.j \in 0 .. x[2]
      BY <2>1, <2>2
    <3>2. A[f.i].keys[f.j] # EMPTY
      BY <3>1, <2>2, <1>3 DEF Compact
    <3> QED BY <3>1, <3>2, <1>3 DEF NextSlot, AtEntry
  <2> QED BY <2>1, <2>2
<1>5. Unread(frames[m])' = Unread(frames[m])
  <2>1. Unread(frames[m])' = {x \in Occupied(A) :
                                x[1] > f.i + 1 \/ (x[1] = f.i + 1 /\ x[2] >= 0)}
    BY <1>2, <1>3 DEF Unread
  <2>2. Unread(frames[m]) = {x \in Occupied(A) : x[1] > f.i \/ (x[1] = f.i /\ x[2] >= f.j)}
    BY <1>2 DEF Unread
  <2> QED BY <1>4, <2>1, <2>2
<1>6. ASSUME NEW n \in 1 .. m
      PROVE  Unread(frames[n])' = Unread(frames[n])
  <2>1. CASE n = m
    BY <2>1, <1>5
  <2>2. CASE n # m
    BY <2>2, <1>3 DEF Unread
  <2> QED BY <2>1, <2>2
<1>7. OldHeld' = OldHeld
  BY <1>1, <1>3, <1>6 DEF OldHeld
<1>8. ArgHeld' = ArgHeld
  BY <1>3 DEF ArgHeld, Pending
<1> QED BY <1>3, <1>7, <1>8 DEF Held

\* A grow that returns has read all of its old array; insert gets its entry back.
LEMMA GrowReturnCarries == ASSUME IInv, GrowReturn PROVE \E R : Carried(R)
<1>1. PICK m \in Nat \ {0} : m = Len(frames)
  BY GrowReturnPops
<1>2. PICK f \in Frame : f = frames[m] /\ f = Top
  BY <1>1, GrowReturnPops DEF Top
<1> DEFINE kept == <<<<"retry", m>>, f.retry>>
           taken == <<<<"arg">>, f.retry>>
           R == [g \in Held |-> IF g = kept THEN taken ELSE g]
<1>3. /\ Len(frames') = m - 1 /\ \A n \in 1 .. m - 1 : frames'[n] = frames[n]
      /\ m \in 1 .. m /\ \A n \in 1 .. m - 1 : n \in 1 .. m /\ n # m
      /\ \A n \in 1 .. m : n \in 1 .. m - 1 \/ n = m
  BY <1>1, GrowReturnPops
<1>4. /\ \A b \in DOMAIN heap \ {f.old} : heap'[b] = heap[b]
      /\ f.i = f.old_capacity /\ arg = NULL /\ arg' = f.retry /\ data' = data
      /\ heap[f.old] \in Array(f.old_capacity)
      /\ data \in DOMAIN heap \ {f.old}
      /\ \A n \in 1 .. m - 1 : frames[n].old \in DOMAIN heap \ {f.old}
  <2>1. \A b \in DOMAIN heap \ {f.old} : heap'[b] = heap[b]
    BY <1>2 DEF GrowReturn, Free
  <2>2. f.i = f.old_capacity /\ arg = NULL /\ arg' = f.retry /\ data' = data /\ status = "live"
    BY <1>2 DEF GrowReturn, InGrow
  <2>3. heap[f.old] \in Array(f.old_capacity)
    BY <1>1, <1>2, <1>3 DEF IInv, TypeOK
  <2>4. data \in DOMAIN heap \ {f.old}
    <3>1. f.old \in {frames[n].old : n \in 1 .. Len(frames)}
      BY <1>1, <1>2, <1>3
    <3>2. Ownership
      BY DEF IInv
    <3> QED BY <3>1, <3>2, <2>2 DEF Ownership
  <2>5. \A n \in 1 .. m - 1 : frames[n].old \in DOMAIN heap \ {f.old}
    BY <1>1, <1>2, <1>3 DEF IInv, Ownership
  <2> QED BY <2>1, <2>2, <2>3, <2>4, <2>5
<1>5. Unread(frames[m]) = {}
  <2>1. \A x \in Occupied(heap[f.old]) : x[1] \in 0 .. f.old_capacity - 1
    BY <1>4 DEF Occupied, Array
  <2>2. \A x \in Occupied(heap[f.old]) : ~ (x[1] > f.i) /\ x[1] # f.i
    BY <2>1, <1>2, <1>4 DEF Frame
  <2> QED BY <2>2, <1>2 DEF Unread
<1>6. ASSUME NEW n \in 1 .. m - 1
      PROVE  Unread(frames[n])' = Unread(frames[n]) /\ heap'[frames'[n].old] = heap[frames[n].old]
  BY <1>3, <1>4 DEF Unread
<1>7. DataHeld' = DataHeld
  BY <1>4 DEF DataHeld
<1>8. ArgHeld = {} /\ ArgHeld' = {taken}
  <2>1. f.retry # NULL
    BY <1>2, HeapAssumption DEF Frame
  <2> QED BY <2>1, <1>4 DEF ArgHeld, Pending
<1>9. RetryHeld = RetryHeld' \cup {kept}
  <2>1. RetryHeld' = {<<<<"retry", n>>, frames[n].retry>> : n \in 1 .. m - 1}
    BY <1>3 DEF RetryHeld
  <2>2. RetryHeld = {<<<<"retry", n>>, frames[n].retry>> : n \in 1 .. m}
    BY <1>1 DEF RetryHeld
  <2> QED BY <2>1, <2>2, <1>2, <1>3
<1>10. kept \notin RetryHeld'
  <2>1. \A n \in 1 .. m - 1 : <<"retry", n>> # <<"retry", m>>
    BY <1>3
  <2> QED BY <2>1, <1>3 DEF RetryHeld
<1>11. OldHeld' = OldHeld
  <2>1. ASSUME NEW h \in OldHeld PROVE h \in OldHeld'
    <3>1. PICK n \in 1 .. m : \E x \in Unread(frames[n]) :
            h = <<<<"old", n, x>>, EntryAt(heap[frames[n].old], x)>>
      BY <1>1 DEF OldHeld
    <3>2. n \in 1 .. m - 1
      BY <3>1, <1>3, <1>5
    <3> QED BY <3>1, <3>2, <1>3, <1>6 DEF OldHeld
  <2>2. ASSUME NEW h \in OldHeld' PROVE h \in OldHeld
    <3>1. PICK n \in 1 .. m - 1 : \E x \in Unread(frames[n])' :
            h = <<<<"old", n, x>>, EntryAt(heap'[frames'[n].old], x)>>
      BY <1>3 DEF OldHeld
    <3>2. PICK x \in Unread(frames[n]) : h = <<<<"old", n, x>>, EntryAt(heap[frames[n].old], x)>>
      BY <3>1, <1>6
    <3>3. n \in 1 .. Len(frames)
      BY <1>1, <1>3
    <3> QED BY <3>2, <3>3 DEF OldHeld
  <2> QED BY <2>1, <2>2
<1>12. taken[2] = kept[2] /\ kept[1][1] = "retry"
  OBVIOUS
<1> HIDE DEF taken, kept
<1>13. ASSUME NEW h \in Held' PROVE \E g \in Held : g[2] = h[2] /\ h = R[g]
  <2>1. CASE h = taken
    BY <2>1, <1>9, <1>12 DEF Held
  <2>2. CASE h \in DataHeld \cup RetryHeld' \cup OldHeld
    <3>1. h # kept
      BY <2>2, <1>10, <1>12, Hands
    <3>2. h \in Held
      BY <2>2, <1>9 DEF Held
    <3> QED BY <3>1, <3>2
  <2> QED BY <2>1, <2>2, <1>7, <1>8, <1>11 DEF Held
<1>14. ASSUME NEW g \in Held PROVE \E h \in Held' : h[2] = g[2]
  BY <1>7, <1>8, <1>9, <1>11, <1>12 DEF Held
<1> QED BY <1>13, <1>14 DEF Carried
-----------------------------------------------------------------------------
(* The calls of the user.                                                    *)

\* Between calls only the array holds entries.
LEMMA IdleHolds ==
    ASSUME Idle
    PROVE  Held = DataHeld /\ ArgHeld = {} /\ RetryHeld = {} /\ OldHeld = {}
<1>1. arg = NULL /\ Len(frames) = 0
  BY DEF Idle
<1> QED BY <1>1 DEF Held, ArgHeld, Pending, RetryHeld, OldHeld

\* A new entry of a new key.
LEMMA InsertHolds ==
    ASSUME IInv, NEW k \in Key, NEW v \in Value, Insert(k, v)
    PROVE  Held' = Held \cup {<<<<"arg">>, <<k, v>>>>}
<1>1. Idle /\ arg' = <<k, v>> /\ UNCHANGED <<heap, data, frames>>
  BY DEF Insert
<1>2. <<k, v>> # NULL
  BY HeapAssumption
<1>3. ArgHeld' = {<<<<"arg">>, <<k, v>>>>}
  BY <1>1, <1>2 DEF ArgHeld, Pending
<1>4. DataHeld' = DataHeld /\ RetryHeld' = RetryHeld
  BY <1>1 DEF DataHeld, RetryHeld
<1>5. OldHeld' = OldHeld
  BY <1>1 DEF OldHeld, Unread
<1> QED BY <1>1, <1>3, <1>4, <1>5, IdleHolds DEF Held

\* All entries but the erased key's, some of them one place lower.
LEMMA EraseHolds ==
    ASSUME IInv, HeldOnce, NEW k \in Key, Erase(k)
    PROVE  /\ \E R : \A h \in Held' : \E g \in Held : g[2] = h[2] /\ h = R[g]
           /\ {h[2] : h \in Held'} = {e \in {h[2] : h \in Held} : e[1] # k}
<1> USE KeyAssumption
<1> DEFINE A == heap[data]
<1>1. A \in Array(capacity) /\ capacity \in Nat \ {0} /\ Idle /\ status = "live"
        /\ UNCHANGED <<data, arg, frames, status>>
  BY DEF IInv, TypeOK, Erase, Idle
<1>2. PICK i \in 0 .. capacity - 1, p \in Pos :
        A[i].keys[p] = k /\ heap' = [heap EXCEPT ![data] = Remove(A, i, p)]
  BY EraseIsRemove
<1> DEFINE B == Remove(A, i, p)
           R == [g \in Held |-> <<<<"data", Lower(g[1][2], i, p)>>, g[2]>>]
<1>3. heap'[data] = B
  BY <1>1, <1>2, OthersKept
<1>4. /\ \A jp \in Occupied(B) : \E ip \in Occupied(A) \ {<<i, p>>} :
           jp = Lower(ip, i, p) /\ EntryAt(B, jp) = EntryAt(A, ip)
      /\ \A ip \in Occupied(A) \ {<<i, p>>} :
           /\ Lower(ip, i, p) \in Occupied(B)
           /\ EntryAt(B, Lower(ip, i, p)) = EntryAt(A, ip)
  BY <1>1, RemoveEntries
<1> HIDE DEF B
<1>5. Held = DataHeld /\ Held' = DataHeld'
  <2>1. Idle'
    BY <1>1 DEF Idle
  <2>2. ArgHeld' = {} /\ RetryHeld' = {} /\ OldHeld' = {}
    BY <1>1, <1>2, IdleHolds, OthersKept DEF ArgHeld, Pending
  <2> QED BY <1>1, <2>2, IdleHolds DEF Held
<1>6. \A h \in Held : h[1][1] = "data" /\ h = <<h[1], h[2]>> /\ h[1] = <<"data", h[1][2]>>
        /\ h[1][2] \in Occupied(A) /\ h[2] = EntryAt(A, h[1][2])
  BY <1>5 DEF DataHeld
<1>7. \A jp \in Occupied(B) : <<<<"data", jp>>, EntryAt(B, jp)>> \in Held'
  BY <1>1, <1>3, <1>5 DEF DataHeld
<1>8. ASSUME NEW h \in Held'
      PROVE  \E g \in Held : g[2] = h[2] /\ h = R[g] /\ g[1][2] # <<i, p>>
  <2>1. PICK jp \in Occupied(B) : h = <<<<"data", jp>>, EntryAt(B, jp)>>
    BY <1>1, <1>3, <1>5 DEF DataHeld
  <2>2. PICK ip \in Occupied(A) \ {<<i, p>>} :
          jp = Lower(ip, i, p) /\ EntryAt(B, jp) = EntryAt(A, ip)
    BY <1>4
  <2> DEFINE g == <<<<"data", ip>>, EntryAt(A, ip)>>
  <2>3. g \in Held
    BY <1>5 DEF DataHeld
  <2>4. R[g] = <<<<"data", Lower(ip, i, p)>>, EntryAt(A, ip)>>
    BY <2>3
  <2> QED BY <2>1, <2>2, <2>3, <2>4
<1>9. <<i, p>> \in Occupied(A) /\ EntryAt(A, <<i, p>>)[1] = k
  BY <1>1, <1>2 DEF Occupied, Array, EntryAt
<1>10. \A g \in Held : g[2][1] = k <=> g[1][2] = <<i, p>>
  <2> DEFINE x == <<<<"data", <<i, p>>>>, EntryAt(A, <<i, p>>)>>
  <2>1. x \in Held /\ x[2][1] = k /\ x[1][2] = <<i, p>>
    BY <1>5, <1>9 DEF DataHeld
  <2>2. \A g \in Held : g[2][1] = k => g = x
    BY <2>1 DEF HeldOnce
  <2>3. \A g \in Held : g[1][2] = <<i, p>> => g[2][1] = k
    BY <1>6, <1>9
  <2> HIDE DEF x
  <2> QED BY <2>1, <2>2, <2>3
<1>11. ASSUME NEW g \in Held, g[2][1] # k PROVE \E h \in Held' : h[2] = g[2]
  <2>1. g[1][2] \in Occupied(A) \ {<<i, p>>}
    BY <1>6, <1>10, <1>11
  <2>2. Lower(g[1][2], i, p) \in Occupied(B)
          /\ EntryAt(B, Lower(g[1][2], i, p)) = g[2]
    BY <2>1, <1>4, <1>6
  <2> QED BY <2>2, <1>7
<1> HIDE DEF R
<1>12. \A h \in Held' : \E g \in Held : g[2] = h[2] /\ h[2][1] # k
  BY <1>8, <1>10
<1>13. {h[2] : h \in Held'} = {e \in {h[2] : h \in Held} : e[1] # k}
  BY <1>11, <1>12
<1> QED BY <1>8, <1>13

\* Nothing.
LEMMA ClearHolds == ASSUME IInv, Clear PROVE Held' = {}
<1>1. heap[data] \in Array(capacity) /\ capacity \in Nat \ {0} /\ Idle /\ data \in DOMAIN heap
        /\ UNCHANGED <<data, arg, frames>>
  BY DEF IInv, TypeOK, Ownership, Clear, Idle
<1>2. heap'[data] = FillEmpty(heap[data])
  BY <1>1 DEF Clear
<1>3. Occupied(heap'[data]) = {}
  BY <1>1, <1>2, FillEmptyGood
<1>4. arg' = NULL /\ Len(frames') = 0
  BY <1>1 DEF Idle
<1> QED BY <1>1, <1>3, <1>4 DEF Held, DataHeld, ArgHeld, Pending, RetryHeld, OldHeld
-----------------------------------------------------------------------------
(* No entry is held twice.                                                   *)

\* What a grow holds does not matter once the table is destroyed.
Once == status # "destroyed" => HeldOnce

\* The steps of a grow neither add an entry nor lose one.
LEMMA InternalKeeps ==
    ASSUME IInv, Internal
    PROVE  /\ \E R : Carried(R)
           /\ status # "destroyed" /\ status' # "destroyed"
<1>1. status # "destroyed" /\ status' # "destroyed"
  BY DEF Internal, Place, Grow, GrowFails, Migrate, NextSlot, GrowReturn, Running, InGrow
<1>2. CASE GrowFails \/ NextSlot
  <2>1. Held' = Held
    <3>1. CASE GrowFails
      BY <3>1 DEF GrowFails, Held, DataHeld, ArgHeld, Pending, RetryHeld, OldHeld, Unread
    <3> QED BY <3>1, <1>2, NextSlotKeeps
  <2> DEFINE R == [g \in Held |-> g]
  <2>2. Carried(R)
    BY <2>1 DEF Carried
  <2> QED BY <1>1, <2>2
<1> QED BY <1>1, <1>2, PlaceCarries, GrowCarries, MigrateCarries, GrowReturnCarries DEF Internal

\* Every step keeps each entry in at most one place.
LEMMA OnceStep == ASSUME IInv, Once, [Next]_vars PROVE Once'
<1> SUFFICES ASSUME status' # "destroyed" PROVE HeldOnce'
  BY DEF Once
<1>1. CASE UNCHANGED vars
  <2>1. Held' = Held /\ status' = status
    BY <1>1 DEF vars, Held, DataHeld, ArgHeld, Pending, RetryHeld, OldHeld, Unread
  <2> QED BY <2>1 DEF Once, HeldOnce
<1>2. CASE Internal
  <2>1. PICK R : Carried(R)
    BY <1>2, InternalKeeps
  <2>2. HeldOnce
    BY <1>2, InternalKeeps DEF Once
  <2> QED BY <2>1, <2>2, EntriesMove DEF Carried
<1>3. ASSUME NEW k \in Key, NEW v \in Value, Insert(k, v) PROVE HeldOnce'
  <2> DEFINE new == <<<<"arg">>, <<k, v>>>>
  <2>1. HeldOnce /\ status # "destroyed"
    BY <1>3 DEF Insert, Idle, Once
  <2>2. \A h \in Held : h[2][1] # k
    BY <1>3, <2>1, ContentIsHeld DEF Insert, KeysOf
  <2>3. Held' = Held \cup {new} /\ new[2][1] = k
    BY <1>3, InsertHolds
  <2> HIDE DEF new
  <2> QED BY <2>1, <2>2, <2>3 DEF HeldOnce
<1>4. ASSUME NEW k \in Key, Erase(k) PROVE HeldOnce'
  <2>1. HeldOnce
    BY <1>4 DEF Erase, Idle, Once
  <2> QED BY <1>4, <2>1, EraseHolds, EntriesMove
<1>5. CASE Clear
  BY <1>5, ClearHolds DEF HeldOnce
<1>6. CASE Destroy
  BY <1>6 DEF Destroy
<1> QED BY <1>1, <1>2, <1>3, <1>4, <1>5, <1>6 DEF Next

LEMMA InitHolds == Init => Held = {}
<1> SUFFICES ASSUME Init PROVE Held = {}
  OBVIOUS
<1>1. heap[data] = NewArray(InitialCapacity) /\ arg = NULL /\ Len(frames) = 0
  BY DEF Init
<1>2. Occupied(heap[data]) = {}
  BY <1>1, SizeAssumption, NewArrayGood
<1> QED BY <1>1, <1>2 DEF Held, DataHeld, ArgHeld, Pending, RetryHeld, OldHeld

\* At every step each entry is in one place: nested grows never hold one twice.
THEOREM EachEntryOnce == Spec => []Once
<1>1. Init => Once
  BY InitHolds DEF Once, HeldOnce
<1> QED BY <1>1, OnceStep, Safety, PTL DEF Spec

\* A key is in at most one place, however grows nest, so none is inserted twice.
THEOREM KeysAreUnique == Spec => []KeysUnique
<1>1. Once => KeysUnique
  BY OnceIsUnique DEF Once, KeysUnique
<1> QED BY <1>1, EachEntryOnce, PTL
-----------------------------------------------------------------------------
(* What a caller sees.                                                       *)

\* Between calls find returns the value its key was inserted with: the first place
\* that hits is the only place the key has.
THEOREM FindIsExact == Spec => []FindHits
<1>1. ASSUME IInv, Once PROVE FindHits
  <2> SUFFICES ASSUME Idle, NEW e \in Content
               PROVE  Hits(e[1]) # {} /\ FindValue(e[1]) = e[2]
    BY DEF FindHits
  <2> DEFINE A == heap[data]
             k == e[1]
             n == FirstHit(k)
             hit == <<ProbeSlot(k, n), n \div 2>>
  <2>1. HeldOnce /\ status # "destroyed" /\ A \in Array(capacity)
    BY <1>1 DEF Once, Idle, IInv, TypeOK
  <2>2. PICK ip \in Occupied(A) : e = EntryAt(A, ip)
    BY <1>1, IdleContent DEF Entries
  <2>3. k \in Key
    <3>1. ip[1] \in 0 .. capacity - 1 /\ ip[2] \in Pos /\ A[ip[1]].keys[ip[2]] # EMPTY
      BY <2>1, <2>2 DEF Occupied, Array
    <3>2. A[ip[1]].keys \in [Pos -> Key \cup {EMPTY}]
      BY <2>1, <3>1 DEF Array, Slot
    <3> QED BY <2>2, <3>1, <3>2 DEF EntryAt
  <2>4. Hits(k) # {}
    <3>1. k \in KeysOf(Content)
      BY DEF KeysOf
    <3> QED BY <1>1, <3>1, EntryIsContained DEF Contains
  <2>5. n \in Hits(k)
    <3>1. Hits(k) \in SUBSET Nat
      BY SizeAssumption DEF Hits
    <3>2. \E m \in Hits(k) : \A l \in Hits(k) : m <= l
      BY <2>4, <3>1, LeastNatural
    <3> QED BY <3>2 DEF FirstHit
  <2> HIDE DEF n
  <2>6. hit \in Occupied(A) /\ EntryAt(A, hit)[1] = k
    BY <1>1, <2>3, <2>5, HitIsEntry
  <2>7. hit = ip
    <3>1. <<<<"data", ip>>, e>> \in Held /\ <<<<"data", hit>>, EntryAt(A, hit)>> \in Held
      BY <2>2, <2>6 DEF Held, DataHeld
    <3>2. <<<<"data", ip>>, e>> = <<<<"data", hit>>, EntryAt(A, hit)>>
      BY <2>1, <2>6, <3>1 DEF HeldOnce
    <3> QED BY <3>2
  <2>8. FindValue(k) = e[2]
    <3>1. EntryAt(A, hit)[2] = e[2]
      BY <2>2, <2>7
    <3>2. FindValue(k) = EntryAt(A, hit)[2]
      BY DEF FindValue, EntryAt, n
    <3> QED BY <3>1, <3>2
  <2> QED BY <2>4, <2>8
<1> QED BY <1>1, EachEntryOnce, Safety, PTL
-----------------------------------------------------------------------------
(* The table is a map.                                                       *)

\* ContentIsHeld as a fact of every state.
LEMMA ContentHeld == status # "destroyed" => Content = {h[2] : h \in Held}
  BY ContentIsHeld

\* No step inside an insert changes the table its caller sees.
LEMMA InternalIsInvisible == ASSUME IInv, Internal PROVE Content' = Content
<1>1. PICK R : Carried(R)
  BY InternalKeeps
<1>2. Content = {h[2] : h \in Held}
  BY InternalKeeps, ContentIsHeld
<1>3. Content' = {h[2] : h \in Held'}
  <2>1. (status # "destroyed" => Content = {h[2] : h \in Held})'
    BY ContentHeld, PTL
  <2> QED BY <2>1, InternalKeeps
<1>4. \A h \in Held' : \E g \in Held : g[2] = h[2]
  BY <1>1 DEF Carried
<1>5. \A g \in Held : \E h \in Held' : h[2] = g[2]
  BY <1>1 DEF Carried
<1> QED BY <1>2, <1>3, <1>4, <1>5

\* Every step is a step of the abstract map, or one it does not see.
LEMMA MapStep == ASSUME IInv, Once, [Next]_vars PROVE [Map!Next]_(Map!vars)
<1> DEFINE busy == arg # NULL \/ frames # <<>>
<1> USE DEF Map!vars, Map!Next
<1>1. (status # "destroyed" => Content = {h[2] : h \in Held})'
  BY ContentHeld, PTL
<1>2. Idle => ~ busy /\ HeldOnce /\ Content = {h[2] : h \in Held}
  BY ContentIsHeld DEF Idle, Once
<1>3. CASE UNCHANGED vars
  <2>1. Content' = Content /\ busy' = busy
    BY <1>3 DEF vars, Content, Pending, Remaining, Unread
  <2> QED BY <2>1
<1>4. CASE Internal
  <2>1. busy
    BY <1>4 DEF Internal, Place, Grow, GrowFails, Migrate, NextSlot, GrowReturn, Running, InGrow
  <2>2. Content' = Content
    BY <1>4, InternalIsInvisible
  <2> QED BY <2>1, <2>2 DEF Map!Return
<1>5. ASSUME NEW k \in Key, NEW v \in Value, Insert(k, v) PROVE Map!Insert(k, v)
  <2>1. Idle /\ k \notin KeysOf(Content) /\ status' # "destroyed"
    BY <1>5 DEF Insert, Idle
  <2>2. Held' = Held \cup {<<<<"arg">>, <<k, v>>>>}
    BY <1>5, InsertHolds
  <2>3. Content' = Content \cup {<<k, v>>}
    <3> DEFINE new == <<<<"arg">>, <<k, v>>>>
    <3>1. new[2] = <<k, v>>
      OBVIOUS
    <3>2. Held' = Held \cup {new}
      BY <2>2
    <3> HIDE DEF new
    <3>3. Content' = {h[2] : h \in Held \cup {new}}
      BY <1>1, <2>1, <3>2
    <3> QED BY <1>2, <2>1, <3>1, <3>3
  <2>4. busy' = TRUE
    BY <1>5, HeapAssumption DEF Insert
  <2> QED BY <1>2, <2>1, <2>3, <2>4 DEF Map!Insert, Map!KeysOf, KeysOf
<1>6. ASSUME NEW k \in Key, Erase(k) PROVE Map!Erase(k)
  <2>1. Idle /\ k \in KeysOf(Content) /\ status' # "destroyed" /\ busy' = busy
    BY <1>6 DEF Erase, Idle
  <2>2. {h[2] : h \in Held'} = {e \in {h[2] : h \in Held} : e[1] # k}
    BY <1>2, <1>6, <2>1, EraseHolds
  <2>3. Content' = {e \in Content : e[1] # k}
    BY <1>1, <1>2, <2>1, <2>2
  <2> QED BY <1>2, <2>1, <2>3 DEF Map!Erase, Map!KeysOf, KeysOf
<1>7. CASE Clear
  <2>1. Idle /\ status' # "destroyed" /\ busy' = busy
    BY <1>7 DEF Clear, Idle
  <2>2. Content' = {}
    BY <1>1, <1>7, <2>1, ClearHolds
  <2> QED BY <1>2, <2>1, <2>2 DEF Map!Clear
<1>8. CASE Destroy
  <2>1. Idle /\ busy' = busy
    BY <1>8 DEF Destroy
  <2>2. Content' = {}
    BY <1>8 DEF Destroy, Content
  <2> QED BY <1>2, <2>1, <2>2 DEF Map!Clear
<1> QED BY <1>3, <1>4, <1>5, <1>6, <1>7, <1>8 DEF Next

\* A table implements the abstract map: each insert, erase, clear and destruction
\* changes its entries as the map's does, and no growth changes them.
THEOREM TableIsMap == Spec => MapSpec
<1>1. Init => Map!Init
  <2> SUFFICES ASSUME Init PROVE Content = {} /\ (arg # NULL \/ frames # <<>>) = FALSE
    BY DEF Map!Init
  <2>1. status # "destroyed" /\ (arg # NULL \/ frames # <<>>) = FALSE
    BY DEF Init
  <2> QED BY <2>1, InitHolds, ContentIsHeld
<1> QED BY <1>1, MapStep, EachEntryOnce, Safety, PTL DEF Spec, MapSpec, Map!Spec

-----------------------------------------------------------------------------
(* The caller's entries can be counted: the abstract map has finitely many.  *)

Countable == IsFiniteSet(Content)

LEMMA MapStaysCountable == Countable /\ [Map!Next]_(Map!vars) => Countable'
<1> SUFFICES ASSUME Countable, [Map!Next]_(Map!vars) PROVE IsFiniteSet(Content')
  BY DEF Countable
<1>1. CASE Content' = Content
  BY <1>1 DEF Countable
<1>2. ASSUME NEW k \in Key, NEW v \in Value, Map!Insert(k, v) PROVE IsFiniteSet(Content')
  <2>1. Content' = Content \cup {<<k, v>>}
    BY <1>2 DEF Map!Insert
  <2> QED BY <2>1, FS_AddElement DEF Countable
<1>3. ASSUME NEW k \in Key, Map!Erase(k) PROVE IsFiniteSet(Content')
  <2>1. Content' \in SUBSET Content
    BY <1>3 DEF Map!Erase
  <2> QED BY <2>1, FS_Subset DEF Countable
<1>4. CASE Map!Clear
  BY <1>4, FS_EmptySet DEF Map!Clear
<1> QED BY <1>1, <1>2, <1>3, <1>4 DEF Map!Next, Map!Return, Map!vars

LEMMA AlwaysCountable == Spec => []Countable
<1>1. Map!Init => Countable
  BY FS_EmptySet DEF Map!Init, Countable
<1> QED BY <1>1, MapStaysCountable, TableIsMap, PTL DEF MapSpec, Map!Spec

-----------------------------------------------------------------------------
\* A crashed insert has nowhere to put its entry.
CrashedFull == status = "crashed" => arg # NULL /\ ~ HasRoom(arg[1])

LEMMA CrashedFullStep == CrashedFull /\ [Next]_vars => CrashedFull'
<1> SUFFICES ASSUME CrashedFull, [Next]_vars, status' = "crashed"
             PROVE  (arg # NULL /\ ~ HasRoom(arg[1]))'
  BY DEF CrashedFull
<1>1. CASE UNCHANGED vars
  BY <1>1 DEF CrashedFull, vars, HasRoom, Slot1, Slot2, Index1, Index2
<1>2. CASE GrowFails
  BY <1>2 DEF GrowFails, Running, HasRoom, Slot1, Slot2, Index1, Index2
<1>3. ~ (Next /\ ~ GrowFails)
  BY DEF Next, Internal, Insert, Erase, Clear, Destroy, Place, Grow, Migrate, NextSlot,
         GrowReturn, Idle, Running, InGrow
<1> QED BY <1>1, <1>2, <1>3

\* Each place of the entry's slots holds a key of its own, which looks in those
\* slots too, and none holds the entry's.
LEMMA FullIsCrowded ==
    ASSUME IInv, Once, Countable, CrashedFull
    PROVE  CrashNeedsCrowding
<1> USE SizeAssumption, HashAssumption, KeyAssumption
<1> SUFFICES ASSUME status = "crashed" PROVE CrashNeedsCrowding
  BY DEF CrashNeedsCrowding
<1> DEFINE A == heap[data]
           k == arg[1]
           mine == {Index1(k), Index2(k)}
           rivals == {r \in KeysOf(Content) : {Index1(r), Index2(r)} \cap mine # {}}
           places == mine \X Pos
           key == [ip \in places |-> A[ip[1]].keys[ip[2]]]
<1>1. /\ HeldOnce /\ Content = {h[2] : h \in Held}
      /\ A \in Array(capacity) /\ Placed(A, capacity) /\ capacity \in Nat \ {0}
      /\ arg \in Key \X Value /\ arg # NULL /\ ~ HasRoom(k)
  BY ContentIsHeld DEF IInv, TypeOK, KeysPlaced, Once, CrashedFull
<1>2. k \in Key /\ mine \subseteq 0 .. capacity - 1
  <2>1. k \in Key /\ H1[k] \in Nat /\ H2[k] \in Nat
    BY <1>1
  <2> QED BY <1>1, <2>1, IndexInArray DEF Index1, Index2
<1>3. ASSUME NEW i \in mine, NEW p \in Pos
      PROVE  <<i, p>> \in Occupied(A)
  <2>1. A[i] \in Slot /\ (A[i] = Slot1(k) \/ A[i] = Slot2(k))
    BY <1>1, <1>2 DEF Array, Slot1, Slot2
  <2>2. Fill(A[i]) = BUCKET /\ IsFill(A[i], Fill(A[i]))
    BY <1>1, <2>1, FillIsFirst DEF HasRoom
  <2>3. A[i].keys[p] < EMPTY
    BY <2>2 DEF IsFill, Pos
  <2> QED BY <1>1, <1>2, <2>3 DEF Occupied, Array
<1>4. <<<<"arg">>, arg>> \in Held
  BY <1>1 DEF Held, ArgHeld, Pending
<1>5. ASSUME NEW ip \in places
      PROVE  /\ <<<<"data", ip>>, EntryAt(A, ip)>> \in Held
             /\ EntryAt(A, ip)[1] = key[ip]
             /\ key[ip] \in rivals \ {k}
  <2>1. ip[1] \in mine /\ ip[2] \in Pos /\ ip = <<ip[1], ip[2]>>
    OBVIOUS
  <2>2. ip \in Occupied(A)
    BY <2>1, <1>3
  <2>3. <<<<"data", ip>>, EntryAt(A, ip)>> \in Held /\ EntryAt(A, ip)[1] = key[ip]
    BY <2>2 DEF Held, DataHeld, EntryAt
  <2>4. key[ip] \in KeysOf(Content)
    <3>1. EntryAt(A, ip) \in Content
      <4>1. <<<<"data", ip>>, EntryAt(A, ip)>>[2] = EntryAt(A, ip)
        OBVIOUS
      <4> QED BY <1>1, <2>3, <4>1
    <3>2. EntryAt(A, ip)[1] \in KeysOf(Content)
      BY <3>1 DEF KeysOf
    <3> QED BY <2>3, <3>2
  <2>5. ip[1] \in {Index1(key[ip]), Index2(key[ip])}
    BY <1>1, <2>2 DEF Placed, Index1, Index2
  <2>6. key[ip] # k
    BY <1>1, <1>4, <2>3 DEF HeldOnce
  <2> QED BY <2>1, <2>3, <2>4, <2>5, <2>6
<1>6. key \in Injection(places, rivals \ {k})
  <2>1. \A x, y \in places : key[x] = key[y] => x = y
    BY <1>1, <1>5 DEF HeldOnce
  <2>2. key \in [places -> rivals \ {k}]
    BY <1>5
  <2> HIDE DEF key
  <2> QED BY <2>1, <2>2 DEF Injection, IsInjective
<1>7. k \in rivals
  <2>1. arg \in Content
    BY <1>1, <1>4
  <2>2. k \in KeysOf(Content)
    BY <2>1 DEF KeysOf
  <2>3. Index1(k) \in {Index1(k), Index2(k)} \cap mine
    OBVIOUS
  <2> QED BY <2>2, <2>3
<1>8. IsFiniteSet(rivals)
  <2> DEFINE first == [e \in Content |-> e[1]]
  <2>1. first \in Surjection(Content, KeysOf(Content))
    BY DEF Surjection, KeysOf
  <2>2. IsFiniteSet(KeysOf(Content))
    BY <2>1, FS_Surjection DEF Countable
  <2> QED BY <2>2, FS_Subset
<1>9. IsFiniteSet(mine) /\ IsFiniteSet(Pos) /\ Cardinality(Pos) = BUCKET
        /\ Cardinality(mine) \in Nat
  <2>1. IsFiniteSet(mine)
    <3>1. IsFiniteSet(0 .. capacity - 1)
      BY <1>1, FS_Interval
    <3>2. mine \subseteq 0 .. capacity - 1
      BY <1>2
    <3> HIDE DEF mine
    <3> QED BY <3>1, <3>2, FS_Subset
  <2>2. IsFiniteSet(Pos) /\ Cardinality(Pos) = BUCKET
    BY FS_Interval DEF Pos
  <2> HIDE DEF mine
  <2> QED BY <2>1, <2>2, FS_CardinalityType
<1> HIDE DEF mine, rivals, key
<1>10. Cardinality(places) = Cardinality(mine) * BUCKET
  BY <1>9, FS_Product
<1> HIDE DEF places
<1>11. Cardinality(places) <= Cardinality(rivals \ {k})
  BY <1>6, <1>8, FS_RemoveElement, FS_Injection
<1>12. Cardinality(rivals \ {k}) = Cardinality(rivals) - 1 /\ Cardinality(rivals) \in Nat
  BY <1>7, <1>8, FS_RemoveElement, FS_CardinalityType
<1>13. Cardinality(rivals) > BUCKET * Cardinality(mine)
  BY <1>9, <1>10, <1>11, <1>12
<1> QED BY <1>13 DEF CrashNeedsCrowding, mine, rivals

\* A grow recurses no deeper than capacity has doublings, and an insert that memory
\* stops dies of more keys in its slots than they have places.
THEOREM GrowthIsBounded == Spec => []GrowthBounded
<1>1. Init => CrashedFull
  BY DEF Init, CrashedFull
<1>2. Spec => []CrashedFull
  BY <1>1, CrashedFullStep, PTL DEF Spec
<1> QED BY <1>2, FullIsCrowded, AlwaysCountable, EachEntryOnce, GrowNestsByDoubling, Safety, PTL
        DEF GrowthBounded

-----------------------------------------------------------------------------
(* The checksum.                                                             *)

PlaceSum(A, S) == MapThenSumSet(LAMBDA ip : A[ip[1]].values[ip[2]], S)

\* The two folds of SumIsExact are sums in the sense of NumberLemmas: the sum over
\* the places of an array,
LEMMA PlacesSum ==
    ASSUME NEW S, IsFiniteSet(S), NEW A, NEW V \in [S -> Int],
           \A ip \in S : V[ip] = A[ip[1]].values[ip[2]]
    PROVE  \E it : /\ IsSum(it, S, V, AnyOf(S))
                   /\ it[S] = PlaceSum(A, S)
<1> DEFINE Unfolded(f) == [s \in SUBSET S |->
              IF s = {} THEN 0
              ELSE LET x == CHOOSE x \in s : TRUE
                   IN  A[x[1]].values[x[2]] + f[s \ {x}]]
           Fold(f) == f = Unfolded(f)
           g == CHOOSE f : Fold(f)
<1>1. PICK it : IsSum(it, S, V, AnyOf(S))
  BY AnyChooses, SumExists
<1>2. Fold(it)
  BY <1>1 DEF IsSum, AnyOf
<1>3. Fold(g)
  <2> HIDE DEF Fold
  <2> QED BY <1>2, Zenon
<1>4. g[S] = PlaceSum(A, S)
  BY DEF PlaceSum, MapThenSumSet, MapThenFoldSet
<1> HIDE DEF g
<1>5. DOMAIN g = SUBSET S /\ g = [s \in SUBSET S |-> g[s]]
  BY <1>3
<1>6. \A s \in SUBSET S : g[s] = IF s = {} THEN 0 ELSE V[AnyOf(S)[s]] + g[s \ {AnyOf(S)[s]}]
  <2> SUFFICES ASSUME NEW s \in SUBSET S
               PROVE  g[s] = IF s = {} THEN 0 ELSE V[AnyOf(S)[s]] + g[s \ {AnyOf(S)[s]}]
    OBVIOUS
  <2> DEFINE x == CHOOSE x \in s : TRUE
  <2>1. AnyOf(S)[s] = x /\ (s # {} => x \in s)
    BY DEF AnyOf
  <2>2. g[s] = IF s = {} THEN 0 ELSE A[x[1]].values[x[2]] + g[s \ {x}]
    BY <1>3, Zenon
  <2> HIDE DEF x
  <2> QED BY <2>1, <2>2
<1>7. IsSum(g, S, V, AnyOf(S))
  BY <1>5, <1>6, AnyChooses, SumIsOnly
<1> QED BY <1>4, <1>7

\* and the sum over a set of entries.
LEMMA EntriesSum ==
    ASSUME NEW S, IsFiniteSet(S), NEW V \in [S -> Int],
           \A e \in S : V[e] = e[2]
    PROVE  \E it : /\ IsSum(it, S, V, AnyOf(S))
                   /\ it[S] = MapThenSumSet(LAMBDA e : e[2], S)
<1> DEFINE Unfolded(f) == [s \in SUBSET S |->
              IF s = {} THEN 0
              ELSE LET x == CHOOSE x \in s : TRUE
                   IN  x[2] + f[s \ {x}]]
           Fold(f) == f = Unfolded(f)
           g == CHOOSE f : Fold(f)
<1>1. PICK it : IsSum(it, S, V, AnyOf(S))
  BY AnyChooses, SumExists
<1>2. Fold(it)
  BY <1>1 DEF IsSum, AnyOf
<1>3. Fold(g)
  <2> HIDE DEF Fold
  <2> QED BY <1>2, Zenon
<1>4. g[S] = MapThenSumSet(LAMBDA e : e[2], S)
  BY DEF MapThenSumSet, MapThenFoldSet
<1> HIDE DEF g
<1>5. DOMAIN g = SUBSET S /\ g = [s \in SUBSET S |-> g[s]]
  BY <1>3
<1>6. \A s \in SUBSET S : g[s] = IF s = {} THEN 0 ELSE V[AnyOf(S)[s]] + g[s \ {AnyOf(S)[s]}]
  <2> SUFFICES ASSUME NEW s \in SUBSET S
               PROVE  g[s] = IF s = {} THEN 0 ELSE V[AnyOf(S)[s]] + g[s \ {AnyOf(S)[s]}]
    OBVIOUS
  <2> DEFINE x == CHOOSE x \in s : TRUE
  <2>1. AnyOf(S)[s] = x /\ (s # {} => x \in s)
    BY DEF AnyOf
  <2>2. g[s] = IF s = {} THEN 0 ELSE x[2] + g[s \ {x}]
    BY <1>3, Zenon
  <2> HIDE DEF x
  <2> QED BY <2>1, <2>2
<1>7. IsSum(g, S, V, AnyOf(S))
  BY <1>5, <1>6, AnyChooses, SumIsOnly
<1> QED BY <1>4, <1>7

\* Between calls the places the walk visits hold the caller's entries, one each.
LEMMA SumFollows == ASSUME IInv, Once, Countable PROVE SumIsExact
<1> SUFFICES ASSUME Idle PROVE sum_all_values = MapThenSumSet(LAMBDA e : e[2], Content)
  BY DEF SumIsExact
<1> DEFINE A == heap[data]
           S == Walked(A)
<1>1. A \in Array(capacity) /\ capacity \in Nat \ {0} /\ Compact(A) /\ HeldOnce
  BY DEF IInv, TypeOK, SlotsCompact, Ownership, Once, Idle
<1>2. S = Occupied(A)
  BY <1>1, SizeAssumption DEF Walked, Occupied, Prefix, Pos, Compact
<1>3. Content = Entries(A) /\ IsFiniteSet(Content)
  BY IdleContent DEF Countable
<1>4. IsFiniteSet(S)
  BY <1>1, <1>2, OccupiedFinite
<1> HIDE DEF S
<1> DEFINE V == [ip \in S |-> A[ip[1]].values[ip[2]]]
           W == [e \in Content |-> e[2]]
           b == [ip \in S |-> EntryAt(A, ip)]
<1>5. V \in [S -> Int]
  BY <1>1, <1>2, ValueAssumption DEF Compact
<1>6. StandsFor(b, S, Content)
  <2>1. \A ip \in S : <<<<"data", ip>>, EntryAt(A, ip)>> \in Held
    BY <1>2 DEF Held, DataHeld
  <2>2. \A x, y \in S : EntryAt(A, x) = EntryAt(A, y) => x = y
    <3> SUFFICES ASSUME NEW x \in S, NEW y \in S, EntryAt(A, x) = EntryAt(A, y) PROVE x = y
      OBVIOUS
    <3>1. <<<<"data", x>>, EntryAt(A, x)>> = <<<<"data", y>>, EntryAt(A, y)>>
      BY <1>1, <2>1 DEF HeldOnce
    <3> QED BY <3>1
  <2>3. \A z \in Content : \E x \in S : z = EntryAt(A, x)
    BY <1>2, <1>3 DEF Entries
  <2>4. \A x \in S : EntryAt(A, x) \in Content
    BY <1>2, <1>3 DEF Entries
  <2> QED BY <2>2, <2>3, <2>4 DEF StandsFor
<1>7. \A x \in S : W[b[x]] = V[x]
  <2>1. \A x \in S : b[x] \in Content
    BY <1>6 DEF StandsFor
  <2> QED BY <2>1 DEF EntryAt
<1>8. W \in [Content -> Int]
  <2> SUFFICES ASSUME NEW e \in Content PROVE e[2] \in Int
    OBVIOUS
  <2>1. PICK x \in S : e = b[x]
    BY <1>6 DEF StandsFor
  <2> QED BY <1>5, <1>7, <2>1
<1>9. PICK it : /\ IsSum(it, S, V, AnyOf(S))
                /\ it[S] = PlaceSum(A, S)
  <2>1. \A ip \in S : V[ip] = A[ip[1]].values[ip[2]]
    OBVIOUS
  <2> HIDE DEF V, A
  <2> QED BY <1>4, <1>5, <2>1, PlacesSum
<1>10. PICK jt : /\ IsSum(jt, Content, W, AnyOf(Content))
                 /\ jt[Content] = MapThenSumSet(LAMBDA e : e[2], Content)
  BY <1>3, <1>8, EntriesSum
<1> HIDE DEF V, W, b
<1>11. it[S] = jt[Content]
  BY <1>3, <1>4, <1>5, <1>6, <1>7, <1>8, <1>9, <1>10, AnyChooses, SumMoved
<1>12. sum_all_values = PlaceSum(A, S)
  BY DEF sum_all_values, PlaceSum, S
<1> QED BY <1>9, <1>10, <1>11, <1>12

\* Between calls every look at the table shows the caller's entries and no other:
\* no key is there twice, find and contains answer right, the checksum is theirs.
THEOREM LookUpsAreExact == Spec => []LookUpsExact
<1>1. IInv /\ Once /\ Countable => SumIsExact
  BY SumFollows
<1> QED BY <1>1, KeysAreUnique, FindIsExact, ContainsIsExact, EachEntryOnce, AlwaysCountable,
           Safety, PTL DEF LookUpsExact
=============================================================================
