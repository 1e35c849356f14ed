----------------------------- MODULE MapObjects -----------------------------
(***************************************************************************)
(* What map objects promise each other: a map has unique keys; copying,    *)
(* moving, swapping and merging carry whole contents; and an operation     *)
(* that throws leaves what its guarantee says.  Where moving an element    *)
(* may throw, moving contents may lose some (Fragile); if elements cannot  *)
(* be copied either, so may a failed growth (Lossy).  Which of these holds *)
(* and the ranges of entries that calls are given (Ranges, each without a  *)
(* key twice) are settled before the program runs.                         *)
(***************************************************************************)
CONSTANTS Object, Key, Value, Dead

VARIABLES map, Lossy, Fragile, Ranges

Entry == Key \X Value
KeysOf(E) == {e[1] : e \in E}
Live(i) == map[i] # Dead

(* E, or what a failed growth left of it.                                  *)
Left(E) == IF Lossy THEN SUBSET E ELSE {E}

Becomes(i, E) == map' = [map EXCEPT ![i] = E]

Init ==
  /\ map = [i \in Object |-> Dead]
  /\ Lossy \in BOOLEAN /\ Fragile \in BOOLEAN /\ Ranges \subseteq SUBSET Entry

Create(i) == ~Live(i) /\ \E E \in Ranges \cup {{}} : Becomes(i, E)
Destroy(i) == Live(i) /\ Becomes(i, Dead)
Clear(i) == Live(i) /\ Becomes(i, {})

Emplace(i, k, v) ==
  /\ Live(i) /\ k \notin KeysOf(map[i])
  /\ \/ Becomes(i, map[i] \cup {<<k, v>>})
     \/ \E E \in Left(map[i]) : Becomes(i, E)

Assign(i, k, v) ==
  /\ Live(i) /\ k \in KeysOf(map[i])
  /\ Becomes(i, {e \in map[i] : e[1] # k} \cup {<<k, v>>})

(* insert(first, last), and = {..}, which clears the map and inserts.  When *)
(* an insertion throws, those before it were made.                         *)
With(M, E) == M \cup {e \in E : e[1] \notin KeysOf(M)}
Parts(M, E) == UNION {Left(With(M, F)) : F \in SUBSET E \ {E}}
Extend(i, M, E) == Live(i) /\ \E L \in {With(M, E)} \cup Parts(M, E) : Becomes(i, L)
InsertRange(i, E) == Extend(i, map[i], E)
AssignRange(i, E) == Extend(i, {}, E)

Erase(i, K) == Live(i) /\ Becomes(i, {e \in map[i] : e[1] \notin K})

Rehash(i) == Live(i) /\ \E E \in Left(map[i]) : Becomes(i, E)

CopyConstruct(i, x) == ~Live(i) /\ Live(x) /\ Becomes(i, map[x])

Moved(i, x) == [map EXCEPT ![i] = map[x], ![x] = {}]

(* A constructor that throws leaves no object; the elements it had begun   *)
(* to move out of x are gone.                                              *)
NotConstructed(x) == IF Fragile THEN {map, [map EXCEPT ![x] = {}]} ELSE {map}
MoveConstruct(i, x) ==
  ~Live(i) /\ Live(x) /\ map' \in {Moved(i, x)} \cup NotConstructed(x)

(* An assignment that throws leaves part of the new contents.              *)
CopyAssign(i, x) ==
  Live(i) /\ Live(x) /\ i # x /\ \E E \in SUBSET map[x] : Becomes(i, E)

NotMoved(i, x) ==
  {[map EXCEPT ![i] = {}]}
  \cup {[map EXCEPT ![i] = E, ![x] = {}] : E \in IF Fragile THEN SUBSET map[x] ELSE {}}
MoveAssign(i, x) ==
  Live(i) /\ Live(x) /\ i # x /\ map' \in {Moved(i, x)} \cup NotMoved(i, x)

Swap(i, x) ==
  Live(i) /\ Live(x) /\ map' = [map EXCEPT ![i] = map[x], ![x] = map[i]]

(* Entries of x whose keys i has not go over.  When that throws, some have *)
(* gone over, and the one in hand is lost.                                 *)
New(i, x) == {e \in map[x] : e[1] \notin KeysOf(map[i])}
Merged(i, x) == [map EXCEPT ![i] = @ \cup New(i, x), ![x] = @ \ New(i, x)]
NotMerged(i, x) ==
  UNION {{[map EXCEPT ![i] = E, ![x] = @ \ (M \cup {e})] :
            e \in New(i, x) \ M, E \in Left(map[i] \cup M)} : M \in SUBSET New(i, x)}
Merge(i, x) ==
  Live(i) /\ Live(x) /\ i # x /\ map' \in {Merged(i, x)} \cup NotMerged(i, x)

Next ==
  \E i \in Object :
    \/ Create(i) \/ Destroy(i) \/ Clear(i) \/ Rehash(i)
    \/ \E k \in Key, v \in Value : Emplace(i, k, v) \/ Assign(i, k, v)
    \/ \E E \in Ranges : InsertRange(i, E) \/ AssignRange(i, E)
    \/ \E K \in SUBSET Key : Erase(i, K)
    \/ \E x \in Object : \/ CopyConstruct(i, x) \/ MoveConstruct(i, x)
                         \/ CopyAssign(i, x) \/ MoveAssign(i, x)
                         \/ Swap(i, x) \/ Merge(i, x)

Spec == Init /\ [][Next /\ UNCHANGED <<Lossy, Fragile, Ranges>>]_<<map, Lossy, Fragile, Ranges>>
=============================================================================
