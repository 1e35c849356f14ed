------------------------------- MODULE TwoWay -------------------------------
(* The two-choice hash table of src/TwoWay.hpp.  A table is an array of      *)
(* slots, a slot is BUCKET keys and BUCKET values, and a key lives in one of *)
(* the two slots its hash names.  When both are full insert calls grow and   *)
(* then calls itself; grow re-inserts every old entry through insert, which  *)
(* may call grow again, and so on.  The call stack is explicit here: `arg`   *)
(* is the entry of the running insert, `frames` the activations of grow that *)
(* have not returned, each with the entry its calling insert will retry.     *)
EXTENDS Integers, Sequences, FiniteSets

CONSTANTS
    Key,              \* the keys callers use
    EMPTY,            \* numeric_limits<Key>::max(), the mark of a free place
    Value,
    BUCKET,           \* places per slot (a template parameter)
    H1, H2,           \* hash & 0xffffffff and hash >> 32, per key
    InitialCapacity,  \* 8 in the constructor
    MaxCapacity,      \* bound: an allocation of more slots returns nullptr
    Addr,             \* bound: the addresses the allocator hands out
    NULL,             \* no entry
    Indeterminate     \* the content of memory nobody wrote

\* The trait's contract: an integral key type whose maximum is not used as a
\* key, a pure hash, and at least one place per slot.
ASSUME KeyAssumption ==
    /\ Key \subseteq Int
    /\ EMPTY \in Int
    /\ \A k \in Key : k < EMPTY

ASSUME HashAssumption == H1 \in [Key -> Nat] /\ H2 \in [Key -> Nat]

ASSUME SizeAssumption ==
    /\ BUCKET \in Nat \ {0}
    /\ InitialCapacity \in Nat \ {0}
    /\ MaxCapacity \in Nat
    /\ InitialCapacity <= MaxCapacity

ASSUME HeapAssumption ==
    /\ NULL \notin Key \X Value
    /\ Indeterminate \notin Value

VARIABLES
    heap,       \* allocated address -> array of slots
    data,       \* address of the table's array
    capacity,   \* its number of slots
    size_,
    frames,     \* the activations of grow, innermost last
    arg,        \* the entry the innermost insert is to place, or NULL
    status      \* "live", "crashed" (null array) or "destroyed"

vars == <<heap, data, capacity, size_, frames, arg, status>>

-----------------------------------------------------------------------------
(* Slots and arrays.                                                         *)

Pos  == 0 .. BUCKET - 1
Slot == [keys : [Pos -> Key \cup {EMPTY}],
         values : [Pos -> Value \cup {Indeterminate}]]

\* A block fresh from the allocator, after fill_empty.
EmptySlot == [keys   |-> [p \in Pos |-> EMPTY],
              values |-> [p \in Pos |-> Indeterminate]]
NewArray(c) == [i \in 0 .. c - 1 |-> EmptySlot]

\* fill_empty on a block in use: the values stay behind.
FillEmpty(array) ==
    [i \in DOMAIN array |-> [array[i] EXCEPT !.keys = [p \in Pos |-> EMPTY]]]

\* The first place of a slot that is not below EMPTY: n_1 and n_2 of insert.
IsFill(slot, n) == /\ \A p \in 0 .. n - 1 : slot.keys[p] < EMPTY
                   /\ n < BUCKET => ~ (slot.keys[n] < EMPTY)
Fill(slot) == CHOOSE n \in 0 .. BUCKET : IsFill(slot, n)

\* The prefix of a slot that grow and sum_all_values walk.
Prefix(slot) == {p \in Pos : \A q \in 0 .. p : slot.keys[q] # EMPTY}

Index1(k) == H1[k] % capacity
\* Mutant: the mask of the capacity before the last grow.
Index2Stale(k) == H2[k] % (IF capacity = 1 THEN 1 ELSE capacity \div 2)
Index2(k) == H2[k] % capacity
Slot1(k)  == heap[data][Index1(k)]
Slot2(k)  == heap[data][Index2(k)]

-----------------------------------------------------------------------------
(* Look-ups.  The loops read keys[0] of slot 1, keys[0] of slot 2, keys[1]   *)
(* of slot 1, ...: probe n.                                                  *)

ProbeSlot(k, n) == IF n % 2 = 0 THEN Index1(k) ELSE Index2(k)
ProbeKey(k, n)  == heap[data][ProbeSlot(k, n)].keys[n \div 2]
\* Mutant: the loop ends one place early.
HitsShort(k) == {n \in 0 .. 2 * BUCKET - 3 : ProbeKey(k, n) = k}
Hits(k)         == {n \in 0 .. 2 * BUCKET - 1 : ProbeKey(k, n) = k}
FirstHit(k)     == CHOOSE n \in Hits(k) : \A m \in Hits(k) : n <= m

\* find (and find_indexed, given the hash) has no bound on its loop: it needs
\* a hit.  It adds FirstHit(k) to *steps.
FindValue(k) == heap[data][ProbeSlot(k, FirstHit(k))].values[FirstHit(k) \div 2]

\* contains stops at the first depth where both slots are EMPTY.
Contains(k) ==
    \E n \in Hits(k) : \A i \in 0 .. n \div 2 :
        Slot1(k).keys[i] # EMPTY \/ Slot2(k).keys[i] # EMPTY

-----------------------------------------------------------------------------
(* Where the entries are, in the middle of an insert too.                    *)

Occupied(array) == {ip \in (DOMAIN array) \X Pos :
                      array[ip[1]].keys[ip[2]] # EMPTY}
EntryAt(array, ip) == <<array[ip[1]].keys[ip[2]], array[ip[1]].values[ip[2]]>>
Entries(array) == {EntryAt(array, ip) : ip \in Occupied(array)}

\* What a grow has still to copy from its old array.
Unread(f) == {ip \in Occupied(heap[f.old]) :
                \/ ip[1] > f.i
                \/ ip[1] = f.i /\ ip[2] >= f.j}
Remaining(f) == {EntryAt(heap[f.old], ip) : ip \in Unread(f)}

Pending == IF arg = NULL THEN {} ELSE {arg}

\* The table as its caller sees it.
Content ==
    IF status = "destroyed" THEN {}
    ELSE Entries(heap[data]) \cup Pending
           \cup UNION {Remaining(frames[n]) \cup {frames[n].retry} :
                       n \in 1 .. Len(frames)}

KeysOf(E) == {e[1] : e \in E}

-----------------------------------------------------------------------------
Init == /\ \E a \in Addr :
             /\ data = a
             /\ heap = [b \in {a} |-> NewArray(InitialCapacity)]
        /\ capacity = InitialCapacity
        /\ size_ = 0
        /\ frames = <<>>
        /\ arg = NULL
        /\ status = "live"

\* No call is running: the caller may make the next one.
Idle == status = "live" /\ arg = NULL /\ frames = <<>>

(* insert *)

\* The caller inserts a new key; the comment on insert makes that its duty.
Insert(k, v) ==
    /\ Idle
    /\ k \notin KeysOf(Content)
    /\ arg' = <<k, v>>
    /\ UNCHANGED <<heap, data, capacity, size_, frames, status>>

Running == status = "live" /\ arg # NULL
HasRoom(k) == Fill(Slot1(k)) < BUCKET \/ Fill(Slot2(k)) < BUCKET

Put(array, i, n, e) ==
    [array EXCEPT ![i] = [keys   |-> [@.keys EXCEPT ![n] = e[1]],
                          values |-> [@.values EXCEPT ![n] = e[2]]]]
Store(i, n, e) == heap' = [heap EXCEPT ![data] = Put(@, i, n, e)]

\* The less loaded slot takes the entry, slot 1 on a tie, and insert returns.
Place ==
    /\ Running
    /\ HasRoom(arg[1])
    /\ LET n_1 == Fill(Slot1(arg[1]))
           n_2 == Fill(Slot2(arg[1]))
       IN  \/ n_1 <= n_2 /\ Store(Index1(arg[1]), n_1, arg)
           \/ n_1 > n_2 /\ Store(Index2(arg[1]), n_2, arg)
    /\ size_' = size_ + 1
    /\ arg' = NULL
    /\ UNCHANGED <<data, capacity, frames, status>>

(* grow *)

CanAllocate(c) == c <= MaxCapacity /\ Addr \ DOMAIN heap # {}

Allocate(a, array) ==
    heap' = [b \in DOMAIN heap \cup {a} |-> IF b = a THEN array ELSE heap[b]]
Free(a) == heap' = [b \in DOMAIN heap \ {a} |-> heap[b]]

\* Mutants of Grow, below: a block of the old size, a capacity that does not
\* double.
GrowWith(block, c, size) ==
    /\ Running
    /\ ~ HasRoom(arg[1])
    /\ CanAllocate(block)
    /\ \E a \in Addr \ DOMAIN heap : data' = a /\ Allocate(a, NewArray(block))
    /\ frames' = Append(frames, [old |-> data, old_capacity |-> capacity,
                                 i |-> 0, j |-> 0, retry |-> arg])
    /\ capacity' = c
    /\ size_' = size
    /\ arg' = NULL
    /\ UNCHANGED status
GrowSmallBlock   == GrowWith(capacity, 2 * capacity, 0)
GrowSameCapacity == GrowWith(capacity, capacity, 0)

\* Both slots are full: insert calls grow, which swaps in an empty array of
\* twice the capacity and starts to walk the old one.
Grow ==
    /\ Running
    /\ ~ HasRoom(arg[1])
    /\ CanAllocate(2 * capacity)
    /\ \E a \in Addr \ DOMAIN heap :
         /\ data' = a
         /\ Allocate(a, NewArray(2 * capacity))
    /\ frames' = Append(frames, [old |-> data, old_capacity |-> capacity,
                                 i |-> 0, j |-> 0, retry |-> arg])
    /\ capacity' = 2 * capacity
    /\ size_' = 0
    /\ arg' = NULL
    /\ UNCHANGED status

\* The allocation fails and nobody looks: fill_empty writes through nullptr.
GrowFails ==
    /\ Running
    /\ ~ HasRoom(arg[1])
    /\ ~ CanAllocate(2 * capacity)
    /\ status' = "crashed"
    /\ UNCHANGED <<heap, data, capacity, size_, frames, arg>>

Top       == frames[Len(frames)]
InGrow    == status = "live" /\ arg = NULL /\ frames # <<>>
AtEntry   == Top.j < BUCKET /\ heap[Top.old][Top.i].keys[Top.j] # EMPTY
SetTop(f) == frames' = [frames EXCEPT ![Len(frames)] = f]

\* Mutant: the inner loop does not advance.
MigrateTwice ==
    /\ InGrow
    /\ Top.i < Top.old_capacity
    /\ AtEntry
    /\ arg' = <<heap[Top.old][Top.i].keys[Top.j],
                heap[Top.old][Top.i].values[Top.j]>>
    /\ UNCHANGED <<heap, data, capacity, size_, frames, status>>

\* The inner loop calls insert with the next old entry.
Migrate ==
    /\ InGrow
    /\ Top.i < Top.old_capacity
    /\ AtEntry
    /\ arg' = <<heap[Top.old][Top.i].keys[Top.j],
                heap[Top.old][Top.i].values[Top.j]>>
    /\ SetTop([Top EXCEPT !.j = @ + 1])
    /\ UNCHANGED <<heap, data, capacity, size_, status>>

\* Mutant: the outer loop does not advance.
NextSlotStuck ==
    /\ InGrow
    /\ Top.i < Top.old_capacity
    /\ ~ AtEntry
    /\ SetTop([Top EXCEPT !.j = 0])
    /\ UNCHANGED <<heap, data, capacity, size_, arg, status>>

\* The inner loop ends at the first EMPTY key or at the end of the slot.
NextSlot ==
    /\ InGrow
    /\ Top.i < Top.old_capacity
    /\ ~ AtEntry
    /\ SetTop([Top EXCEPT !.i = @ + 1, !.j = 0])
    /\ UNCHANGED <<heap, data, capacity, size_, arg, status>>

\* Mutants: the old array is not freed; the entry that made the table grow is not
\* inserted after all.
GrowReturnLeaks ==
    /\ InGrow
    /\ Top.i = Top.old_capacity
    /\ arg' = Top.retry
    /\ frames' = SubSeq(frames, 1, Len(frames) - 1)
    /\ UNCHANGED <<heap, data, capacity, size_, status>>
GrowReturnForgets ==
    /\ InGrow
    /\ Top.i = Top.old_capacity
    /\ Free(Top.old)
    /\ arg' = NULL
    /\ frames' = SubSeq(frames, 1, Len(frames) - 1)
    /\ UNCHANGED <<data, capacity, size_, status>>

\* The walk is over: free the old array, return, and insert retries its entry.
GrowReturn ==
    /\ InGrow
    /\ Top.i = Top.old_capacity
    /\ Free(Top.old)
    /\ arg' = Top.retry
    /\ frames' = SubSeq(frames, 1, Len(frames) - 1)
    /\ UNCHANGED <<data, capacity, size_, status>>

(* erase, clear and the destructor *)

\* The rest of the slot moves down one place; the last value stays behind.
Without(slot, p) ==
    [keys   |-> [q \in Pos |-> IF q = BUCKET - 1 THEN EMPTY
                               ELSE slot.keys[IF q < p THEN q ELSE q + 1]],
     values |-> [q \in Pos |-> IF q < p \/ q = BUCKET - 1 THEN slot.values[q]
                               ELSE slot.values[q + 1]]]

\* erase, like find, has no bound on its loop: it is only called on a hit.
Remove(array, i, p) == [array EXCEPT ![i] = Without(@, p)]
Erase(k) ==
    /\ Idle
    /\ k \in KeysOf(Content)
    /\ Hits(k) # {}
    /\ heap' = [heap EXCEPT ![data] =
                  Remove(@, ProbeSlot(k, FirstHit(k)), FirstHit(k) \div 2)]
    /\ size_' = size_ - 1
    /\ UNCHANGED <<data, capacity, frames, arg, status>>

Clear ==
    /\ Idle
    /\ size_' = 0
    /\ heap' = [heap EXCEPT ![data] = FillEmpty(@)]
    /\ UNCHANGED <<data, capacity, frames, arg, status>>

Destroy ==
    /\ Idle
    /\ Free(data)
    /\ status' = "destroyed"
    /\ UNCHANGED <<data, capacity, size_, frames, arg>>

-----------------------------------------------------------------------------
\* The steps of a running insert: one thread, which nothing makes wait.
Internal == Place \/ Grow \/ GrowFails \/ Migrate \/ NextSlot \/ GrowReturn

Next == \/ \E k \in Key, v \in Value : Insert(k, v)
        \/ \E k \in Key : Erase(k)
        \/ Clear
        \/ Destroy
        \/ Internal

Spec     == Init /\ [][Next]_vars
FairSpec == Spec /\ WF_vars(Internal)

-----------------------------------------------------------------------------
(* Properties.                                                               *)

Array(c) == [0 .. c - 1 -> Slot]
Frame    == [old : Addr, old_capacity : Nat \ {0}, i : Nat, j : 0 .. BUCKET,
             retry : Key \X Value]

\* Every variable has its C++ type, and every array the table or an unfinished
\* grow still reads is allocated with the capacity its reader believes in.
TypeOK ==
    /\ DOMAIN heap \subseteq Addr
    /\ data \in Addr
    /\ capacity \in Nat \ {0}
    /\ size_ \in Int
    /\ arg \in (Key \X Value) \cup {NULL}
    /\ status \in {"live", "crashed", "destroyed"}
    /\ frames \in Seq(Frame)
    /\ status # "destroyed" => heap[data] \in Array(capacity)
    /\ \A n \in 1 .. Len(frames) :
         /\ heap[frames[n].old] \in Array(frames[n].old_capacity)
         /\ frames[n].i <= frames[n].old_capacity

\* The allocated blocks are exactly the table's array and the old array of each
\* unfinished grow, and no two of these are the same block: nested grows free
\* every old array once, after its last read, and the destructor frees the last.
Ownership ==
    LET olds == {frames[n].old : n \in 1 .. Len(frames)}
    IN  /\ \A m, n \in 1 .. Len(frames) :
             m # n => frames[m].old # frames[n].old
        /\ data \notin olds
        /\ DOMAIN heap =
             olds \cup (IF status = "destroyed" THEN {} ELSE {data})

\* In every array the keys of a slot are a prefix of its places, because the loops
\* of insert, contains and grow stop at the first EMPTY, and each key has a value
\* that was written.
Compact(array) ==
    \A ip \in Occupied(array) :
        /\ array[ip[1]].values[ip[2]] \in Value
        /\ \A q \in 0 .. ip[2] : array[ip[1]].keys[q] # EMPTY
SlotsCompact == \A a \in DOMAIN heap : Compact(heap[a])

\* A key is stored only in a slot that find will look at.
Placed(array, c) ==
    \A ip \in Occupied(array) :
        LET k == array[ip[1]].keys[ip[2]]
        IN  ip[1] \in {H1[k] % c, H2[k] % c}
KeysPlaced == status # "destroyed" => Placed(heap[data], capacity)

\* Where a key is: in the table, in what a grow has to copy, waiting for a
\* retry, or in the hands of insert.
KeyIs(array, P, k) == {ip \in P : array[ip[1]].keys[ip[2]] = k}
Places(k) ==
    LET grows == 1 .. Len(frames)
    IN  {<<"data", ip>> : ip \in KeyIs(heap[data], Occupied(heap[data]), k)}
          \cup {<<"arg">> : e \in {d \in Pending : d[1] = k}}
          \cup {<<"retry", n>> : n \in {m \in grows : frames[m].retry[1] = k}}
          \cup UNION {{<<"old", n, ip>> :
                        ip \in KeyIs(heap[frames[n].old], Unread(frames[n]), k)} :
                      n \in grows}

\* However grows nest, an entry is never in two places, so it cannot be inserted
\* twice.
KeysUnique ==
    status # "destroyed" => \A k \in Key : Cardinality(Places(k)) <= 1

\* size_ counts the keys of the array, at every step of nested grows too: grow
\* resets it and its re-insertions count again.
SizeIsCount == status = "live" => size_ = Cardinality(Occupied(heap[data]))

\* The table as its own loops rely on it, in the middle of nested grows too: keys
\* where find and contains look before they stop, and counted by size().
TableSound == SlotsCompact /\ KeysPlaced /\ SizeIsCount

\* Between calls find hits every key that was inserted, before its loop leaves
\* the slot, and returns the value it was inserted with.
FindHits ==
    Idle => \A e \in Content : Hits(e[1]) # {} /\ FindValue(e[1]) = e[2]

\* Between calls contains is true of exactly the keys in the table.
ContainsExact ==
    Idle => \A k \in Key : Contains(k) <=> k \in KeysOf(Content)

\* A grow's old array is at most half of what came after it (less than half when
\* a nested grow has already returned), so all the arrays alive at once never add
\* up to twice the newest, and grow recurses no deeper than capacity has doublings.
NestedGrow ==
    \A n \in 1 .. Len(frames) :
        2 * frames[n].old_capacity <=
            (IF n = Len(frames) THEN capacity ELSE frames[n + 1].old_capacity)

\* insert dies only of crowding: when the memory limit stops grow, the slots of
\* the entry it was to place are full of keys whose hash names those very slots.
CrashNeedsCrowding ==
    status = "crashed" =>
        LET mine     == {Index1(arg[1]), Index2(arg[1])}
            rivals == {k \in KeysOf(Content) : {Index1(k), Index2(k)} \cap mine # {}}
        IN  Cardinality(rivals) > BUCKET * Cardinality(mine)

\* Growth is as deep and ends as it must.
GrowthBounded == NestedGrow /\ CrashNeedsCrowding

\* Every insert returns, or dies for want of memory: the recursion of insert and
\* grow, each of which calls the other, ends.
InsertReturns == (status = "live" /\ arg # NULL) ~> (Idle \/ status = "crashed")

\* A table is a map: insert, erase, clear and the destructor change the entries
\* as KeyValueMap says, and no step of a grow changes them.
Map == INSTANCE KeyValueMap WITH
         entries <- Content, busy <- (arg # NULL \/ frames # <<>>)
MapSpec == Map!Spec
=============================================================================
