----------------------------- MODULE DynamicFph -----------------------------
(* DynamicFphMap objects and what a program may do with them: several maps    *)
(* that are built, filled, copied, moved and swapped, and a loop over one of  *)
(* them that erases as it goes.                                               *)
EXTENDS FphTables

CONSTANTS
    Object,     \* where maps may live
    Dead,       \* no object there
    MovedFrom   \* an object without FphTableParam: its contents were moved out

\* The tables of so many slots and buckets and room for so many parameters.
FphTable(slots, buckets, params) ==
    [this : Object, ceil : {slots}, seed : SeedOf,
     param : [0 .. params - 1 -> Parameter], bucket : [0 .. buckets - 1 -> SUBSET (0 .. slots - 1)],
     slots : [0 .. slots - 1 -> [key : AnyKey, value : Value \cup {NoValue}]],
     filled : SUBSET (0 .. slots - 1), item_num : 0 .. slots,
     default : AnyKey \cup {NoKey}, second : AnyKey \cup {NoKey}, home : Nat \cup {NoSlot},
     load : Nat \X Nat, expand_at : Nat, begin : Nat \cup {NoSlot}, begin_of : Object,
     slot_capacity : Nat, slot_block : Nat \cup {NoBlock},
     bucket_capacity : Nat, bucket_block : Nat \cup {NoBlock}]

\* What is no map is neither a table nor what a table holds.
ASSUME ObjectAssumption ==
    /\ Dead \notin Object /\ Dead # MovedFrom
    /\ \A n, b, m \in NoBlock .. Words :
         Dead \notin FphTable(n, b, m) /\ MovedFrom \notin FphTable(n, b, m)
    /\ \A E \in SUBSET (Key \X Value) : E # Dead
    /\ \A p \in Policies : p.objects \subseteq Object

VARIABLES
    tab,        \* Object -> its table
    loop        \* the loop that is under way: where, at which slot after how
                \* many ++, and the keys it stood on since it last erased

vars == <<tab, loop, policy>>

Idle == [of |-> Dead, at |-> NoSlot, cnt |-> 0, seen |-> {}]

Live(i) == tab[i] # Dead
HasParam(i) == tab[i] \notin {Dead, MovedFrom}
\* Look-ups read bucket_p_array_ and slot_, which a cleared moved-from map lacks.
HasSlots(i) == HasParam(i) /\ tab[i].slots # << >>
size(i) == IF HasParam(i) THEN tab[i].item_num ELSE 0
begin(i) == IF HasParam(i) THEN tab[i].begin ELSE NoSlot
Free(i) == i \in policy.objects /\ ~ Live(i)

Becomes(i, X) ==
    /\ \E x \in X : tab' = [tab EXCEPT ![i] = x]
    /\ UNCHANGED <<loop, policy>>

At(i, x) == IF x = MovedFrom THEN MovedFrom ELSE Owned(i, x)

Init ==
    /\ tab = [i \in Object |-> Dead]
    /\ loop = Idle
    /\ policy \in Policies

-----------------------------------------------------------------------------
Construct(i) == Free(i) /\ \E es \in policy.ranges \cup {<< >>} : Becomes(i, Constructed(i, es))

\* emplace, insert and try_emplace.  BucketParamType must be large enough for the
\* elements there are going to be.
Emplace(i, k, v) ==
    /\ HasParam(i) /\ tab[i].item_num < policy.max_ceil
    /\ Becomes(i, Emplaced(tab[i], k, v))

Subscript(i, k, v) ==
    /\ HasParam(i) /\ tab[i].item_num < policy.max_ceil
    /\ Becomes(i, Subscripted(tab[i], k, v))

InsertRange(i, es) == HasParam(i) /\ Becomes(i, Inserted(tab[i], es))

BuildRange(i, es) == HasParam(i) /\ Becomes(i, InsertNoDuplicated(tab[i], es))

Reset(i) == IF tab[i] = MovedFrom THEN Blank(i) ELSE Cleared(tab[i])

\* Mutant: what was there stays.
AssignedKeeps(i, es) == Inserted(IF HasParam(i) THEN tab[i] ELSE Reset(i), es)

\* = {..}
Assigned(i, es) == Inserted(Reset(i), es)
AssignRange(i, es) == Live(i) /\ Becomes(i, Assigned(i, es))

Erased(x, k) == LET p == find(x, k) IN IF p = NoSlot THEN x ELSE EraseAt(x, p)
Erase(i, k) == HasSlots(i) /\ Becomes(i, {Erased(tab[i], k)})

Clear(i) == Live(i) /\ Becomes(i, {Reset(i)})

Rehash(i, count) == HasParam(i) /\ Becomes(i, rehash(tab[i], count))

Reserve(i, count) == HasParam(i) /\ Becomes(i, rehash(tab[i], CeilLoad(count, tab[i].load)))

SetLoad(i, load) ==
    /\ HasParam(i)
    /\ Becomes(i, {[tab[i] EXCEPT !.load = load, !.expand_at = ExpandAt(tab[i].ceil, load)]})

Copies(i, x) == IF tab[x] = MovedFrom THEN {MovedFrom} ELSE Copied(i, tab[x])

CopyConstruct(i, x) == Free(i) /\ Live(x) /\ Becomes(i, Copies(i, x))

\* A copy is made and swapped with the map.
CopyAssign(i, x) == Live(i) /\ Live(x) /\ Becomes(i, Copies(i, x))

MoveConstruct(i, x) ==
    /\ Free(i) /\ Live(x)
    /\ tab' = [tab EXCEPT ![i] = At(i, tab[x]), ![x] = MovedFrom]
    /\ UNCHANGED <<loop, policy>>

\* swap, and the move assignment, which is a swap.
Swap(i, x) ==
    /\ Live(i) /\ Live(x) /\ i # x
    /\ tab' = [tab EXCEPT ![i] = At(i, tab[x]), ![x] = At(x, tab[i])]
    /\ UNCHANGED <<loop, policy>>

Destroy(i) == Live(i) /\ Becomes(i, {Dead})

-----------------------------------------------------------------------------
(* for (it = begin(); it != end();) if (..) it = erase(it); else ++it;       *)

Begin(i) ==
    /\ policy.loops /\ loop = Idle /\ Live(i)
    /\ loop' = [of |-> i, at |-> begin(i), cnt |-> 0, seen |-> {}]
    /\ UNCHANGED <<tab, policy>>

Table == tab[loop.of]
Standing == loop # Idle /\ loop.at # NoSlot

Advance ==
    /\ Standing
    /\ loop' = [loop EXCEPT !.at = Advanced(Table, loop.at, loop.cnt), !.cnt = @ + 1,
                            !.seen = @ \cup {Table.slots[loop.at].key}]
    /\ UNCHANGED <<tab, policy>>

\* Mutant: the iterator that erase returns goes on counting.
EraseHereCounting ==
    /\ Standing
    /\ LET x == EraseAt(Table, loop.at)
       IN  /\ tab' = [tab EXCEPT ![loop.of] = x]
           /\ loop' = [loop EXCEPT !.at = x.begin, !.cnt = @ + 1, !.seen = {}]
    /\ UNCHANGED policy

\* The iterator that erase returns starts to count anew.
EraseHere ==
    /\ Standing
    /\ LET x == EraseAt(Table, loop.at)
       IN  /\ tab' = [tab EXCEPT ![loop.of] = x]
           /\ loop' = [loop EXCEPT !.at = x.begin, !.cnt = 0, !.seen = {}]
    /\ UNCHANGED policy

End == loop # Idle /\ loop.at = NoSlot /\ loop' = Idle /\ UNCHANGED <<tab, policy>>

-----------------------------------------------------------------------------
\* While a loop is under way, nothing else changes a map.
Next ==
    \/ \E i \in policy.objects :
         \/ /\ loop = Idle
            /\ \/ Construct(i) \/ Clear(i) \/ Destroy(i)
               \/ \E k \in policy.keys, v \in Value : Emplace(i, k, v) \/ Subscript(i, k, v)
               \/ \E es \in policy.ranges :
                    InsertRange(i, es) \/ BuildRange(i, es) \/ AssignRange(i, es)
               \/ \E k \in policy.keys : Erase(i, k)
               \/ \E count \in policy.counts : Rehash(i, count) \/ Reserve(i, count)
               \/ \E load \in policy.loads : SetLoad(i, load)
               \/ \E x \in policy.objects :
                    CopyConstruct(i, x) \/ CopyAssign(i, x) \/ MoveConstruct(i, x) \/ Swap(i, x)
         \/ Begin(i)
    \/ Advance \/ EraseHere \/ End

Spec == Init /\ [][Next]_vars

-----------------------------------------------------------------------------
(* Properties.                                                               *)

Tables == {tab[i] : i \in {j \in Object : HasParam(j)}}
Elements(x) == {p \in DOMAIN x.slots : x.slots[p].value # NoValue}
Built(x) == x.slots # << >>
Contents(x) == {<<x.slots[p].key, x.slots[p].value>> : p \in Elements(x)}
ContentsOf(i) == IF tab[i] = Dead THEN Dead ELSE IF tab[i] = MovedFrom THEN {} ELSE Contents(tab[i])

\* Types of what Build and the operations leave.
TypeOK ==
    /\ policy \in Policies
    /\ loop.of \in Object \cup {Dead}
    /\ \A x \in Tables :
        /\ x \in FphTable(x.ceil, Cardinality(DOMAIN x.bucket), x.bucket_block)
        /\ Built(x) =>
            /\ x.ceil \in Ceils /\ InitCeil <= x.ceil /\ x.ceil <= policy.max_ceil
            /\ x.seed \in policy.seeds
            /\ x.home \in DOMAIN x.slots

\* Three records of which slots are in use never part: the objects in the slots,
\* the keys by which IsSlotEmpty tells, and random_table_'s filled part.  The
\* destructor, which destroys a key where it believes a slot empty and an element
\* elsewhere, the iterators and the search for a parameter each trust another.
EmptyIsUnused == \A x \in Tables : DestroySlots(x) = Elements(x) /\ x.filled = Elements(x)

\* A look-up hits exactly the keys that were stored: no default key and no key
\* left by a moved element is ever found, the generator's keys included.  at throws
\* for the others, and equal_range, whose second iterator may have gone around the
\* table, still holds one element.
FindExact ==
    \A x \in Tables : Built(x) =>
        \A k \in AnyKey :
            LET p == find(x, k)
                q == equal_range(x, k)[2]
            IN  IF \E e \in Elements(x) : x.slots[e].key = k
                THEN /\ p \in Elements(x) /\ x.slots[p].key = k
                     /\ at(x, k) = x.slots[p].value
                     /\ q \in (Elements(x) \cup {NoSlot}) \ {p}
                ELSE p = NoSlot /\ q = NoSlot /\ at(x, k) = NoValue

\* The mark of the default key's slot is where the default key is looked up, and
\* the second default key is looked up elsewhere; so each finds the other.
DefaultsApart ==
    \A x \in Tables : Built(x) => /\ x.home = GetSlotPos(x, x.default)
                                  /\ GetSlotPos(x, x.second) # x.home

\* A bucket knows the slots of all its elements and of no other's, through every
\* relocation and copy: what it does not know it would leave behind.
BucketsTrack ==
    \A x \in Tables : \A b \in DOMAIN x.bucket :
        x.bucket[b] = {p \in Elements(x) : BucketOf(x, x.slots[p].key) = b}

\* What is in use: all records of it agree.
RecordsAgree == EmptyIsUnused /\ BucketsTrack

\* Look-ups see the elements, and of the default keys nothing.
LookUpsExact == FindExact /\ DefaultsApart

\* From wherever the last call left begin(), size() steps visit every element
\* once, which rehash, the rebuild and the buckets rely on; a moved-from map has a
\* size and an empty walk as well.
WalkVisitsAll ==
    /\ \A x \in Tables : Walk(x) = Elements(x)
    /\ \A i \in Object : Live(i) => size(i) = Cardinality(ContentsOf(i)) /\ (begin(i) = NoSlot <=> size(i) = 0)

\* An array is as long as the capacity that is recorded for it and that it will be
\* deallocated with, and long enough for what is in use, also after a Build that
\* keeps an array larger than it needs, or a copy.
BlocksMatch ==
    \A x \in Tables :
        /\ x.slot_block \in {x.slot_capacity, NoBlock} /\ x.ceil <= x.slot_capacity
        /\ x.bucket_block \in {x.bucket_capacity, NoBlock}
        /\ Cardinality(DOMAIN x.bucket) <= x.bucket_capacity

\* begin() calls back on the map it belongs to, wherever maps were moved and
\* swapped: ++ asks that map for its size and its slots.
BeginsAreOwn ==
    \A i \in Object : HasParam(i) /\ tab[i].begin # NoSlot => tab[i].begin_of = i

\* What a table holds outside its elements is its own and of the size it believes.
PartsMatch == BlocksMatch /\ BeginsAreOwn

\* A loop that erases ends only after it stood on every element that is left, and
\* stands on elements until then, although erase moves begin() and the iterator
\* it returns may have gone around the table already.
LoopSeesAll ==
    loop # Idle /\ HasParam(loop.of) =>
        IF loop.at = NoSlot THEN {Table.slots[p].key : p \in Elements(Table)} \subseteq loop.seen
        ELSE loop.at \in Elements(Table) /\ loop.cnt < Table.item_num

\* Maps with unique keys that copying, moving and swapping carry over whole:
\* nothing an emplace moves or rebuilds changes, loses or doubles an entry.
Entries(es) == {<<es[n].key, es[n].value>> : n \in DOMAIN es}
Maps == INSTANCE MapObjects WITH
    map <- [i \in Object |-> ContentsOf(i)], Lossy <- FALSE, Fragile <- FALSE,
    Ranges <- {Entries(es) : es \in policy.ranges}
MapSpec == Maps!Spec

\* A copy is exact, and erase, insert(first, last) and = {..} do what they say,
\* whichever of the branches each takes.
CallsAreTrue ==
    \A i \in Object : Live(i) =>
        /\ HasSlots(i) => \A k \in policy.keys :
             Contents(Erased(tab[i], k)) = {e \in ContentsOf(i) : e[1] # k}
        /\ \A es \in policy.ranges :
             /\ \A x \in Assigned(i, es) : Contents(x) = Entries(es)
             /\ HasParam(i) => \A x \in Inserted(tab[i], es) :
                                 Contents(x) = Maps!With(ContentsOf(i), Entries(es))
        /\ \A o \in Object : HasParam(o) =>
             \A x \in Copies(i, o) : Contents(x) = ContentsOf(o)

\* Only an element is ever erased: the assertion of EraseImp, that the slot it was
\* given is among the filled ones, for every key whose look-up hits.  EmptyIsUnused
\* and FindExact imply it; it is stated where key_gen_ may return a caller's key.
EraseFindsFilled ==
    \A x \in Tables : Built(x) => \A k \in policy.keys : Contains(x, k) => GetSlotPos(x, k) \in x.filled
=============================================================================
