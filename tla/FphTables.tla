------------------------------ MODULE FphTables -----------------------------
(* The table of src/dynamic_fph_table.hpp, DynamicRawSet, and what its        *)
(* operations may make of it.  A key belongs to the bucket its hash names;    *)
(* the bucket's parameter, an offset and a bit that picks one of two hashes,  *)
(* sends each of its keys to a slot of its own, so a look-up is one probe.    *)
(* An empty slot is told by the key in it: the default key, or the second     *)
(* default key in the slot where the default key itself would be looked up    *)
(* (its home).  An insert that finds its slot taken gives the whole bucket a  *)
(* new parameter and moves its elements, and when none fits rebuilds the      *)
(* table.                                                                     *)
(*                                                                            *)
(* The random engines are nondeterminism: the seeds a Build settles on, the   *)
(* order of random_table_ (any slot that fits may be found first), and the    *)
(* keys of key_gen_.  The loops that retry seeds give up after 10 * 100 *     *)
(* 1000 * 1000 rounds; here they find what there is to find.                  *)
EXTENDS Integers, Sequences, FiniteSets

CONSTANTS
    Key, Value,     \* what the caller stores
    NoValue,        \* the value of a slot that holds only a key
    Spare,          \* the other keys that a key_gen_ may return
    SeedOf,         \* the choices of <<seed0_, seed1_, seed2_>>
    BucketHash,     \* seed -> key -> hash word that names the bucket
    SlotHash,       \* seed -> bit -> key -> hash word that names the slot
    Word,           \* bits of a hash word (64 in the code)
    InitCeil,       \* DEFAULT_INIT_ITEM_NUM_CEIL
    Policies        \* the instantiations looked at, see policy

AnyKey == Key \cup Spare
Bit == 0 .. 1
Parameter == [offset : Nat, bit : Bit]
NoKey == 0          \* default_fill_key_ before the first Build

\* The powers of two, and how many hash words there are.
Pow2[n \in Nat] == IF n = 0 THEN 1 ELSE 2 * Pow2[n - 1]
Words == Pow2[Word]

\* The numbers of slots that hash words can tell apart.
Ceils == {Pow2[n] : n \in 1 .. Word}

ASSUME FphAssumption ==
    /\ NoValue \notin Value /\ NoKey \notin AnyKey
    /\ Word \in Nat \ {0}
    /\ BucketHash \in [SeedOf -> [AnyKey -> 0 .. Words - 1]]
    /\ SlotHash \in [SeedOf -> [Bit -> [AnyKey -> 0 .. Words - 1]]]
    /\ InitCeil \in Ceils

\* A range has no key twice: InsertNoDuplicated asks for it.
ASSUME PolicyAssumption ==
    \A p \in Policies :
        /\ p.max_ceil \in Ceils /\ InitCeil <= p.max_ceil
        /\ p.seeds # {} /\ p.seeds \subseteq SeedOf /\ p.generated \subseteq AnyKey
        /\ p.low_bits \in BOOLEAN
        /\ \A f \in p.loads \cup {p.default_load} : f \in Nat \X Nat /\ 0 < f[1] /\ f[1] < f[2]
        /\ p.garbage # {} /\ p.garbage \subseteq Parameter
        /\ p.keys \subseteq Key /\ p.counts \subseteq Nat
        /\ \A es \in p.ranges :
             /\ es \in Seq([key : Key, value : Value])
             /\ \A n, m \in DOMAIN es : es[n].key = es[m].key => n = m

VARIABLE policy

(* What the template was instantiated with, the luck of its engines, and the *)
(* bounds of the calls that are made; it never changes.                      *)
(*   low_bits   LowBitsIndexMapPolicy, not HighBitsIndexMapPolicy            *)
(*   generated  the keys key_gen_ may return                                 *)
(*   seeds      the seeds a Build may settle on                              *)
(*   max_ceil   MAX_ITEM_NUM_CEIL_LIMIT, which BucketParamType implies       *)
(*   default_load, loads   DEFAULT_MAX_LOAD_FACTOR and the ones callers set, *)
(*              as <<part, whole>>                                           *)
(*   garbage    what an uninitialised bucket parameter may hold              *)
(*   counts, ranges, objects, keys, loops   see DynamicFph                   *)

NoSlot  == -1
NoBlock == -1       \* the null pointer of an array

(* The fields of a table:                                                    *)
(*   this      where it is                                                   *)
(*   ceil      item_num_ceil_, the number of slots                           *)
(*   seed      seed0_, seed1_, seed2_                                        *)
(*   param     bucket_p_array_, [offset, bit] of each bucket                 *)
(*   bucket    bucket_array_[b].key_array, as the slots it points into       *)
(*   slots     slot_, [key, value]                                           *)
(*   filled    the slots in the first filled_count_ places of random_table_  *)
(*   item_num  item_num_                                                     *)
(*   default, second   *default_fill_key_ and *second_default_key_           *)
(*   home      default_fill_key_address_                                     *)
(*   load, expand_at   max_load_factor_ and should_expand_item_num_          *)
(*   begin, begin_of   begin_it_'s slot and, if it has one, table            *)
(*   slot_capacity, bucket_capacity   as recorded                            *)
(*   slot_block, bucket_block         as allocated                           *)

-----------------------------------------------------------------------------
(* Sizes.                                                                    *)

CeilLog2(x) == CHOOSE n \in 0 .. x : x <= Pow2[n] /\ \A m \in 0 .. n - 1 : Pow2[m] < x
RoundUpLog2(x) == IF x <= 1 THEN x ELSE CeilLog2(x)
Ceil2(x) == Pow2[RoundUpLog2(x)]
CeilDiv(x, y) == (x + y - 1) \div y
CeilLoad(n, load) == CeilDiv(n * load[2], load[1])   \* ceil(n / load)
Larger(x, y)  == IF x > y THEN x ELSE y
Smaller(x, y) == IF x < y THEN x ELSE y

BucketNum(n) == Larger(2, Ceil2(CeilDiv(2 * n, CeilLog2(n) + 1)))
ExpandAt(ceil, load) == CeilDiv(ceil * load[1], load[2])

-----------------------------------------------------------------------------
(* Where a key is.                                                           *)

\* num is a power of two.
MapToIndex(hash, num) ==
    IF policy.low_bits THEN hash % num ELSE hash \div (Words \div num)
ReverseMap(index, num) ==
    IF policy.low_bits THEN index ELSE (index * (Words \div num)) % Words

GetBucketIndex(s, num, k) == MapToIndex(BucketHash[s][k], num)
SlotUnder(s, ceil, p, k) ==
    MapToIndex((SlotHash[s][p.bit][k] + ReverseMap(p.offset, ceil)) % Words, ceil)

BucketOf(x, k) == GetBucketIndex(x.seed, Cardinality(DOMAIN x.bucket), k)
GetSlotPos(x, k) == SlotUnder(x.seed, x.ceil, x.param[BucketOf(x, k)], k)
Contains(x, k) == x.slots[GetSlotPos(x, k)].key = k

IsSlotEmpty(x, p) == x.slots[p].key = IF p = x.home THEN x.second ELSE x.default

OnlyKey(k) == [key |-> k, value |-> NoValue]
Element(k, v) == [key |-> k, value |-> v]

Ahead(x, p, q) == (q - p) % x.ceil

\* Mutant: the search ends with the array.
GetNextSlotNoWrap(x, p) ==
    LET others == {q \in DOMAIN x.slots : q > p /\ ~ IsSlotEmpty(x, q)}
    IN  IF others = {} THEN NoSlot
        ELSE CHOOSE q \in others : \A r \in others : q <= r

GetNextSlot(x, p) ==
    LET others == {q \in DOMAIN x.slots : q # p /\ ~ IsSlotEmpty(x, q)}
    IN  IF others = {} THEN NoSlot
        ELSE CHOOSE q \in others : \A r \in others : Ahead(x, p, q) <= Ahead(x, p, r)

\* ++ on the iterator at slot p that was advanced cnt times before.
Advanced(x, p, cnt) == IF cnt + 1 >= x.item_num THEN NoSlot ELSE GetNextSlot(x, p)

\* find, as the slot of the iterator it returns, GetPointerNoCheck, at, which throws
\* instead of returning NoValue, and the two iterators of equal_range.
find(x, k) == IF Contains(x, k) THEN GetSlotPos(x, k) ELSE NoSlot
GetPointerNoCheck(x, k) == x.slots[GetSlotPos(x, k)]
at(x, k) == LET e == GetPointerNoCheck(x, k) IN IF e.key = k THEN e.value ELSE NoValue
equal_range(x, k) ==
    LET p == find(x, k) IN IF p = NoSlot THEN <<p, p>> ELSE <<p, Advanced(x, p, 0)>>

\* DestroySlots: where it destroys an element; elsewhere it destroys a key.
DestroySlots(x) == {p \in DOMAIN x.slots : ~ IsSlotEmpty(x, p)}

\* The slots a loop from begin() to end() stands on.
Walk(x) ==
    LET step[n \in 0 .. x.item_num] ==
          IF n = 0 THEN x.begin
          ELSE LET p == step[n - 1] IN IF p = NoSlot THEN p ELSE Advanced(x, p, n - 1)
    IN  {step[n] : n \in DOMAIN step} \ {NoSlot}
-----------------------------------------------------------------------------
(* Build.                                                                    *)

\* The slots the keys K get under parameter p, and whether each has its own.
Image(s, ceil, p, K) == {SlotUnder(s, ceil, p, k) : k \in K}
Apart(s, ceil, p, K) ==
    \A j, k \in K : SlotUnder(s, ceil, p, j) = SlotUnder(s, ceil, p, k) => j = k

\* The parameters under which keys K of one bucket have slots of their own
\* outside taken.
Fitting(s, ceil, K, taken, bit) ==
    {p \in [offset : 0 .. ceil - 1, bit : {bit}] :
       Apart(s, ceil, p, K) /\ Image(s, ceil, p, K) \cap taken = {}}

\* What the search under seed s may give the buckets that have keys: the largest
\* bucket first, the last of equals, each a parameter that fits beside those
\* before it.  Under bit 0 no bucket may be at odds with itself.
Placements(s, ceil, num, K) ==
    LET used == {GetBucketIndex(s, num, k) : k \in K}
        keys == [b \in used |-> {k \in K : GetBucketIndex(s, num, k) = b}]
        sooner(b, c) == \/ Cardinality(keys[b]) > Cardinality(keys[c])
                        \/ Cardinality(keys[b]) = Cardinality(keys[c]) /\ b > c
        taken(P, b) == UNION {Image(s, ceil, P[c], keys[c]) : c \in {d \in used : sooner(d, b)}}
        fits(P, b, bit) == Fitting(s, ceil, keys[b], taken(P, b), bit)
    IN  IF \A b \in used : Apart(s, ceil, [offset |-> 0, bit |-> 0], keys[b])
        THEN {P \in [used -> [offset : 0 .. ceil - 1, bit : Bit]] :
                \A b \in used : P[b] \in IF fits(P, b, 0) # {} THEN fits(P, b, 0) ELSE fits(P, b, 1)}
        ELSE {}

\* The slots once every one was filled with a default key and the elements E
\* were constructed at their positions.
Filled(x, E) ==
    [p \in 0 .. x.ceil - 1 |->
       IF \E e \in E : GetSlotPos(x, e.key) = p
       THEN CHOOSE e \in E : GetSlotPos(x, e.key) = p
       ELSE OnlyKey(IF p = x.home THEN x.second ELSE x.default)]

\* The slots that may be first in random_table_: those of the bucket placed first.
FirstBucket(bucket) ==
    CHOOSE b \in DOMAIN bucket : \A c \in DOMAIN bucket :
        LET bs == Cardinality(bucket[b])
            cs == Cardinality(bucket[c])
        IN  cs < bs \/ (cs = bs /\ c <= b)

\* begin_it_: where random_table_ starts, if it has elements.
Begun(x) ==
    {[x EXCEPT !.begin = p, !.begin_of = x.this] :
       p \in IF x.item_num = 0 THEN {NoSlot} ELSE x.bucket[FirstBucket(x.bucket)]}

\* The buckets learn their elements anew, from a walk over the table.
Tracked(x) ==
    [x EXCEPT !.bucket = [b \in DOMAIN @ |-> {p \in Walk(x) : BucketOf(x, x.slots[p].key) = b}]]

\* Mutant: a smaller array is recorded but not allocated.
ReallocatedToGrow(old, new, block, called_by_rehash) == block = NoBlock \/ old < new

\* Whether an array of the old capacity gives way to one of the new.
Reallocated(old, new, block, called_by_rehash) ==
    block = NoBlock \/ old < new \/ (old > new /\ called_by_rehash)

Capacity(new, old, called_by_rehash) == IF called_by_rehash THEN new ELSE Larger(new, old)

\* x with the arrays for ceil slots and num buckets, and with what the memory of
\* the parameters holds.
Allotted(x, ceil, num, called_by_rehash) ==
    LET slots_  == Capacity(ceil, x.slot_capacity, called_by_rehash)
        params_ == Capacity(num, x.bucket_capacity, called_by_rehash)
        newSlots  == Reallocated(x.slot_capacity, slots_, x.slot_block, called_by_rehash)
        newParams == Reallocated(x.bucket_capacity, params_, x.bucket_block, called_by_rehash)
    IN  {[x EXCEPT !.slot_capacity = slots_, !.bucket_capacity = params_, !.param = memory,
                   !.slot_block = IF newSlots THEN slots_ ELSE @,
                   !.bucket_block = IF newParams THEN params_ ELSE @] :
           memory \in IF newParams THEN [0 .. params_ - 1 -> policy.garbage] ELSE {x.param}}

\* The keys K in ceil slots and num buckets, as seed s and the parameters P send
\* them; a bucket without keys keeps what its parameter's memory holds.  (What a
\* failed search under another seed may leave there is not modelled.)
Laid(x, K, ceil, num, s, P) ==
    LET bucket == [b \in 0 .. num - 1 |->
                     {SlotUnder(s, ceil, P[b], k) : k \in {j \in K : GetBucketIndex(s, num, j) = b}}]
    IN  [x EXCEPT !.ceil = ceil, !.seed = s, !.bucket = bucket,
                  !.param = [b \in DOMAIN @ |-> IF b \in DOMAIN P THEN P[b] ELSE @[b]],
                  !.filled = UNION {bucket[b] : b \in 0 .. num - 1},
                  !.item_num = Cardinality(K), !.expand_at = ExpandAt(ceil, x.load)]

\* The default key and the second, drawn until they have different slots.
DefaultKeys(x) ==
    {c \in policy.generated \X policy.generated : GetSlotPos(x, c[1]) # GetSlotPos(x, c[2])}

Furnished(x, E, c) ==
    LET y == [x EXCEPT !.default = c[1], !.second = c[2], !.home = GetSlotPos(x, c[1])]
    IN  [y EXCEPT !.slots = Filled(y, E)]

\* Every table BuildImp may make of the elements E in ceil slots and num buckets;
\* none, an exception, when there are more elements than slots.
BuildImp(x, E, ceil, num, called_by_rehash) ==
    LET K     == {e.key : e \in E}
        laid  == UNION {{Laid(y, K, ceil, num, s, P) :
                           P \in Placements(s, ceil, num, K), y \in Allotted(x, ceil, num, called_by_rehash)} :
                        s \in policy.seeds}
        built == UNION {{Furnished(y, E, c) : c \in DefaultKeys(y)} : y \in laid}
    IN  IF Cardinality(E) > ceil THEN {} ELSE {Tracked(f) : f \in UNION {Begun(y) : y \in built}}

\* Build<true, ..>: for the slots that were set before.
Build(x, E, ceil, called_by_rehash) == BuildImp(x, E, ceil, BucketNum(ceil), called_by_rehash)

\* What the limits make of a wish for slots.
Limited(n) == Larger(Smaller(n, policy.max_ceil), InitCeil)

\* Build<false, ..>: for as many elements as there are.
BuildFor(x, E, called_by_rehash) ==
    LET n    == Cardinality(E)
        ceil == IF n = 0 THEN InitCeil ELSE Limited(Ceil2(CeilLoad(n, x.load)))
    IN  BuildImp(x, E, ceil, BucketNum(IF n = 0 THEN ceil ELSE n), called_by_rehash)

-----------------------------------------------------------------------------
(* The operations on one table: each is the set of tables it may leave.     *)

AllElements(x) == {x.slots[p] : p \in Walk(x)}

\* Mutant: the table may shrink below what it starts with.
rehashUnlimited(x, count) ==
    LET least == Ceil2(CeilLoad(x.item_num, x.load))
        asked == Smaller(IF count > least THEN Ceil2(count) ELSE least, policy.max_ceil)
    IN  IF asked = x.ceil THEN {x} ELSE Build(x, AllElements(x), asked, TRUE)

rehash(x, count) ==
    LET least == Ceil2(CeilLoad(x.item_num, x.load))
        ceil  == Limited(IF count > least THEN Ceil2(count) ELSE least)
    IN  IF ceil = x.ceil THEN {x} ELSE Build(x, AllElements(x), ceil, TRUE)

\* Mutant: the bucket does not learn of the new element.
PutAtUntracked(x, p, k, v) ==
    [x EXCEPT !.slots[p] = Element(k, v), !.filled = @ \cup {p},
              !.begin = p, !.begin_of = x.this, !.item_num = @ + 1]

\* FindOrAlloc, the first probe's slot empty; the caller then constructs the
\* value where the default key was.
PutAt(x, p, k, v) ==
    [x EXCEPT !.slots[p] = Element(k, v), !.filled = @ \cup {p},
              !.bucket[BucketOf(x, k)] = @ \cup {p},
              !.begin = p, !.begin_of = x.this, !.item_num = @ + 1]

\* FindOrAlloc, the slot taken: the parameters its search may settle on for k's
\* bucket.  The bucket's own slots count as free; the bit is not lowered.
NewParams(x, k) ==
    LET b    == BucketOf(x, k)
        keys == {x.slots[p].key : p \in x.bucket[b]} \cup {k}
        others == x.filled \ x.bucket[b]
        zero == Fitting(x.seed, x.ceil, keys, others, 0)
    IN  IF x.param[b].bit = 0 /\ zero # {} THEN zero
        ELSE Fitting(x.seed, x.ceil, keys, others, 1)

\* Mutant: the slots that were left are filled after the elements have landed.
LandedThenLifted(x, y, b) ==
    LET lands(q, p) == q \in x.bucket[b] /\ GetSlotPos(y, x.slots[q].key) = p
    IN  [p \in DOMAIN x.slots |->
           IF p \in x.bucket[b]
           THEN OnlyKey(IF p = GetSlotPos(y, x.default) THEN x.second ELSE x.default)
           ELSE IF \E q \in DOMAIN x.slots : lands(q, p)
           THEN x.slots[CHOOSE q \in DOMAIN x.slots : lands(q, p)] ELSE x.slots[p]]

\* The slots once the elements of k's bucket have left their slots, which get a
\* default key, and have landed where the new parameter sends them.
Landed(x, y, b) ==
    LET lifted == [p \in DOMAIN x.slots |->
                     IF p \in x.bucket[b]
                     THEN OnlyKey(IF p = GetSlotPos(y, x.default) THEN x.second ELSE x.default)
                     ELSE x.slots[p]]
        lands(q, p) == q \in x.bucket[b] /\ GetSlotPos(y, x.slots[q].key) = p
    IN  [p \in DOMAIN x.slots |->
           IF \E q \in DOMAIN x.slots : lands(q, p)
           THEN x.slots[CHOOSE q \in DOMAIN x.slots : lands(q, p)] ELSE lifted[p]]

\* FindOrAlloc: the second default key, drawn again when it and the default key
\* now share a slot.
SecondKeys(x, y, landed) ==
    LET home == GetSlotPos(y, x.default)
    IN  IF GetSlotPos(y, x.second) # home THEN {x.second}
        ELSE {g \in policy.generated : GetSlotPos(y, g) # home /\ g # landed[x.home].key}

\* FindOrAlloc, with the parameter it found: the bucket moves, a new second
\* default key takes the old one's place, and the mark of the default key's slot
\* moves with that slot.
Relocated(x, k, v, param) ==
    LET b      == BucketOf(x, k)
        y      == [x EXCEPT !.param[b] = param]
        home   == GetSlotPos(y, x.default)
        moving == {x.slots[p].key : p \in x.bucket[b]}
        landed == Landed(x, y, b)
        homeEmpty == /\ IsSlotEmpty(x, x.home) \/ x.home \in x.bucket[b] \cap {home}
                     /\ x.home \notin {GetSlotPos(y, j) : j \in moving}
        clash  == home = GetSlotPos(y, x.second)
        redrawn(f) ==
            [p \in DOMAIN landed |->
               IF /\ clash
                  /\ \/ p = x.home /\ homeEmpty
                     \/ /\ p = home /\ p \in x.bucket[b]
                        /\ x.second \notin moving /\ landed[p].key = x.second
               THEN OnlyKey(f) ELSE landed[p]]
        marked(f) ==
            [p \in DOMAIN landed |->
               IF p = home /\ redrawn(f)[p].key = x.default THEN OnlyKey(f)
               ELSE IF /\ p = x.home /\ p # home
                       /\ redrawn(f)[p].key = f
                       /\ ~ (x.second \in moving /\ p = GetSlotPos(y, f))
               THEN OnlyKey(x.default)
               ELSE redrawn(f)[p]]
        done(f) == IF BucketOf(x, x.default) = b /\ x.default \notin moving
                   THEN marked(f) ELSE redrawn(f)
        took   == {GetSlotPos(y, j) : j \in moving}
    IN  {PutAt([y EXCEPT !.slots = done(f), !.second = f, !.home = home,
                         !.bucket[b] = took,
                         !.filled = (x.filled \ x.bucket[b]) \cup took],
               GetSlotPos(y, k), k, v) : f \in SecondKeys(x, y, landed)}

Rebuilt(x, k, v) == Build(x, AllElements(x) \cup {Element(k, v)}, x.ceil, FALSE)

Allocated(x, k, v) ==
    IF Contains(x, k) THEN {x}
    ELSE IF IsSlotEmpty(x, GetSlotPos(x, k)) THEN {PutAt(x, GetSlotPos(x, k), k, v)}
    ELSE IF NewParams(x, k) = {} THEN Rebuilt(x, k, v)
    ELSE UNION {Relocated(x, k, v, p) : p \in NewParams(x, k)}

\* The table grows before it looks whether the key is there.
Grown(x) ==
    IF x.item_num + 1 > x.expand_at /\ Ceil2(x.ceil + 1) <= policy.max_ceil
    THEN rehash(x, x.ceil + 1) ELSE {x}

EraseAt(x, p) ==
    LET y == [x EXCEPT !.slots[p] = OnlyKey(IF p = GetSlotPos(x, x.default)
                                            THEN x.second ELSE x.default),
                       !.bucket[BucketOf(x, x.slots[p].key)] = @ \ {p},
                       !.filled = @ \ {p}, !.item_num = @ - 1]
    IN  [y EXCEPT !.begin = GetNextSlot(y, p), !.begin_of = y.this]

\* Mutant: every slot gets the default key.
ClearedPlain(x) ==
    [x EXCEPT !.item_num = 0, !.begin = NoSlot, !.filled = {},
              !.home = GetSlotPos(x, x.default),
              !.bucket = [b \in DOMAIN x.bucket |-> {}],
              !.slots = [p \in DOMAIN x.slots |-> OnlyKey(x.default)]]

\* A table whose slots are yet to be built has neither slots nor default keys.
Cleared(x) ==
    LET home == GetSlotPos(x, x.default)
    IN  IF x.default = NoKey THEN x
        ELSE [x EXCEPT !.item_num = 0, !.begin = NoSlot, !.filled = {}, !.home = home,
                       !.bucket = [b \in DOMAIN x.bucket |-> {}],
                       !.slots = [p \in DOMAIN x.slots |->
                                    OnlyKey(IF p = home THEN x.second ELSE x.default)]]

Emplaced(x, k, v) == UNION {Allocated(y, k, v) : y \in Grown(x)}

\* operator[] and the assignment of its caller.
Subscripted(x, k, v) ==
    {[y EXCEPT !.slots[GetSlotPos(y, k)].value = v] : y \in Emplaced(x, k, v)}

\* insert(first, last), for the elements of the sequence es.
Inserted(x, es) ==
    LET after[n \in 0 .. Len(es)] ==
          IF n = 0 THEN {x}
          ELSE UNION {Emplaced(y, es[n].key, es[n].value) : y \in after[n - 1]}
    IN  after[Len(es)]

\* es has no key twice.
InsertNoDuplicated(x, es) ==
    IF x.item_num # 0 THEN Inserted(x, es)
    ELSE BuildFor(x, {es[n] : n \in DOMAIN es}, FALSE)

-----------------------------------------------------------------------------
(* Whole tables.                                                             *)

\* A new FphTableParam, nothing allocated.
Blank(i) ==
    [this |-> i, ceil |-> 0, seed |-> CHOOSE s \in policy.seeds : TRUE, param |-> << >>,
     bucket |-> << >>, slots |-> << >>, filled |-> {}, item_num |-> 0,
     default |-> NoKey, second |-> NoKey, home |-> NoSlot, load |-> policy.default_load,
     expand_at |-> 0, begin |-> NoSlot, begin_of |-> i,
     slot_capacity |-> 0, slot_block |-> NoBlock, bucket_capacity |-> 0, bucket_block |-> NoBlock]

\* The constructor builds DEFAULT_INIT_ITEM_NUM_CEIL slots, whatever bucket_count
\* it is given, and inserts the range it may be given.
Constructed(i, es) == UNION {Inserted(x, es) : x \in BuildFor(Blank(i), {}, FALSE)}

\* What the object at i takes over from a table by moving or swapping.
Owned(i, x) == [x EXCEPT !.this = i, !.begin_of = i]

\* FphTableParam's copy: the vectors as they are, no slot and no array yet.
ParamCopy(i, x) ==
    [x EXCEPT !.this = i, !.home = NoSlot, !.begin = NoSlot, !.begin_of = i, !.slots = << >>,
              !.slot_block = NoBlock, !.bucket_block = NoBlock]

\* A copy of x at i.  Only the parameters of buckets in use are copied, and each
\* key of a bucket is looked up again.
Copied(i, x) ==
    LET block(capacity) == [0 .. capacity - 1 -> policy.garbage]
        copy(rest) ==
            LET y == [ParamCopy(i, x) EXCEPT !.home = x.home, !.begin = x.begin,
                               !.slot_block = x.slot_capacity, !.bucket_block = x.bucket_capacity,
                               !.param = [b \in DOMAIN rest |->
                                            IF b \in DOMAIN x.bucket THEN x.param[b] ELSE rest[b]],
                               !.slots = [p \in DOMAIN x.slots |->
                                            IF IsSlotEmpty(x, p) THEN OnlyKey(x.slots[p].key)
                                            ELSE x.slots[p]]]
            IN  [y EXCEPT !.bucket = [b \in DOMAIN x.bucket |->
                            {GetSlotPos(y, x.slots[p].key) : p \in x.bucket[b]}]]
    IN  {copy(rest) : rest \in block(x.bucket_capacity)}
=============================================================================
