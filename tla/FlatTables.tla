----------------------------- MODULE FlatTables -----------------------------
(***************************************************************************)
(* foa::table_core and foa::table, the core of unordered_flat_map: several *)
(* table objects on one heap, with allocators that may differ, allocations *)
(* that may be refused and elements whose construction may throw.          *)
(*                                                                         *)
(* tab[i] is a table object: the address of its arrays (Static for the     *)
(* static groups), ml and size, its hash function and its allocator.       *)
(* heap[a] are the arrays at an address, or Unallocated.  bad collects     *)
(* what may never happen to memory: see delete_arrays.                     *)
(*                                                                         *)
(* An operation is the set of its outcomes [w, ok]: the world it leaves    *)
(* and whether it returned rather than threw.  A world is [heap, tab, bad].*)
(***************************************************************************)
EXTENDS FlatArrays, TLC

CONSTANTS
  Object,        \* table objects
  Key, Value,
  Hasher,        \* the states a hash function object may have
  HashOf,        \* HashOf[h][k], mixed
  Allocator,
  Address,       \* what may be allocated at the same time
  MaxElements,   \* bound on the arguments of constructors, rehash and reserve
  AllocMayFail,  \* allocate may throw although there is memory
  CopyMayThrow,  \* constructing an element from arguments or a copy may throw
  Policies,      \* the instantiations looked at, see policy
  NoMap          \* the contents of an object that is not there

ASSUME HashAssumption ==
  \A h \in Hasher : \A k \in Key : HashOf[h][k] \in 0..Pow2[HashBits] - 1
ASSUME AddressAssumption == Address \subseteq Nat \ {0}
ASSUME PolicyAssumption ==
  \A p \in Policies : /\ p.transfer \in {"nothrow", "move_only", "copyable"}
                      /\ p.propagate \in BOOLEAN /\ p.archives \in BOOLEAN
                      /\ p.hashers \subseteq Hasher /\ p.values \subseteq Value
                      /\ \A es \in p.ranges : \A n \in DOMAIN es :
                           es[n].key \in Key /\ es[n].value \in Value

VARIABLES
  heap, tab, bad,
  policy         \* what the template was instantiated with; never changes

vars == <<heap, tab, bad, policy>>

(* "nothrow": elements are moved; "move_only": moved, and moving may       *)
(* throw; "copyable": copied when tables grow.  Propagate: the allocator   *)
(* is assigned and swapped along.  hashers, values and ranges, sequences   *)
(* of elements, bound the arguments of its calls; archives: maps are saved *)
(* and loaded.                                                             *)
Transfer == policy.transfer
Propagate == policy.propagate

Static == 0
NoAllocator == "none"
Unallocated == [al |-> NoAllocator]
Dead == [arrays |-> Static, ml |-> 0, size |-> 0, hash |-> "none", al |-> NoAllocator]

Arrays(w, at) == IF at = Static THEN dummy_groups ELSE w.heap[at]
ArraysOf(w, i) == Arrays(w, w.tab[i].arrays)
Live(w, i) == w.tab[i] # Dead

HashIn(w, i, k) == HashOf[w.tab[i].hash][k]
Find(w, i, k) == find(ArraysOf(w, i), HashIn(w, i, k), k)
Element(w, i, p) == ArraysOf(w, i).elem[p]

Done(w) == {[w |-> w, ok |-> TRUE]}
Threw(w) == {[w |-> w, ok |-> FALSE]}
Then(outcomes, F(_)) == UNION {IF o.ok THEN F(o.w) ELSE {o} : o \in outcomes}
May(throw, w) == IF throw THEN Threw(w) ELSE {}

(* Whether moving an element may throw, and whether carrying one over to   *)
(* larger arrays may, where it is copied if it can be.                     *)
MoveMayThrow == Transfer # "nothrow"
TransferMayThrow == Transfer = "move_only" \/ (Transfer = "copyable" /\ CopyMayThrow)
-----------------------------------------------------------------------------

(***************************************************************************)
(* The memory.                                                             *)
(***************************************************************************)
Free(w) == {a \in Address : w.heap[a] = Unallocated}

(* new_arrays: room for n elements, or the static groups.  F continues     *)
(* with the address.                                                       *)
new_arrays(w, al, n, F(_, _)) ==
  IF n = 0 THEN F(w, Static)
  ELSE May(AllocMayFail \/ Free(w) = {}, w)
       \cup (IF Free(w) = {} THEN {}
             ELSE LET at == Min(Free(w))
                  IN  F([w EXCEPT !.heap[at] = set_arrays(al, size_log_for(n))], at))

\* Mutant: the arrays are forgotten, not given back.
delete_arrays_late(w, al, at) == w

(* Memory goes back once, to an allocator that is equal to the one it came *)
(* from, and after the elements in it were destroyed.                      *)
delete_arrays(w, al, at) ==
  IF at = Static THEN w
  ELSE [w EXCEPT
          !.heap[at] = Unallocated,
          !.bad = @ \cup (IF w.heap[at] = Unallocated THEN {"freed twice"}
                          ELSE (IF w.heap[at].al # al THEN {"foreign allocator"} ELSE {})
                               \cup (IF \E p \in DOMAIN w.heap[at].elem :
                                          w.heap[at].elem[p] # NoElement
                                     THEN {"element not destroyed"} ELSE {}))]

destroy_all(w, at) ==
  IF at = Static THEN w
  ELSE [w EXCEPT !.heap[at].elem = [p \in DOMAIN @ |-> NoElement]]

Insert(w, i, e) ==
  [w EXCEPT !.heap[w.tab[i].arrays] = nosize_unchecked_emplace_at(@, HashIn(w, i, e.key), e),
            !.tab[i].size = @ + 1]

(* unchecked_emplace_at; throw says whether the construction may throw.    *)
unchecked_insert(w, i, e, throw) ==
  LET at == w.tab[i].arrays
  IN  May(throw, [w EXCEPT !.heap[at] = marked(@, HashIn(w, i, e.key))])
      \cup Done(Insert(w, i, e))

(* unchecked_insert of one element after the other: all, or the first ones *)
(* when a construction throws.                                             *)
InsertFirst(w, i, es, n) ==
  FoldLeft(LAMBDA x, e : Insert(x, i, e), w, SubSeq(es, 1, n))
InsertEach(w, i, es, throw) ==
  Done(InsertFirst(w, i, es, Len(es)))
  \cup UNION {LET x == InsertFirst(w, i, es, n - 1)
              IN  May(throw, [x EXCEPT !.heap[x.tab[i].arrays] =
                                  marked(@, HashIn(x, i, es[n].key))]) : n \in 1..Len(es)}

(* erase: the element is destroyed and its slot recovered.  The maximum    *)
(* load shrinks if the slot may have made others overflow.                 *)
recover_slot(w, i, p) ==
  LET at == w.tab[i].arrays
      drift == IF maybe_caused_overflow(w.heap[at].group[p \div N], p % N) THEN 1 ELSE 0
  IN  [w EXCEPT !.tab[i].ml = @ - drift,
                !.tab[i].size = @ - 1,
                !.heap[at].group[p \div N] = reset(@, p % N),
                !.heap[at].elem[p] = NoElement]

Elements(a) == LET o == for_all_elements(a) IN [n \in 1..Len(o) |-> a.elem[o[n]]]

Placed(a, h, es) ==
  FoldLeft(LAMBDA b, e : nosize_unchecked_emplace_at(b, HashOf[h][e.key], e), a, es)

(***************************************************************************)
(* Growing.                                                                *)
(***************************************************************************)
Settled(w, i, at) ==
  [w EXCEPT !.tab[i].arrays = at, !.tab[i].ml = initial_max_load(Arrays(w, at))]

RecoverFirst(w, i, n) ==
  FoldLeft(LAMBDA x, p : recover_slot(x, i, p), w,
           SubSeq(for_all_elements(ArraysOf(w, i)), 1, n))

\* Mutant: elements that can be copied are moved nevertheless.
unchecked_rehash_moving(w, i, at) ==
  LET t    == w.tab[i]
      full == [w EXCEPT !.heap[at] = Placed(@, t.hash, Elements(ArraysOf(w, i)))]
      Back(x) == delete_arrays(destroy_all(x, at), t.al, at)
  IN  Done(Settled(delete_arrays(destroy_all(full, t.arrays), t.al, t.arrays), i, at))
      \cup UNION {IF TransferMayThrow THEN Threw(Back(RecoverFirst(w, i, n))) ELSE {}
                  : n \in 1..t.size}

(* unchecked_rehash into the arrays at at, which may hold an element       *)
(* already.  The n-th transfer may throw: elements that were moved, the    *)
(* n-th included, are gone; copies are thrown away.                        *)
unchecked_rehash(w, i, at) ==
  LET t    == w.tab[i]
      es   == Elements(ArraysOf(w, i))
      full == [w EXCEPT !.heap[at] = Placed(@, t.hash, es)]
      Back(x) == delete_arrays(destroy_all(x, at), t.al, at)
  IN  Done(Settled(delete_arrays(destroy_all(full, t.arrays), t.al, t.arrays), i, at))
      \cup UNION {IF ~TransferMayThrow THEN {}
                  ELSE Threw(Back(IF Transfer = "copyable" THEN w ELSE RecoverFirst(w, i, n)))
                  : n \in 1..Len(es)}

Larger(a, b) == IF a > b THEN a ELSE b

rehash(w, i, n) ==
  LET m == Larger(n, CeilLoad(w.tab[i].size))
      c == IF m = 0 THEN 0 ELSE capacity_for(m)
      Into(x, at) == unchecked_rehash(x, i, at)
  IN  IF c = capacity(ArraysOf(w, i)) THEN Done(w)
      ELSE IF c = 0 THEN Done(Settled(delete_arrays(w, w.tab[i].al, w.tab[i].arrays), i, Static))
      ELSE new_arrays(w, w.tab[i].al, c, Into)

reserve(w, i, n) == rehash(w, i, CeilLoad(n))

(* Only used on an empty table.                                            *)
noshrink_reserve(w, i, n) ==
  LET c == capacity_for(CeilLoad(n))
      Instead(x, at) == Done(Settled(delete_arrays(x, x.tab[i].al, x.tab[i].arrays), i, at))
  IN  IF n = 0 \/ c <= capacity(ArraysOf(w, i)) THEN Done(w)
      ELSE new_arrays(w, w.tab[i].al, c, Instead)

new_arrays_for_growth(w, i) == GrowthFor(w.tab[i].size)

(* The new element is constructed in the new arrays first, so that nothing *)
(* has changed when that throws.                                           *)
unchecked_emplace_with_rehash(w, i, e, throw) ==
  LET hash == HashIn(w, i, e.key)
      Counted(x) == Done([x EXCEPT !.tab[i].size = @ + 1])
      Into(x, at) ==
        May(throw, delete_arrays(x, x.tab[i].al, at))
        \cup Then(unchecked_rehash([x EXCEPT !.heap[at] =
                      nosize_unchecked_emplace_at(@, hash, e)], i, at), Counted)
  IN  new_arrays(w, w.tab[i].al, new_arrays_for_growth(w, i), Into)

emplace_impl(w, i, e, throw) ==
  IF Find(w, i, e.key) # NoSlot THEN Done(w)
  ELSE IF w.tab[i].size < w.tab[i].ml THEN unchecked_insert(w, i, e, throw)
  ELSE unchecked_emplace_with_rehash(w, i, e, throw)
-----------------------------------------------------------------------------

(***************************************************************************)
(* Whole tables.                                                           *)
(***************************************************************************)
clear(w, i) ==
  LET at == w.tab[i].arrays
      x  == destroy_all(w, at)
  IN  IF at = Static THEN w
      ELSE [x EXCEPT !.heap[at].group = set_arrays(x.heap[at].al, x.heap[at].log).group,
                     !.tab[i].ml = initial_max_load(x.heap[at]), !.tab[i].size = 0]

destroy(w, i) ==
  LET at == w.tab[i].arrays
  IN  [delete_arrays(destroy_all(w, at), w.tab[i].al, at) EXCEPT !.tab[i] = Dead]

(* A constructor that throws takes back what it had built.                 *)
Built(outcomes, i) ==
  {IF o.ok THEN o ELSE [o EXCEPT !.w = IF Live(o.w, i) THEN destroy(o.w, i) ELSE o.w]
     : o \in outcomes}

construct(w, i, n, h, al) ==
  LET Made(x, at) ==
        Done([x EXCEPT !.tab[i] = [arrays |-> at, ml |-> initial_max_load(Arrays(x, at)),
                                   size |-> 0, hash |-> h, al |-> al]])
  IN  new_arrays(w, al, n, Made)

\* Mutant: equal arrays are copied without their overflow bytes.
fast_copy_without_overflow(w, i, x) ==
  LET from == ArraysOf(w, x)
      at   == w.tab[i].arrays
  IN  IF at = Static \/ from.elem = <<>> THEN Done(w)
      ELSE May(CopyMayThrow, w)
           \cup Done([w EXCEPT !.heap[at].elem = from.elem,
                               !.heap[at].group = [g \in DOMAIN @ |-> [from.group[g] EXCEPT !.over = {}]],
                               !.tab[i].ml = w.tab[x].ml, !.tab[i].size = w.tab[x].size])

(* Between arrays of one size elements and metadata are copied slot by     *)
(* slot; when an element throws, those before it are destroyed again.      *)
fast_copy_elements_from(w, i, x) ==
  LET from == ArraysOf(w, x)
      at   == w.tab[i].arrays
  IN  IF at = Static \/ from.elem = <<>> THEN Done(w)
      ELSE May(CopyMayThrow /\ w.tab[x].size > 0, w)
           \cup Done([w EXCEPT !.heap[at].elem = from.elem, !.heap[at].group = from.group,
                               !.tab[i].ml = w.tab[x].ml, !.tab[i].size = w.tab[x].size])

\* Mutant: the sizes are not compared.
copy_always_fast(w, i, x) == fast_copy_elements_from(w, i, x)

copy_elements_from(w, i, x) ==
  IF ArraysOf(w, i).log = ArraysOf(w, x).log THEN fast_copy_elements_from(w, i, x)
  ELSE InsertEach(w, i, Elements(ArraysOf(w, x)), CopyMayThrow)

copy_construct(w, i, x, al) ==
  LET Copy(y) == copy_elements_from(y, i, x)
  IN  Built(Then(construct(w, i, CeilLoad(w.tab[x].size), w.tab[x].hash, al), Copy), i)

Emptied(t) == [t EXCEPT !.arrays = Static, !.ml = 0, !.size = 0]

move_construct(w, i, x) ==
  Done([w EXCEPT !.tab[i] = w.tab[x], !.tab[x] = Emptied(@)])

\* Mutant: what was moved out of stays in x.
move_elements_uncleared(w, i, x) ==
  InsertEach(w, i, Elements(ArraysOf(w, x)), MoveMayThrow)

(* Elements that cannot be handed over are moved one by one; however that  *)
(* ends, clear_on_exit leaves x empty.                                     *)
move_elements_from(w, i, x) ==
  {[o EXCEPT !.w = clear(@, x)]
     : o \in InsertEach(w, i, Elements(ArraysOf(w, x)), MoveMayThrow)}

move_construct_with(w, i, x, al) ==
  LET made == [w EXCEPT !.tab[i] = [Emptied(w.tab[x]) EXCEPT !.al = al]]
      Move(y) == move_elements_from(y, i, x)
  IN  IF al = w.tab[x].al THEN move_construct(w, i, x)
      ELSE Built(Then(reserve(made, i, w.tab[x].size), Move), i)

copy_assign(w, i, x) ==
  LET t    == w.tab[x]
      y    == [clear(w, i) EXCEPT !.tab[i].hash = t.hash]
      Copy(z) == copy_elements_from(z, i, x)
      Reserve(z) == Then(noshrink_reserve(z, i, t.size), Copy)
      Replace(z, at) == Done([Settled(delete_arrays(z, z.tab[i].al, z.tab[i].arrays), i, at)
                               EXCEPT !.tab[i].al = t.al])
  IN  IF Propagate /\ w.tab[i].al # t.al
      THEN Then(new_arrays(y, t.al, CeilLoad(t.size), Replace), Reserve)
      ELSE Reserve(y)

SwapHash(w, i, x) ==
  [w EXCEPT !.tab[i].hash = w.tab[x].hash, !.tab[x].hash = w.tab[i].hash]

(* i gives up its arrays for those of x, and with them x's allocator.      *)
hand_over(w, i, x) ==
  LET t == w.tab[x]
      y == delete_arrays(w, w.tab[i].al, w.tab[i].arrays)
  IN  [y EXCEPT !.tab[i] = [t EXCEPT !.hash = w.tab[i].hash],
                !.tab[x] = Emptied(@)]

move_assign(w, i, x) ==
  LET y == SwapHash(clear(w, i), i, x)
      Move(z) == move_elements_from(z, i, x)
  IN  IF Propagate \/ w.tab[i].al = w.tab[x].al THEN Done(hand_over(y, i, x))
      ELSE Then(noshrink_reserve(y, i, w.tab[x].size), Move)

(* The allocators are equal or swapped along.                              *)
swap(w, i, x) == Done([w EXCEPT !.tab[i] = w.tab[x], !.tab[x] = w.tab[i]])

\* Mutant: an element that was not inserted is erased from x all the same.
merge_without_rollback(w, i, x) ==
  LET Step(outcomes, p) ==
        LET One(y) == {[o EXCEPT !.w = recover_slot(@, x, p)]
                         : o \in emplace_impl(y, i, Element(w, x, p), MoveMayThrow)}
        IN  Then(outcomes, One)
  IN  FoldLeft(Step, Done(w), for_all_elements(ArraysOf(w, x)))

(* Each element of x is inserted and then erased from x, also when the     *)
(* insertion throws; it stays only if its key is here already.             *)
merge(w, i, x) ==
  LET Step(outcomes, p) ==
        LET e == Element(w, x, p)
            One(y) == IF Find(y, i, e.key) # NoSlot THEN Done(y)
                      ELSE {[o EXCEPT !.w = recover_slot(@, x, p)]
                              : o \in emplace_impl(y, i, e, MoveMayThrow)}
        IN  Then(outcomes, One)
  IN  FoldLeft(Step, Done(w), for_all_elements(ArraysOf(w, x)))

erase_if(w, i, K) ==
  FoldLeft(LAMBDA y, p : IF Element(y, i, p).key \in K THEN recover_slot(y, i, p) ELSE y,
           w, for_all_elements(ArraysOf(w, i)))

contains(w, i, k) == Find(w, i, k) # NoSlot

(* Of a key that is there.                                                 *)
erase(w, i, k) == recover_slot(w, i, Find(w, i, k))
assign(w, i, k, v) == [w EXCEPT !.heap[w.tab[i].arrays].elem[Find(w, i, k)].value = v]

(* The value of k's element; none where it throws.                         *)
at_(w, i, k) ==
  LET p == Find(w, i, k) IN IF p = NoSlot THEN {} ELSE {Element(w, i, p).value}

(* The element's slot and the one an increment leads to.                   *)
equal_range(w, i, k) ==
  LET p == Find(w, i, k)
  IN  IF p = NoSlot THEN <<p, p>> ELSE <<p, increment(ArraysOf(w, i), p)>>

(* operator==: of each element of x, the one with its key in y is equal.   *)
Equal(w, x, y) ==
  /\ w.tab[x].size = w.tab[y].size
  /\ \A e \in ToSet(Elements(ArraysOf(w, x))) :
       contains(w, y, e.key) /\ Element(w, y, Find(w, y, e.key)) = e

(* insert(first, last): the elements of the sequence es in turn.           *)
insert_range(w, i, es) ==
  LET Step(outcomes, e) ==
        LET One(y) == emplace_impl(y, i, e, CopyMayThrow) IN Then(outcomes, One)
  IN  FoldLeft(Step, Done(w), es)

assign_range(w, i, es) == insert_range(clear(w, i), i, es)

(* The table exists when the insertion begins, so a failure destroys it.   *)
construct_range(w, i, es, n, h, al) ==
  LET Fill(x) == insert_range(x, i, es) IN Built(Then(construct(w, i, n, h, al), Fill), i)

(***************************************************************************)
(* Archives.  A saved map is its elements in the order of a walk.  When    *)
(* they are loaded the archive is told each one's address, for iterators   *)
(* that were saved too: an element that moves later leaves a stale one.    *)
(***************************************************************************)
save(w, i) == Elements(ArraysOf(w, i))

tracked(w, x, i) ==
  IF w.tab[i].size > 0 /\ x.tab[i].arrays # w.tab[i].arrays
  THEN [x EXCEPT !.bad = @ \cup {"stale address"}] ELSE x

(* Reading, and moving what was read into place, may throw; a key that is  *)
(* there already makes it a bad archive.                                   *)
load_each(w, i, es) ==
  LET Step(outcomes, e) ==
        LET One(y) == May(CopyMayThrow, y)
                      \cup IF contains(y, i, e.key) THEN Threw(y)
                           ELSE {[o EXCEPT !.w = tracked(y, @, i)]
                                   : o \in emplace_impl(y, i, e, MoveMayThrow)}
        IN  Then(outcomes, One)
  IN  FoldLeft(Step, Done(w), es)

\* Mutant: no room is made for what is to come.
load_unreserved(w, i, es) == load_each(clear(w, i), i, es)

load(w, i, es) ==
  LET Each(x) == load_each(x, i, es) IN Then(reserve(clear(w, i), i, Len(es)), Each)
-----------------------------------------------------------------------------

(***************************************************************************)
(* The calls.                                                              *)
(***************************************************************************)
World == [heap |-> heap, tab |-> tab, bad |-> bad]

Call(outcomes) ==
  /\ \E o \in outcomes : heap' = o.w.heap /\ tab' = o.w.tab /\ bad' = o.w.bad
  /\ UNCHANGED policy

Here(i) == Live(World, i)
Both(i, x) == Here(i) /\ Here(x) /\ i # x

Init ==
  /\ heap = [a \in Address |-> Unallocated]
  /\ tab = [i \in Object |-> Dead]
  /\ bad = {}
  /\ policy \in Policies

Construct(i) ==
  /\ ~Here(i)
  /\ \E n \in 0..MaxElements, h \in policy.hashers, al \in Allocator :
       Call(construct(World, i, n, h, al))

ConstructRange(i, es) ==
  /\ ~Here(i)
  /\ \E n \in 0..MaxElements, h \in policy.hashers, al \in Allocator :
       Call(construct_range(World, i, es, n, h, al))

CopyConstruct(i, x) ==
  /\ ~Here(i) /\ Here(x) /\ Transfer # "move_only"
  /\ \E al \in Allocator : Call(copy_construct(World, i, x, al))

MoveConstruct(i, x) ==
  /\ ~Here(i) /\ Here(x)
  /\ \/ Call(move_construct(World, i, x))
     \/ \E al \in Allocator : Call(move_construct_with(World, i, x, al))

Destroy(i) == Here(i) /\ Call(Done(destroy(World, i)))

CopyAssign(i, x) == Both(i, x) /\ Transfer # "move_only" /\ Call(copy_assign(World, i, x))
MoveAssign(i, x) == Both(i, x) /\ Call(move_assign(World, i, x))
Swap(i, x) ==
  /\ Both(i, x)
  /\ Propagate \/ tab[i].al = tab[x].al
  /\ Call(swap(World, i, x))
Merge(i, x) == Both(i, x) /\ Call(merge(World, i, x))

Emplace(i, k, v) == Here(i) /\ Call(emplace_impl(World, i, [key |-> k, value |-> v], CopyMayThrow))

InsertRange(i, es) == Here(i) /\ Call(insert_range(World, i, es))

(* = {..}                                                                  *)
AssignRange(i, es) == Here(i) /\ Call(assign_range(World, i, es))

(* What x was saved as comes back into i; in a bad archive the first       *)
(* element is there twice.                                                 *)
Load(i, x) ==
  /\ policy.archives /\ Here(i) /\ Here(x)
  /\ LET es == save(World, x)
     IN  \E more \in {<<>>} \cup {<<es[n]>> : n \in 1..1 \cap DOMAIN es} :
           Call(load(World, i, es \o more))

(* operator[] and insert_or_assign write the value of an element.          *)
Assign(i, k, v) ==
  Here(i) /\ contains(World, i, k) /\ Call(Done(assign(World, i, k, v)))

Erase(i, k) == Here(i) /\ contains(World, i, k) /\ Call(Done(erase(World, i, k)))

EraseIf(i) ==
  Here(i) /\ \E K \in SUBSET Key : Call(Done(erase_if(World, i, K)))

Clear(i) == Here(i) /\ Call(Done(clear(World, i)))

Rehash(i) ==
  Here(i) /\ \E n \in 0..MaxElements : Call(rehash(World, i, n) \cup reserve(World, i, n))

Next ==
  \E i \in Object :
    \/ Construct(i) \/ Destroy(i) \/ Clear(i) \/ Rehash(i) \/ EraseIf(i)
    \/ \E es \in policy.ranges : ConstructRange(i, es) \/ InsertRange(i, es) \/ AssignRange(i, es)
    \/ \E k \in Key : Erase(i, k) \/ \E v \in policy.values : Emplace(i, k, v) \/ Assign(i, k, v)
    \/ \E x \in Object : \/ CopyConstruct(i, x) \/ MoveConstruct(i, x)
                         \/ CopyAssign(i, x) \/ MoveAssign(i, x)
                         \/ Swap(i, x) \/ Merge(i, x) \/ Load(i, x)

Spec == Init /\ [][Next]_vars
-----------------------------------------------------------------------------

TableType == [arrays : Address \cup {Static}, ml : Nat, size : Nat,
              hash : Hasher, al : Allocator]

TypeOK ==
  /\ tab \in [Object -> TableType \cup {Dead}]
  /\ \A a \in Address : heap[a] = Unallocated \/
       /\ heap[a].al \in Allocator
       /\ heap[a].group \in [Groups(heap[a]) -> [byte : [SlotNo -> 0..255], over : SUBSET (0..7)]]
       /\ DOMAIN heap[a].elem = 0..(Pow2[heap[a].log] * N - 2)
  /\ policy \in Policies
  /\ bad \subseteq {"freed twice", "foreign allocator", "element not destroyed", "stale address"}

LiveObjects == {i \in Object : Here(i)}
Of(i) == ArraysOf(World, i)
EntriesIn(w, i) ==
  LET a == ArraysOf(w, i)
  IN  {<<a.elem[p].key, a.elem[p].value>> : p \in {q \in DOMAIN a.elem : a.elem[q] # NoElement}}
EntriesOf(i) == EntriesIn(World, i)

(***************************************************************************)
(* Whatever throws and wherever, the allocated blocks are the arrays of    *)
(* the tables, one each, from the table's own allocator; and no block was  *)
(* ever given back twice, to another allocator or with elements in it.     *)
(***************************************************************************)
MemoryOwned ==
  /\ bad = {}
  /\ \A a \in Address : heap[a] # Unallocated =>
       \E i \in LiveObjects : tab[i].arrays = a /\ heap[a].al = tab[i].al
  /\ \A i \in LiveObjects : tab[i].arrays # Static =>
       /\ heap[tab[i].arrays] # Unallocated
       /\ \A x \in LiveObjects \ {i} : tab[x].arrays # tab[i].arrays

(***************************************************************************)
(* The metadata tell the truth: a byte is a reduced hash exactly where an  *)
(* element is, of that element; the sentinel stands at the end and nowhere *)
(* else.                                                                   *)
(***************************************************************************)
MetadataTrue ==
  \A i \in LiveObjects : Of(i).elem # <<>> =>
    LET a == Of(i)
    IN  /\ \A p \in DOMAIN a.elem :
             LET byte == a.group[p \div N].byte[p % N]
             IN  IF a.elem[p] = NoElement THEN byte = available_
                 ELSE byte = reduced_hash(HashIn(World, i, a.elem[p].key))
        /\ is_sentinel(a.group[Pow2[a.log] - 1], N - 1)

(***************************************************************************)
(* A look-up finds an element wherever probing put it: each full group on  *)
(* its way remembers that it overflowed, whatever was erased since.  A key *)
(* is stored once, and one that is not stored is not found: at throws.     *)
(***************************************************************************)
FindExact ==
  \A i \in LiveObjects :
    /\ \A p \in DOMAIN Of(i).elem :
         Of(i).elem[p] # NoElement => Find(World, i, Of(i).elem[p].key) = p
    /\ \A k \in Key : at_(World, i, k) = {e.value : e \in {d \in ToSet(Elements(Of(i))) : d.key = k}}

(***************************************************************************)
(* size counts the elements and stays within the maximum load, which never *)
(* falls below zero by drift nor exceeds what the arrays are good for; an  *)
(* insertion that size < ml lets through finds a slot, or its loop would   *)
(* not end.                                                                *)
(***************************************************************************)
LoadKept ==
  \A i \in LiveObjects :
    /\ tab[i].size = Len(Elements(Of(i)))
    /\ tab[i].size <= tab[i].ml
    /\ tab[i].ml <= initial_max_load(Of(i))
    /\ tab[i].size < tab[i].ml => HasRoom(Of(i))

(* What look-ups, insertions and rehashes rely on in the arrays and counts.  *)
TableTrue == MetadataTrue /\ FindExact /\ LoadKept

(* operator== compares contents, whatever order and capacity they have.    *)
EqualIsSame ==
  \A i, x \in LiveObjects : Equal(World, i, x) <=> EntriesOf(i) = EntriesOf(x)

(* Iteration from begin() by increments sees the slots in for_all_elements *)
(* order, each once, and ends; equal_range is one step of it.  So what was  *)
(* saved is the same map when it is loaded into a new one, and no address   *)
(* the archive was told goes stale.                                         *)
Anew(i) == [destroy(World, i) EXCEPT !.tab[i] = Emptied(tab[i])]
WalkIsComplete ==
  \A i \in LiveObjects :
    LET o == for_all_elements(Of(i))
        n == Len(o)
    IN  /\ \A l \in load(Anew(i), i, save(World, i)) :
             l.w.bad = bad /\ (l.ok => EntriesIn(l.w, i) = EntriesOf(i))
        /\ begin(Of(i)) = IF n = 0 THEN NoSlot ELSE o[1]
        /\ \A j \in 1..n : increment(Of(i), o[j]) = IF j = n THEN NoSlot ELSE o[j + 1]
        /\ \A k \in Key : contains(World, i, k) =>
             \E j \in 1..n : equal_range(World, i, k) =
                               <<o[j], IF j = n THEN NoSlot ELSE o[j + 1]>>

Entries(es) == {<<es[n].key, es[n].value>> : n \in DOMAIN es}

(* Every call keeps the promises of map objects.                           *)
Maps == INSTANCE MapObjects WITH
  Lossy <- Transfer = "move_only", Fragile <- MoveMayThrow, Dead <- NoMap,
  Ranges <- {Entries(es) : es \in policy.ranges},
  map <- [i \in Object |-> IF Here(i) THEN EntriesOf(i) ELSE NoMap]
MapSpec == Maps!Spec

(* After a call that returned the maps are done, after one that threw they *)
(* are one of failed.                                                      *)
MapsIn(w) == [x \in Object |-> IF Live(w, x) THEN EntriesIn(w, x) ELSE NoMap]
Gives(outcomes, done, failed) ==
  \A o \in outcomes : MapsIn(o.w) \in IF o.ok THEN {done} ELSE failed
Changes(outcomes, i, done, failed) ==
  LET M == MapsIn(World)
  IN  Gives(outcomes, [M EXCEPT ![i] = done], {[M EXCEPT ![i] = E] : E \in failed})

(* Each call on one map does what it is called: a failed insertion or      *)
(* rehash, above all, loses nothing unless elements can only be moved.     *)
TableCalls ==
  \A i \in LiveObjects :
    LET E == EntriesOf(i)
    IN  /\ \A n \in 0..MaxElements :
             Changes(rehash(World, i, n) \cup reserve(World, i, n), i, E, Maps!Left(E))
        /\ Changes(Done(clear(World, i)), i, {}, {})
        /\ \A k \in Key :
             LET others == {e \in E : e[1] # k}
             IN  /\ contains(World, i, k) =>
                      /\ Changes(Done(erase(World, i, k)), i, others, {})
                      /\ \A v \in Value :
                           Changes(Done(assign(World, i, k, v)), i, others \cup {<<k, v>>}, {})
                 /\ \A v \in Value :
                      Changes(emplace_impl(World, i, [key |-> k, value |-> v], CopyMayThrow),
                              i, Maps!With(E, {<<k, v>>}), Maps!Left(E))

(* So does an assignment, a merge or a construction from another map or a  *)
(* range, and when it throws, both maps hold what the guarantee says.      *)
WholeMapCalls ==
  \A i \in Object :
    /\ \A es \in policy.ranges :
         LET E == Entries(es)
         IN  IF Here(i)
             THEN /\ Changes(insert_range(World, i, es), i,
                             Maps!With(EntriesOf(i), E), Maps!Parts(EntriesOf(i), E))
                  /\ Changes(assign_range(World, i, es), i, E, Maps!Parts({}, E))
             ELSE \A n \in 0..MaxElements, h \in policy.hashers, al \in Allocator :
                    Changes(construct_range(World, i, es, n, h, al), i, E, {NoMap})
    /\ \A x \in LiveObjects \ {i} :
         IF Here(i)
         THEN /\ Transfer # "move_only" =>
                    Changes(copy_assign(World, i, x), i, EntriesOf(x), SUBSET EntriesOf(x))
              /\ Gives(move_assign(World, i, x), Maps!Moved(i, x), Maps!NotMoved(i, x))
              /\ Gives(merge(World, i, x), Maps!Merged(i, x), Maps!NotMerged(i, x))
         ELSE \A al \in Allocator :
                /\ Transfer # "move_only" =>
                      Changes(copy_construct(World, i, x, al), i, EntriesOf(x), {NoMap})
                /\ Gives(move_construct(World, i, x) \cup move_construct_with(World, i, x, al),
                         Maps!Moved(i, x), Maps!NotConstructed(x))
=============================================================================
