# Formal models of bench_hashmaps

bench_hashmaps measures how fast six hash maps answer look-ups that always hit,
on x86 Linux and Apple silicon, and prints cycles per look-up and branch and
cache hit rates per table size and batch size. This directory holds TLA+ models
of its parts, TLC runs on small instances, and TLAPS proofs for every instance.

## The system

| part | state | operations | what makes it hard | what makes it correct |
|---|---|---|---|---|
| two-choice table, `TwoWay.hpp` | slot array, `capacity`, `size_`; while an insert runs, the call stack of insert and grow | construct, insert, find, contains, erase, grow, clear, sum_all_values, destroy | grow re-inserts through insert, which grows again; look-up loops without a bound; an allocation nobody checks; stale values in dead places | a map with unique keys; every key where find looks; the count right; each array freed once and read only before |
| perfect hash map, `dynamic_fph_table.hpp` | slots, one parameter per bucket, the keys of each bucket, random_table_ and map_table_, two default keys, begin_it_, item_num_ | emplace, operator[], ranges, erase, clear, rehash, reserve, max_load_factor, find, iteration, copy, move, swap | no empty mark: emptiness is read from the key in the slot; an insert moves a whole bucket, and may move the default key's own slot with it; parameters of unused buckets are uninitialised | maps with unique keys; a look-up hits only stored keys; all records of what is in use agree; a walk sees every element |
| Boost flat map, `boost_unordered.hpp` 5108-9100 | groups of metadata bytes with overflow bits, elements, `ml`, `size` | construct, emplace, assign, erase, erase_if, clear, rehash, reserve, copy, move, swap, merge, iteration, save and load | no tombstones: look-ups trust overflow bits; allocation and construction may throw anywhere; allocators that stay or go along | maps; what throws leaves what its guarantee says; every block freed once, by its own allocator |
| Boost group metadata | one metadata word per slot and an overflow byte | set, reset, match, overflow | three layouts for three kinds of build | the same answers from each |
| Boost `rw_spinlock` | one atomic word | lock, lock_shared, try_*, unlock* | load and compare-exchange are apart | a reader-writer lock; readers cannot keep all writers out, and while threads wait some thread gets in (a single thread may wait for ever) |
| drivers, `bench.hpp` | the table, offsets, sums, the readings before and after | benchmark_batch, benchmark_split, six benchmark_* | two counter sets that must not overlap; counters never reset; subtraction that wraps | a result is what its own timed look-ups did |
| x86 recorder, `measure_x86.cpp` | descriptors of three perf event groups, ok flags | open, enable, disable, read, close | a group that opens half way; a read that fails; a limit of descriptors | no descriptor lost; a group that is not open reports zero |
| Apple recorder, `measure_arm.cpp` | library handles, function pointers, one-shot flags, counter map | lib_init, constructor, get_counters | two frameworks, 57 functions and two dozen calls each of which may fail | what was loaded before a failure is closed once; it measures everything, or the program ends before a reading |
| counters, `measure.hpp` | fourteen words | `-` (and `-=`, `+=`, `/=`, min without a caller) | wrap-around | |
| report, `main.cpp` | results, cells | make_keys, look-up sets, scale_counter, hit_rate_percent, tables | zero denominators, wrapping products, descriptors never closed | a cell follows from its counters |
| Abseil and standard maps; tests; build files | external, or no state | | | |

How they meet: `main` makes keys 1..N and two collections of look-up sets, and
for each calls six `benchmark_*` functions. Each fills one table and passes each
look-up set to `benchmark_split`, which runs `benchmark_batch` twice, once per
counter set (elsewhere than on Linux once). A batch warms up, switches the
recorder's groups, reads, looks up, reads, and returns the difference. The
recorder is a static instance built by its first use. The program is one thread; the only
concurrent party is the kernel, which counts. The tables are containers whose
callers may call them in any legal order, and are modelled as such.

The hazards, each at its line and with the properties that would catch it, are in
`PROJECT.json`.

## The modules

    KeyValueMap <- TwoWay <- TwoWayReads <- MCTwoWay
    FphTables, MapObjects <- DynamicFph <- MCDynamicFph
    PerfGroups, Workload <- Bench <- Report <- MCBench
    ArmRecorder <- MCArmRecorder
    Group15 <- GroupMetadata <- InterleavedGroup
    Group15 <- FlatArrays; FlatArrays, MapObjects <- FlatTables <- MCFlatTables
    FlatTables <- FlatWalk <- MCFlatWalk      FlatArrays <- FlatSizes <- MCFlatSizes
    RwLock <- RwSpinlock

    TwoWayReads <- TwoWayProofs
    DynamicFph <- FphProofs
    FlatTables <- FlatProofs
    Report <- BenchProofs
    ArmRecorder <- ArmRecorderProofs
    InterleavedGroup <- GroupProofs
    RwSpinlock <- RwSpinlockProofs
    NumberLemmas <- TwoWayProofs, FphProofs, FlatProofs, GroupProofs, BenchProofs,
                    ArmRecorderProofs

(`A <- B`: B extends or instantiates A.) The abstract specifications are
`KeyValueMap` (one table whose insert takes a while), `MapObjects` (several maps that
are copied, moved, merged, and may fail), `RwLock`, and `GroupMetadata` for the
interleaved layout. Definitions that carry the comment "Mutant" are what a likely
mistake would make of their neighbour; no specification uses them.

### TwoWay, TwoWayReads, KeyValueMap

One slot is a record of `BUCKET` keys and values, an array a function from slot
numbers, the heap a function from addresses to arrays. `data`, `capacity` and
`size_` are the members. `insert` and `grow` call each other, so their activations
are state: `arg` is the entry of the running insert, `frames` the stack of grow
activations with the old array, its capacity, the loop counters `i` and `j` and
the entry their caller will retry. The actions are the points where that
recursion can turn:

| action | code |
|---|---|
| `Insert` | a caller calls insert; legal only for a new key, as the comment on it says |
| `Place` | lines 37-62 when a place is free: the emptier slot takes the entry |
| `Grow`, `GrowFails` | lines 126-132, with the allocation served or refused |
| `Migrate`, `NextSlot` | one turn of the inner or outer loop of lines 133-138 |
| `GrowReturn` | lines 139-140 and the retry of line 51 |
| `Erase`, `Clear`, `Destroy` | lines 98-124, 142-145, 32-34 |

The look-ups and `sum_all_values` change nothing and are operators over the same
state; `find_indexed` is find with the hash passed in. A place that nobody wrote
holds the value `Indeterminate`, so that reading it would show. squirrel3 is the
constants `H1` and `H2`, the two halves of the hash. Callers call find and erase
with keys that are in the table, as the benchmarks and tests do: for others their
loops have no end.

`KeyValueMap` is what the table promises while a grow may be in progress: an
insert adds its entry when it is called, `Return` ends it, and no internal step
shows. `MapSpec` says TwoWay implements it, the entries being those of all places an
entry can be: the array, the unread part of every old array, the running insert
and the waiting retries.

### FphTables, DynamicFph

`FphTables` is the table, a record, and each operation on it the set of tables it may
leave; nobody sees a table half changed. Hash words have `Word` bits; an index is
their high bits or, under the other index policy, their low ones. A slot whose
`value` is `NoValue` holds only a key; the code cannot see that, which is what
`EmptyIsUnused` is about.

| operator | code |
|---|---|
| `BuildImp` | BuildImp, part by part: array capacities (`Allotted`), the search for parameters, largest bucket first (`Placements`, `Laid`), the default keys (`DefaultKeys`), elements put down over them (`Furnished`, `Filled`), begin (`Begun`), and the buckets' lists from a walk (`Tracked`) |
| `Grown`, `PutAt`, `NewParams`, `Relocated`, `Rebuilt` | the branches of FindOrAlloc |
| `Landed`, `SecondKeys` | the two delicate parts of a relocation: lines 3008-3063 and 3066-3105 |
| `rehash`, `EraseAt`, `Cleared`, `Copied` | rehash, EraseImp, clear, the copy constructor |
| `Walk`, `Advanced` | begin() to end() with ForwardIterator::operator++ |

`DynamicFph` has objects that hold such tables: they are constructed, also from
ranges (`InsertNoDuplicated`), copied, moved from, swapped (the move assignment is a
swap) and destroyed, each begin() remembering which object it calls back, and one
loop may walk a map and erase. A moved-from object has no parameter block: size,
begin, clear, assignment and destruction work on it; find, contains and erase by
key would read its null arrays, so callers in the model make them only on maps
with slots. While a loop is under way nothing but the loop changes maps.

The random engines become choice: seeds, default keys, and any slot order of
random_table_, hence any parameter that fits. The retry loops (10 * 100 * 1000 *
1000 seeds and more, 10000 and 100000 keys) are taken to find what exists; when
nothing does, the model has no step where the code throws. Load factors are
exact fractions. `policy` is what a program fixes when it is compiled: index
policy, limits, the keys, ranges and counts its calls are given.

### Group15, GroupMetadata, InterleavedGroup, FlatArrays, FlatTables, FlatWalk, FlatSizes

`Group15` is the arithmetic of metadata bytes (reduced hash, sentinel, overflow bit).
`GroupMetadata` is one group in the byte layout with its operations as actions,
`InterleavedGroup` the bit-interleaved layout as a refinement of it, question by
question, together with the masks of the Neon build.

`FlatArrays` has the pure parts of foa::table_core on one pair of arrays: sizes from
float load factors, quadratic probing, find, unchecked insertion, erasure with its
effect on `ml`, iteration over occupied slots, hash mixing. `FlatTables` has the objects: `heap`
(addresses to arrays), `tab` (address, ml, size, hash function, allocator), `bad` (what
may never happen to memory: a double free, a free by a foreign allocator, an array freed
with live elements, an archive address gone stale). An operation is the set of its
outcomes, each a world and whether the call returned; wherever the code may throw
(allocation, and construction of an element) there is one outcome for each
place, with the work of the destructors on the way out. `Transfer` distinguishes elements that are
moved without throwing, moved and may throw, or copied when tables grow. Archives
(`save`, `load`) follow the serialization of tables: a count and the elements, each
announced with its address; an archive that repeats an element is one that `load`
must survive. Float load factors are exact to `FloatBits` digits. `FlatWalk` walks one table with erase(it) and erase(first, last)
while others insert and erase between the steps. `FlatSizes` enumerates the
arithmetic alone: float rounding in reserve and growth, group alignment in the
allocation, and mulx64 from half words.

### RwSpinlock, RwLock

The atomic word is its three fields; every access is one atomic step, so a thread
stands between its load (`seen`) and its compare-exchange, which may fail weakly.
The memory orders are not modelled: there is one word, and what the lock protects
is outside. A turn of a loop that sees the word taken changes nothing, and neither does
the wait after it.

### PerfGroups, Workload, Bench, Report

`PerfGroups` has the recorder's variables (`fds`, `ok`) and the kernel's
(`kernel`: open descriptor to event, count, whether it is enabled, and times).
`Open` opens one event or is refused, for lack of descriptors too; after the last of
a group the group is ok or `close_all` closes what it has. An ioctl on a leader
switches its group. `Workload` is the list of measurements `main` makes, in order.
`Bench` is `benchmark_split`: warm-up, the building of the recorder by its first use,
disable, enable, first reading, the timed look-ups, second reading. `Rate` says what
one look-up adds to each event, differently in each measurement. A read may fail and
a group may be off the CPU in `MaxTrouble` measurements. `Report` adds the rest of
main: the descriptors of /dev/null that nobody closes, and the printed tables with
scale_counter and hit_rate_percent on words. The six benchmark functions differ only
in the table; here a look-up returns its key, as all six do.

### ArmRecorder

`lib_init` is one step per dlopen (`OpenFramework`) and per dlsym (`FindFunction`), in the
code's order: kperf, kperfdata, the functions of the one, those of the other. `handles` are the
two static handles, `refs` counts each framework's dlopens less its dlcloses, and `impl` how many
pointers of each table are set; as the loops set them in order and the clean-up resets
them all, a number says which. Any of these steps may fail instead (`LoadingFails`), with
whatever is open and found by then for `lib_deinit` to take back; dlclose itself is taken to
work. The early return for a second call (646) is a guard: the one
caller is the constructor of a static object. Then come the
constructor's calls one by one, each of which may fail, the mapping of events to whatever
counters the library assigned, and the readings around the (only) core batch.

## The runs

| run | bounds | states | what it shows |
|---|---|---|---|
| `two_way` | 5 keys that crowd two slots, two values, two places per slot, capacity 2 to 8, three addresses | 609 k | grows that nest, succeed or die: ownership, counts, look-ups, sums, depth, refinement of KeyValueMap, and that insert returns |
| `fph` | six instantiations: relocations under a bad and a good seed, growth to 8 slots and back, low load factors, erasing loops, pairs of maps, arrays larger than needed | 73 k | look-ups, records, walks, array sizes, refinement of MapObjects; deadlock is checked |
| `fph_small_keys` | caller's and generated keys overlap | violation | the first finding |
| `bench` | two sizes, two tables, two patterns, batches of 1 and 2, every subset of events refused, descriptors up to 12, one misread or off-CPU group, 14-bit words | 638 k | counts, sums, descriptors, cells, termination |
| `arm_recorder` | four processors' databases, five counters, any of the 59 steps of loading or any call failing, one misread, 4-bit words | 14 k | handles, pointers and clean-up at every step of loading, fields, all-or-exit |
| `rw_spinlock` | 3 threads, at most 2 readers in the count | 5 k | the word, the pending bit, refinement of RwLock, progress |
| `group_layouts` | 3 slots, hashes 0, 1, 2, 9, 255 | 8 k | the layouts agree |
| `flat_table` | one table of groups of two, up to 4 elements and groups, failures anywhere, archives | 2 k | metadata, look-ups, load, guarantees of single calls, iteration, archives |
| `flat_objects` | two tables, two keys and values, two allocators, two hash functions, failures anywhere, copied or move-only elements; symmetric in objects, allocators and values | 9 k | memory, whole-map operations, equality, refinement of MapObjects |
| `flat_walk` | one table, four keys, three of them in one group | 130 k | a loop that erases misses nothing and stands on elements |
| `flat_sizes` | counts to 600 with five-digit floats, element sizes 1 to 16, six-bit words | 601 | room for what is asked; groups inside the allocation; the mixers of 64-bit builds agree |
| `flat_move_assign_throws` | two tables, unequal allocators, two hash functions | violation | the second finding |

Why the bounds are enough to be interesting. The halves of the hash in `two_way` are
chosen so that what fitted before a grow arrives in another order and overflows
again; nesting is bounded by the doublings, and two places per slot are the least
for which erase has a gap to close. In `fph`, seed 1 makes keys 1 and 3 collide
under the first hash and 1 and 2 under the second, so that failed searches and
rebuilds occur, and a default key shares a bucket with callers' keys, which is what
relocation is hard for. In `flat_table` three of four keys begin in one group of two
slots, so overflow bits, drifting `ml` and probing past a full group all occur; hashes
with the reserved bytes occur too. `flat_objects` has the least tables between which
all whole-map operations are possible; what fills groups is left to `flat_table`.
Three threads are the least with a writer that waits for one while another comes;
five digits bring float rounding into the range of small counts. The words of `bench` are just
wide enough that products wrap in some cells and not in others.

Deadlock is not checked where the program really stops: a destroyed or crashed
table, an ended program; and `flat_sizes`, which only counts.

Symmetry is used only in the two runs on `FlatTables` whose properties are safety
properties; addresses are ordered by the allocator's choice and are no symmetry set.

### Fairness

Most of the code is one thread, so fairness says only that it goes on running.
`InsertReturns` assumes weak fairness of the internal steps of insert and grow and
nothing of the callers; `Ends` and `MeasuresOrExits` of the program's next step.
`WaitersGetIn` assumes of each thread that it keeps running and lets go of the lock
(weak fairness of its steps), and that a compare-exchange which can win again and
again finally does (strong fairness): threads wait longer between attempts the longer
they wait, and weak failures are spurious. Nothing is assumed about the order in
which threads call.

### Findings

*A relocation can make a key appear that nobody inserted* (`fph_small_keys`).
Say the bucket of the default key moves, an element equal to the second default key
moves with it, and the default key's new slot is the second key's slot. The second
key is drawn again and written to the old slot (3094-3097), which is then to get the
default key back (3122-3129). That is skipped if the moved elements included the
second default key and the old slot is where it belongs; but the flag speaks of the
old second key and the position of the new one. When they meet, the new second
key stays in a slot where a look-up of it hits. An erase of that key fails the assertion at line 2743, and
without assertions removes an element that is not there. The run `fph` therefore
keeps callers' and generated keys disjoint; for the benchmark's 64-bit keys and a
random generator, a meeting has a chance of about one in 2^48.

*A move assignment that throws makes the source forget* (`flat_move_assign_throws`).
Between unequal allocators that do not go along, the hash functions are swapped
before memory is reserved (6521). When that throws, the source still has its elements,
placed by a hash function it no longer has, and does not find them. Other runs give
such tables equal hash functions; stateless ones, as the benchmark's, are safe.

Seen on the way and not made runs: the comment in `unlock_shared` (`boost_unordered.hpp`
4617-4618) says of the waiting writer that "it will clear the bit on unlock". The code contradicts it:
`lock` (4655-4656) and `try_lock` (4637-4638) put `locked_exclusive_mask` in the place of the word,
so the pending bit goes when a writer gets in, whether or not it is the one that set it, and `unlock`
finds it clear. `PendingHonoured` and its theorem `PendingKept` state what the code does. Nothing
breaks, as bit 31 keeps readers out from then on. The copy constructor of the perfect hash map
leaks its arrays if copying an element throws. `Ceil2(1)` is 2 although its comment
says the smallest power of two not smaller; a static_assert at 301 wants it so.
A map is never
filled beyond the limit of its bucket parameters: the comment at 38-44 makes that
the caller's duty and the assertion at 2957 relies on it.

## What is proved

Each theorem holds for all values of the constants that satisfy the named
assumptions of its module. Where a run checks the same property, the theorem is
listed with it in `PROJECT.json`.

### The two-choice table

`TwoWayProofs` proves for every key set, hash, bucket size, capacity, memory limit
and call sequence, from the four named assumptions of TwoWay (keys below `EMPTY`,
a hash that is a function, at least one place and one slot, distinguished nulls):

- `TypeCorrect`: every array that the table or an unfinished grow reads is
  allocated, with the capacity by which it is indexed;
- `NoLeakNoDoubleFree`: the blocks allocated are the table's and those of unfinished
  grows, all different;
- `KeysWhereFindLooks`, `SizeIsRight`, and both together, `TableIsSound`: slots are filled
  from the front, each key is in a slot its hash names, `size_` counts them at every step;
- `ContainsIsExact`: between calls contains is true of exactly the keys in the table;
- `FindEnds`: between calls the loops of find and erase, which have no bound, are
  left by a hit for every key of the table;
- `GrowNestsByDoubling`: each nested grow at least doubles the capacity of the one
  around it.

All follow from `Safety`: the inductive invariant `IInv` is the conjunction of
`TypeOK`, `Ownership`, `SlotsCompact`, `KeysPlaced` and `SizeIsCount`. None is inductive
alone. A write through `data` keeps the frames' arrays intact only because
`Ownership` says no frame holds that address; `Migrate` inserts a proper value only
because `SlotsCompact` holds of old arrays as well; `GrowReturn` frees the right block
only because the frames' blocks differ from each other. There is one lemma per
action, and under it one step per conjunct that the action can disturb. `PutGood`
and `RemoveGood` say what writing or removing one entry does to one array, `TableChanges`
and `FrameMoves` carry that over to the heap and the stack. `FillIsFirst`, from
`LeastNatural`, says that the loops at lines 45-48 stop at a first free place,
which is what makes `Fill` well defined. `ContainsIsExact` and `FindEnds` need no more
than `IInv`: `EntryIsContained` turns the place of a key into the number of the probe
that reads it, behind places that `SlotsCompact` says are taken. `NestedGrow` is
inductive beside `IInv` (`NestedStep`): a new frame remembers the capacity that was
doubled, and the loops never change what a frame remembers.

The second half of `TwoWayProofs` goes on to what the table holds:

- `EachEntryOnce`, `KeysAreUnique`: no key is held twice, counting the array, the unread
  parts of old arrays, the running insert and the waiting retries;
- `FindIsExact`: between calls find returns the value of every key of the table;
- `TableIsMap`: the table implements `KeyValueMap` (`MapSpec`);
- `GrowthIsBounded`: grows nest by doubling, and the program dies of a refused
  allocation only if more keys share the two slots of the entry than fit in them;
- `LookUpsAreExact`: keys are unique, look-ups answer for exactly the caller's entries,
  and `sum_all_values` returns the sum of their values (if values are integers,
  `ValueAssumption`).

The idea is to follow each entry together with the place that holds it (`Held`). For
each internal action there is a function from the pairs of a place and an entry before the step to
those after (`Carried`): `Place` hands the argument of insert to a slot, `Migrate` the next
entry of the innermost grow's old array to insert, `GrowReturn` the waiting retry. A move cannot make one
entry two, so `HeldOnce` is inductive, and since it forgets no entry, an internal step is
invisible to `KeyValueMap`; this one lemma per action gives uniqueness and
refinement alike. For the crash, the places of two full slots are mapped injectively
to the keys that hash to them (`FullIsCrowded`); that the keys are countable at all is an invariant of
`KeyValueMap` (`Countable`). The code adds up places in the order of the array, the property adds up entries as a set:
`PlacesSum` and `EntriesSum` show that the folds of both exist and do
not depend on the order, by the least size for which they would, and `SumFollows` that the
entry of a place is a bijection.

### The perfect hash map

`FphProofs` proves, for every set of keys, pair of hash functions, width of hash words,
number of slots and buckets, luck of the random engines, number of maps and program of calls
and loops, and for both index policies:

- `FphSafety`: the inductive invariant `FphInv`, from which the others follow;
- `TypeCorrect`: sizes are powers of two within the limits, seeds are among those drawn;
- `RecordsNeverPart`: the objects in the slots, the keys by which `IsSlotEmpty` tells, the filled
  part of random_table_ and the buckets' lists agree on what is in use;
- `LookUpsAreExact`: find, contains, at and equal_range hit exactly the stored keys;
- `WalksAreWhole`: size() steps from begin() visit each element once;
- `PartsAlwaysMatch`: arrays are as long as recorded and needed, and begin() is its own map's;
- `LoopsSeeAll`: a loop that erases ends only after it stood on every element left;
- `CallsAlwaysTrue`: erase, insert of a range, assignment and copies do what they say;
- `TablesAreMaps`: the maps implement `MapObjects` (`MapSpec`).

Each has one hypothesis, `KeysApart`: the generator of default keys returns no key that a caller
stores. It is needed: `fph_small_keys` drops it, and TLC finds the relocation in which
the code goes wrong. Every policy of the run `fph` satisfies it. The assumptions,
which TLC evaluates in both runs, say that hashes are words of `Word` bits (`FphAssumption`), that limits
are powers of two, load factors proper fractions and ranges without a key twice, as
InsertNoDuplicated asks (`PolicyAssumption`), and that `Dead` and `MovedFrom` are no tables
(`ObjectAssumption`).

A table is `Good` when it meets four conditions. `Own`: it is its own object's. `Sizes`: sizes and
arrays are within their limits. `Filling`: every slot holds an element *in the slot where its
key is looked up*, or the default key that marks it as empty, and the two default keys have different slots.
`Records`: filled slots, buckets and count are those of the elements, and begin is one of
them. A live map's table is Good, or no Build has laid it out yet (`Unbuilt`). `Filling` is what
everything rests on: an empty slot is told by its key alone, so a slot that looks empty
must not hold an element (its key would be a generated one, which `KeysApart` excludes) and a key that
is looked up must not be hit by what an element left behind. None of the run's invariants is inductive
alone: an insert trusts `IsSlotEmpty`, a relocation trusts the bucket's list to name all that must
move and random_table_ to name what may not be hit, and the rebuild trusts the walk.

There is one lemma per operator, of the form: a Good table becomes Good tables, and its store of
elements becomes this. The powers of two come first (`Pow2Rec`: the recursive function by
which they are defined exists), then both index policies (a shift by an offset is a shift of
slots), the walk (`Dist` numbers elements by their way from begin(), so that n steps have
passed the n nearest, and `Walk`'s recursive function exists), the relocation (`Landed`,
`SecondKeys` and `Relocated`, the longest proof, by whether the default key's slot moves, is left or is
landed on), and `BuildImp` (`PlacementIs`: no two keys of all buckets share a slot; `FirstBucketIs`: begin is an
element's). `InsertedIs` follows a range by the least prefix for which it would fail. `CallKept`
and `PairKept` put the operators into the actions on one and on two maps; `LoopKept` says a loop after
n steps has seen the n elements nearest to begin(), which `EraseHereKept` carries through erase although
begin() moves. For the refinement each operator's word on the store is a step of
`MapObjects`.

### The x86 recorder and the drivers

`BenchProofs` proves, for every workload, set of refused events,
failing reads, number of descriptors, rate of events and width of a counter:

- `EventsAreInHand`: each open descriptor is owned by one event of one group; a group is
  wholly open or wholly closed; and a group counts exactly during the timed
  look-ups of its own counter set;
- `ReportedIsTheBatch`: each field of a result is what the timed look-ups of its set did to
  that event, modulo the width of a counter, or zero if the group is not open; the sum is
  twice that of the look-up set.

The invariant of the first, `HandInv`, has three parts: descriptors are owned, and what is not
yet open is `NoFd` (`RecorderInv`); no batch goes on before the recorder is built
(`BatchTyped`); and a leader is enabled exactly in a measurement, and then
its members are (`LeadersSwitch`), as ioctls name only the leader. The second adds
that a batch begins with nothing done and nothing amiss (`FreshInv`), what the
counters say in the middle of a batch (`CountInv`: after k look-ups the reading now and
the reading at the start differ by what k look-ups do, modulo `2^Word`), and what the sums
say (`SumInv`, with a running sum). Counters are never reset, so without the subtraction of the
first reading the second result of a group would contain the first. The workload's lists come from
`FlattenSeq` and the sums from `FoldLeft`, which are recursive functions: `FlattenTyped` and `RunningSumIs`
show that they exist and are what they should be.

Assumed, and evaluated by the run: at least one iteration, batches that are not empty, drawn indices that are
indices of keys (`WorkloadAssumption`, `DrawnAssumption`), natural rates (`RateAssumption`),
natural limits (`DescriptorAssumption`, `TroubleAssumption`), and a counter that has at least
one value (`WordAssumption`, which says so of `2^Word`: the provers know nothing of `^`).

### The Apple recorder

`ArmRecorderProofs` proves, for every database of events, batch and width:

- `NothingWild`: at whichever framework or function `lib_init` fails, each framework it opened
  is closed once and no pointer into it stays set; otherwise everything is found, and no
  call goes through a pointer that is not set;
- `ResultsAreTheBatch`: each field of a result is its own event's count over the batch, wherever
  the library placed the event.

`LoadedInv` adds to `SafelyLoaded` the types of what is loaded and where in the constructor
each flag is set. A failure closes exactly what is open because handles and
references agree at every step (`HandlesTrue`, kept by `MoreLoaded`, used by `Unloaded`); that the tables
leave out no function that is called is `CallsAreCallable`.
`FieldsInv` says that each event was found under the first of its names that the database has,
that different events have different counters, that the kernel was told to count them before the first reading,
and how far a measurement has got. Assumed: counters are numbers, rates and batches natural,
and `WordAssumption` again.

### The group without SIMD

`GroupProofs` proves, for every size of group from two slots and every set of hashes:

- `InterleavedIsRegular`: every step of the bit-interleaved group is one of the byte layout;
- `QuestionsAgree`: matching, the masks of free and taken slots, the sentinel test, and
  blame for overflow have the same answers in both;
- `BlameIsRight`: a hash that overflowed finds its bit, and so does an erased element
  that was given such a hash;
- `BuildsAgree`: all of that, and the masks of the Neon build are the same sets of slots
  (`SameAnswers`).

Everything rests on `PlacesApart`: bit i of slot p lies where no other bit does, the overflow bits included.
With it a word is one nibble per slot (`Nibble`), writing a nibble changes only its
slot (`PutNibble`), and the folds of the mask arithmetic come down to a statement about
each nibble (`FoldIs`). The invariant `GroupInv` says that only the last slot can be the
sentinel, that a byte agrees modulo 8 with the hash it was reduced from, and that the overflow bits are those of the
hashes that overflowed. With a single slot the gathering of low bits in
`maybe_caused_overflow` would read another lane; that is why `NAssumption` asks for two (the code has 15).

Neon has no instruction that gathers a bit of each lane, so the code cuts the lanes to
powers of two, zips the halves and adds. `MovemaskIs` shows that the sum is the number whose
bits are the lanes: a pair of halves adds two different powers (`Zipped`), and the order of the
additions does not matter. `BitsBelow` says that a number of bits below n is less than
2^n, so the final mask takes off the lane of the overflow byte and no other.

### The flat map's arrays

`FlatProofs` proves, for every number of slots in a group, width and values of the hash words, number
of groups, set of keys and values, and assuming `SlotsAssumption`, `HashBitsAssumption`,
`HashAssumption` (a mixed hash is a word) and `AddressAssumption` (no block is at the static groups' address):

- `ProbingVisitsAll`: the quadratic prober comes to every group before it gives up;
- `RoomLeft`: arrays that hold fewer elements than slots have an available one;
- `LookUpsSound`: contains and at answer for exactly the entries there are;
- `InsertSound`, `EmplaceSound`, `EraseSound`, `AssignSound`, `ClearSound`: each call does to
  the entries what it is called, leaves the table sound and the rest of the world alone,
  also when the construction of an element throws;
- `IncrementIsNext`: an increment, from an occupied or an erased slot, comes to the next element
  or, past the last one, to the end.

Turns of the prober are triangular numbers apart. `TurnsDiffer`: two of them within 2^n turns cannot be
equal modulo 2^n, because twice their distance is a product of an odd and an even factor, and the
even one alone would have to be divisible by 2^(n+1) (`OddFactor`). By `TurnsCover`
2^n turns that differ are all groups.

A table is `Sound` when its size counts its elements and its arrays are `Good`: the metadata tell the truth
(`MetaTrue`, which is `MetadataTrue` of one table), no key is there twice (`KeysOnce`), and
each element is in a group that a look-up of its key reaches (`OnWay`). The last is what erase
must not break: it makes a full group one with room, but `reached` depends on the overflow bits alone,
which only grow (`ReachedGrows`). An insertion that throws has marked the groups it passed, which is
why `EmplaceSound` speaks of that outcome too. `ChangedGood` puts the calls that write one slot in one form.
These are theorems about operators, with soundness of the table before the call as hypothesis. That
every table with arrays is `Sound`, and its maximum load within its capacity, in each
reachable state is what `TableTrue` checks. A rehash, a copy, a merge and an archive are
folds of `InsertSound` and `EraseSound` over the elements.

### The lock

`RwSpinlockProofs` proves for any finite set of threads and any largest count:

- `HoldersCounted`: the word is true of the threads (`WordIsTrue`): its exclusive bit and its
  count are the threads that hold the lock, and a pending bit has a writer waiting;
- `PendingKept`: while a writer is announced nobody becomes a reader, and the bit goes
  only when a writer gets in;
- `ImplementsRwLock`: a step is one of a reader-writer lock or invisible.

The inductive invariant adds `SeenFits` to `WordIsTrue`: what a thread saw when it
loaded still meets the test it made. With it an exchange that succeeds, and so finds the word
unchanged, may do what the test allowed. The count is a cardinality, so
one lemma per action says which thread joined or left the holders.

### Only model-checked

- Liveness (`InsertReturns`, `Ends`, `MeasuresOrExits`, `WaitersGetIn`): fairness and ENABLED
  are out of the provers' reach.
- `ReportTrue`: exact decimal digits and products that wrap: powers written `^`, of which
  the provers know nothing.
- What the runs say of whole worlds of flat maps (`TableTrue`, `MemoryOwned`, `EqualIsSame`,
  `TableCalls`, `WholeMapCalls`, `WalkIsComplete`, `MapSpec` of `FlatTables`; `LoopSeesAll` of `FlatWalk`): the
  calls that move many elements are folds over sets of outcomes, one for every point of
  failure, and that new arrays have room for all of them is arithmetic of rounded
  floats. What single calls do to a table is proved, see above.
- `SizesSuffice` and `MixesAlike` (`FlatSizes`): rounding, and exclusive or of words (`Bitwise`).
- `EraseFindsFilled` is violated in `fph_small_keys`; under `KeysApart` it follows from
  `RecordsNeverPart` and `LookUpsAreExact`.

## The plan

Done: every part of the program's own code and of the vendored tables it uses; the
proofs above. Left, in this order:

1. For the flat map, that every array has one owner (`MemoryOwned`), from a lemma for each operator
   that allocates or frees; then `Sound` as an invariant of all tables, from the
   theorems of `FlatProofs` and a bound of `FloorLoad` and `CeilLoad` by their arguments.
2. `ReportTrue` without digits: that a cell's quotient is the floor of the true one when no product wraps.

## Not modelled, and why

- What a failed search for parameters leaves to buckets that its seed used and the successful seed
  does not (`dynamic_fph_table.hpp` 3550): such a bucket keeps in the model what its memory held before
  the build, which is already any of `policy.garbage` in new memory; the proofs need no more of it than that it is a parameter.
- `scale_counter`'s products beyond 127 bits, which the code's signed type cannot hold.
- The exceptions of searches that give up (`dynamic_fph_table.hpp` 3591, 3088): the
  searches are abstracted to what they can find.
- References to elements of a table as arguments of its own insertion (2811): values
  are passed by value; the raw storage of moved elements is not in the model.
- `operator==` of the perfect hash map (1989) calls a `capacity()` that no class defines,
  and its `erase(first, last)` (2778) erases a const_iterator, which no overload takes:
  no program that uses them compiles.
- Boost's other containers, and its configuration and type traits: the program instantiates
  none of them. Memory orders of `rw_spinlock`, as said above.
- `measure_arm.cpp` ends with an unmatched brace (line 955), so no build of it exists at
  this commit; the model is of the code without that brace.
- `-=`, `+=`, `/=`, min and the formatter of `measure.hpp` have no caller.
- Abseil and the standard maps are external. The unit tests make calls that are
  actions of TwoWay. Build files and the readme have no behaviour. Prefetching and
  memory use have no effect on any property.
