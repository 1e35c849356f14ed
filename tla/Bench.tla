------------------------------- MODULE Bench --------------------------------
(* src/bench.hpp: each benchmark runs its table's look-ups through           *)
(* benchmark_split, which times them twice with benchmark_batch, once with   *)
(* the core counters and once with the cache counters, around a reading of   *)
(* the recorder before and after.  The counters are never reset: a result is *)
(* a difference of two readings.  While it counts, a group may lose the CPU's*)
(* counters to others: the kernel then only goes on counting its time.       *)
EXTENDS PerfGroups, Workload

CONSTANTS
    Rate,       \* Rate[i]: what a look-up of the i-th measurement adds to each event
    MaxTrouble  \* bound: measurements in which a read of a group fails or it is off

ASSUME TroubleAssumption == MaxTrouble \in Nat
ASSUME RateAssumption == \A j \in DOMAIN Splits : \A e \in Event : Rate[j][e] \in Nat

VARIABLES
    pc,         \* the next statement of benchmark_batch
    set,        \* the counter set it was called with
    n,          \* look-ups of the running loop done, iter * batch_size + i
    sum,        \* sum of the batch, and of the core batch in benchmark_split
    start,      \* the first reading
    counter,    \* the core result benchmark_split keeps
    results,    \* BenchResult per finished measurement, with what befell it
    misread,    \* groups of which a reading of this measurement failed
    off,        \* look-ups of it that each group did not count
    trouble     \* measurements of groups in which something befell them

befallen == <<misread, off, trouble>>
benchVars == <<pc, set, n, sum, start, counter, results, befallen>>
vars == <<recorderVars, benchVars>>

-----------------------------------------------------------------------------
Lookups    == Splits[Len(results) + 1].lookups
batch_size == Len(Lookups) \div ITERS
WarmupIters == 1
WarmupRounds == IF WarmupIters < ITERS THEN WarmupIters ELSE ITERS

\* Mutant: operator- lacks the line of one field.
MinusForgets(a, b) ==
    [f \in Field |-> IF f = "missed_branches" THEN 0 ELSE (a[f] - b[f]) % 2 ^ Word]

Minus(a, b) == [f \in Field |-> (a[f] - b[f]) % 2 ^ Word]

\* A call of the recorder; the first one builds it.
Ready == stage = "built"

Init ==
    /\ RecorderInit
    /\ pc = "returned" /\ set = "core" /\ n = 0
    /\ sum = [core |-> 0, cache |-> 0]
    /\ start = Zeros /\ counter = Zeros
    /\ results = << >>
    /\ misread = {} /\ off = [g \in Group |-> 0] /\ trouble = 0

\* benchmark_split is called.
CallSplit ==
    /\ pc = "returned" /\ Len(results) < Len(Splits)
    /\ pc' = "warmup"
    /\ UNCHANGED <<recorderVars, set, n, sum, start, counter, results, befallen>>

\* Groups of the set that something befalls, for the first time or again.
Fresh(F) == F \ (misread \cup {g \in Group : off[g] > 0})
Hit == {F \in SUBSET {g \in GroupsOf(set) : ok[g]} :
          trouble + Cardinality(Fresh(F)) <= MaxTrouble}
Works(F) == kernel' = Ticked(Rate[Len(results) + 1], GroupsOf(set) \ F)

Warmup ==
    /\ pc = "warmup"
    /\ n < WarmupRounds * batch_size
    /\ n' = n + 1
    /\ Works({})
    /\ UNCHANGED <<others, fds, ok, stage, next, pc, set, sum, start, counter, results, befallen>>

WarmupDone ==
    /\ pc = "warmup"
    /\ n = WarmupRounds * batch_size
    /\ pc' = "disable"
    /\ n' = 0
    /\ UNCHANGED <<recorderVars, set, sum, start, counter, results, befallen>>

\* recorder_instance(): the local static is constructed by its first caller.
BuildRecorder == /\ pc = "disable"
                 /\ Build
                 /\ UNCHANGED benchVars
OpenEvent == /\ \E success \in BOOLEAN : Open(success)
             /\ UNCHANGED benchVars

Disable ==
    /\ pc = "disable" /\ Ready
    /\ disable_all
    /\ pc' = "enable"
    /\ UNCHANGED <<others, fds, ok, stage, next, set, n, sum, start, counter, results, befallen>>

Enable ==
    /\ pc = "enable"
    /\ enable(set)
    /\ pc' = "start"
    /\ UNCHANGED <<others, fds, ok, stage, next, set, n, sum, start, counter, results, befallen>>

Start ==
    /\ pc = "start"
    /\ \E F \in Hit : /\ start' = get_counters(set, F)
                          /\ misread' = misread \cup F
                          /\ trouble' = trouble + Cardinality(Fresh(F))
    /\ pc' = "lookup"
    /\ UNCHANGED <<recorderVars, set, n, sum, counter, results, off>>

\* lookup_fn returns the value of its key, which is the key.
Lookup ==
    /\ pc = "lookup"
    /\ n < ITERS * batch_size
    /\ sum' = [sum EXCEPT ![set] = @ + Lookups[n + 1]]
    /\ n' = n + 1
    /\ \E F \in Hit : /\ Works(F)
                         /\ off' = [g \in Group |-> off[g] + IF g \in F THEN 1 ELSE 0]
                         /\ trouble' = trouble + Cardinality(Fresh(F))
    /\ UNCHANGED <<others, fds, ok, stage, next, pc, set, start, counter, results, misread>>

\* The second reading, disable_all and the return.  After the core batch
\* benchmark_split runs the cache batch; after that it takes the l1d and llc
\* fields from it and returns.
Counted(F) == Minus(get_counters(set, F), start)

Finish ==
    /\ pc = "lookup"
    /\ n = ITERS * batch_size
    /\ n' = 0
    /\ disable_all
    /\ \E F \in Hit :
       /\ trouble' = trouble + Cardinality(Fresh(F))
       /\ \/ /\ set = "core"
             /\ counter' = Counted(F)
             /\ misread' = misread \cup F
             /\ set' = "cache" /\ pc' = "warmup"
             /\ UNCHANGED <<sum, results, off>>
          \/ /\ set = "cache"
             /\ results' =
                  Append(results,
                    [counter |-> [f \in Field |->
                                    IF GroupOf[f] = "core" THEN counter[f]
                                    ELSE Counted(F)[f]],
                     sum |-> sum.core + sum.cache,
                     lookups |-> Len(Lookups),
                     misread |-> misread \cup F,
                     off |-> off])
             /\ counter' = Zeros /\ misread' = {} /\ off' = [g \in Group |-> 0]
             /\ sum' = [core |-> 0, cache |-> 0]
             /\ set' = "core"
             /\ pc' = "returned"
    /\ UNCHANGED <<others, fds, ok, stage, next, start>>

benchmark_split == \/ Warmup \/ WarmupDone \/ BuildRecorder \/ OpenEvent \/ Disable \/ Enable
                   \/ Start \/ Lookup \/ Finish

-----------------------------------------------------------------------------
(* Properties.                                                               *)

\* In the timed loop exactly the events of the requested set that could be opened
\* count; in every other part of the program no event does, so the cache counters
\* never run during the core batch or a warm-up.
OnlyTheSetCounts ==
    LET counting == {h \in DOMAIN kernel : Counting(h)}
    IN  IF pc \in {"start", "lookup"}
        THEN counting = UNION {{fds[g][m] : m \in Events(g)} :
                               g \in {x \in GroupsOf(set) : ok[x]}}
        ELSE counting = {}

\* Every open event is owned by its group, once, and counts only when it is meant to.
EventsInHand == DescriptorsOwned /\ OnlyTheSetCounts

\* A result holds what the timed look-ups of its own set did, nothing of a warm-up
\* or of an earlier benchmark: the group was enabled for as long as they took, had
\* the counters but for the look-ups it lost, and counted the others.  That a read
\* failed spoils the group's part of this one result and nothing else; a group that
\* could not be opened reports zeros.
MeantFor(s, f) ==
    LET enabled == Len(Splits[s].lookups)
        running == enabled - results[s].off[GroupOf[f]]
        word    == WordOf[GroupOf[f]][f]
    IN  CASE word = 1 -> enabled
          [] word = 2 -> running
          [] OTHER -> running * Rate[s][Config[GroupOf[f]][word - 2]]
BatchCounted ==
    stage = "built" /\ pc = "returned" =>
        \A s \in DOMAIN results, f \in Field :
            IF ~ ok[GroupOf[f]] THEN results[s].counter[f] = 0
            ELSE GroupOf[f] \notin results[s].misread =>
                   results[s].counter[f] = MeantFor(s, f) % 2 ^ Word

\* Both batches look up the whole set: the reported sum is twice the sum of its
\* values, and cycles per look-up are divided by the look-ups that were timed.
SumIsTheLookups ==
    pc = "returned" => \A s \in DOMAIN results :
        /\ results[s].sum = 2 * FoldLeft(+, 0, Splits[s].lookups)
        /\ results[s].lookups = Len(Splits[s].lookups)

\* The two together: a result's counters and its sum are of the same look-ups.
CountsAreTheBatch == BatchCounted /\ SumIsTheLookups
=============================================================================
