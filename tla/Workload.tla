----------------------------- MODULE Workload -------------------------------
(* What src/main.cpp measures: for each table size the tables of             *)
(* src/bench.hpp, each with look-ups drawn at random and with look-ups of    *)
(* the keys in turn, in batches of each size.                                *)
EXTENDS Integers, SequencesExt

CONSTANTS
    NUM_KEYS_SHIFT,    \* the table sizes, as powers of two
    BATCH_SIZE,        \* look-ups in a batch
    ITERS,             \* batches in a measurement
    Table,             \* the tables, in the order they are benchmarked
    Drawn              \* Drawn[shift]: the indices its generator draws, in order

ASSUME WorkloadAssumption ==
    /\ ITERS \in Nat \ {0}
    /\ NUM_KEYS_SHIFT \in Seq(Nat) /\ BATCH_SIZE \in Seq(Nat \ {0})
    /\ Table \in Seq(STRING)

Pattern == <<"random", "dense">>

make_keys(num_keys) == [i \in 1 .. num_keys |-> i]

\* Indices drawn for the batch sizes before the b-th.
DrawnBefore(b) == ITERS * FoldLeft(+, 0, SubSeq(BATCH_SIZE, 1, b - 1))

\* The generator draws indices of keys, of which there are some.
ASSUME DrawnAssumption ==
    \A s \in DOMAIN NUM_KEYS_SHIFT :
        LET shift == NUM_KEYS_SHIFT[s]
        IN  /\ 2 ^ shift \in Nat \ {0}
            /\ \A b \in DOMAIN BATCH_SIZE : \A i \in 1 .. ITERS * BATCH_SIZE[b] :
                  Drawn[shift][DrawnBefore(b) + i] \in 0 .. 2 ^ shift - 1

lookup_sets(pattern, shift) ==
    LET keys == make_keys(2 ^ shift)
    IN  [b \in DOMAIN BATCH_SIZE |->
           [i \in 1 .. ITERS * BATCH_SIZE[b] |->
              IF pattern = "random" THEN keys[Drawn[shift][DrawnBefore(b) + i] + 1]
              ELSE keys[((i - 1) % Len(keys)) + 1]]]

\* A table is filled with the keys and then measured with each of the sets.
benchmark(pattern, shift, t) ==
    [b \in DOMAIN BATCH_SIZE |->
       [pattern |-> pattern, shift |-> shift, table |-> t, batch |-> b,
        lookups |-> lookup_sets(pattern, shift)[b]]]

run_benchmarks(pattern, shift) ==
    FlattenSeq([t \in DOMAIN Table |-> benchmark(pattern, shift, Table[t])])

\* Every measurement of the program, in the order main makes them.
Splits == FlattenSeq([s \in DOMAIN NUM_KEYS_SHIFT |->
                        FlattenSeq([p \in DOMAIN Pattern |->
                                      run_benchmarks(Pattern[p], NUM_KEYS_SHIFT[s])])])

SplitsPerSet == Len(Table) * Len(BATCH_SIZE)
SplitsPerSize == Len(Pattern) * SplitsPerSet
=============================================================================
