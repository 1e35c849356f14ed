------------------------------ MODULE Report --------------------------------
(* main of src/main.cpp: runs the measurements, hands every sum to a         *)
(* descriptor of /dev/null it never closes, and prints a table per pattern   *)
(* and size, a row per hash table and a column per batch size.               *)
EXTENDS Bench

VARIABLES
    sunk,       \* results whose sum went to /dev/null
    printed     \* sections printed; print_section(p) is what the p-th shows

reportVars == <<sunk, printed>>

-----------------------------------------------------------------------------
(* The numbers of a cell.                                                    *)
NA == -1    \* shown as "na"

\* Mutant: the ratio of the times is the wrong way round.
scale_back(count, time_enabled, time_running) ==
    IF time_enabled = 0 \/ time_running = 0 \/ time_enabled = time_running THEN count
    ELSE ((count * time_running) \div time_enabled) % 2 ^ Word

\* A group that was off the CPU for a while is extrapolated, in a signed double
\* word, whose limit the model leaves out; the quotient is cut to a word.
scale_counter(count, time_enabled, time_running) ==
    IF time_enabled = 0 \/ time_running = 0 \/ time_enabled = time_running THEN count
    ELSE ((count * time_enabled) \div time_running) % 2 ^ Word

hit_rate_percent(accesses, misses) ==
    IF accesses = 0 THEN NA
    ELSE IF misses >= accesses THEN 0
    ELSE 100 - ((misses * 100) % 2 ^ Word) \div accesses

format_cell(result) ==
    LET c == result.counter
        core(x) == scale_counter(x, c.core_time_enabled, c.core_time_running)
        l1d(x)  == scale_counter(x, c.l1d_time_enabled, c.l1d_time_running)
        llc(x)  == scale_counter(x, c.llc_time_enabled, c.llc_time_running)
    IN  [cycles |-> IF result.lookups = 0 THEN 0 ELSE core(c.cycles) \div result.lookups,
         branch |-> hit_rate_percent(core(c.branches), core(c.missed_branches)),
         l1d    |-> hit_rate_percent(l1d(c.l1d_accesses), l1d(c.l1d_misses)),
         llc    |-> hit_rate_percent(llc(c.llc_accesses), llc(c.llc_misses))]

-----------------------------------------------------------------------------
(* The tables.                                                               *)

\* The results of one hash table for the s-th size and p-th pattern.
ResultsOf(s, p, t) ==
    LET before == (s - 1) * SplitsPerSize + (p - 1) * SplitsPerSet + (t - 1) * Len(BATCH_SIZE)
    IN  SubSeq(results, before + 1, before + Len(BATCH_SIZE))

Digits(x) == CHOOSE d \in 1 .. Word : x < 10 ^ d /\ (d = 1 \/ x >= 10 ^ (d - 1))
RateLength(r) == IF r = NA THEN Len("na") ELSE Digits(r)
CellLength(c) ==
    Digits(c.cycles) + RateLength(c.branch) + RateLength(c.l1d) + RateLength(c.llc) + 3

\* Of a table the names and numbers in it, and how long each text is.
Headers == <<Len("kind")>> \o [b \in DOMAIN BATCH_SIZE |-> Digits(BATCH_SIZE[b])]
Longest(S) == CHOOSE x \in S : \A y \in S : y <= x

Widths(texts) ==
    [i \in DOMAIN Headers |-> Longest({texts[r][i] : r \in DOMAIN texts}) + 2]

make_table(s, p) ==
    LET cells == [t \in DOMAIN Table |->
                    [b \in DOMAIN BATCH_SIZE |-> format_cell(ResultsOf(s, p, t)[b])]]
        texts == <<Headers>> \o
                 [t \in DOMAIN Table |->
                    <<Len(Table[t])>> \o [b \in DOMAIN BATCH_SIZE |-> CellLength(cells[t][b])]]
    IN  [cells |-> cells, texts |-> texts, widths |-> Widths(texts)]

grid_width(widths) == 1 + FoldLeft(LAMBDA w, c : w + c + 1, 0, widths)

\* Where the separators of a line stand.
Bars(columns) == [i \in 0 .. Len(columns) |-> i + FoldLeft(+, 0, SubSeq(columns, 1, i))]
align_cell(length, width) == IF length >= width THEN length ELSE width
print_rule(widths) == Bars(widths)
print_row(widths, row) ==
    Bars([i \in DOMAIN widths |-> 1 + align_cell(row[i], widths[i] - 2) + 1])

print_table(table) ==
    LET rule == print_rule(table.widths)
        rows == [r \in DOMAIN table.texts |-> print_row(table.widths, table.texts[r])]
    IN  <<rule, Head(rows), rule>> \o Tail(rows) \o <<rule>>

print_section(p) ==
    [s \in DOMAIN NUM_KEYS_SHIFT |->
       LET table == make_table(s, p)
       IN  [shift |-> NUM_KEYS_SHIFT[s], cells |-> table.cells,
            lines |-> print_table(table), width |-> grid_width(table.widths)]]

-----------------------------------------------------------------------------
(* The program.                                                              *)

Init_main == Init /\ sunk = 0 /\ printed = 0

\* Measurements of the sizes that are done.
Due == Len(results) - (Len(results) % SplitsPerSize)

Measure ==
    /\ CallSplit \/ benchmark_split
    /\ pc = "returned" => sunk = Due
    /\ UNCHANGED reportVars

\* open("/dev/null"), which fails when no descriptor is left; so does the write.
sink_results ==
    /\ pc = "returned" /\ sunk < Due
    /\ others' = IF FreeFds = {} THEN others ELSE others \cup {FreeFd}
    /\ sunk' = sunk + 1
    /\ UNCHANGED <<kernel, fds, ok, stage, next, benchVars, printed>>

PrintSection ==
    /\ pc = "returned" /\ sunk = Len(Splits) /\ printed < Len(Pattern)
    /\ printed' = printed + 1
    /\ UNCHANGED <<recorderVars, benchVars, sunk>>

\* main returns and the static recorder is destroyed.
ExitProcess ==
    /\ printed = Len(Pattern)
    /\ Exit
    /\ UNCHANGED <<benchVars, reportVars>>

main == Measure \/ sink_results \/ PrintSection \/ ExitProcess

Spec == Init_main /\ [][main]_<<vars, reportVars>> /\ WF_<<vars, reportVars>>(main)

-----------------------------------------------------------------------------
(* Properties.                                                               *)

\* The cell in each row and column of each table shows the measurement of that
\* hash table, batch size, table size and pattern: cycles per look-up and the hit
\* rates of its events, extrapolated right however much of its time a group was off
\* the CPU.  Groups that could not be opened or never ran show nothing, and only
\* those whose read failed may show anything.
SplitOf(p, s, t, b) ==
    CHOOSE j \in DOMAIN Splits :
        /\ Splits[j].pattern = Pattern[p] /\ Splits[j].shift = NUM_KEYS_SHIFT[s]
        /\ Splits[j].table = Table[t] /\ Splits[j].batch = b
Shows(j, g, shown, a, m) ==
    LET seen == ok[g] /\ results[j].off[g] < results[j].lookups
        all  == Rate[j][a]
        hits == all - Rate[j][m]
    IN  g \notin results[j].misread =>
          IF ~ seen \/ all = 0 THEN shown = NA
          ELSE IF hits <= 0 THEN shown = 0
          ELSE shown \in 0 .. 100 /\ shown * all >= 100 * hits /\ (shown - 1) * all < 100 * hits
CellsTrue ==
    stage = "built" =>
    \A p \in 1 .. printed :
      LET section == print_section(p)
      IN  \A s \in DOMAIN NUM_KEYS_SHIFT, t \in DOMAIN Table, b \in DOMAIN BATCH_SIZE :
        LET j == SplitOf(p, s, t, b)
            c == section[s].cells[t][b]
        IN  /\ "core" \notin results[j].misread =>
                 c.cycles = IF ok.core /\ results[j].off.core < results[j].lookups
                            THEN Rate[j]["cpu-cycles"] ELSE 0
            /\ Shows(j, "core", c.branch, "branch-instructions", "branch-misses")
            /\ Shows(j, "l1d", c.l1d, "l1d-read-access", "l1d-read-miss")
            /\ Shows(j, "llc", c.llc, "llc-read-access", "llc-read-miss")

\* The separators of a table's lines stand in the same places, the last at its width.
TablesAlign ==
    \A p \in 1 .. printed, s \in DOMAIN NUM_KEYS_SHIFT :
        LET table == print_section(p)[s]
        IN  \A l \in DOMAIN table.lines :
              /\ table.lines[l] = table.lines[1]
              /\ table.lines[l][Len(Headers)] = table.width - 1

\* What is printed is true, and can be read off the column it stands in.
ReportTrue == CellsTrue /\ TablesAlign

\* The program ends with both sections printed and no event left open, also when
\* /dev/null has used up the descriptors.
Ends == <>[](stage = "exited" /\ kernel = << >> /\ printed = Len(Pattern))
=============================================================================
