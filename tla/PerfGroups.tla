----------------------------- MODULE PerfGroups -----------------------------
(* The x86 recorder of src/measure_x86.cpp and the perf events it owns: three *)
(* groups of file descriptors, opened once by the first call that needs the  *)
(* recorder, any of which may be refused.  The kernel is modelled by what    *)
(* the recorder asks of it: an event counts while it and its group's leader  *)
(* are enabled, and an ioctl on the leader reaches the group.                *)
EXTENDS Integers, FiniteSets, Sequences

CONSTANTS
    Word,       \* bound: counters are Word-bit numbers (64 in the code)
    MaxFd       \* bound: the last descriptor the process may have

\* The second conjunct is arithmetic that the provers do not know.
ASSUME WordAssumption == Word \in Nat \ {0} /\ 2 ^ Word \in Nat \ {0}
ASSUME DescriptorAssumption == MaxFd \in Nat

NoFd == -1
FirstFd == 3        \* the first descriptor that stdio leaves free

VARIABLES
    kernel,     \* open descriptor of an event -> the event
    others,     \* descriptors the program opened for something else
    fds,        \* group -> event number -> descriptor
    ok,         \* group -> whether all its events are open
    stage,      \* of the static instance: unbuilt, opening, built, exited
    next        \* <<group, event number>> its constructor opens next

recorderVars == <<kernel, others, fds, ok, stage, next>>

-----------------------------------------------------------------------------
Group == {"core", "l1d", "llc"}

\* The event each descriptor of a group is opened with, leader first.
Config == [core |-> <<"cpu-cycles", "branch-instructions", "branch-misses",
                      "instructions">>,
           l1d  |-> <<"l1d-read-access", "l1d-read-miss">>,
           llc  |-> <<"llc-read-access", "llc-read-miss">>]
Events(g) == 1 .. Len(Config[g])
Event == UNION {{Config[g][n] : n \in Events(g)} : g \in Group}
Following == [core |-> "l1d", l1d |-> "llc"]

\* PerfCounterSet, and the groups each of its values stands for.
CounterSet == {"core", "cache"}
GroupsOf(set) == IF set = "core" THEN {"core"} ELSE {"l1d", "llc"}

\* What read() on a leader returns: the number of events, how long the group was
\* enabled and how long it was on the CPU, and the counts.  A counter is the word
\* of its group's reading at this index, from 0.
CoreWords == [cycles |-> 3, branches |-> 4, missed_branches |-> 5, instructions |-> 6,
              core_time_enabled |-> 1, core_time_running |-> 2]
L1dWords  == [l1d_accesses |-> 3, l1d_misses |-> 4,
              l1d_time_enabled |-> 1, l1d_time_running |-> 2]
LlcWords  == [llc_accesses |-> 3, llc_misses |-> 4,
              llc_time_enabled |-> 1, llc_time_running |-> 2]
WordOf    == [core |-> CoreWords, l1d |-> L1dWords, llc |-> LlcWords]

Field == UNION {DOMAIN WordOf[g] : g \in Group}
GroupOf == [f \in Field |-> CHOOSE g \in Group : f \in DOMAIN WordOf[g]]
Zeros == [f \in Field |-> 0]

-----------------------------------------------------------------------------
(* The kernel.                                                               *)

InUse == DOMAIN kernel \cup others
FreeFds == (FirstFd .. MaxFd) \ InUse
FreeFd == CHOOSE f \in FreeFds : FirstFd .. f - 1 \subseteq InUse

\* A leader is opened disabled, a member is not.
Opened(f, g, n) ==
    [h \in DOMAIN kernel \cup {f} |->
       IF h = f THEN [event |-> Config[g][n],
                      leader |-> IF n = 1 THEN f ELSE fds[g][1],
                      enabled |-> n # 1, count |-> 0, time |-> <<0, 0>>]
                ELSE kernel[h]]

Without(k, F) == [h \in DOMAIN k \ F |-> k[h]]

\* ENABLE or DISABLE with PERF_IOC_FLAG_GROUP, on each group that is ok.
SwitchedTo(b, k, groups) ==
    [h \in DOMAIN k |->
       IF \E g \in groups : ok[g] /\ k[h].leader = fds[g][1]
       THEN [k[h] EXCEPT !.enabled = b] ELSE k[h]]

Counting(h) == kernel[h].enabled /\ kernel[kernel[h].leader].enabled

\* What a look-up that takes one unit of time does to the open events: all that
\* are enabled age, those of the groups that have the CPU's counters count rate.
Ticked(rate, onCpu) ==
    [h \in DOMAIN kernel |->
       LET runs == \E g \in onCpu : fds[g][1] = kernel[h].leader
           more == IF runs THEN 1 ELSE 0
       IN  IF ~ Counting(h) THEN kernel[h]
           ELSE [kernel[h] EXCEPT
                   !.count = (@ + more * rate[kernel[h].event]) % 2 ^ Word,
                   !.time = <<@[1] + 1, @[2] + more>>]]

\* A group's reading, its words numbered from 0.
Words(g) ==
    [w \in 0 .. 2 + Len(Config[g]) |->
       CASE w = 0 -> Len(Config[g])
         [] w \in 1 .. 2 -> kernel[fds[g][1]].time[w] % 2 ^ Word
         [] OTHER -> kernel[fds[g][w - 2]].count]

-----------------------------------------------------------------------------
(* The recorder.                                                             *)

RecorderInit ==
    /\ kernel = << >> /\ others = {}
    /\ fds = [g \in Group |-> [n \in Events(g) |-> NoFd]]
    /\ ok = [g \in Group |-> FALSE]
    /\ stage = "unbuilt"
    /\ next = <<"core", 1>>

Build == /\ stage = "unbuilt"
         /\ stage' = "opening"
         /\ UNCHANGED <<kernel, others, fds, ok, next>>

\* Mutant: only the leader is closed.
close_leader(g, mine, k) ==
    /\ fds' = [fds EXCEPT ![g] = [m \in Events(g) |-> NoFd]]
    /\ kernel' = Without(k, {mine[1]})

close_all(g, mine, k) ==
    /\ fds' = [fds EXCEPT ![g] = [m \in Events(g) |-> NoFd]]
    /\ kernel' = Without(k, {mine[m] : m \in Events(g)})

\* One perf_event_open of the constructors, which may be refused and is when the
\* process has no descriptor left.  Without a
\* leader a group opens nothing; a group of which a member is missing is closed
\* once all its members were tried.
Open(success) ==
    /\ stage = "opening"
    /\ success => FreeFds # {}
    /\ UNCHANGED others
    /\ LET g     == next[1]
           n     == next[2]
           mine  == [fds[g] EXCEPT ![n] = IF success THEN FreeFd ELSE NoFd]
           all   == IF success THEN Opened(FreeFd, g, n) ELSE kernel
           last  == n = Len(Config[g]) \/ (n = 1 /\ ~ success)
           whole == \A m \in Events(g) : mine[m] # NoFd
       IN  /\ ok' = [ok EXCEPT ![g] = last /\ whole]
           /\ IF last /\ ~ whole
              THEN close_all(g, mine, all)
              ELSE /\ fds' = [fds EXCEPT ![g] = mine]
                   /\ kernel' = all
           /\ stage' = IF last /\ g = "llc" THEN "built" ELSE stage
           /\ next' = IF ~ last THEN <<g, n + 1>>
                      ELSE IF g = "llc" THEN next ELSE <<Following[g], 1>>

AllOff == SwitchedTo(FALSE, kernel, Group)

disable_all == kernel' = AllOff

enable(set) == kernel' = SwitchedTo(TRUE, AllOff, GroupsOf(set))

\* A group that is not ok, and one whose read fails, reads as zeros.
get_counters(set, failing) ==
    [f \in Field |->
       LET g == GroupOf[f]
       IN  IF g \in GroupsOf(set) \ failing /\ ok[g]
           THEN Words(g)[WordOf[g][f]] ELSE 0]

\* Mutant: no destructor but that of the core group.
ExitCore == /\ stage = "built"
            /\ stage' = "exited"
            /\ kernel' = Without(kernel, {fds["core"][n] : n \in Events("core")})
            /\ UNCHANGED <<others, fds, ok, next>>

\* The destructors of the static instance's groups, after main.
Exit == /\ stage = "built"
        /\ stage' = "exited"
        /\ kernel' = Without(kernel, UNION {{fds[g][n] : n \in Events(g)} : g \in Group})
        /\ fds' = [g \in Group |-> [n \in Events(g) |-> NoFd]]
        /\ ok' = [g \in Group |-> FALSE]
        /\ UNCHANGED <<others, next>>

-----------------------------------------------------------------------------
\* The open descriptors are exactly the ones the groups hold, each of them once;
\* a group that is ok holds a leader and its members in this order, any other
\* group, once its constructor is over, holds none.
DescriptorsOwned ==
    LET held == {gn \in Group \X (1 .. 4) :
                   gn[2] \in Events(gn[1]) /\ fds[gn[1]][gn[2]] # NoFd}
    IN  /\ others \cap DOMAIN kernel = {}
        /\ DOMAIN kernel = {fds[gn[1]][gn[2]] : gn \in held}
        /\ \A x, y \in held : fds[x[1]][x[2]] = fds[y[1]][y[2]] => x = y
        /\ \A gn \in held :
             /\ kernel[fds[gn[1]][gn[2]]].event = Config[gn[1]][gn[2]]
             /\ kernel[fds[gn[1]][gn[2]]].leader = fds[gn[1]][1]
        /\ \A g \in Group :
             IF ok[g] THEN \A n \in Events(g) : <<g, n>> \in held
             ELSE (stage # "opening" \/ next[1] # g)
                    => \A n \in Events(g) : <<g, n>> \notin held
=============================================================================
