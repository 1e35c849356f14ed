---------------------------- MODULE ArmRecorder -----------------------------
(* The Apple recorder of src/measure_arm.cpp.  Its constructor loads two     *)
(* private frameworks, looks up their functions and sets the performance     *)
(* counters of the thread going, and ends the program when anything fails.   *)
(* From then on the counters run; readings are taken by the benchmarks of    *)
(* src/bench.hpp, which outside Linux have the core batch only.              *)
EXTENDS Integers, Sequences, FiniteSets

CONSTANTS
    Database,       \* what the event database may hold: sets of event names
    Counters,       \* counters of the CPU
    Fixed,          \* those of them that need no configuration
    Rate,           \* Rate[e]: how often a look-up causes the event e
    Batch,          \* look-ups of each measurement
    Word,           \* bound: counters are Word-bit numbers (64 in the code)
    MaxMisread      \* bound: readings that fail

ASSUME ArmAssumption == Counters \subseteq Nat /\ Fixed \subseteq Counters

\* The second conjunct is arithmetic that the provers do not know.
ASSUME WordAssumption == Word \in Nat \ {0} /\ 2 ^ Word \in Nat \ {0}

VARIABLES
    lib_inited, lib_has_err,
    handles,        \* frameworks whose handle is set
    refs,           \* framework -> dlopens without their dlclose
    impl,           \* framework -> how many of its functions' pointers are set
    wild,           \* calls through a pointer that is not set
    step,           \* of the constructor, 0 before it is called
    db, events,     \* the database and the events found in it
    counter_map,    \* event number, from 0 -> counter
    kernel,         \* [forced, configured, classes, thread]: what is set in it
    count,          \* counter -> its value for this thread
    pc, n, start, results, misread, failures    \* of benchmark_batch

libVars == <<lib_inited, lib_has_err, handles, refs, impl>>
kpcVars == <<db, events, counter_map, kernel>>
batchVars == <<pc, n, start, results, misread, failures>>
vars == <<libVars, wild, step, kpcVars, count, batchVars>>

-----------------------------------------------------------------------------
(* The libraries.                                                            *)

\* The functions to be found in each framework, in the order they are looked up.
lib_symbols == [
    kperf |-> <<
        "kpc_pmu_version", "kpc_cpu_string", "kpc_set_counting", "kpc_get_counting",
        "kpc_set_thread_counting", "kpc_get_thread_counting", "kpc_get_config_count",
        "kpc_get_counter_count", "kpc_set_config", "kpc_get_config",
        "kpc_get_cpu_counters", "kpc_get_thread_counters", "kpc_force_all_ctrs_set",
        "kpc_force_all_ctrs_get", "kperf_action_count_set", "kperf_action_count_get",
        "kperf_action_samplers_set", "kperf_action_samplers_get",
        "kperf_action_filter_set_by_task", "kperf_action_filter_set_by_pid",
        "kperf_timer_count_set", "kperf_timer_count_get", "kperf_timer_period_set",
        "kperf_timer_period_get", "kperf_timer_action_set", "kperf_timer_action_get",
        "kperf_sample_set", "kperf_sample_get", "kperf_reset", "kperf_timer_pet_set",
        "kperf_timer_pet_get", "kperf_ns_to_ticks", "kperf_ticks_to_ns",
        "kperf_tick_frequency">>,
    kperfdata |-> <<
        "kpep_config_create", "kpep_config_free", "kpep_config_add_event",
        "kpep_config_remove_event", "kpep_config_force_counters",
        "kpep_config_events_count", "kpep_config_events", "kpep_config_kpc",
        "kpep_config_kpc_count", "kpep_config_kpc_classes", "kpep_config_kpc_map",
        "kpep_db_create", "kpep_db_free", "kpep_db_name", "kpep_db_aliases_count",
        "kpep_db_aliases", "kpep_db_counters_count", "kpep_db_events_count",
        "kpep_db_events", "kpep_db_event", "kpep_event_name", "kpep_event_alias",
        "kpep_event_description">>]
Framework == {"kperf", "kperfdata"}

AllFound(f) == impl[f] = Len(lib_symbols[f])
Complete == handles = Framework /\ \A f \in Framework : AllFound(f)

\* The functions that can be called.
Callable == UNION {{lib_symbols[f][i] : i \in 1 .. impl[f]} : f \in Framework}

\* Mutant: closes the frameworks only when both are open.
lib_deinit_both ==
    /\ refs' = [f \in Framework |-> IF handles = Framework THEN refs[f] - 1 ELSE refs[f]]
    /\ handles' = {} /\ impl' = [f \in Framework |-> 0]

\* Closes what is open, and resets every pointer.  (Its flags: see return_err.)
lib_deinit ==
    /\ refs' = [f \in Framework |-> IF f \in handles THEN refs[f] - 1 ELSE refs[f]]
    /\ handles' = {} /\ impl' = [f \in Framework |-> 0]

return_err == lib_deinit /\ lib_inited' = TRUE /\ lib_has_err' = TRUE

-----------------------------------------------------------------------------
(* The constructor.                                                          *)
profile_events == <<
    <<"FIXED_CYCLES", "CPU_CLK_UNHALTED.THREAD", "CPU_CLK_UNHALTED.CORE">>,
    <<"FIXED_INSTRUCTIONS", "INST_RETIRED.ANY">>,
    <<"INST_BRANCH", "BR_INST_RETIRED.ALL_BRANCHES", "INST_RETIRED.ANY">>,
    <<"BRANCH_MISPRED_NONSPEC", "BRANCH_MISPREDICT", "BR_MISP_RETIRED.ALL_BRANCHES",
      "BR_INST_RETIRED.MISPRED">> >>
EV_COUNT == Len(profile_events)

ASSUME RateAssumption ==
    /\ Batch \in Seq(Nat)
    /\ \A i \in DOMAIN profile_events : \A j \in DOMAIN profile_events[i] :
         Rate[profile_events[i][j]] \in Nat

\* The first of an event's names that the database knows.
Known(names) == {j \in DOMAIN names : names[j] \in db}
get_event(names) == names[CHOOSE j \in Known(names) : \A i \in Known(names) : j <= i]

Times(k, call) == [i \in 1 .. k |-> call]
Calls == <<"lib_init", "kpc_force_all_ctrs_get", "kpep_db_create", "kpep_config_create",
           "kpep_config_force_counters">>
         \o Times(EV_COUNT, "kpep_db_event") \o Times(EV_COUNT, "kpep_config_add_event")
         \o <<"kpep_config_kpc_classes", "kpep_config_kpc_count", "kpep_config_kpc_map",
              "kpep_config_kpc", "kpc_force_all_ctrs_set", "kpc_set_config",
              "kpc_set_counting", "kpc_set_thread_counting">>
Built == step > Len(Calls)
Calling(call) == pc = "start" /\ ~ Built /\ step > 0 /\ Calls[step] = call

Through(call) == wild' = IF call \in Callable THEN wild ELSE wild \cup {call}
Succeeded == step' = step + 1 /\ UNCHANGED batchVars

\* Mutant: tries again.
tried_again == UNCHANGED <<step, batchVars>>

Failed == pc' = "exit" /\ UNCHANGED <<step, n, start, results, misread, failures>>
Fails(call) == /\ Through(call)
               /\ Failed
               /\ UNCHANGED <<libVars, kpcVars, count>>

\* lib_init returns at once if it ran before; its one caller calls it once.
Loading == Calling("lib_init") /\ ~ lib_inited

\* dlopen, first of kperf, then of kperfdata.
OpenFramework ==
    /\ Loading
    /\ \E f \in Framework \ handles :
         /\ f = "kperfdata" => "kperf" \in handles
         /\ handles' = handles \cup {f} /\ refs' = [refs EXCEPT ![f] = @ + 1]
    /\ UNCHANGED <<lib_inited, lib_has_err, impl, step, batchVars>>

\* dlsym, one turn of the loop over kperf's functions or of the one after it.
FindFunction ==
    /\ Loading /\ handles = Framework
    /\ \E f \in Framework :
         /\ ~ AllFound(f) /\ (f = "kperfdata" => AllFound("kperf"))
         /\ impl' = [impl EXCEPT ![f] = @ + 1]
    /\ UNCHANGED <<lib_inited, lib_has_err, handles, refs, step, batchVars>>

\* Whatever comes next, a framework or a function, is missing.
LoadingFails == Loading /\ ~ Complete /\ return_err /\ Failed

Loaded ==
    /\ Loading /\ Complete
    /\ lib_inited' = TRUE /\ lib_has_err' = FALSE
    /\ Succeeded
    /\ UNCHANGED <<handles, refs, impl>>

lib_init ==
    /\ OpenFramework \/ FindFunction \/ LoadingFails \/ Loaded
    /\ UNCHANGED <<wild, kpcVars, count>>

Used(c) == \E i \in DOMAIN counter_map : counter_map[i] = c
classes == {cl \in {"fixed", "configurable"} :
              \E c \in Counters : Used(c) /\ (c \in Fixed <=> cl = "fixed")}

\* kpc_set_config is only called when there is something to configure.
Skipped(call) == call = "kpc_set_config" /\ "configurable" \notin classes

CallFails ==
    /\ pc = "start" /\ ~ Built /\ step > 1
    /\ Calls[step] # "kpep_db_event" /\ ~ Skipped(Calls[step])
    /\ Fails(Calls[step])

\* kpep_db_create
OpenDatabase ==
    /\ Calling("kpep_db_create") /\ Through("kpep_db_create")
    /\ \E d \in Database : db' = d
    /\ Succeeded
    /\ UNCHANGED <<libVars, events, counter_map, kernel, count>>

FindEvent ==
    /\ Calling("kpep_db_event")
    /\ LET names == profile_events[Len(events) + 1]
       IN  \/ /\ Known(names) # {} /\ Through("kpep_db_event")
              /\ events' = Append(events, get_event(names))
              /\ Succeeded
              /\ UNCHANGED <<libVars, db, counter_map, kernel, count>>
           \/ Known(names) = {} /\ Fails("kpep_db_event")

\* kpep_config_kpc_map: each event that was added gets a counter of its own.
MapEvents ==
    /\ Calling("kpep_config_kpc_map") /\ Through("kpep_config_kpc_map")
    /\ counter_map' \in {m \in [0 .. EV_COUNT - 1 -> Counters] :
                           \A i, j \in DOMAIN m : m[i] = m[j] => i = j}
    /\ Succeeded
    /\ UNCHANGED <<libVars, db, events, kernel, count>>

SetsKernel(call) ==
    CASE call = "kpc_force_all_ctrs_set"  -> [kernel EXCEPT !.forced = TRUE]
      [] call = "kpc_set_config"          -> [kernel EXCEPT !.configured = TRUE]
      [] call = "kpc_set_counting"        -> [kernel EXCEPT !.classes = classes]
      [] call = "kpc_set_thread_counting" -> [kernel EXCEPT !.thread = classes]
      [] OTHER -> kernel

OtherCall ==
    /\ pc = "start" /\ ~ Built /\ step > 1
    /\ LET call == Calls[step]
       IN  /\ call \notin {"kpep_db_create", "kpep_db_event", "kpep_config_kpc_map"}
           /\ IF Skipped(call) THEN UNCHANGED <<wild, kernel>>
              ELSE Through(call) /\ kernel' = SetsKernel(call)
    /\ Succeeded
    /\ UNCHANGED <<libVars, db, events, counter_map, count>>

-----------------------------------------------------------------------------
(* The counters.                                                             *)
Class(c) == IF c \in Fixed THEN "fixed" ELSE "configurable"
Runs(c) == /\ Class(c) \in kernel.classes \cap kernel.thread
           /\ c \in Fixed \/ (kernel.configured /\ kernel.forced)

\* What a look-up does to them.
Ticked ==
    [c \in Counters |->
       IF Runs(c) /\ Used(c)
       THEN LET i == CHOOSE j \in DOMAIN counter_map : counter_map[j] = c
            IN  (count[c] + Rate[events[i + 1]]) % 2 ^ Word
       ELSE count[c]]

Zeros == [cycles |-> 0, branches |-> 0, missed_branches |-> 0, instructions |-> 0]

\* Mutant: the fields in the order of the events.
get_counters_in_order ==
    [cycles |-> count[counter_map[0]], branches |-> count[counter_map[1]],
     missed_branches |-> count[counter_map[2]], instructions |-> count[counter_map[3]]]

get_counters ==
    [cycles |-> count[counter_map[0]], branches |-> count[counter_map[2]],
     missed_branches |-> count[counter_map[3]], instructions |-> count[counter_map[1]]]

\* A reading, or zeros when it fails.  enable and disable_all do nothing.
Reads(fails) == IF fails THEN Zeros ELSE get_counters
MayFail(fails) == failures + (IF fails THEN 1 ELSE 0) <= MaxMisread
Counted(fails) ==
    /\ Through("kpc_get_thread_counters")
    /\ failures' = failures + (IF fails THEN 1 ELSE 0)

-----------------------------------------------------------------------------
(* The benchmarks.                                                           *)
Init ==
    /\ lib_inited = FALSE /\ lib_has_err = FALSE /\ handles = {}
    /\ refs = [f \in Framework |-> 0] /\ impl = [f \in Framework |-> 0]
    /\ wild = {} /\ step = 0
    /\ db = {} /\ events = << >> /\ counter_map = [i \in 0 .. EV_COUNT - 1 |-> 0]
    /\ kernel = [forced |-> FALSE, configured |-> FALSE, classes |-> {}, thread |-> {}]
    /\ count = [c \in Counters |-> 0]
    /\ pc = "warmup" /\ n = 0 /\ start = Zeros
    /\ results = << >> /\ misread = FALSE /\ failures = 0

\* An untimed look-up before each measurement.
Warmup ==
    /\ pc = "warmup" /\ Len(results) < Len(Batch)
    /\ pc' = "start" /\ count' = Ticked
    /\ UNCHANGED <<libVars, wild, step, kpcVars, n, start, results, misread, failures>>

\* The first reading constructs the recorder.
Construct ==
    /\ pc = "start" /\ step = 0
    /\ step' = 1
    /\ UNCHANGED <<libVars, wild, kpcVars, count, batchVars>>

Start ==
    /\ pc = "start" /\ Built
    /\ \E fails \in BOOLEAN :
         /\ MayFail(fails) /\ Counted(fails)
         /\ start' = Reads(fails) /\ misread' = fails
    /\ pc' = "lookup"
    /\ UNCHANGED <<libVars, step, kpcVars, count, n, results>>

Lookup ==
    /\ pc = "lookup" /\ n < Batch[Len(results) + 1]
    /\ n' = n + 1 /\ count' = Ticked
    /\ UNCHANGED <<libVars, wild, step, kpcVars, pc, start, results, misread, failures>>

Finish ==
    /\ pc = "lookup" /\ n = Batch[Len(results) + 1]
    /\ \E fails \in BOOLEAN :
         /\ MayFail(fails) /\ Counted(fails)
         /\ results' = Append(results,
              [counter |-> [f \in DOMAIN Zeros |-> (Reads(fails)[f] - start[f]) % 2 ^ Word],
               misread |-> misread \/ fails])
    /\ pc' = "warmup" /\ n' = 0 /\ start' = Zeros /\ misread' = FALSE
    /\ UNCHANGED <<libVars, step, kpcVars, count>>

Next == \/ lib_init \/ CallFails \/ OpenDatabase \/ FindEvent \/ MapEvents \/ OtherCall
        \/ Warmup \/ Construct \/ Start \/ Lookup \/ Finish

Spec == Init /\ [][Next]_vars /\ WF_vars(Next)

-----------------------------------------------------------------------------
(* Properties.                                                               *)

\* No function of a framework is called before it was found in it.
NoWildCall == wild = {}

\* The handles say what is open: each framework was opened once more than it was
\* closed while its handle is set, else as often; and no pointer leads into a
\* framework that is closed.
HandlesTrue ==
    \A f \in Framework : /\ refs[f] = IF f \in handles THEN 1 ELSE 0
                         /\ impl[f] > 0 => refs[f] = 1

\* lib_init ends with everything open and found, or with nothing.
AllOrNothing ==
    lib_inited => IF lib_has_err THEN \A f \in Framework : refs[f] = 0 ELSE Complete

\* At whichever of the frameworks and functions lib_init stops, what it opened
\* before is closed, once, and no pointer into it stays set; and no function is
\* called, then or in a measurement, before it was found.
SafelyLoaded == NoWildCall /\ HandlesTrue /\ AllOrNothing

\* Whichever counters the events were given and under whichever name each was
\* found, a result's field is the number of its own events during the timed
\* look-ups, although the counters run all the time; unless one of its two
\* readings failed.
Meaning == [cycles |-> 1, instructions |-> 2, branches |-> 3, missed_branches |-> 4]
FieldsAreTheBatch ==
    \A r \in DOMAIN results : ~ results[r].misread =>
        \A f \in DOMAIN Zeros :
            LET names == profile_events[Meaning[f]]
                first == CHOOSE j \in DOMAIN names :
                           names[j] \in db /\ \A i \in 1 .. j - 1 : names[i] \notin db
            IN  results[r].counter[f] = (Batch[r] * Rate[names[first]]) % 2 ^ Word

\* The program measures everything or ends with an error before its first reading.
MeasuresOrExits ==
    <>[](IF pc = "exit" THEN results = << >> ELSE Len(results) = Len(Batch))
=============================================================================
