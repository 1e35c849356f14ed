------------------------- MODULE ArmRecorderProofs --------------------------
(* The Apple recorder, for every database, processor, batch and counter      *)
(* width: nothing is called that is not loaded, and a field of a result is   *)
(* the number of its own events.                                             *)
EXTENDS ArmRecorder, NumberLemmas, SequenceTheorems

-----------------------------------------------------------------------------
(* The constructor's calls.                                                  *)

LEMMA EvCount == EV_COUNT = 4
  BY DEF EV_COUNT, profile_events

LEMMA CallsAre ==
    /\ Len(Calls) = 21
    /\ Calls[1] = "lib_init" /\ Calls[2] = "kpc_force_all_ctrs_get"
    /\ Calls[3] = "kpep_db_create" /\ Calls[4] = "kpep_config_create"
    /\ Calls[5] = "kpep_config_force_counters"
    /\ \A i \in 6 .. 9 : Calls[i] = "kpep_db_event"
    /\ \A i \in 10 .. 13 : Calls[i] = "kpep_config_add_event"
    /\ Calls[14] = "kpep_config_kpc_classes" /\ Calls[15] = "kpep_config_kpc_count"
    /\ Calls[16] = "kpep_config_kpc_map" /\ Calls[17] = "kpep_config_kpc"
    /\ Calls[18] = "kpc_force_all_ctrs_set" /\ Calls[19] = "kpc_set_config"
    /\ Calls[20] = "kpc_set_counting" /\ Calls[21] = "kpc_set_thread_counting"
  BY EvCount DEF Calls, Times

\* Which step of the constructor is which call.
LEMMA CallSteps ==
    ASSUME NEW i \in 1 .. 21
    PROVE  /\ Calls[i] = "lib_init" => i = 1
           /\ Calls[i] = "kpep_db_create" => i = 3
           /\ Calls[i] = "kpep_db_event" <=> i \in 6 .. 9
           /\ Calls[i] = "kpep_config_kpc_map" <=> i = 16
           /\ Calls[i] = "kpc_force_all_ctrs_set" <=> i = 18
           /\ Calls[i] = "kpc_set_config" <=> i = 19
           /\ Calls[i] = "kpc_set_counting" <=> i = 20
           /\ Calls[i] = "kpc_set_thread_counting" <=> i = 21
<1>1. i \in 1 .. 5 \/ i \in 6 .. 9 \/ i \in 10 .. 13 \/ i \in 14 .. 21
  OBVIOUS
<1>2. CASE i \in 1 .. 5
  BY <1>2, CallsAre
<1>3. CASE i \in 6 .. 9
  BY <1>3, CallsAre
<1>4. CASE i \in 10 .. 13
  BY <1>4, CallsAre
<1>5. CASE i \in 14 .. 21
  BY <1>5, CallsAre
<1> QED BY <1>1, <1>2, <1>3, <1>4, <1>5

LEMMA CallingStep ==
    ASSUME step \in 0 .. 22, NEW call, Calling(call)
    PROVE  step \in 1 .. 21 /\ Calls[step] = call /\ pc = "start"
  BY CallsAre DEF Calling, Built

\* Where the functions that the recorder calls are in the tables.
LEMMA TablesAre ==
    /\ Len(lib_symbols["kperf"]) = 34 /\ Len(lib_symbols["kperfdata"]) = 23
    /\ LET s == lib_symbols["kperf"]
       IN  /\ s[3] = "kpc_set_counting" /\ s[5] = "kpc_set_thread_counting"
           /\ s[9] = "kpc_set_config" /\ s[12] = "kpc_get_thread_counters"
           /\ s[13] = "kpc_force_all_ctrs_set" /\ s[14] = "kpc_force_all_ctrs_get"
    /\ LET s == lib_symbols["kperfdata"]
       IN  /\ s[1] = "kpep_config_create" /\ s[3] = "kpep_config_add_event"
           /\ s[5] = "kpep_config_force_counters" /\ s[8] = "kpep_config_kpc"
           /\ s[9] = "kpep_config_kpc_count" /\ s[10] = "kpep_config_kpc_classes"
           /\ s[11] = "kpep_config_kpc_map" /\ s[12] = "kpep_db_create"
           /\ s[20] = "kpep_db_event"
<1>1. /\ DOMAIN lib_symbols["kperf"] = 1 .. 34 /\ Len(lib_symbols["kperf"]) = 34
      /\ DOMAIN lib_symbols["kperfdata"] = 1 .. 23 /\ Len(lib_symbols["kperfdata"]) = 23
  BY DEF lib_symbols
<1> QED BY <1>1 DEF lib_symbols

\* Once all functions are found, those the recorder calls can be called: the tables
\* leave none of them out.
LEMMA CallsAreCallable ==
    ASSUME Complete
    PROVE  /\ \A i \in 2 .. 21 : Calls[i] \in Callable
           /\ "kpc_get_thread_counters" \in Callable
<1>1. /\ impl["kperf"] = 34 /\ impl["kperfdata"] = 23
  BY TablesAre DEF Complete, AllFound, Framework
<1>2. \A i \in 1 .. 34 : lib_symbols["kperf"][i] \in Callable
  BY <1>1 DEF Callable, Framework
<1>3. \A i \in 1 .. 23 : lib_symbols["kperfdata"][i] \in Callable
  BY <1>1 DEF Callable, Framework
<1>4. /\ "kpc_set_counting" \in Callable /\ "kpc_set_thread_counting" \in Callable
      /\ "kpc_set_config" \in Callable /\ "kpc_get_thread_counters" \in Callable
      /\ "kpc_force_all_ctrs_set" \in Callable /\ "kpc_force_all_ctrs_get" \in Callable
  <2> HIDE DEF lib_symbols
  <2> QED BY <1>2, TablesAre
<1>5. /\ "kpep_config_create" \in Callable /\ "kpep_config_add_event" \in Callable
      /\ "kpep_config_force_counters" \in Callable /\ "kpep_config_kpc" \in Callable
      /\ "kpep_config_kpc_count" \in Callable /\ "kpep_config_kpc_classes" \in Callable
      /\ "kpep_config_kpc_map" \in Callable /\ "kpep_db_create" \in Callable
      /\ "kpep_db_event" \in Callable
  BY <1>3, TablesAre
<1>6. \A i \in 2 .. 21 : i \in 2 .. 5 \/ i \in 6 .. 9 \/ i \in 10 .. 13 \/ i \in 14 .. 21
  OBVIOUS
<1>7. \A i \in 2 .. 5 : Calls[i] \in Callable
  BY <1>4, <1>5, CallsAre
<1>8. \A i \in 6 .. 9 : Calls[i] \in Callable
  BY <1>5, CallsAre
<1>9. \A i \in 10 .. 13 : Calls[i] \in Callable
  BY <1>5, CallsAre
<1>10. \A i \in 14 .. 21 : Calls[i] \in Callable
  BY <1>4, <1>5, CallsAre
<1> QED BY <1>4, <1>6, <1>7, <1>8, <1>9, <1>10

-----------------------------------------------------------------------------
(* The libraries.                                                            *)

\* Beside what SafelyLoaded says: a constructor that goes on past lib_init ran it,
\* without an error, and only a constructed recorder is read.
LoadedInv ==
    /\ SafelyLoaded
    /\ handles \subseteq Framework
    /\ refs \in [Framework -> Int] /\ impl \in [Framework -> Nat]
    /\ step \in 0 .. 22
    /\ pc # "exit" => /\ lib_inited <=> step > 1
                      /\ step > 1 => ~ lib_has_err
    /\ pc = "lookup" => step = 22

LEMMA LoadedIsAll == ASSUME LoadedInv, pc # "exit", step > 1 PROVE Complete
  BY DEF LoadedInv, SafelyLoaded, AllOrNothing

\* In lib_init: before it ends neither flag is set, no call was made, and the
\* constructor waits.
LEMMA InLoading ==
    ASSUME LoadedInv, Loading
    PROVE  /\ step = 1 /\ ~ lib_inited /\ pc = "start" /\ wild = {} /\ HandlesTrue
           /\ handles \subseteq Framework
           /\ refs \in [Framework -> Int] /\ impl \in [Framework -> Nat]
  BY CallsAre DEF Loading, Calling, Built, LoadedInv, SafelyLoaded, NoWildCall

\* What the loading of one more framework or function leaves true.
LEMMA MoreLoaded ==
    ASSUME LoadedInv, Loading, OpenFramework \/ FindFunction, wild' = wild
    PROVE  LoadedInv'
<1>1. /\ lib_inited' = lib_inited /\ lib_has_err' = lib_has_err /\ step' = step /\ pc' = pc
  BY DEF OpenFramework, FindFunction, batchVars
<1>2. /\ step = 1 /\ ~ lib_inited /\ pc = "start" /\ wild = {} /\ HandlesTrue
      /\ handles \subseteq Framework
      /\ refs \in [Framework -> Int] /\ impl \in [Framework -> Nat]
  BY InLoading
<1>3. /\ HandlesTrue' /\ handles' \subseteq Framework
      /\ refs' \in [Framework -> Int] /\ impl' \in [Framework -> Nat]
  <2>1. CASE OpenFramework
    <3>1. PICK f \in Framework \ handles :
            handles' = handles \cup {f} /\ refs' = [refs EXCEPT ![f] = @ + 1] /\ impl' = impl
      BY <2>1 DEF OpenFramework
    <3>2. \A g \in Framework : refs'[g] = IF g = f THEN refs[g] + 1 ELSE refs[g]
      BY <1>2, <3>1
    <3>3. refs[f] = 0 /\ ~ (impl[f] > 0)
      BY <1>2, <3>1 DEF HandlesTrue
    <3>4. HandlesTrue'
      BY <1>2, <3>1, <3>2, <3>3 DEF HandlesTrue
    <3> QED BY <1>2, <3>1, <3>4
  <2>2. CASE FindFunction
    <3>1. PICK f \in Framework :
            handles = Framework /\ handles' = handles /\ refs' = refs
              /\ impl' = [impl EXCEPT ![f] = @ + 1]
      BY <2>2 DEF FindFunction
    <3>2. \A g \in Framework : refs[g] = 1
      BY <1>2, <3>1 DEF HandlesTrue
    <3> QED BY <1>2, <3>1, <3>2 DEF HandlesTrue
  <2> QED BY <2>1, <2>2
<1>4. SafelyLoaded'
  BY <1>1, <1>2, <1>3 DEF SafelyLoaded, NoWildCall, AllOrNothing
<1> QED BY <1>1, <1>2, <1>3, <1>4 DEF LoadedInv

\* Wherever lib_init fails it closes what it had opened.
LEMMA Unloaded ==
    ASSUME LoadedInv, LoadingFails, wild' = wild
    PROVE  LoadedInv'
<1>1. /\ step = 1 /\ wild = {} /\ HandlesTrue
      /\ refs \in [Framework -> Int] /\ impl \in [Framework -> Nat]
  BY InLoading DEF LoadingFails
<1>2. /\ refs' = [f \in Framework |-> IF f \in handles THEN refs[f] - 1 ELSE refs[f]]
      /\ handles' = {} /\ impl' = [f \in Framework |-> 0]
      /\ lib_inited' = TRUE /\ lib_has_err' = TRUE /\ step' = step /\ pc' = "exit"
  BY DEF LoadingFails, return_err, lib_deinit, Failed
<1>3. \A f \in Framework : refs'[f] = 0 /\ impl'[f] = 0
  BY <1>1, <1>2 DEF HandlesTrue
<1>4. SafelyLoaded'
  BY <1>1, <1>2, <1>3 DEF SafelyLoaded, NoWildCall, HandlesTrue, AllOrNothing
<1> QED BY <1>1, <1>2, <1>4 DEF LoadedInv

LEMMA AllLoaded ==
    ASSUME LoadedInv, Loaded, wild' = wild
    PROVE  LoadedInv'
<1>1. /\ step = 1 /\ pc = "start" /\ wild = {} /\ HandlesTrue /\ handles \subseteq Framework
      /\ refs \in [Framework -> Int] /\ impl \in [Framework -> Nat]
  BY InLoading DEF Loaded
<1>2. /\ Complete /\ lib_inited' = TRUE /\ lib_has_err' = FALSE /\ step' = 2 /\ pc' = "start"
      /\ handles' = handles /\ refs' = refs /\ impl' = impl
  BY <1>1 DEF Loaded, Succeeded, batchVars
<1>3. Complete' /\ HandlesTrue'
  BY <1>1, <1>2 DEF Complete, AllFound, HandlesTrue
<1>4. SafelyLoaded'
  BY <1>1, <1>2, <1>3 DEF SafelyLoaded, NoWildCall, AllOrNothing
<1> QED BY <1>1, <1>2, <1>4 DEF LoadedInv

LEMMA LoadedStep == ASSUME LoadedInv, [Next]_vars PROVE LoadedInv'
<1> USE CallsAre DEF Built
<1>1. ASSUME UNCHANGED libVars, wild' = wild,
             step' = step \/ (step > 1 /\ step < 22 /\ step' = step + 1)
               \/ (step = 0 /\ step' = 1),
             pc' = pc \/ (pc # "exit" /\ pc' \in {"start", "warmup", "exit"})
               \/ (pc # "exit" /\ pc' = "lookup" /\ step = 22)
      PROVE  LoadedInv'
  <2>1. SafelyLoaded'
    BY <1>1 DEF libVars, LoadedInv, SafelyLoaded, NoWildCall, HandlesTrue, AllOrNothing,
                Complete, AllFound
  <2>2. step' \in 0 .. 22 /\ (step' > 1 <=> step > 1)
    BY <1>1 DEF LoadedInv
  <2>3. pc' = "lookup" => step' = 22
    BY <1>1 DEF LoadedInv
  <2> QED BY <1>1, <2>1, <2>2, <2>3 DEF libVars, LoadedInv
<1>2. CASE UNCHANGED vars
  BY <1>1, <1>2 DEF vars, batchVars
<1>3. CASE lib_init
  <2>1. wild' = wild
    BY <1>3 DEF lib_init
  <2>2. CASE OpenFramework \/ FindFunction
    BY <2>1, <2>2, MoreLoaded DEF OpenFramework, FindFunction
  <2> QED BY <1>3, <2>1, <2>2, Unloaded, AllLoaded DEF lib_init
<1>4. ASSUME NEW call, Through(call), pc # "exit", step > 1,
             Complete => call \in Callable
      PROVE  wild' = wild
  BY <1>4, LoadedIsAll DEF Through
<1>5. ASSUME pc = "start", ~ Built, step > 1
      PROVE  step \in 2 .. 21 /\ (Complete => Calls[step] \in Callable)
  BY <1>5, CallsAreCallable DEF LoadedInv
<1>6. CASE CallFails
  BY <1>1, <1>4, <1>5, <1>6 DEF CallFails, Fails, Failed
<1>7. CASE OpenDatabase
  <2>1. step = 3 /\ pc = "start" /\ ~ Built /\ Through(Calls[step])
    BY <1>7, CallingStep, CallSteps DEF OpenDatabase, LoadedInv
  <2>2. wild' = wild
    BY <1>4, <1>5, <2>1
  <2> QED BY <1>1, <1>7, <2>1, <2>2 DEF OpenDatabase, Succeeded, batchVars
<1>8. CASE FindEvent
  <2>1. pc = "start" /\ ~ Built /\ step > 1 /\ step < 22
          /\ (Complete => "kpep_db_event" \in Callable)
    BY <1>5, <1>8 DEF FindEvent, Calling, LoadedInv
  <2>2. CASE Through("kpep_db_event") /\ Succeeded /\ UNCHANGED libVars
    BY <1>1, <1>4, <2>1, <2>2 DEF Succeeded, batchVars
  <2>3. CASE Fails("kpep_db_event")
    BY <1>1, <1>4, <2>1, <2>3 DEF Fails, Failed
  <2> QED BY <1>8, <2>2, <2>3 DEF FindEvent
<1>9. CASE MapEvents
  <2>1. step = 16 /\ pc = "start" /\ ~ Built /\ Through(Calls[step])
    BY <1>9, CallingStep, CallSteps DEF MapEvents, LoadedInv
  <2>2. wild' = wild
    BY <1>4, <1>5, <2>1
  <2> QED BY <1>1, <1>9, <2>1, <2>2 DEF MapEvents, Succeeded, batchVars
<1>10. CASE OtherCall
  <2>1. pc = "start" /\ ~ Built /\ step > 1 /\ step < 22
    BY <1>5, <1>10 DEF OtherCall
  <2>2. wild' = wild
    BY <1>4, <1>5, <1>10, <2>1 DEF OtherCall
  <2> QED BY <1>1, <1>10, <2>1, <2>2 DEF OtherCall, Succeeded, batchVars
<1>11. CASE Warmup \/ Construct \/ Lookup
  BY <1>1, <1>11 DEF Warmup, Construct, Lookup, batchVars
<1>12. CASE Start \/ Finish
  <2>1. pc # "exit" /\ step = 22
    BY <1>12 DEF Start, Finish, LoadedInv
  <2>2. Through("kpc_get_thread_counters")
    BY <1>12 DEF Start, Finish, Counted
  <2>3. wild' = wild
    BY <1>4, <2>1, <2>2, CallsAreCallable
  <2> QED BY <1>1, <1>12, <2>1, <2>3 DEF Start, Finish
<1> QED BY <1>2, <1>3, <1>6, <1>7, <1>8, <1>9, <1>10, <1>11, <1>12 DEF Next

\* At whichever framework or function lib_init fails, everything opened is closed
\* once and no pointer stays; and the recorder calls no function it did not find.
THEOREM NothingWild == Spec => []SafelyLoaded
<1>1. Init => LoadedInv
  BY DEF Init, LoadedInv, SafelyLoaded, NoWildCall, HandlesTrue, AllOrNothing
<1>2. LoadedInv => SafelyLoaded
  BY DEF LoadedInv
<1> QED BY <1>1, <1>2, LoadedStep, PTL DEF Spec

-----------------------------------------------------------------------------
(* The events and their names.                                               *)

Name == UNION {{profile_events[i][j] : j \in DOMAIN profile_events[i]} : i \in 1 .. 4}

LEMMA NamesAreShort ==
    \A i \in 1 .. 4 : /\ i \in DOMAIN profile_events
                      /\ Len(profile_events[i]) \in 1 .. 4
                      /\ DOMAIN profile_events[i] = 1 .. Len(profile_events[i])
  BY DEF profile_events

LEMMA NameHasRate == \A e \in Name : Rate[e] \in Nat
  BY NamesAreShort, RateAssumption DEF Name

\* The event that is configured is the first alternative the database knows.
LEMMA FirstKnown ==
    ASSUME NEW i \in 1 .. 4, Known(profile_events[i]) # {}
    PROVE  LET names == profile_events[i]
           IN  /\ get_event(names) \in Name
               /\ get_event(names) =
                    names[CHOOSE j \in DOMAIN names :
                            names[j] \in db /\ \A k \in 1 .. j - 1 : names[k] \notin db]
<1> DEFINE names == profile_events[i]
           T == Known(names)
           First(j) == names[j] \in db /\ \A k \in 1 .. j - 1 : names[k] \notin db
<1>1. T \subseteq 1 .. 4 /\ \A j \in DOMAIN names : j \in T <=> names[j] \in db
  BY NamesAreShort DEF Known
<1>2. PICK m \in T : \A k \in T : m <= k
  <2>1. CASE 1 \in T
    BY <1>1, <2>1
  <2>2. CASE 1 \notin T /\ 2 \in T
    BY <1>1, <2>2
  <2>3. CASE 1 \notin T /\ 2 \notin T /\ 3 \in T
    BY <1>1, <2>3
  <2>4. CASE 1 \notin T /\ 2 \notin T /\ 3 \notin T
    BY <1>1, <2>4
  <2> QED BY <2>1, <2>2, <2>3, <2>4
<1>3. m \in DOMAIN names /\ \A k \in 1 .. m - 1 : k \in DOMAIN names
  BY <1>2, NamesAreShort DEF Known
<1>4. (CHOOSE j \in T : \A k \in T : j <= k) = m
  BY <1>1, <1>2
<1>5. First(m)
  BY <1>1, <1>2, <1>3
<1>6. \A j \in DOMAIN names : First(j) => j = m
  <2> SUFFICES ASSUME NEW j \in DOMAIN names, First(j) PROVE j = m
    OBVIOUS
  <2>1. j \in T /\ m <= j /\ j \in 1 .. 4 /\ m \in 1 .. 4
    BY <1>1, <1>2
  <2>2. ASSUME m < j PROVE FALSE
    <3>1. m \in 1 .. j - 1
      BY <2>1, <2>2
    <3>2. names[m] \notin db
      BY <3>1
    <3> QED BY <1>1, <1>3, <3>2
  <2> QED BY <2>1, <2>2
<1>7. (CHOOSE j \in DOMAIN names : First(j)) = m
  BY <1>3, <1>5, <1>6
<1>8. get_event(names) = names[m]
  BY <1>4 DEF get_event
<1>9. names[m] \in Name
  BY <1>3 DEF Name
<1> QED BY <1>7, <1>8, <1>9

-----------------------------------------------------------------------------
(* The fields of a result.                                                   *)

Counts == 0 .. 2 ^ Word - 1
Fields == DOMAIN Zeros

\* The counter a field is read from, and what a look-up adds to it.
Own(f)  == counter_map[Meaning[f] - 1]
Gain(f) == Rate[events[Meaning[f]]]

\* What the constructor has done once it is past each call: the events found and
\* the counters given to them, and the counters set going.
EventsFound ==
    /\ events \in Seq(Name)
    /\ Len(events) = IF step <= 6 THEN 0 ELSE IF step <= 10 THEN step - 6 ELSE 4
    /\ \A i \in 1 .. Len(events) : /\ Known(profile_events[i]) # {}
                                   /\ events[i] = get_event(profile_events[i])
    /\ step > 16 => /\ counter_map \in [0 .. 3 -> Counters]
                    /\ \A i, j \in 0 .. 3 : counter_map[i] = counter_map[j] => i = j
KernelSet ==
    /\ kernel \in [forced : BOOLEAN, configured : BOOLEAN,
                   classes : SUBSET {"fixed", "configurable"},
                   thread : SUBSET {"fixed", "configurable"}]
    /\ step = 0 => kernel.classes = {}
    /\ step > 18 => kernel.forced
    /\ step > 19 /\ "configurable" \in classes => kernel.configured
    /\ step > 20 => kernel.classes = classes
    /\ step > 21 => kernel.thread = classes

\* Where a measurement is.
MeasureTyped ==
    /\ count \in [Counters -> Counts]
    /\ start \in [Fields -> Counts]
    /\ n \in Nat /\ misread \in BOOLEAN
    /\ pc = "warmup" => step \in {0, 22}
    /\ pc # "lookup" => n = 0
    /\ results \in Seq([counter : [Fields -> Int], misread : BOOLEAN])
    /\ results # << >> => step = 22

\* What a counter holds beyond the first reading is what the look-ups so far added.
GainSoFar ==
    pc = "lookup" /\ ~ misread =>
        \A f \in Fields : count[Own(f)] = (start[f] + n * Gain(f)) % 2 ^ Word
ResultsTrue ==
    \A r \in 1 .. Len(results) : ~ results[r].misread =>
        \A f \in Fields : results[r].counter[f] = (Batch[r] * Gain(f)) % 2 ^ Word

FieldsInv == EventsFound /\ KernelSet /\ MeasureTyped /\ GainSoFar /\ ResultsTrue

LEMMA FieldsAre ==
    /\ Fields = {"cycles", "branches", "missed_branches", "instructions"}
    /\ \A f \in Fields : Meaning[f] \in 1 .. 4 /\ Meaning[f] - 1 \in 0 .. 3
  BY DEF Fields, Zeros, Meaning

\* The counter of every event that was configured runs once the recorder is built.
LEMMA TickedBuilt ==
    ASSUME EventsFound, KernelSet, MeasureTyped, step = 22
    PROVE  /\ Ticked \in [Counters -> Counts]
           /\ \A i \in 0 .. 3 : Ticked[counter_map[i]] =
                (count[counter_map[i]] + Rate[events[i + 1]]) % 2 ^ Word
<1> USE WordAssumption
<1>1. /\ counter_map \in [0 .. 3 -> Counters] /\ DOMAIN counter_map = 0 .. 3
      /\ \A i, j \in 0 .. 3 : counter_map[i] = counter_map[j] => i = j
      /\ count \in [Counters -> Counts]
  BY DEF EventsFound, MeasureTyped
<1>2. \A i \in 0 .. 3 : Rate[events[i + 1]] \in Nat
  <2> SUFFICES ASSUME NEW i \in 0 .. 3 PROVE Rate[events[i + 1]] \in Nat
    OBVIOUS
  <2>1. Len(events) = 4 /\ events \in Seq(Name)
    BY DEF EventsFound
  <2>2. i + 1 \in 1 .. Len(events)
    BY <2>1
  <2>3. events[i + 1] \in Name
    BY <2>1, <2>2, ElementOfSeq
  <2> QED BY <2>3, NameHasRate
<1>3. \A i \in 0 .. 3 : counter_map[i] \in Counters /\ Runs(counter_map[i]) /\ Used(counter_map[i])
  <2> SUFFICES ASSUME NEW i \in 0 .. 3
               PROVE  counter_map[i] \in Counters /\ Runs(counter_map[i]) /\ Used(counter_map[i])
    OBVIOUS
  <2> DEFINE c == counter_map[i]
  <2>1. c \in Counters /\ Used(c)
    BY <1>1 DEF Used
  <2>2. Class(c) \in classes
    BY <2>1 DEF Class, classes
  <2>3. kernel.forced /\ kernel.classes = classes /\ kernel.thread = classes
          /\ ("configurable" \in classes => kernel.configured)
    BY DEF KernelSet
  <2>4. Runs(c)
    BY <2>2, <2>3 DEF Runs, Class
  <2> QED BY <2>1, <2>4
<1>4. ASSUME NEW c \in Counters, NEW i \in 0 .. 3, counter_map[i] = c
      PROVE  (CHOOSE j \in DOMAIN counter_map : counter_map[j] = c) = i
  BY <1>1, <1>4
<1>5. \A i \in 0 .. 3 : Ticked[counter_map[i]] =
        (count[counter_map[i]] + Rate[events[i + 1]]) % 2 ^ Word
  <2> SUFFICES ASSUME NEW i \in 0 .. 3
               PROVE  Ticked[counter_map[i]] =
                        (count[counter_map[i]] + Rate[events[i + 1]]) % 2 ^ Word
    OBVIOUS
  <2> DEFINE c == counter_map[i]
             k == CHOOSE j \in DOMAIN counter_map : counter_map[j] = c
  <2>1. k = i
    BY <1>3, <1>4
  <2>2. Ticked[c] = (count[c] + Rate[events[k + 1]]) % 2 ^ Word
    BY <1>3 DEF Ticked
  <2> HIDE DEF k
  <2> QED BY <2>1, <2>2
<1>6. Ticked \in [Counters -> Counts]
  <2>1. ASSUME NEW c \in Counters PROVE Ticked[c] \in Counts
    <3>1. CASE \E i \in 0 .. 3 : counter_map[i] = c
      <4>1. PICK i \in 0 .. 3 : counter_map[i] = c
        BY <3>1
      <4>2. Ticked[c] = (count[c] + Rate[events[i + 1]]) % 2 ^ Word
        BY <1>5, <4>1
      <4>3. count[c] \in Nat /\ Rate[events[i + 1]] \in Nat
        BY <1>1, <1>2 DEF Counts
      <4> QED BY <4>2, <4>3 DEF Counts
    <3>2. CASE ~ \E i \in 0 .. 3 : counter_map[i] = c
      <4>1. ~ Used(c)
        BY <1>1, <3>2 DEF Used
      <4> QED BY <1>1, <4>1 DEF Ticked
    <3> QED BY <3>1, <3>2
  <2>2. Ticked = [c \in Counters |-> Ticked[c]]
    BY DEF Ticked
  <2> QED BY <2>1, <2>2
<1> QED BY <1>5, <1>6

\* Before the recorder is built no counter runs.
LEMMA TickedBefore ==
    ASSUME KernelSet, MeasureTyped, step = 0
    PROVE  Ticked \in [Counters -> Counts]
<1>1. \A c \in Counters : ~ Runs(c)
  BY DEF KernelSet, Runs
<1> QED BY <1>1 DEF Ticked, MeasureTyped

\* A reading that does not fail.
LEMMA Reading ==
    ASSUME EventsFound, MeasureTyped, step = 22
    PROVE  /\ get_counters \in [Fields -> Counts]
           /\ \A f \in Fields : get_counters[f] = count[Own(f)]
           /\ \A f \in Fields : Gain(f) \in Nat
<1>1. counter_map \in [0 .. 3 -> Counters] /\ count \in [Counters -> Counts]
  BY DEF EventsFound, MeasureTyped
<1>2. \A f \in Fields : get_counters[f] = count[Own(f)]
  BY FieldsAre DEF get_counters, Own, Meaning
<1>3. \A f \in Fields : count[Own(f)] \in Counts
  BY <1>1, FieldsAre DEF Own
<1>4. get_counters \in [Fields -> Counts]
  <2>1. get_counters = [f \in Fields |-> get_counters[f]]
    BY FieldsAre DEF get_counters
  <2> QED BY <1>2, <1>3, <2>1
<1>5. ASSUME NEW f \in Fields PROVE Gain(f) \in Nat
  <2>1. Len(events) = 4 /\ events \in Seq(Name)
    BY DEF EventsFound
  <2>2. Meaning[f] \in 1 .. Len(events)
    BY <2>1, FieldsAre
  <2>3. events[Meaning[f]] \in Name
    BY <2>1, <2>2, ElementOfSeq
  <2> QED BY <2>3, NameHasRate DEF Gain
<1> QED BY <1>2, <1>4, <1>5

-----------------------------------------------------------------------------
(* The steps.                                                                *)

\* lib_init is the first call, and touches nothing but the libraries.
LEMMA LoadingStep ==
    ASSUME step \in 0 .. 22, lib_init
    PROVE  /\ step = 1 /\ pc = "start" /\ UNCHANGED <<kpcVars, count>>
           /\ \/ step' = step /\ UNCHANGED batchVars
              \/ step' = step /\ Failed
              \/ step' = 2 /\ UNCHANGED batchVars
<1>1. Loading
  BY DEF lib_init, OpenFramework, FindFunction, LoadingFails, Loaded
<1>2. step = 1 /\ pc = "start"
  BY <1>1, CallingStep, CallSteps DEF Loading
<1> QED BY <1>2 DEF lib_init, OpenFramework, FindFunction, LoadingFails, Loaded, Succeeded, Failed

LEMMA OtherStep ==
    ASSUME step \in 0 .. 22, OtherCall
    PROVE  /\ step \in 2 .. 21 /\ step \notin 6 .. 9 /\ step # 16 /\ step' = step + 1
           /\ UNCHANGED <<libVars, db, events, counter_map, count, batchVars>>
           /\ \/ Skipped(Calls[step]) /\ kernel' = kernel
              \/ ~ Skipped(Calls[step]) /\ kernel' = SetsKernel(Calls[step])
<1>1. step \in 2 .. 21
  BY CallsAre DEF OtherCall, Built
<1>2. Calls[step] \notin {"kpep_db_event", "kpep_config_kpc_map"}
  BY DEF OtherCall
<1>3. step \notin 6 .. 9 /\ step # 16
  BY <1>1, <1>2, CallSteps
<1> QED BY <1>1, <1>3 DEF OtherCall, Succeeded

\* Only these calls of the constructor find events or give counters to them.
LEMMA EventsStep == ASSUME step \in 0 .. 22, EventsFound, [Next]_vars PROVE EventsFound'
<1>1. ASSUME UNCHANGED <<db, events, counter_map>>,
             step' = step \/ (step \notin 6 .. 9 /\ step # 16 /\ step' = step + 1)
      PROVE  EventsFound'
  <2>1. \A i : /\ Known(profile_events[i])' = Known(profile_events[i])
               /\ get_event(profile_events[i])' = get_event(profile_events[i])
    BY <1>1 DEF Known, get_event
  <2>2. (IF step' <= 6 THEN 0 ELSE IF step' <= 10 THEN step' - 6 ELSE 4)
          = IF step <= 6 THEN 0 ELSE IF step <= 10 THEN step - 6 ELSE 4
    BY <1>1
  <2>3. step' > 16 => step > 16
    BY <1>1
  <2>4. events' = events /\ counter_map' = counter_map
    BY <1>1
  <2>5. \A i \in 1 .. Len(events) : /\ Known(profile_events[i])' # {}
                                    /\ events[i] = get_event(profile_events[i])'
    BY <2>1 DEF EventsFound
  <2>6. Len(events) = IF step' <= 6 THEN 0 ELSE IF step' <= 10 THEN step' - 6 ELSE 4
    BY <2>2 DEF EventsFound
  <2> QED BY <2>3, <2>4, <2>5, <2>6 DEF EventsFound
<1>2. CASE OpenDatabase
  <2>1. step = 3 /\ step' = 4 /\ UNCHANGED <<events, counter_map>>
    BY <1>2, CallingStep, CallSteps DEF OpenDatabase, Succeeded
  <2>2. Len(events) = 0
    BY <2>1 DEF EventsFound
  <2>3. \A i \in 1 .. Len(events) : FALSE
    BY <2>2
  <2> QED BY <2>1, <2>2, <2>3 DEF EventsFound
<1>3. CASE FindEvent
  <2>1. CASE UNCHANGED <<step, kpcVars>>
    BY <2>1, <1>1 DEF kpcVars
  <2>2. CASE ~ UNCHANGED <<step, kpcVars>>
    <3> DEFINE k == Len(events) + 1
    <3>1. /\ Calling("kpep_db_event") /\ step' = step + 1
          /\ Known(profile_events[k]) # {}
          /\ events' = Append(events, get_event(profile_events[k]))
          /\ UNCHANGED <<db, counter_map>>
      BY <1>3, <2>2 DEF FindEvent, Fails, Failed, Succeeded
    <3>2. step \in 6 .. 9
      BY <3>1, CallingStep, CallSteps
    <3>3. Len(events) = step - 6 /\ k \in 1 .. 4 /\ k = step - 5 /\ events \in Seq(Name)
      BY <3>2 DEF EventsFound
    <3> HIDE DEF k
    <3>4. get_event(profile_events[k]) \in Name
      BY <3>1, <3>3, FirstKnown
    <3>5. /\ events' \in Seq(Name) /\ Len(events') = Len(events) + 1
          /\ \A i \in 1 .. Len(events) : events'[i] = events[i]
          /\ events'[k] = get_event(profile_events[k])
      BY <3>1, <3>3, <3>4, AppendProperties DEF k
    <3>6. Len(events') = step - 5
      BY <3>2, <3>3, <3>5
    <3>7. Len(events') = IF step' <= 6 THEN 0 ELSE IF step' <= 10 THEN step' - 6 ELSE 4
      BY <3>1, <3>2, <3>6
    <3>8. ASSUME NEW i \in 1 .. Len(events')
          PROVE  /\ Known(profile_events[i])' # {}
                 /\ events'[i] = get_event(profile_events[i])'
      <4>1. Known(profile_events[i])' = Known(profile_events[i])
              /\ get_event(profile_events[i])' = get_event(profile_events[i])
        BY <3>1 DEF Known, get_event
      <4>2. CASE i = k
        BY <3>1, <3>5, <4>1, <4>2
      <4>3. CASE i # k
        <5>1. i \in 1 .. Len(events)
          BY <3>2, <3>3, <3>6, <4>3
        <5> QED BY <3>5, <4>1, <5>1 DEF EventsFound
      <4> QED BY <4>2, <4>3
    <3>9. ~ (step' > 16)
      BY <3>1, <3>2
    <3> QED BY <3>5, <3>7, <3>8, <3>9 DEF EventsFound
  <2> QED BY <2>1, <2>2
<1>4. CASE MapEvents
  <2>1. step = 16 /\ step' = 17 /\ UNCHANGED <<db, events>>
    BY <1>4, CallingStep, CallSteps DEF MapEvents, Succeeded
  <2>2. /\ counter_map' \in [0 .. 3 -> Counters]
        /\ \A i, j \in 0 .. 3 : counter_map'[i] = counter_map'[j] => i = j
    <3>1. EV_COUNT - 1 = 3
      BY EvCount
    <3> QED BY <1>4, <3>1 DEF MapEvents
  <2>3. \A i : /\ Known(profile_events[i])' = Known(profile_events[i])
               /\ get_event(profile_events[i])' = get_event(profile_events[i])
    BY <2>1 DEF Known, get_event
  <2>4. Len(events) = 4
    BY <2>1 DEF EventsFound
  <2>5. Len(events') = IF step' <= 6 THEN 0 ELSE IF step' <= 10 THEN step' - 6 ELSE 4
    BY <2>1, <2>4
  <2> QED BY <2>1, <2>2, <2>3, <2>5 DEF EventsFound
<1>5. CASE OtherCall
  BY <1>1, <1>5, OtherStep
<1>6. CASE lib_init
  BY <1>1, <1>6, LoadingStep DEF kpcVars
<1>7. CASE CallFails
  BY <1>1, <1>7 DEF CallFails, Fails, Failed, kpcVars
<1>8. CASE Warmup \/ Construct \/ Start \/ Lookup \/ Finish
  BY <1>1, <1>8 DEF Warmup, Construct, Start, Lookup, Finish, kpcVars
<1>9. CASE UNCHANGED vars
  BY <1>1, <1>9 DEF vars, kpcVars
<1> QED BY <1>2, <1>3, <1>4, <1>5, <1>6, <1>7, <1>8, <1>9 DEF Next

\* The counters are set going in this order.
LEMMA KernelStep == ASSUME step \in 0 .. 22, KernelSet, [Next]_vars PROVE KernelSet'
<1>1. ASSUME UNCHANGED <<kernel, counter_map>>,
             step' = step \/ (step \notin 18 .. 21 /\ step' = step + 1)
      PROVE  KernelSet'
  <2>1. classes' = classes
    BY <1>1 DEF classes, Used
  <2> QED BY <1>1, <2>1 DEF KernelSet
<1>2. CASE OpenDatabase
  BY <1>1, <1>2, CallingStep, CallSteps DEF OpenDatabase, Succeeded
<1>3. CASE FindEvent
  <2>1. UNCHANGED <<kernel, counter_map>> /\ (step' = step \/ step' = step + 1)
          /\ step \in 6 .. 9
    BY <1>3, CallingStep, CallSteps DEF FindEvent, Fails, Failed, Succeeded, kpcVars
  <2> QED BY <1>1, <2>1
<1>4. CASE MapEvents
  <2>1. step = 16 /\ step' = 17 /\ kernel' = kernel
    BY <1>4, CallingStep, CallSteps DEF MapEvents, Succeeded
  <2> QED BY <2>1 DEF KernelSet
<1>5. CASE OtherCall
  <2> DEFINE call == Calls[step]
             k == SetsKernel(call)
  <2>1. /\ step \in 2 .. 21 /\ step' = step + 1 /\ counter_map' = counter_map
        /\ (Skipped(call) /\ kernel' = kernel) \/ (~ Skipped(call) /\ kernel' = k)
    BY <1>5, OtherStep
  <2>2. classes' = classes
    BY <2>1 DEF classes, Used
  <2>3. classes \in SUBSET {"fixed", "configurable"}
    BY DEF classes
  <2>4. /\ step = 18 => call = "kpc_force_all_ctrs_set"
        /\ step = 19 => call = "kpc_set_config"
        /\ step = 20 => call = "kpc_set_counting"
        /\ step = 21 => call = "kpc_set_thread_counting"
        /\ step \notin 18 .. 21 => call \notin {"kpc_force_all_ctrs_set", "kpc_set_config",
                                     "kpc_set_counting", "kpc_set_thread_counting"}
    BY <2>1, CallSteps
  <2> HIDE DEF call, k
  <2>5. CASE step \notin 18 .. 21
    <3>1. k = kernel
      BY <2>4, <2>5 DEF SetsKernel, k
    <3> QED BY <1>1, <2>1, <2>5, <3>1
  <2>6. CASE step = 18
    <3>1. kernel' = [kernel EXCEPT !.forced = TRUE]
      BY <2>1, <2>4, <2>6 DEF SetsKernel, Skipped, k
    <3>2. /\ kernel' \in [forced : BOOLEAN, configured : BOOLEAN,
                         classes : SUBSET {"fixed", "configurable"},
                         thread : SUBSET {"fixed", "configurable"}]
          /\ kernel'.forced = TRUE /\ kernel'.configured = kernel.configured
      BY <3>1 DEF KernelSet
    <3> QED BY <2>1, <2>2, <2>6, <3>2 DEF KernelSet
  <2>7. CASE step = 19
    <3>1. CASE "configurable" \in classes
      <4>1. kernel' = [kernel EXCEPT !.configured = TRUE]
        BY <2>1, <2>4, <2>7, <3>1 DEF SetsKernel, Skipped, k
      <4>2. /\ kernel' \in [forced : BOOLEAN, configured : BOOLEAN,
                           classes : SUBSET {"fixed", "configurable"},
                           thread : SUBSET {"fixed", "configurable"}]
            /\ kernel'.configured = TRUE /\ kernel'.forced = kernel.forced
        BY <4>1 DEF KernelSet
      <4> QED BY <2>1, <2>2, <2>7, <4>2 DEF KernelSet
    <3>2. CASE "configurable" \notin classes
      <4>1. kernel' = kernel
        BY <2>1, <2>4, <2>7, <3>2 DEF Skipped
      <4> QED BY <2>1, <2>2, <2>7, <3>2, <4>1 DEF KernelSet
    <3> QED BY <3>1, <3>2
  <2>8. CASE step = 20
    <3>1. kernel' = [kernel EXCEPT !.classes = classes]
      BY <2>1, <2>4, <2>8 DEF SetsKernel, Skipped, k
    <3> QED BY <2>1, <2>2, <2>3, <2>8, <3>1 DEF KernelSet
  <2>9. CASE step = 21
    <3>1. kernel' = [kernel EXCEPT !.thread = classes]
      BY <2>1, <2>4, <2>9 DEF SetsKernel, Skipped, k
    <3> QED BY <2>1, <2>2, <2>3, <2>9, <3>1 DEF KernelSet
  <2> QED BY <2>1, <2>5, <2>6, <2>7, <2>8, <2>9
<1>6. CASE lib_init
  BY <1>1, <1>6, LoadingStep DEF kpcVars
<1>7. CASE CallFails
  BY <1>1, <1>7 DEF CallFails, Fails, Failed, kpcVars
<1>8. CASE Warmup \/ Construct \/ Start \/ Lookup \/ Finish
  BY <1>1, <1>8 DEF Warmup, Construct, Start, Lookup, Finish, kpcVars
<1>9. CASE UNCHANGED vars
  BY <1>1, <1>9 DEF vars, kpcVars
<1> QED BY <1>2, <1>3, <1>4, <1>5, <1>6, <1>7, <1>8, <1>9 DEF Next

-----------------------------------------------------------------------------
(* The measurements.                                                         *)

\* The steps of the constructor leave the measurements alone.
LEMMA Constructing ==
    ASSUME step \in 0 .. 22,
           lib_init \/ CallFails \/ OpenDatabase \/ FindEvent \/ MapEvents \/ OtherCall
    PROVE  /\ pc = "start" /\ pc' \in {"start", "exit"} /\ step \in 1 .. 21
           /\ UNCHANGED <<count, n, start, results, misread>>
<1>1. CASE lib_init
  BY <1>1, LoadingStep DEF Failed, batchVars
<1>2. CASE CallFails
  BY <1>2, CallsAre DEF CallFails, Built, Fails, Failed
<1>3. CASE OpenDatabase
  BY <1>3, CallingStep DEF OpenDatabase, Succeeded, batchVars
<1>4. CASE FindEvent
  <2>1. step \in 1 .. 21 /\ pc = "start"
    BY <1>4, CallingStep DEF FindEvent
  <2>2. Succeeded \/ Failed
    BY <1>4 DEF FindEvent, Fails
  <2>3. count' = count
    BY <1>4 DEF FindEvent, Fails
  <2> QED BY <2>1, <2>2, <2>3 DEF Succeeded, Failed, batchVars
<1>5. CASE MapEvents
  BY <1>5, CallingStep DEF MapEvents, Succeeded, batchVars
<1>6. CASE OtherCall
  BY <1>6, OtherStep DEF OtherCall, batchVars
<1> QED BY <1>1, <1>2, <1>3, <1>4, <1>5, <1>6

\* What a reading returns.
LEMMA ReadsTyped ==
    ASSUME EventsFound, MeasureTyped, step = 22, NEW fails \in BOOLEAN
    PROVE  /\ Reads(fails) \in [Fields -> Counts]
           /\ ~ fails => \A f \in Fields : Reads(fails)[f] = count[Own(f)]
<1>1. Zeros \in [Fields -> Counts]
  BY FieldsAre, WordAssumption DEF Zeros, Counts
<1> QED BY <1>1, Reading DEF Reads

\* The result a measurement ends with.
LEMMA FinishAppends ==
    ASSUME LoadedInv, FieldsInv, Finish
    PROVE  \E fails \in BOOLEAN : \E d \in [Fields -> Int] :
             /\ d = [f \in Fields |-> (Reads(fails)[f] - start[f]) % 2 ^ Word]
             /\ results' = Append(results, [counter |-> d, misread |-> misread \/ fails])
             /\ misread \in BOOLEAN /\ results \in Seq([counter : [Fields -> Int], misread : BOOLEAN])
             /\ step = 22 /\ step' = 22 /\ pc = "lookup" /\ pc' = "warmup"
             /\ n = Batch[Len(results) + 1] /\ n' = 0 /\ start' = Zeros /\ misread' = FALSE
             /\ UNCHANGED <<events, counter_map, count>>
<1>1. step = 22
  BY DEF LoadedInv, Finish
<1>2. PICK fails \in BOOLEAN :
        results' = Append(results,
          [counter |-> [f \in Fields |-> (Reads(fails)[f] - start[f]) % 2 ^ Word],
           misread |-> misread \/ fails])
  BY DEF Finish, Fields
<1> DEFINE d == [f \in Fields |-> (Reads(fails)[f] - start[f]) % 2 ^ Word]
<1>3. d \in [Fields -> Int]
  <2>1. \A f \in Fields : Reads(fails)[f] \in Int /\ start[f] \in Int
    BY <1>1, ReadsTyped DEF FieldsInv, MeasureTyped, Counts
  <2> QED BY <2>1, WordAssumption
<1> QED BY <1>1, <1>2, <1>3 DEF Finish, FieldsInv, MeasureTyped, kpcVars

LEMMA MeasureStep == ASSUME LoadedInv, FieldsInv, [Next]_vars PROVE MeasureTyped'
<1>1. step \in 0 .. 22 /\ MeasureTyped /\ EventsFound /\ KernelSet
  BY DEF LoadedInv, FieldsInv
<1>2. CASE lib_init \/ CallFails \/ OpenDatabase \/ FindEvent \/ MapEvents \/ OtherCall
  <2>1. results = << >>
    BY <1>1, <1>2, Constructing DEF MeasureTyped
  <2> QED BY <1>1, <1>2, <2>1, Constructing DEF MeasureTyped
<1>3. CASE Warmup
  <2>1. count' \in [Counters -> Counts]
    BY <1>1, <1>3, TickedBuilt, TickedBefore DEF Warmup, MeasureTyped
  <2> QED BY <1>1, <1>3, <2>1 DEF Warmup, MeasureTyped
<1>4. CASE Construct
  BY <1>1, <1>4 DEF Construct, MeasureTyped, batchVars
<1>5. CASE Start
  <2>1. step = 22
    BY <1>1, <1>5, CallsAre DEF Start, Built
  <2>2. start' \in [Fields -> Counts] /\ misread' \in BOOLEAN
    BY <1>1, <1>5, <2>1, ReadsTyped DEF Start
  <2> QED BY <1>1, <1>5, <2>1, <2>2 DEF Start, MeasureTyped
<1>6. CASE Lookup
  <2>1. step = 22
    BY <1>6 DEF Lookup, LoadedInv
  <2>2. count' \in [Counters -> Counts]
    BY <1>1, <1>6, <2>1, TickedBuilt DEF Lookup
  <2> QED BY <1>1, <1>6, <2>1, <2>2 DEF Lookup, MeasureTyped
<1>7. CASE Finish
  <2>1. PICK fails \in BOOLEAN, d \in [Fields -> Int] :
          /\ results' = Append(results, [counter |-> d, misread |-> misread \/ fails])
          /\ misread \in BOOLEAN /\ results \in Seq([counter : [Fields -> Int], misread : BOOLEAN])
          /\ step = 22 /\ step' = 22 /\ pc = "lookup" /\ pc' = "warmup"
          /\ n' = 0 /\ start' = Zeros /\ misread' = FALSE /\ count' = count
    BY <1>7, FinishAppends
  <2>2. results' \in Seq([counter : [Fields -> Int], misread : BOOLEAN])
    BY <2>1, AppendProperties
  <2>3. Zeros \in [Fields -> Counts]
    BY FieldsAre, WordAssumption DEF Zeros, Counts
  <2> QED BY <1>1, <2>1, <2>2, <2>3 DEF MeasureTyped
<1>8. CASE UNCHANGED vars
  BY <1>1, <1>8 DEF vars, batchVars, MeasureTyped
<1> QED BY <1>2, <1>3, <1>4, <1>5, <1>6, <1>7, <1>8 DEF Next

\* In the timed loop each look-up adds its gain to the field's own counter.
LEMMA GainStep == ASSUME LoadedInv, FieldsInv, [Next]_vars PROVE GainSoFar'
<1>1. step \in 0 .. 22 /\ MeasureTyped /\ EventsFound /\ KernelSet
  BY DEF LoadedInv, FieldsInv
<1> SUFFICES ASSUME pc' = "lookup", ~ misread', NEW f \in Fields
             PROVE  (count[Own(f)] = (start[f] + n * Gain(f)) % 2 ^ Word)'
  BY DEF GainSoFar
<1>2. CASE Start
  <2>1. step = 22 /\ n = 0 /\ n' = 0 /\ UNCHANGED <<count, counter_map, events>>
    BY <1>1, <1>2, CallsAre DEF Start, Built, MeasureTyped, kpcVars
  <2>2. PICK fails \in BOOLEAN : start' = Reads(fails) /\ misread' = fails
    BY <1>2 DEF Start
  <2>3. start'[f] = count[Own(f)] /\ start'[f] \in Counts /\ Gain(f) \in Nat
    BY <1>1, <2>1, <2>2, ReadsTyped, Reading
  <2>4. Own(f)' = Own(f) /\ Gain(f)' = Gain(f)
    BY <2>1 DEF Own, Gain
  <2>5. start'[f] % 2 ^ Word = start'[f] /\ start'[f] + n' * Gain(f)' = start'[f]
    BY <2>1, <2>3, <2>4, WordAssumption DEF Counts
  <2> QED BY <2>1, <2>3, <2>4, <2>5
<1>3. CASE Lookup
  <2>1. step = 22 /\ pc = "lookup" /\ ~ misread /\ n' = n + 1 /\ n \in Nat
          /\ count' = Ticked /\ UNCHANGED <<counter_map, events, start>>
    BY <1>1, <1>3 DEF Lookup, LoadedInv, kpcVars, MeasureTyped
  <2>2. Own(f)' = Own(f) /\ Gain(f)' = Gain(f)
    BY <2>1 DEF Own, Gain
  <2> DEFINE i == Meaning[f] - 1
             g == Gain(f)
             s == start[f]
  <2>3. i \in 0 .. 3 /\ i + 1 = Meaning[f]
    BY FieldsAre
  <2>4. g \in Nat /\ s \in Nat
    BY <1>1, <2>1, Reading DEF MeasureTyped, Counts
  <2>5. Ticked[counter_map[i]] = (count[counter_map[i]] + Rate[events[i + 1]]) % 2 ^ Word
    BY <1>1, <2>1, <2>3, TickedBuilt
  <2>6. count'[Own(f)] = (count[Own(f)] + g) % 2 ^ Word
    BY <2>1, <2>3, <2>5 DEF Own, Gain
  <2>7. count[Own(f)] = (s + n * g) % 2 ^ Word
    BY <2>1 DEF FieldsInv, GainSoFar
  <2> HIDE DEF g, s
  <2>8. n * g \in Nat /\ (n + 1) * g = n * g + g
    BY <2>1, <2>4
  <2>9. (((s + n * g) % 2 ^ Word) + g) % 2 ^ Word = (s + n * g + g) % 2 ^ Word
    <3>1. 2 ^ Word \in Nat \ {0} /\ s + n * g \in Int /\ g \in Int
      BY <2>4, <2>8, WordAssumption
    <3> QED BY <3>1, AddMod
  <2>10. s + n * g + g = s + (n + 1) * g
    BY <2>4, <2>8
  <2> QED BY <2>1, <2>2, <2>6, <2>7, <2>9, <2>10 DEF g, s
<1>4. CASE UNCHANGED vars
  BY <1>4 DEF vars, batchVars, kpcVars, FieldsInv, GainSoFar, Own, Gain
<1>5. CASE lib_init \/ CallFails \/ OpenDatabase \/ FindEvent \/ MapEvents \/ OtherCall
  BY <1>1, <1>5, Constructing
<1>6. CASE Warmup \/ Construct \/ Finish
  BY <1>6 DEF Warmup, Construct, Finish, batchVars
<1> QED BY <1>2, <1>3, <1>4, <1>5, <1>6 DEF Next

LEMMA ResultsStep == ASSUME LoadedInv, FieldsInv, [Next]_vars PROVE ResultsTrue'
<1>1. step \in 0 .. 22 /\ MeasureTyped /\ EventsFound /\ KernelSet /\ ResultsTrue
  BY DEF LoadedInv, FieldsInv
<1>2. ASSUME results' = results, results = << >> \/ UNCHANGED events PROVE ResultsTrue'
  <2>1. CASE results = << >>
    BY <1>2, <2>1 DEF ResultsTrue
  <2>2. CASE UNCHANGED events
    BY <1>1, <1>2, <2>2 DEF ResultsTrue, Gain
  <2> QED BY <1>2, <2>1, <2>2
<1>3. CASE Finish
  <2>1. PICK fails \in BOOLEAN : \E d \in [Fields -> Int] :
          /\ d = [f \in Fields |-> (Reads(fails)[f] - start[f]) % 2 ^ Word]
          /\ results' = Append(results, [counter |-> d, misread |-> misread \/ fails])
          /\ misread \in BOOLEAN /\ results \in Seq([counter : [Fields -> Int], misread : BOOLEAN])
          /\ step = 22 /\ pc = "lookup" /\ n = Batch[Len(results) + 1] /\ events' = events
    BY <1>3, FinishAppends
  <2>2. PICK d \in [Fields -> Int] :
          /\ d = [f \in Fields |-> (Reads(fails)[f] - start[f]) % 2 ^ Word]
          /\ results' = Append(results, [counter |-> d, misread |-> misread \/ fails])
    BY <2>1
  <2> DEFINE k == Len(results) + 1
  <2>3. /\ Len(results') = k /\ results'[k] = [counter |-> d, misread |-> misread \/ fails]
        /\ \A r \in 1 .. Len(results) : results'[r] = results[r]
        /\ Len(results) \in Nat
    BY <2>1, <2>2, AppendProperties, LenProperties
  <2>4. ASSUME NEW f \in Fields, ~ (misread \/ fails)
        PROVE  d[f] = (n * Gain(f)) % 2 ^ Word
    <3>1. d[f] = (count[Own(f)] - start[f]) % 2 ^ Word
      BY <1>1, <2>1, <2>2, <2>4, ReadsTyped
    <3>2. count[Own(f)] = (start[f] + n * Gain(f)) % 2 ^ Word
      BY <2>1, <2>4 DEF FieldsInv, GainSoFar
    <3>3. start[f] \in 0 .. 2 ^ Word - 1 /\ Gain(f) \in Nat /\ n \in Nat
      BY <1>1, <2>1, Reading DEF MeasureTyped, Counts
    <3>4. n * Gain(f) \in Int
      BY <3>3
    <3> QED BY <3>1, <3>2, <3>3, <3>4, GainMod, WordAssumption
  <2>5. \A f \in Fields : Gain(f)' = Gain(f)
    BY <2>1 DEF Gain
  <2> HIDE DEF k
  <2>6. ASSUME NEW r \in 1 .. Len(results'), ~ results'[r].misread, NEW f \in Fields
        PROVE  results'[r].counter[f] = (Batch[r] * Gain(f)) % 2 ^ Word
    <3>1. CASE r = k
      <4>1. results'[r].counter = d /\ results'[r].misread = (misread \/ fails)
        BY <2>3, <3>1
      <4>2. Batch[r] = n
        BY <2>1, <3>1 DEF k
      <4> QED BY <2>4, <2>6, <4>1, <4>2
    <3>2. CASE r # k
      <4>1. r \in 1 .. Len(results)
        BY <2>3, <3>2 DEF k
      <4> QED BY <1>1, <2>3, <2>6, <4>1 DEF ResultsTrue
    <3> QED BY <3>1, <3>2
  <2> QED BY <2>5, <2>6 DEF ResultsTrue
<1>4. CASE lib_init \/ CallFails \/ OpenDatabase \/ FindEvent \/ MapEvents \/ OtherCall
  BY <1>1, <1>2, <1>4, Constructing DEF MeasureTyped
<1>5. CASE Warmup \/ Construct \/ Start \/ Lookup
  BY <1>2, <1>5 DEF Warmup, Construct, Start, Lookup, batchVars, kpcVars
<1>6. CASE UNCHANGED vars
  BY <1>2, <1>6 DEF vars, batchVars, kpcVars
<1> QED BY <1>3, <1>4, <1>5, <1>6 DEF Next

\* A field of a result that could be read is the number of its own events in the
\* timed look-ups, whatever counters the kernel chose and whatever the events are
\* called.
THEOREM ResultsAreTheBatch == Spec => []FieldsAreTheBatch
<1>1. Init => LoadedInv /\ FieldsInv
  <2> SUFFICES ASSUME Init PROVE LoadedInv /\ FieldsInv
    OBVIOUS
  <2>1. LoadedInv
    BY DEF Init, LoadedInv, SafelyLoaded, NoWildCall, HandlesTrue, AllOrNothing
  <2>2. EventsFound
    BY EmptySeq DEF Init, EventsFound
  <2>3. KernelSet
    BY DEF Init, KernelSet
  <2>4. MeasureTyped
    <3>1. Zeros \in [Fields -> Counts] /\ 0 \in Counts
      BY FieldsAre, WordAssumption DEF Zeros, Counts
    <3> QED BY <3>1, EmptySeq DEF Init, MeasureTyped
  <2>5. GainSoFar /\ ResultsTrue
    BY EmptySeq DEF Init, GainSoFar, ResultsTrue
  <2> QED BY <2>1, <2>2, <2>3, <2>4, <2>5 DEF FieldsInv
<1>2. LoadedInv /\ FieldsInv /\ [Next]_vars => (LoadedInv /\ FieldsInv)'
  <2> SUFFICES ASSUME LoadedInv, FieldsInv, [Next]_vars PROVE (LoadedInv /\ FieldsInv)'
    OBVIOUS
  <2>1. step \in 0 .. 22 /\ EventsFound /\ KernelSet
    BY DEF LoadedInv, FieldsInv
  <2> QED BY <2>1, LoadedStep, EventsStep, KernelStep, MeasureStep, GainStep, ResultsStep
          DEF FieldsInv
<1>3. LoadedInv /\ FieldsInv => FieldsAreTheBatch
  <2> SUFFICES ASSUME LoadedInv, FieldsInv, NEW r \in DOMAIN results, ~ results[r].misread,
                      NEW f \in Fields
               PROVE  LET names == profile_events[Meaning[f]]
                          first == CHOOSE j \in DOMAIN names :
                                     names[j] \in db /\ \A i \in 1 .. j - 1 : names[i] \notin db
                      IN  results[r].counter[f] = (Batch[r] * Rate[names[first]]) % 2 ^ Word
    BY DEF FieldsAreTheBatch, Fields
  <2>1. r \in 1 .. Len(results) /\ step = 22
    <3>1. results \in Seq([counter : [Fields -> Int], misread : BOOLEAN])
      BY DEF FieldsInv, MeasureTyped
    <3>2. DOMAIN results = 1 .. Len(results) /\ results # << >>
      BY <3>1, LenProperties
    <3> QED BY <3>2 DEF FieldsInv, MeasureTyped
  <2>2. Len(events) = 4 /\ EventsFound
    BY <2>1 DEF FieldsInv, EventsFound
  <2>3. /\ Meaning[f] \in 1 .. 4 /\ Known(profile_events[Meaning[f]]) # {}
        /\ events[Meaning[f]] = get_event(profile_events[Meaning[f]])
    BY <2>2, FieldsAre DEF EventsFound
  <2>4. results[r].counter[f] = (Batch[r] * Gain(f)) % 2 ^ Word
    BY <2>1 DEF FieldsInv, ResultsTrue
  <2> QED BY <2>3, <2>4, FirstKnown DEF Gain
<1> QED BY <1>1, <1>2, <1>3, PTL DEF Spec
=============================================================================
