---------------------------- MODULE BenchProofs -----------------------------
(* The x86 recorder and the drivers, for every workload, limit of            *)
(* descriptors, refusal and failed read: no event is lost or owned twice,    *)
(* and none counts outside the timed look-ups of its own counter set.  What  *)
(* benchmark_split then reports, for every rate of events and width of the   *)
(* counters, are the events and the sum of its own timed look-ups.           *)
EXTENDS Report, NumberLemmas, SequenceTheorems

-----------------------------------------------------------------------------
(* The groups.                                                               *)

LEMMA GroupsAre ==
    /\ DOMAIN Config = Group
    /\ Events("core") = 1 .. 4 /\ Events("l1d") = 1 .. 2 /\ Events("llc") = 1 .. 2
    /\ Len(Config["core"]) = 4 /\ Len(Config["l1d"]) = 2 /\ Len(Config["llc"]) = 2
  BY DEF Config, Events, Group

LEMMA EventsAre ==
    ASSUME NEW g \in Group
    PROVE  /\ Len(Config[g]) \in 2 .. 4
           /\ Events(g) = 1 .. Len(Config[g])
           /\ Events(g) \subseteq 1 .. 4 /\ 1 \in Events(g)
<1>1. CASE g = "core" BY <1>1, GroupsAre
<1>2. CASE g = "l1d" BY <1>2, GroupsAre
<1>3. CASE g = "llc" BY <1>3, GroupsAre
<1> QED BY <1>1, <1>2, <1>3 DEF Group

-----------------------------------------------------------------------------
(* The invariant.                                                            *)

Descriptor == {NoFd} \cup (FirstFd .. MaxFd)

\* An open event is a record with these fields.
IsEvent(r) ==
    /\ r = [event |-> r.event, leader |-> r.leader, enabled |-> r.enabled,
            count |-> r.count, time |-> r.time]
    /\ r.enabled \in BOOLEAN

RecorderTyped ==
    /\ others \subseteq FirstFd .. MaxFd
    /\ fds = [g \in Group |-> fds[g]]
    /\ \A g \in Group : fds[g] \in [Events(g) -> Descriptor]
    /\ ok \in [Group -> BOOLEAN]
    /\ \A h \in DOMAIN kernel : IsEvent(kernel[h])
    /\ stage \in {"unbuilt", "opening", "built", "exited"}
    /\ next \in Group \X (1 .. 4) /\ next[2] \in Events(next[1])

\* Groups whose constructor runs after that of g.
Later(g) == CASE g = "core" -> {"l1d", "llc"} [] g = "l1d" -> {"llc"} [] OTHER -> {}

\* What the constructors have not reached is not open.
OpenSoFar ==
    /\ stage = "unbuilt" => (\A g \in Group : ~ ok[g]) /\ next = <<"core", 1>>
    /\ stage = "opening" =>
         /\ \A g \in {next[1]} \cup Later(next[1]) : ~ ok[g]
         /\ \A m \in Events(next[1]) : m >= next[2] => fds[next[1]][m] = NoFd
         /\ next[2] > 1 => fds[next[1]][1] # NoFd

RecorderInv == RecorderTyped /\ OpenSoFar /\ DescriptorsOwned

\* The batch does not go on before the recorder is built.
BatchTyped ==
    /\ set \in CounterSet
    /\ pc \in {"returned", "warmup", "disable", "enable", "start", "lookup"}
    /\ stage = "opening" => pc = "disable"
    /\ pc \in {"enable", "start", "lookup"} => stage # "unbuilt"

Measured(g) == pc \in {"start", "lookup"} /\ g \in GroupsOf(set) /\ ok[g]

\* A leader is enabled exactly for a measurement, and then so are its members.
LeadersSwitch ==
    \A g \in Group : fds[g][1] # NoFd =>
        /\ kernel[fds[g][1]].enabled <=> Measured(g)
        /\ Measured(g) => \A m \in Events(g) : kernel[fds[g][m]].enabled

HandInv == RecorderInv /\ BatchTyped /\ LeadersSwitch

-----------------------------------------------------------------------------
(* Descriptors.                                                              *)

Held == {gm \in Group \X (1 .. 4) : gm[2] \in Events(gm[1]) /\ fds[gm[1]][gm[2]] # NoFd}

\* DescriptorsOwned group by group.
OthersApart == others \cap DOMAIN kernel = {}
EachHeld ==
    \A h \in DOMAIN kernel : \E g \in Group : \E m \in Events(g) : h = fds[g][m] /\ h # NoFd
HeldOpen ==
    \A g \in Group : \A m \in Events(g) : fds[g][m] # NoFd =>
        /\ fds[g][m] \in DOMAIN kernel
        /\ kernel[fds[g][m]].event = Config[g][m]
        /\ kernel[fds[g][m]].leader = fds[g][1]
HeldOnce ==
    \A g1, g2 \in Group : \A m1 \in Events(g1), m2 \in Events(g2) :
        fds[g1][m1] # NoFd /\ fds[g1][m1] = fds[g2][m2] => g1 = g2 /\ m1 = m2
WholeOrNone ==
    \A g \in Group :
        IF ok[g] THEN \A m \in Events(g) : fds[g][m] # NoFd
        ELSE (stage # "opening" \/ next[1] # g) => \A m \in Events(g) : fds[g][m] = NoFd
GroupsOwn == OthersApart /\ EachHeld /\ HeldOpen /\ HeldOnce /\ WholeOrNone

LEMMA Owned == DescriptorsOwned <=> GroupsOwn
<1>1. \A g \in Group : \A m \in 1 .. 4 :
          <<g, m>> \in Held <=> m \in Events(g) /\ fds[g][m] # NoFd
  BY DEF Held
<1>2. \A x \in Held : /\ x = <<x[1], x[2]>> /\ x[1] \in Group /\ x[2] \in Events(x[1])
                      /\ fds[x[1]][x[2]] # NoFd
  BY DEF Held
<1>3. \A g \in Group : \A m \in Events(g) : m \in 1 .. 4
  BY EventsAre
<1>4. DescriptorsOwned <=>
          /\ others \cap DOMAIN kernel = {}
          /\ DOMAIN kernel = {fds[x[1]][x[2]] : x \in Held}
          /\ \A x, y \in Held : fds[x[1]][x[2]] = fds[y[1]][y[2]] => x = y
          /\ \A x \in Held :
               /\ kernel[fds[x[1]][x[2]]].event = Config[x[1]][x[2]]
               /\ kernel[fds[x[1]][x[2]]].leader = fds[x[1]][1]
          /\ \A g \in Group :
               IF ok[g] THEN \A m \in Events(g) : <<g, m>> \in Held
               ELSE (stage # "opening" \/ next[1] # g)
                      => \A m \in Events(g) : <<g, m>> \notin Held
  BY DEF DescriptorsOwned, Held
<1> HIDE DEF Held
<1>5. DOMAIN kernel = {fds[x[1]][x[2]] : x \in Held} <=>
          EachHeld /\ \A g \in Group : \A m \in Events(g) :
                          fds[g][m] # NoFd => fds[g][m] \in DOMAIN kernel
  <2>1. ASSUME DOMAIN kernel = {fds[x[1]][x[2]] : x \in Held}
        PROVE  EachHeld /\ \A g \in Group : \A m \in Events(g) :
                               fds[g][m] # NoFd => fds[g][m] \in DOMAIN kernel
    <3>1. EachHeld
      BY <1>2, <2>1 DEF EachHeld
    <3>2. ASSUME NEW g \in Group, NEW m \in Events(g), fds[g][m] # NoFd
          PROVE  fds[g][m] \in DOMAIN kernel
      <4>1. <<g, m>> \in Held
        BY <1>1, <1>3, <3>2
      <4>2. fds[<<g, m>>[1]][<<g, m>>[2]] \in DOMAIN kernel
        BY <2>1, <4>1
      <4> QED BY <4>2
    <3> QED BY <3>1, <3>2
  <2>2. ASSUME EachHeld, \A g \in Group : \A m \in Events(g) :
                             fds[g][m] # NoFd => fds[g][m] \in DOMAIN kernel
        PROVE  DOMAIN kernel = {fds[x[1]][x[2]] : x \in Held}
    <3>1. \A h \in DOMAIN kernel : \E x \in Held : h = fds[x[1]][x[2]]
      <4> SUFFICES ASSUME NEW h \in DOMAIN kernel PROVE \E x \in Held : h = fds[x[1]][x[2]]
        OBVIOUS
      <4>1. PICK g \in Group : \E m \in Events(g) : h = fds[g][m] /\ h # NoFd
        BY <2>2 DEF EachHeld
      <4>2. PICK m \in Events(g) : h = fds[g][m] /\ h # NoFd
        BY <4>1
      <4>3. <<g, m>> \in Held
        BY <1>1, <1>3, <4>2
      <4> QED BY <4>2, <4>3
    <3>2. \A x \in Held : fds[x[1]][x[2]] \in DOMAIN kernel
      BY <1>2, <2>2
    <3> QED BY <3>1, <3>2
  <2> QED BY <2>1, <2>2
<1>6. (\A x, y \in Held : fds[x[1]][x[2]] = fds[y[1]][y[2]] => x = y) <=> HeldOnce
  <2>1. ASSUME \A x, y \in Held : fds[x[1]][x[2]] = fds[y[1]][y[2]] => x = y
        PROVE  HeldOnce
    <3> SUFFICES ASSUME NEW g1 \in Group, NEW g2 \in Group,
                        NEW m1 \in Events(g1), NEW m2 \in Events(g2),
                        fds[g1][m1] # NoFd, fds[g1][m1] = fds[g2][m2]
                 PROVE  g1 = g2 /\ m1 = m2
      BY DEF HeldOnce
    <3>1. <<g1, m1>> \in Held /\ <<g2, m2>> \in Held
      BY <1>1, <1>3
    <3>2. <<g1, m1>> = <<g2, m2>>
      BY <2>1, <3>1
    <3> QED BY <3>2
  <2>2. ASSUME HeldOnce
        PROVE  \A x, y \in Held : fds[x[1]][x[2]] = fds[y[1]][y[2]] => x = y
    BY <1>2, <2>2 DEF HeldOnce
  <2> QED BY <2>1, <2>2
<1>7. (\A x \in Held : /\ kernel[fds[x[1]][x[2]]].event = Config[x[1]][x[2]]
                       /\ kernel[fds[x[1]][x[2]]].leader = fds[x[1]][1]) <=>
      (\A g \in Group : \A m \in Events(g) : fds[g][m] # NoFd =>
                       /\ kernel[fds[g][m]].event = Config[g][m]
                       /\ kernel[fds[g][m]].leader = fds[g][1])
  <2>1. \A g \in Group : \A m \in Events(g) : fds[g][m] # NoFd => <<g, m>> \in Held
    BY <1>1, <1>3
  <2> QED BY <1>2, <2>1
<1>8. (\A g \in Group :
         IF ok[g] THEN \A m \in Events(g) : <<g, m>> \in Held
         ELSE (stage # "opening" \/ next[1] # g)
                => \A m \in Events(g) : <<g, m>> \notin Held) <=> WholeOrNone
  BY <1>1, <1>3 DEF WholeOrNone
<1> QED BY <1>4, <1>5, <1>6, <1>7, <1>8 DEF GroupsOwn, OthersApart, HeldOpen

\* The kernel hands out the lowest descriptor nobody uses.
LEMMA FreeFdIsFree ==
    ASSUME FreeFds # {}
    PROVE  FreeFd \in FirstFd .. MaxFd /\ FreeFd \notin DOMAIN kernel /\ FreeFd \notin others
<1>1. FreeFds \in SUBSET Nat
  BY DescriptorAssumption DEF FreeFds, FirstFd
<1>2. PICK h \in FreeFds : \A x \in FreeFds : h <= x
  BY <1>1, LeastNatural
<1>3. FirstFd .. h - 1 \subseteq InUse
  BY <1>1, <1>2, DescriptorAssumption DEF FreeFds, FirstFd
<1>4. FreeFd \in FreeFds
  BY <1>2, <1>3 DEF FreeFd
<1> QED BY <1>4 DEF FreeFds, InUse

-----------------------------------------------------------------------------
(* Switching and counting.                                                   *)

\* The events are the same, whatever they count and whether they are enabled.
SameEvents(k1, k2) ==
    /\ DOMAIN k2 = DOMAIN k1
    /\ \A h \in DOMAIN k1 : /\ IsEvent(k2[h]) /\ k2[h].event = k1[h].event
                            /\ k2[h].leader = k1[h].leader

LEMMA SameEventsKeep ==
    ASSUME RecorderInv, SameEvents(kernel, kernel'), UNCHANGED <<others, fds, ok, stage, next>>
    PROVE  RecorderInv'
<1>1. RecorderTyped' /\ OpenSoFar'
  BY DEF RecorderInv, RecorderTyped, OpenSoFar, SameEvents
<1>2. GroupsOwn
  BY Owned DEF RecorderInv
<1>3. OthersApart' /\ EachHeld'
  BY <1>2 DEF GroupsOwn, OthersApart, EachHeld, SameEvents
<1>4. HeldOpen'
  BY <1>2 DEF GroupsOwn, HeldOpen, SameEvents
<1>5. HeldOnce' /\ WholeOrNone'
  BY <1>2 DEF GroupsOwn, HeldOnce, WholeOrNone
<1>6. Owned'
  BY Owned, PTL
<1> QED BY <1>1, <1>3, <1>4, <1>5, <1>6 DEF RecorderInv, GroupsOwn

LEMMA SwitchSame ==
    ASSUME NEW k, \A h \in DOMAIN k : IsEvent(k[h]), NEW b \in BOOLEAN, NEW groups
    PROVE  /\ SameEvents(k, SwitchedTo(b, k, groups))
           /\ \A h \in DOMAIN k : SwitchedTo(b, k, groups)[h].enabled =
                IF \E g \in groups : ok[g] /\ k[h].leader = fds[g][1] THEN b ELSE k[h].enabled
<1> DEFINE k2 == SwitchedTo(b, k, groups)
<1>1. DOMAIN k2 = DOMAIN k
  BY DEF SwitchedTo
<1>2. ASSUME NEW h \in DOMAIN k
      PROVE  /\ IsEvent(k2[h]) /\ k2[h].event = k[h].event /\ k2[h].leader = k[h].leader
             /\ k2[h].enabled = IF \E g \in groups : ok[g] /\ k[h].leader = fds[g][1]
                                THEN b ELSE k[h].enabled
  <2>1. IsEvent(k[h])
    OBVIOUS
  <2>2. CASE \E g \in groups : ok[g] /\ k[h].leader = fds[g][1]
    <3>1. k2[h] = [k[h] EXCEPT !.enabled = b]
      BY <2>2 DEF SwitchedTo
    <3>2. k2[h] = [event |-> k[h].event, leader |-> k[h].leader, enabled |-> b,
                   count |-> k[h].count, time |-> k[h].time]
      BY <2>1, <3>1 DEF IsEvent
    <3> QED BY <2>2, <3>2 DEF IsEvent
  <2>3. CASE ~ \E g \in groups : ok[g] /\ k[h].leader = fds[g][1]
    <3>1. k2[h] = k[h]
      BY <2>3 DEF SwitchedTo
    <3> QED BY <2>1, <2>3, <3>1
  <2> QED BY <2>2, <2>3
<1> QED BY <1>1, <1>2 DEF SameEvents

LEMMA TickSame ==
    ASSUME \A h \in DOMAIN kernel : IsEvent(kernel[h]), NEW rate, NEW onCpu
    PROVE  /\ SameEvents(kernel, Ticked(rate, onCpu))
           /\ \A h \in DOMAIN kernel : Ticked(rate, onCpu)[h].enabled = kernel[h].enabled
<1> DEFINE k2 == Ticked(rate, onCpu)
<1>1. DOMAIN k2 = DOMAIN kernel
  BY DEF Ticked
<1>2. ASSUME NEW h \in DOMAIN kernel
      PROVE  /\ IsEvent(k2[h]) /\ k2[h].event = kernel[h].event
             /\ k2[h].leader = kernel[h].leader /\ k2[h].enabled = kernel[h].enabled
  <2>1. IsEvent(kernel[h])
    OBVIOUS
  <2>2. CASE Counting(h)
    <3> DEFINE runs == \E g \in onCpu : fds[g][1] = kernel[h].leader
               more == IF runs THEN 1 ELSE 0
               c == (kernel[h].count + more * rate[kernel[h].event]) % 2 ^ Word
               u == <<kernel[h].time[1] + 1, kernel[h].time[2] + more>>
    <3>1. k2[h] = [kernel[h] EXCEPT !.count = c, !.time = u]
      BY <2>1, <2>2 DEF Ticked, IsEvent
    <3> HIDE DEF c, u
    <3>2. k2[h] = [event |-> kernel[h].event, leader |-> kernel[h].leader,
                   enabled |-> kernel[h].enabled, count |-> c, time |-> u]
      BY <2>1, <3>1 DEF IsEvent
    <3> QED BY <2>1, <3>2 DEF IsEvent
  <2>3. CASE ~ Counting(h)
    <3>1. k2[h] = kernel[h]
      BY <2>3 DEF Ticked
    <3> QED BY <2>1, <3>1
  <2> QED BY <2>2, <2>3
<1> QED BY <1>1, <1>2 DEF SameEvents

-----------------------------------------------------------------------------
(* Opening, closing and leaving.                                             *)

\* What one perf_event_open of the constructors finds and, if it is let, adds.
LEMMA OneOpened ==
    ASSUME HandInv, NEW success \in BOOLEAN, Open(success),
           NEW g, NEW p, g = next[1], p = next[2]
    PROVE  LET mine == [fds[g] EXCEPT ![p] = IF success THEN FreeFd ELSE NoFd]
               all  == IF success THEN Opened(FreeFd, g, p) ELSE kernel
           IN  /\ g \in Group /\ p \in Events(g) /\ ~ ok[g]
               /\ pc = "disable" /\ stage = "opening"
               /\ mine \in [Events(g) -> Descriptor]
               /\ \A m \in Events(g) : m # p => mine[m] = fds[g][m]
               /\ \A m \in Events(g) : m >= p => fds[g][m] = NoFd
               /\ p > 1 => fds[g][1] # NoFd
               /\ mine[p] = NoFd => ~ success /\ all = kernel
               /\ mine[p] # NoFd => /\ success
                                    /\ mine[p] \notin DOMAIN kernel /\ mine[p] \notin others
                                    /\ DOMAIN all = DOMAIN kernel \cup {mine[p]}
                                    /\ all[mine[p]].event = Config[g][p]
                                    /\ all[mine[p]].leader = mine[1]
                                    /\ IsEvent(all[mine[p]])
                                    /\ p = 1 => ~ all[mine[p]].enabled
               /\ \A h \in DOMAIN kernel : all[h] = kernel[h]
<1> DEFINE mine == [fds[g] EXCEPT ![p] = IF success THEN FreeFd ELSE NoFd]
           all  == IF success THEN Opened(FreeFd, g, p) ELSE kernel
<1>1. g \in Group /\ p \in Events(g) /\ fds[g] \in [Events(g) -> Descriptor]
  BY DEF HandInv, RecorderInv, RecorderTyped
<1>2. stage = "opening" /\ pc = "disable" /\ ~ ok[g]
      /\ (\A m \in Events(g) : m >= p => fds[g][m] = NoFd) /\ (p > 1 => fds[g][1] # NoFd)
  BY DEF HandInv, RecorderInv, OpenSoFar, Open, BatchTyped
<1>3. success => FreeFd \in FirstFd .. MaxFd /\ FreeFd \notin DOMAIN kernel /\ FreeFd \notin others
  BY FreeFdIsFree DEF Open
<1>4. mine[p] = IF success THEN FreeFd ELSE NoFd
  BY <1>1
<1>5. mine \in [Events(g) -> Descriptor] /\ \A m \in Events(g) : m # p => mine[m] = fds[g][m]
  BY <1>1, <1>3 DEF Descriptor
<1>6. mine[p] # NoFd <=> success
  BY <1>3, <1>4, DescriptorAssumption DEF NoFd, FirstFd
<1>7. ASSUME success
      PROVE  /\ mine[p] = FreeFd
             /\ DOMAIN all = DOMAIN kernel \cup {FreeFd}
             /\ all[FreeFd] = [event |-> Config[g][p],
                               leader |-> IF p = 1 THEN FreeFd ELSE fds[g][1],
                               enabled |-> p # 1, count |-> 0, time |-> <<0, 0>>]
             /\ \A h \in DOMAIN kernel : all[h] = kernel[h]
  <2>1. all = Opened(FreeFd, g, p)
    BY <1>7
  <2> QED BY <1>3, <1>4, <1>7, <2>1 DEF Opened
<1>8. 1 \in Events(g)
  BY <1>1, EventsAre
<1>9. ASSUME success
      PROVE  /\ all[FreeFd].leader = mine[1] /\ IsEvent(all[FreeFd])
             /\ all[FreeFd].event = Config[g][p] /\ (p = 1 => ~ all[FreeFd].enabled)
  <2> DEFINE l == IF p = 1 THEN FreeFd ELSE fds[g][1]
             b == p # 1
  <2>1. mine[1] = l
    BY <1>5, <1>7, <1>8, <1>9
  <2>2. all[FreeFd] = [event |-> Config[g][p], leader |-> l, enabled |-> b,
                       count |-> 0, time |-> <<0, 0>>]
    BY <1>7, <1>9
  <2>3. b \in BOOLEAN /\ (p = 1 => ~ b)
    OBVIOUS
  <2> HIDE DEF l, b
  <2> DEFINE r == all[FreeFd]
  <2>4. r = [event |-> Config[g][p], leader |-> l, enabled |-> b,
             count |-> 0, time |-> <<0, 0>>]
    BY <2>2
  <2> HIDE DEF r
  <2>5. IsEvent(r) /\ r.enabled = b /\ r.event = Config[g][p] /\ r.leader = l
    BY <2>3, <2>4 DEF IsEvent
  <2> QED BY <2>1, <2>3, <2>5 DEF r
<1> HIDE DEF mine
<1>10. ~ success => all = kernel
  OBVIOUS
<1> HIDE DEF all
<1>11. mine[p] = NoFd => ~ success /\ all = kernel
  BY <1>6, <1>10
<1>12. ASSUME mine[p] # NoFd
       PROVE  /\ success
              /\ mine[p] \notin DOMAIN kernel /\ mine[p] \notin others
              /\ DOMAIN all = DOMAIN kernel \cup {mine[p]}
              /\ all[mine[p]].event = Config[g][p] /\ all[mine[p]].leader = mine[1]
              /\ IsEvent(all[mine[p]]) /\ (p = 1 => ~ all[mine[p]].enabled)
  <2>1. success /\ mine[p] = FreeFd
    BY <1>6, <1>7, <1>12
  <2> QED BY <1>3, <1>7, <1>9, <2>1
<1>13. \A h \in DOMAIN kernel : all[h] = kernel[h]
  BY <1>7, <1>10
<1> QED BY <1>1, <1>2, <1>5, <1>11, <1>12, <1>13 DEF mine, all

\* A group that keeps what it has opened, complete or not yet.
LEMMA KeptOwned ==
    ASSUME HandInv, NEW success \in BOOLEAN, Open(success),
           NEW g, NEW p, g = next[1], p = next[2],
           NEW mine, mine = [fds[g] EXCEPT ![p] = IF success THEN FreeFd ELSE NoFd],
           NEW all, all = (IF success THEN Opened(FreeFd, g, p) ELSE kernel),
           fds' = [fds EXCEPT ![g] = mine], kernel' = all
    PROVE  /\ \A h \in DOMAIN kernel' : IsEvent(kernel'[h])
           /\ OthersApart' /\ EachHeld' /\ HeldOpen' /\ HeldOnce'
           /\ \A x \in Group : fds'[x][1] # NoFd => ~ kernel'[fds'[x][1]].enabled
<1>1. /\ g \in Group /\ p \in Events(g) /\ ~ ok[g] /\ pc = "disable"
      /\ \A m \in Events(g) : m # p => mine[m] = fds[g][m]
      /\ \A m \in Events(g) : m >= p => fds[g][m] = NoFd
      /\ mine[p] = NoFd => all = kernel
      /\ mine[p] # NoFd => /\ mine[p] \notin DOMAIN kernel /\ mine[p] \notin others
                           /\ DOMAIN all = DOMAIN kernel \cup {mine[p]}
                           /\ all[mine[p]].event = Config[g][p]
                           /\ all[mine[p]].leader = mine[1]
                           /\ IsEvent(all[mine[p]])
                           /\ p = 1 => ~ all[mine[p]].enabled
      /\ \A h \in DOMAIN kernel : all[h] = kernel[h]
  BY OneOpened
<1>2. GroupsOwn
  BY Owned DEF HandInv, RecorderInv
<1>3. fds'[g] = mine /\ \A x \in Group : x # g => fds'[x] = fds[x]
  BY <1>1 DEF HandInv, RecorderInv, RecorderTyped
<1>4. \A x \in Group : \A m \in Events(x) : fds[x][m] # NoFd =>
          /\ fds'[x][m] = fds[x][m] /\ fds[x][m] \in DOMAIN kernel
          /\ ~ (x = g /\ m = p)
  <2>1. 1 \in Events(g) /\ Events(g) \subseteq 1 .. 4
    BY <1>1, EventsAre
  <2> QED BY <1>1, <1>2, <1>3, <2>1 DEF GroupsOwn, HeldOpen
<1>5. \A x \in Group : \A m \in Events(x) : fds'[x][m] # NoFd =>
          \/ fds[x][m] # NoFd /\ fds'[x][m] = fds[x][m]
          \/ x = g /\ m = p /\ fds[x][m] = NoFd /\ fds'[x][m] = mine[p] /\ mine[p] # NoFd
  BY <1>1, <1>3, <1>4, EventsAre
<1>6. DOMAIN kernel' = DOMAIN kernel \cup (IF mine[p] = NoFd THEN {} ELSE {mine[p]})
      /\ \A h \in DOMAIN kernel : kernel'[h] = kernel[h]
  BY <1>1
<1>7. \A h \in DOMAIN kernel' : IsEvent(kernel'[h])
  BY <1>1, <1>6 DEF HandInv, RecorderInv, RecorderTyped
<1>8. OthersApart'
  <2>1. others' = others
    BY DEF Open
  <2> QED BY <1>1, <1>2, <1>6, <2>1 DEF GroupsOwn, OthersApart
<1>9. EachHeld'
  <2> SUFFICES ASSUME NEW h \in DOMAIN kernel'
               PROVE  \E x \in Group : \E m \in Events(x) : h = fds'[x][m] /\ h # NoFd
    BY DEF EachHeld
  <2>1. CASE h \in DOMAIN kernel
    BY <1>2, <1>4, <2>1 DEF GroupsOwn, EachHeld
  <2>2. CASE h \notin DOMAIN kernel
    BY <1>1, <1>3, <1>6, <2>2
  <2> QED BY <2>1, <2>2
<1>10. HeldOpen'
  <2> SUFFICES ASSUME NEW x \in Group, NEW m \in Events(x), fds'[x][m] # NoFd
               PROVE  /\ fds'[x][m] \in DOMAIN kernel'
                      /\ kernel'[fds'[x][m]].event = Config[x][m]
                      /\ kernel'[fds'[x][m]].leader = fds'[x][1]
    BY DEF HeldOpen
  <2>1. CASE fds[x][m] # NoFd
    <3>1. /\ fds[x][m] \in DOMAIN kernel /\ kernel[fds[x][m]].event = Config[x][m]
          /\ kernel[fds[x][m]].leader = fds[x][1] /\ fds'[x][m] = fds[x][m]
      BY <1>2, <1>4, <2>1 DEF GroupsOwn, HeldOpen
    <3>2. fds'[x][1] = fds[x][1]
      <4>1. 1 \in Events(x) /\ m >= 1
        BY EventsAre
      <4>2. x = g => p # 1
        BY <1>1, <2>1, <4>1
      <4> QED BY <1>1, <1>3, <4>1, <4>2
    <3> QED BY <1>6, <3>1, <3>2
  <2>2. CASE fds[x][m] = NoFd
    BY <1>1, <1>3, <1>5, <1>6, <2>2
  <2> QED BY <2>1, <2>2
<1>11. HeldOnce'
  <2> SUFFICES ASSUME NEW g1 \in Group, NEW g2 \in Group,
                      NEW m1 \in Events(g1), NEW m2 \in Events(g2),
                      fds'[g1][m1] # NoFd, fds'[g1][m1] = fds'[g2][m2]
               PROVE  g1 = g2 /\ m1 = m2
    BY DEF HeldOnce
  <2>1. CASE fds[g1][m1] # NoFd /\ fds[g2][m2] # NoFd
    BY <1>2, <1>4, <2>1 DEF GroupsOwn, HeldOnce
  <2>2. CASE fds[g1][m1] # NoFd /\ fds[g2][m2] = NoFd
    BY <1>1, <1>4, <1>5, <2>2
  <2>3. CASE fds[g1][m1] = NoFd /\ fds[g2][m2] # NoFd
    BY <1>1, <1>4, <1>5, <2>3
  <2>4. CASE fds[g1][m1] = NoFd /\ fds[g2][m2] = NoFd
    BY <1>5, <2>4
  <2> QED BY <2>1, <2>2, <2>3, <2>4
<1>12. ASSUME NEW x \in Group, fds'[x][1] # NoFd PROVE ~ kernel'[fds'[x][1]].enabled
  <2>1. 1 \in Events(x)
    BY EventsAre
  <2>2. CASE fds[x][1] # NoFd
    <3>1. ~ kernel[fds[x][1]].enabled
      BY <1>1, <2>2 DEF HandInv, LeadersSwitch, Measured
    <3> QED BY <1>4, <1>6, <2>1, <2>2, <3>1
  <2>3. CASE fds[x][1] = NoFd
    BY <1>1, <1>5, <1>12, <2>1, <2>3
  <2> QED BY <2>2, <2>3
<1> QED BY <1>7, <1>8, <1>9, <1>10, <1>11, <1>12

\* A group that is closed leaves the others as they are.
LEMMA ClosedOwned ==
    ASSUME HandInv, NEW success \in BOOLEAN, Open(success),
           NEW g, NEW p, g = next[1], p = next[2],
           NEW mine, mine = [fds[g] EXCEPT ![p] = IF success THEN FreeFd ELSE NoFd],
           NEW all, all = (IF success THEN Opened(FreeFd, g, p) ELSE kernel),
           close_all(g, mine, all)
    PROVE  /\ \A h \in DOMAIN kernel' : IsEvent(kernel'[h])
           /\ fds'[g] = [m \in Events(g) |-> NoFd]
           /\ \A x \in Group : x # g => fds'[x] = fds[x]
           /\ OthersApart' /\ EachHeld' /\ HeldOpen' /\ HeldOnce'
           /\ \A x \in Group : fds'[x][1] # NoFd => ~ kernel'[fds'[x][1]].enabled
<1>1. /\ g \in Group /\ p \in Events(g) /\ ~ ok[g] /\ pc = "disable"
      /\ \A m \in Events(g) : m # p => mine[m] = fds[g][m]
      /\ \A m \in Events(g) : m >= p => fds[g][m] = NoFd
      /\ mine[p] = NoFd => all = kernel
      /\ mine[p] # NoFd => /\ mine[p] \notin DOMAIN kernel
                           /\ DOMAIN all = DOMAIN kernel \cup {mine[p]}
      /\ \A h \in DOMAIN kernel : all[h] = kernel[h]
  BY OneOpened
<1>2. GroupsOwn
  BY Owned DEF HandInv, RecorderInv
<1>3. fds'[g] = [m \in Events(g) |-> NoFd] /\ \A x \in Group : x # g => fds'[x] = fds[x]
  BY <1>1 DEF HandInv, RecorderInv, RecorderTyped, close_all
<1> DEFINE gone == {mine[m] : m \in Events(g)}
<1>4. /\ DOMAIN kernel' = DOMAIN kernel \ gone
      /\ \A h \in DOMAIN kernel' : kernel'[h] = kernel[h]
  <2>1. kernel' = [h \in DOMAIN all \ gone |-> all[h]]
    BY DEF close_all, Without
  <2>2. mine[p] \in gone
    BY <1>1
  <2> HIDE DEF gone
  <2>3. DOMAIN all \ gone = DOMAIN kernel \ gone
    BY <1>1, <2>2
  <2> QED BY <1>1, <2>1, <2>3
<1>5. \A x \in Group : x # g => \A m \in Events(x) :
          fds[x][m] # NoFd => fds[x][m] \in DOMAIN kernel'
  <2> SUFFICES ASSUME NEW x \in Group, x # g, NEW m \in Events(x), fds[x][m] # NoFd
               PROVE  fds[x][m] \notin gone
    BY <1>2, <1>4 DEF GroupsOwn, HeldOpen
  <2>1. ASSUME NEW m2 \in Events(g), mine[m2] = fds[x][m] PROVE FALSE
    <3>1. fds[x][m] \in DOMAIN kernel
      BY <1>2 DEF GroupsOwn, HeldOpen
    <3>2. CASE m2 = p
      BY <1>1, <2>1, <3>1, <3>2
    <3>3. CASE m2 # p
      BY <1>1, <1>2, <2>1, <3>3 DEF GroupsOwn, HeldOnce
    <3> QED BY <3>2, <3>3
  <2> QED BY <2>1
<1>6. \A m \in Events(g) : fds[g][m] # NoFd => fds[g][m] \in gone
  BY <1>1, EventsAre
<1> HIDE DEF gone
<1>7. \A h \in DOMAIN kernel' : IsEvent(kernel'[h])
  BY <1>4 DEF HandInv, RecorderInv, RecorderTyped
<1>8. OthersApart'
  <2>1. others' = others
    BY DEF Open
  <2> QED BY <1>2, <1>4, <2>1 DEF GroupsOwn, OthersApart
<1>9. EachHeld'
  <2> SUFFICES ASSUME NEW h \in DOMAIN kernel'
               PROVE  \E x \in Group : \E m \in Events(x) : h = fds'[x][m] /\ h # NoFd
    BY DEF EachHeld
  <2>1. PICK x \in Group : \E m \in Events(x) : h = fds[x][m] /\ h # NoFd
    BY <1>2, <1>4 DEF GroupsOwn, EachHeld
  <2>2. x # g
    BY <1>4, <1>6, <2>1
  <2> QED BY <1>3, <2>1, <2>2
<1>10. HeldOpen'
  <2> SUFFICES ASSUME NEW x \in Group, NEW m \in Events(x), fds'[x][m] # NoFd
               PROVE  /\ fds'[x][m] \in DOMAIN kernel'
                      /\ kernel'[fds'[x][m]].event = Config[x][m]
                      /\ kernel'[fds'[x][m]].leader = fds'[x][1]
    BY DEF HeldOpen
  <2>1. x # g
    BY <1>3
  <2>2. fds[x][m] \in DOMAIN kernel'
    BY <1>3, <1>5, <2>1
  <2> QED BY <1>2, <1>3, <1>4, <2>1, <2>2 DEF GroupsOwn, HeldOpen
<1>11. HeldOnce'
  BY <1>2, <1>3 DEF GroupsOwn, HeldOnce
<1>12. ASSUME NEW x \in Group, fds'[x][1] # NoFd PROVE ~ kernel'[fds'[x][1]].enabled
  <2>1. 1 \in Events(x)
    BY EventsAre
  <2>2. x # g
    BY <1>3, <1>12, <2>1
  <2>3. fds[x][1] \in DOMAIN kernel' /\ fds'[x][1] = fds[x][1]
    BY <1>3, <1>5, <1>12, <2>1, <2>2
  <2>4. ~ kernel[fds[x][1]].enabled
    BY <1>1, <1>12, <2>3 DEF HandInv, LeadersSwitch, Measured
  <2> QED BY <1>4, <2>3, <2>4
<1> QED BY <1>3, <1>7, <1>8, <1>9, <1>10, <1>11, <1>12

LEMMA OpenKeeps ==
    ASSUME HandInv, NEW success \in BOOLEAN, Open(success), UNCHANGED benchVars
    PROVE  HandInv'
<1> DEFINE g     == next[1]
           p     == next[2]
           mine  == [fds[g] EXCEPT ![p] = IF success THEN FreeFd ELSE NoFd]
           all   == IF success THEN Opened(FreeFd, g, p) ELSE kernel
           last  == p = Len(Config[g]) \/ (p = 1 /\ ~ success)
           whole == \A m \in Events(g) : mine[m] # NoFd
<1>1. /\ g \in Group /\ p \in Events(g) /\ ~ ok[g] /\ pc = "disable" /\ stage = "opening"
      /\ mine \in [Events(g) -> Descriptor]
      /\ \A m \in Events(g) : m # p => mine[m] = fds[g][m]
      /\ \A m \in Events(g) : m >= p => fds[g][m] = NoFd
      /\ p > 1 => fds[g][1] # NoFd
      /\ mine[p] = NoFd => ~ success
  BY OneOpened
<1>2. /\ ok' = [ok EXCEPT ![g] = last /\ whole]
      /\ IF last /\ ~ whole THEN close_all(g, mine, all)
         ELSE fds' = [fds EXCEPT ![g] = mine] /\ kernel' = all
      /\ stage' = IF last /\ g = "llc" THEN "built" ELSE stage
      /\ next' = IF ~ last THEN <<g, p + 1>>
                 ELSE IF g = "llc" THEN next ELSE <<Following[g], 1>>
      /\ others' = others
  BY DEF Open
<1>3. /\ fds = [x \in Group |-> fds[x]] /\ ok \in [Group -> BOOLEAN]
      /\ others \subseteq FirstFd .. MaxFd
      /\ next \in Group \X (1 .. 4)
      /\ \A x \in Group : fds[x] \in [Events(x) -> Descriptor]
  BY DEF HandInv, RecorderInv, RecorderTyped
<1>4. /\ \A h \in DOMAIN kernel' : IsEvent(kernel'[h])
      /\ fds'[g] = IF last /\ ~ whole THEN [m \in Events(g) |-> NoFd] ELSE mine
      /\ \A x \in Group : x # g => fds'[x] = fds[x]
      /\ fds' = [x \in Group |-> fds'[x]]
      /\ OthersApart' /\ EachHeld' /\ HeldOpen' /\ HeldOnce'
      /\ \A x \in Group : fds'[x][1] # NoFd => ~ kernel'[fds'[x][1]].enabled
  <2>1. CASE last /\ ~ whole
    <3>1. close_all(g, mine, all)
      BY <1>2, <2>1
    <3>2. fds' = [x \in Group |-> fds'[x]]
      BY <1>3, <3>1 DEF close_all
    <3> HIDE DEF g, p, mine, all, last, whole
    <3>3. g = next[1] /\ p = next[2] /\ mine = [fds[g] EXCEPT ![p] = IF success THEN FreeFd ELSE NoFd]
          /\ all = (IF success THEN Opened(FreeFd, g, p) ELSE kernel)
      BY DEF g, p, mine, all
    <3> QED BY <2>1, <3>1, <3>2, <3>3, ClosedOwned
  <2>2. CASE ~ (last /\ ~ whole)
    <3>1. fds' = [fds EXCEPT ![g] = mine] /\ kernel' = all
      BY <1>2, <2>2
    <3>2. fds'[g] = mine /\ (\A x \in Group : x # g => fds'[x] = fds[x])
          /\ fds' = [x \in Group |-> fds'[x]]
      BY <1>1, <1>3, <3>1
    <3> HIDE DEF g, p, mine, all, last, whole
    <3>3. g = next[1] /\ p = next[2] /\ mine = [fds[g] EXCEPT ![p] = IF success THEN FreeFd ELSE NoFd]
          /\ all = (IF success THEN Opened(FreeFd, g, p) ELSE kernel)
      BY DEF g, p, mine, all
    <3> QED BY <2>2, <3>1, <3>2, <3>3, KeptOwned
  <2> QED BY <2>1, <2>2
<1>5. /\ p \in 1 .. 4 /\ 1 \in Events(g) /\ Events(g) = 1 .. Len(Config[g])
      /\ Len(Config[g]) \in 2 .. 4
  BY <1>1, EventsAre
<1>6. ~ last => p + 1 \in Events(g)
  BY <1>1, <1>5
<1>7. ~ last => fds'[g][1] # NoFd
  <2> SUFFICES ASSUME ~ last PROVE mine[1] # NoFd
    BY <1>4
  <2>1. CASE p = 1
    BY <1>1, <2>1
  <2>2. CASE p # 1
    BY <1>1, <1>5, <2>2
  <2> QED BY <2>1, <2>2
<1>8. \A m \in Events(g) : m >= p + 1 => mine[m] = NoFd
  BY <1>1, <1>5
<1>9. last /\ whole => \A m \in Events(g) : fds'[g][m] # NoFd
  BY <1>4
<1>10. last /\ ~ whole => \A m \in Events(g) : fds'[g][m] = NoFd
  BY <1>4
<1>11. /\ last \in BOOLEAN /\ whole \in BOOLEAN /\ ok'[g] = (last /\ whole)
       /\ \A x \in Group : x # g => ok'[x] = ok[x]
       /\ ok' \in [Group -> BOOLEAN]
  BY <1>1, <1>2, <1>3
<1>12. \A x \in Group : fds'[x] \in [Events(x) -> Descriptor]
  <2>1. [m \in Events(g) |-> NoFd] \in [Events(g) -> Descriptor]
    BY DEF Descriptor
  <2>2. fds'[g] \in [Events(g) -> Descriptor]
    BY <1>1, <1>4, <2>1
  <2> QED BY <1>3, <1>4, <2>2
<1> HIDE DEF last, whole, mine, all, g, p
<1>13. WholeOrNone
  BY Owned DEF HandInv, RecorderInv, GroupsOwn
<1>14. stage' \in {"opening", "built"}
  BY <1>1, <1>2
<1>15. \A x \in Later(g) : ~ ok[x] /\ x \in Group /\ x # g
  <2>1. \A x \in {g} \cup Later(g) : ~ ok[x]
    BY <1>1 DEF HandInv, RecorderInv, OpenSoFar, g
  <2>2. CASE g = "core" BY <2>1, <2>2 DEF Later, Group
  <2>3. CASE g = "l1d" BY <2>1, <2>3 DEF Later, Group
  <2>4. CASE g = "llc" BY <2>4 DEF Later
  <2> QED BY <1>1, <2>2, <2>3, <2>4 DEF Group
<1>16. ASSUME last, g # "llc"
       PROVE  /\ next' = <<Following[g], 1>> /\ Following[g] \in Group
              /\ {Following[g]} \cup Later(Following[g]) \subseteq Later(g)
              /\ 1 \in Events(Following[g])
  <2>1. g \in {"core", "l1d"}
    BY <1>1, <1>16 DEF Group
  <2>2. Following[g] \in Group
    BY <2>1 DEF Following, Group
  <2>3. {Following[g]} \cup Later(Following[g]) \subseteq Later(g)
    <3>1. CASE g = "core" BY <3>1 DEF Following, Later
    <3>2. CASE g = "l1d" BY <3>2 DEF Following, Later
    <3> QED BY <2>1, <3>1, <3>2
  <2> QED BY <1>2, <1>16, <2>2, <2>3, EventsAre
<1>17. RecorderTyped'
  <2>1. next' \in Group \X (1 .. 4) /\ next'[2] \in Events(next'[1])
    <3>1. CASE ~ last
      <4>1. next' = <<g, p + 1>>
        BY <1>2, <3>1
      <4>2. p + 1 \in Events(g)
        BY <1>6, <3>1
      <4>3. p + 1 \in 1 .. 4
        BY <1>1, <4>2, EventsAre
      <4> QED BY <1>1, <4>1, <4>2, <4>3
    <3>2. CASE last /\ g = "llc"
      <4>1. next' = next
        BY <1>2, <3>2
      <4> QED BY <1>1, <1>3, <4>1 DEF g, p
    <3>3. CASE last /\ g # "llc"
      BY <1>16, <3>3
    <3> QED BY <3>1, <3>2, <3>3
  <2> QED BY <1>2, <1>3, <1>4, <1>11, <1>12, <1>14, <2>1 DEF RecorderTyped
<1>18. OpenSoFar'
  <2>1. CASE ~ last
    <3>1. next' = <<g, p + 1>>
      BY <1>2, <2>1
    <3>2. next'[1] = g /\ next'[2] = p + 1
      BY <3>1
    <3>3. \A x \in {g} \cup Later(g) : ~ ok'[x]
      BY <1>11, <1>15, <2>1
    <3>4. \A m \in Events(g) : m >= p + 1 => fds'[g][m] = NoFd
      BY <1>4, <1>8, <2>1
    <3> QED BY <1>7, <1>14, <2>1, <3>2, <3>3, <3>4 DEF OpenSoFar
  <2>2. CASE last /\ g = "llc"
    <3>1. stage' = "built"
      BY <1>2, <2>2
    <3> QED BY <3>1 DEF OpenSoFar
  <2>3. CASE last /\ g # "llc"
    <3>1. next'[1] = Following[g] /\ next'[2] = 1
      BY <1>16, <2>3
    <3>2. \A x \in Later(g) : ~ ok'[x]
      BY <1>11, <1>15
    <3>3. \A m \in Events(Following[g]) : fds'[Following[g]][m] = NoFd
      <4>1. Following[g] \in Later(g)
        BY <1>16, <2>3
      <4>2. Following[g] \in Group /\ Following[g] # g /\ ~ ok[Following[g]]
        BY <1>15, <4>1
      <4> QED BY <1>4, <1>13, <4>2 DEF WholeOrNone, g
    <3> QED BY <1>14, <1>16, <2>3, <3>1, <3>2, <3>3 DEF OpenSoFar
  <2> QED BY <2>1, <2>2, <2>3
<1>19. WholeOrNone'
  <2> SUFFICES ASSUME NEW x \in Group
               PROVE  IF ok'[x] THEN \A m \in Events(x) : fds'[x][m] # NoFd
                      ELSE (stage' # "opening" \/ next'[1] # x)
                             => \A m \in Events(x) : fds'[x][m] = NoFd
    BY DEF WholeOrNone
  <2>1. CASE x # g
    BY <1>4, <1>11, <1>13, <2>1 DEF WholeOrNone, g
  <2>2. CASE x = g /\ last
    BY <1>9, <1>10, <1>11, <2>2
  <2>3. CASE x = g /\ ~ last
    <3>1. next' = <<g, p + 1>> /\ stage' = "opening"
      BY <1>1, <1>2, <2>3
    <3> QED BY <1>11, <2>3, <3>1
  <2> QED BY <2>1, <2>2, <2>3
<1>20. DescriptorsOwned'
  <2>1. Owned'
    BY Owned, PTL
  <2> QED BY <1>4, <1>19, <2>1 DEF GroupsOwn
<1>21. pc' = pc /\ set' = set
  BY DEF benchVars
<1>22. BatchTyped' /\ LeadersSwitch'
  BY <1>1, <1>4, <1>14, <1>21 DEF HandInv, BatchTyped, LeadersSwitch, Measured
<1> QED BY <1>17, <1>18, <1>20, <1>22 DEF HandInv, RecorderInv

\* The kernel's other descriptors are not the recorder's.
LEMMA SinkKeeps == ASSUME HandInv, sink_results PROVE HandInv'
<1>1. /\ UNCHANGED <<kernel, fds, ok, stage, next, pc, set>>
      /\ others' = IF FreeFds = {} THEN others ELSE others \cup {FreeFd}
  BY DEF sink_results, benchVars
<1>2. others' \subseteq FirstFd .. MaxFd
  BY <1>1, FreeFdIsFree DEF HandInv, RecorderInv, RecorderTyped
<1>3. RecorderTyped' /\ OpenSoFar'
  BY <1>1, <1>2 DEF HandInv, RecorderInv, RecorderTyped, OpenSoFar
<1>4. GroupsOwn
  BY Owned DEF HandInv, RecorderInv
<1>5. OthersApart'
  BY <1>1, <1>4, FreeFdIsFree DEF GroupsOwn, OthersApart
<1>6. EachHeld' /\ HeldOpen' /\ HeldOnce' /\ WholeOrNone'
  BY <1>1, <1>4 DEF GroupsOwn, EachHeld, HeldOpen, HeldOnce, WholeOrNone
<1>7. Owned'
  BY Owned, PTL
<1>8. BatchTyped' /\ LeadersSwitch'
  BY <1>1 DEF HandInv, BatchTyped, LeadersSwitch, Measured
<1> QED BY <1>3, <1>5, <1>6, <1>7, <1>8 DEF HandInv, RecorderInv, GroupsOwn

LEMMA ExitKeeps == ASSUME HandInv, Exit, UNCHANGED benchVars PROVE HandInv'
<1>1. /\ stage = "built" /\ stage' = "exited"
      /\ fds' = [g \in Group |-> [m \in Events(g) |-> NoFd]]
      /\ ok' = [g \in Group |-> FALSE]
      /\ kernel' = Without(kernel, UNION {{fds[g][m] : m \in Events(g)} : g \in Group})
      /\ UNCHANGED <<others, next, pc, set>>
  BY DEF Exit, benchVars
<1>2. GroupsOwn
  BY Owned DEF HandInv, RecorderInv
<1>3. DOMAIN kernel' = {}
  BY <1>1, <1>2 DEF GroupsOwn, EachHeld, Without
<1>4. \A g \in Group : \A m \in Events(g) : fds'[g][m] = NoFd
  BY <1>1
<1>5. RecorderTyped'
  <2>1. \A g \in Group : fds'[g] \in [Events(g) -> Descriptor]
    BY <1>1 DEF Descriptor
  <2> QED BY <1>1, <1>3, <2>1 DEF HandInv, RecorderInv, RecorderTyped
<1>6. OpenSoFar' /\ BatchTyped' /\ LeadersSwitch'
  BY <1>1, <1>4, EventsAre DEF HandInv, OpenSoFar, BatchTyped, LeadersSwitch
<1>7. OthersApart' /\ EachHeld' /\ HeldOpen' /\ HeldOnce' /\ WholeOrNone'
  BY <1>1, <1>3, <1>4 DEF OthersApart, EachHeld, HeldOpen, HeldOnce, WholeOrNone
<1>8. Owned'
  BY Owned, PTL
<1> QED BY <1>5, <1>6, <1>7, <1>8 DEF HandInv, RecorderInv, GroupsOwn

-----------------------------------------------------------------------------
(* The steps of the batches.                                                 *)

\* The leader of an open event is open, and its group is whole or being opened.
LEMMA LeaderHeld ==
    ASSUME RecorderInv, NEW g \in Group, NEW m \in Events(g), fds[g][m] # NoFd
    PROVE  fds[g][1] # NoFd /\ fds[g][1] \in DOMAIN kernel /\ (stage # "opening" => ok[g])
<1>1. GroupsOwn /\ 1 \in Events(g) /\ Events(g) \subseteq 1 .. 4
  BY Owned, EventsAre DEF RecorderInv
<1>2. CASE ok[g]
  BY <1>1, <1>2 DEF GroupsOwn, WholeOrNone, HeldOpen
<1>3. CASE ~ ok[g]
  <2>1. stage = "opening" /\ next[1] = g
    BY <1>1, <1>3 DEF GroupsOwn, WholeOrNone
  <2>2. next[2] \in Events(g)
    BY <2>1 DEF RecorderInv, RecorderTyped
  <2>3. next[2] > 1
    BY <1>1, <2>1, <2>2 DEF RecorderInv, OpenSoFar
  <2>4. fds[g][1] # NoFd
    BY <2>1, <2>3 DEF RecorderInv, OpenSoFar
  <2> QED BY <1>1, <2>1, <2>4 DEF GroupsOwn, HeldOpen
<1> QED BY <1>2, <1>3

\* disable_all leaves no leader of a whole group enabled.
LEMMA AllOffIs ==
    ASSUME RecorderInv
    PROVE  /\ SameEvents(kernel, AllOff)
           /\ stage # "opening" => \A g \in Group : \A m \in Events(g) :
                                      fds[g][m] # NoFd => ~ AllOff[fds[g][m]].enabled
<1>1. \A h \in DOMAIN kernel : IsEvent(kernel[h])
  BY DEF RecorderInv, RecorderTyped
<1>2. /\ SameEvents(kernel, AllOff)
      /\ \A h \in DOMAIN kernel : AllOff[h].enabled =
           IF \E g \in Group : ok[g] /\ kernel[h].leader = fds[g][1] THEN FALSE
           ELSE kernel[h].enabled
  BY <1>1, SwitchSame DEF AllOff
<1>3. ASSUME stage # "opening", NEW g \in Group, NEW m \in Events(g), fds[g][m] # NoFd
      PROVE  ~ AllOff[fds[g][m]].enabled
  <2>1. GroupsOwn
    BY Owned DEF RecorderInv
  <2>2. ok[g] /\ fds[g][m] \in DOMAIN kernel /\ kernel[fds[g][m]].leader = fds[g][1]
    BY <1>3, <2>1, LeaderHeld DEF GroupsOwn, HeldOpen
  <2> QED BY <1>2, <2>2
<1> QED BY <1>2, <1>3

\* Everything that calls disable_all is back to leaders that are off.
LEMMA DisableKeeps ==
    ASSUME HandInv, stage # "opening", kernel' = AllOff,
           UNCHANGED <<others, fds, ok, stage, next>>,
           BatchTyped', pc' \notin {"start", "lookup"}
    PROVE  HandInv'
<1>1. RecorderInv'
  BY AllOffIs, SameEventsKeep DEF HandInv
<1>2. LeadersSwitch'
  <2>1. \A g \in Group : fds[g][1] # NoFd => ~ AllOff[fds[g][1]].enabled
    BY AllOffIs, EventsAre DEF HandInv
  <2> QED BY <2>1 DEF LeadersSwitch, Measured
<1> QED BY <1>1, <1>2 DEF HandInv

LEMMA EnableKeeps == ASSUME HandInv, Enable PROVE HandInv'
<1>1. /\ pc = "enable" /\ pc' = "start"
      /\ kernel' = SwitchedTo(TRUE, AllOff, GroupsOf(set))
      /\ UNCHANGED <<others, fds, ok, stage, next, set>>
  BY DEF Enable, enable
<1>2. stage # "opening" /\ stage # "unbuilt"
  BY <1>1 DEF HandInv, BatchTyped
<1>3. /\ SameEvents(kernel, AllOff)
      /\ \A g \in Group : \A m \in Events(g) :
            fds[g][m] # NoFd => ~ AllOff[fds[g][m]].enabled
  BY <1>2, AllOffIs DEF HandInv
<1>4. /\ SameEvents(AllOff, kernel')
      /\ \A h \in DOMAIN AllOff : kernel'[h].enabled =
           IF \E g \in GroupsOf(set) : ok[g] /\ AllOff[h].leader = fds[g][1]
           THEN TRUE ELSE AllOff[h].enabled
  <2>1. \A h \in DOMAIN AllOff : IsEvent(AllOff[h])
    BY <1>3 DEF SameEvents
  <2> QED BY <1>1, <2>1, SwitchSame
<1>5. SameEvents(kernel, kernel')
  BY <1>3, <1>4 DEF SameEvents
<1>6. RecorderInv'
  BY <1>1, <1>5, SameEventsKeep DEF HandInv
<1>7. GroupsOwn
  BY Owned DEF HandInv, RecorderInv
<1>8. GroupsOf(set) \subseteq Group
  BY DEF HandInv, BatchTyped, CounterSet, GroupsOf, Group
<1>9. ASSUME NEW g \in Group, NEW m \in Events(g), fds[g][m] # NoFd
      PROVE  kernel'[fds[g][m]].enabled <=> g \in GroupsOf(set) /\ ok[g]
  <2>1. /\ fds[g][m] \in DOMAIN AllOff /\ AllOff[fds[g][m]].leader = fds[g][1]
        /\ fds[g][1] # NoFd /\ 1 \in Events(g)
    BY <1>3, <1>7, <1>9, LeaderHeld, EventsAre DEF GroupsOwn, HeldOpen, SameEvents, HandInv
  <2>2. \A x \in GroupsOf(set) : fds[g][1] = fds[x][1] => x = g
    BY <1>7, <1>8, <2>1, EventsAre DEF GroupsOwn, HeldOnce
  <2> QED BY <1>3, <1>4, <1>9, <2>1, <2>2
<1>10. LeadersSwitch'
  <2> SUFFICES ASSUME NEW g \in Group, fds'[g][1] # NoFd
               PROVE  /\ kernel'[fds'[g][1]].enabled <=> Measured(g)'
                      /\ Measured(g)' => \A m \in Events(g) : kernel'[fds'[g][m]].enabled
    BY DEF LeadersSwitch
  <2>1. Measured(g)' <=> g \in GroupsOf(set) /\ ok[g]
    BY <1>1 DEF Measured
  <2>2. ok[g] => \A m \in Events(g) : fds[g][m] # NoFd
    BY <1>7 DEF GroupsOwn, WholeOrNone
  <2> QED BY <1>1, <1>9, <2>1, <2>2, EventsAre
<1>11. BatchTyped'
  BY <1>1, <1>2 DEF HandInv, BatchTyped
<1> QED BY <1>6, <1>10, <1>11 DEF HandInv

\* Counting switches nothing.
LEMMA TickKeeps ==
    ASSUME HandInv, NEW F, Works(F),
           UNCHANGED <<others, fds, ok, stage, next, pc, set>>
    PROVE  HandInv'
<1>1. /\ SameEvents(kernel, kernel')
      /\ \A h \in DOMAIN kernel : kernel'[h].enabled = kernel[h].enabled
  BY TickSame DEF HandInv, RecorderInv, RecorderTyped, Works
<1>2. RecorderInv'
  BY <1>1, SameEventsKeep DEF HandInv
<1>3. GroupsOwn
  BY Owned DEF HandInv, RecorderInv
<1>4. LeadersSwitch'
  BY <1>1, <1>3, EventsAre DEF HandInv, LeadersSwitch, Measured, GroupsOwn, HeldOpen, WholeOrNone
<1>5. BatchTyped'
  BY DEF HandInv, BatchTyped
<1> QED BY <1>2, <1>4, <1>5 DEF HandInv

\* Steps that leave the recorder alone and do not begin or end a measurement.
LEMMA IdleKeeps ==
    ASSUME HandInv, UNCHANGED recorderVars, set' = set, BatchTyped',
           pc' \in {"start", "lookup"} <=> pc \in {"start", "lookup"}
    PROVE  HandInv'
<1>1. UNCHANGED <<kernel, others, fds, ok, stage, next>>
  BY DEF recorderVars
<1>2. RecorderTyped' /\ OpenSoFar'
  BY <1>1, SMTT(20) DEF HandInv, RecorderInv, RecorderTyped, OpenSoFar
<1>3. DescriptorsOwned'
  <2>1. DescriptorsOwned
    BY DEF HandInv, RecorderInv
  <2>2. GroupsOwn
    BY <2>1, Owned
  <2>3. GroupsOwn'
    <3> USE <1>1, <2>2 DEF GroupsOwn
    <3>1. OthersApart'
      BY DEF OthersApart
    <3>2. EachHeld'
      BY DEF EachHeld
    <3>3. HeldOpen'
      BY DEF HeldOpen
    <3>4. HeldOnce'
      BY DEF HeldOnce
    <3>5. WholeOrNone'
      BY DEF WholeOrNone
    <3> QED BY <3>1, <3>2, <3>3, <3>4, <3>5
  <2>4. Owned'
    BY Owned, PTL
  <2> QED BY <2>3, <2>4
<1>4. LeadersSwitch'
  BY <1>1 DEF HandInv, LeadersSwitch, Measured
<1> QED BY <1>2, <1>3, <1>4 DEF HandInv, RecorderInv

LEMMA HandStep == HandInv /\ [main]_<<vars, reportVars>> => HandInv'
<1> SUFFICES ASSUME HandInv, [main]_<<vars, reportVars>> PROVE HandInv'
  OBVIOUS
<1>1. ASSUME CallSplit PROVE HandInv'
  <2>1. BatchTyped' /\ pc = "returned" /\ pc' = "warmup" /\ UNCHANGED recorderVars /\ set' = set
    BY <1>1 DEF CallSplit, HandInv, BatchTyped, recorderVars
  <2> QED BY <2>1, IdleKeeps
<1>2. ASSUME Warmup PROVE HandInv'
  BY <1>2, TickKeeps DEF Warmup
<1>3. ASSUME WarmupDone PROVE HandInv'
  <2>1. BatchTyped' /\ pc = "warmup" /\ pc' = "disable" /\ UNCHANGED recorderVars /\ set' = set
    BY <1>3 DEF WarmupDone, HandInv, BatchTyped, recorderVars
  <2> QED BY <2>1, IdleKeeps
<1>4. ASSUME BuildRecorder PROVE HandInv'
  <2>1. /\ stage = "unbuilt" /\ stage' = "opening" /\ pc = "disable"
        /\ UNCHANGED <<kernel, others, fds, ok, next, pc, set>>
    BY <1>4 DEF BuildRecorder, Build, benchVars
  <2>2. GroupsOwn
    BY Owned DEF HandInv, RecorderInv
  <2>3. \A g \in Group : ~ ok[g] /\ \A m \in Events(g) : fds[g][m] = NoFd
    BY <2>1, <2>2 DEF GroupsOwn, WholeOrNone, HandInv, RecorderInv, OpenSoFar
  <2>4. next[1] = "core" /\ next[2] = 1 /\ {"core"} \cup Later("core") \subseteq Group
        /\ "core" \in Group
    BY <2>1 DEF HandInv, RecorderInv, OpenSoFar, Later, Group
  <2>5. OpenSoFar'
    BY <2>1, <2>3, <2>4 DEF OpenSoFar
  <2>6. RecorderTyped' /\ BatchTyped' /\ LeadersSwitch'
    BY <2>1 DEF HandInv, RecorderInv, RecorderTyped, BatchTyped, LeadersSwitch, Measured
  <2>7. OthersApart' /\ EachHeld' /\ HeldOpen' /\ HeldOnce'
    BY <2>1, <2>2 DEF GroupsOwn, OthersApart, EachHeld, HeldOpen, HeldOnce
  <2>8. WholeOrNone'
    BY <2>1, <2>3 DEF WholeOrNone
  <2>9. Owned'
    BY Owned, PTL
  <2> QED BY <2>5, <2>6, <2>7, <2>8, <2>9 DEF HandInv, RecorderInv, GroupsOwn
<1>5. ASSUME OpenEvent PROVE HandInv'
  BY <1>5, OpenKeeps DEF OpenEvent
<1>6. ASSUME Disable PROVE HandInv'
  <2>1. /\ pc = "disable" /\ stage = "built" /\ kernel' = AllOff /\ pc' = "enable"
        /\ UNCHANGED <<others, fds, ok, stage, next, set>>
    BY <1>6 DEF Disable, Ready, disable_all
  <2>2. BatchTyped'
    BY <2>1 DEF HandInv, BatchTyped
  <2> QED BY <2>1, <2>2, DisableKeeps
<1>7. ASSUME Enable PROVE HandInv'
  BY <1>7, EnableKeeps
<1>8. ASSUME Start PROVE HandInv'
  <2>1. /\ BatchTyped' /\ pc = "start" /\ pc' = "lookup"
        /\ UNCHANGED recorderVars /\ set' = set
    BY <1>8 DEF Start, HandInv, BatchTyped, recorderVars
  <2> QED BY <2>1, IdleKeeps
<1>9. ASSUME Lookup PROVE HandInv'
  BY <1>9, TickKeeps DEF Lookup
<1>10. ASSUME Finish PROVE HandInv'
  <2>1. /\ pc = "lookup" /\ kernel' = AllOff /\ pc' \in {"warmup", "returned"}
        /\ set' \in CounterSet
        /\ UNCHANGED <<others, fds, ok, stage, next>>
    BY <1>10 DEF Finish, disable_all, CounterSet
  <2>2. stage # "opening" /\ BatchTyped'
    BY <2>1 DEF HandInv, BatchTyped
  <2> QED BY <2>1, <2>2, DisableKeeps
<1>11. ASSUME sink_results PROVE HandInv'
  BY <1>11, SinkKeeps
<1>12. ASSUME PrintSection PROVE HandInv'
  <2>1. UNCHANGED recorderVars /\ UNCHANGED <<pc, set>>
    BY <1>12 DEF PrintSection, benchVars
  <2>2. BatchTyped'
    BY <2>1 DEF HandInv, BatchTyped, recorderVars
  <2> QED BY <2>1, <2>2, IdleKeeps
<1>13. ASSUME ExitProcess PROVE HandInv'
  BY <1>13, ExitKeeps DEF ExitProcess
<1>14. ASSUME UNCHANGED <<vars, reportVars>> PROVE HandInv'
  <2>1. UNCHANGED recorderVars /\ UNCHANGED <<pc, set>>
    BY <1>14 DEF vars, benchVars
  <2>2. BatchTyped'
    BY <2>1 DEF HandInv, BatchTyped, recorderVars
  <2> QED BY <2>1, <2>2, IdleKeeps
<1> QED BY <1>1, <1>2, <1>3, <1>4, <1>5, <1>6, <1>7, <1>8, <1>9, <1>10, <1>11, <1>12,
           <1>13, <1>14 DEF main, Measure, benchmark_split

LEMMA HandInit == Init_main => HandInv
<1> SUFFICES ASSUME Init_main PROVE HandInv
  OBVIOUS
<1>1. /\ kernel = << >> /\ others = {} /\ stage = "unbuilt" /\ next = <<"core", 1>>
      /\ fds = [g \in Group |-> [m \in Events(g) |-> NoFd]]
      /\ ok = [g \in Group |-> FALSE] /\ pc = "returned" /\ set = "core"
  BY DEF Init_main, Init, RecorderInit
<1>2. DOMAIN kernel = {}
  BY <1>1
<1>3. \A g \in Group : 1 \in Events(g) /\ \A m \in Events(g) : fds[g][m] = NoFd
  BY <1>1, EventsAre
<1>4. RecorderTyped
  <2>1. \A g \in Group : fds[g] \in [Events(g) -> Descriptor]
    BY <1>1 DEF Descriptor
  <2>2. "core" \in Group /\ 1 \in Events("core")
    BY GroupsAre DEF Group
  <2>3. next[1] = "core" /\ next[2] = 1 /\ next \in Group \X (1 .. 4)
    BY <1>1, <2>2
  <2>4. others \subseteq FirstFd .. MaxFd /\ ok \in [Group -> BOOLEAN]
        /\ fds = [g \in Group |-> fds[g]] /\ stage \in {"unbuilt", "opening", "built", "exited"}
    BY <1>1
  <2> QED BY <1>2, <2>1, <2>2, <2>3, <2>4 DEF RecorderTyped
<1>5. OpenSoFar /\ BatchTyped
  BY <1>1 DEF OpenSoFar, BatchTyped, CounterSet
<1>6. LeadersSwitch
  BY <1>3 DEF LeadersSwitch
<1>7. GroupsOwn
  <2>1. \A g \in Group : ~ ok[g]
    BY <1>1
  <2> QED BY <1>1, <1>2, <1>3, <2>1
          DEF GroupsOwn, OthersApart, EachHeld, HeldOpen, HeldOnce, WholeOrNone
<1> QED BY <1>4, <1>5, <1>6, <1>7, Owned DEF HandInv, RecorderInv

\* An open event counts exactly when its group is measured.
LEMMA CountsWhenMeasured ==
    ASSUME HandInv, NEW g \in Group, NEW m \in Events(g), fds[g][m] # NoFd
    PROVE  Counting(fds[g][m]) <=> Measured(g)
<1>1. GroupsOwn
  BY Owned DEF HandInv, RecorderInv
<1>2. kernel[fds[g][m]].leader = fds[g][1] /\ fds[g][1] # NoFd
  BY <1>1, LeaderHeld DEF GroupsOwn, HeldOpen, HandInv
<1>3. /\ kernel[fds[g][1]].enabled <=> Measured(g)
      /\ Measured(g) => kernel[fds[g][m]].enabled
  BY <1>2 DEF HandInv, LeadersSwitch
<1> QED BY <1>2, <1>3 DEF Counting

\* What counts are the events of the measured groups, all of them.
LEMMA HandShows == HandInv => EventsInHand
<1> SUFFICES ASSUME HandInv PROVE EventsInHand
  OBVIOUS
<1>1. GroupsOwn
  BY Owned DEF HandInv, RecorderInv
<1> DEFINE counting == {h \in DOMAIN kernel : Counting(h)}
<1>2. ASSUME NEW g \in Group, NEW m \in Events(g), fds[g][m] # NoFd
      PROVE  Counting(fds[g][m]) <=> Measured(g)
  BY <1>2, CountsWhenMeasured
<1>3. \A h \in DOMAIN kernel : \E g \in Group : \E m \in Events(g) : h = fds[g][m] /\ h # NoFd
  BY <1>1 DEF GroupsOwn, EachHeld
<1>4. OnlyTheSetCounts
  <2>1. CASE pc \in {"start", "lookup"}
    <3> DEFINE whole == {x \in GroupsOf(set) : ok[x]}
               theirs == UNION {{fds[g][m] : m \in Events(g)} : g \in whole}
    <3>1. \A g \in Group : Measured(g) <=> g \in whole
      BY <2>1 DEF Measured
    <3>2. whole \subseteq Group
      BY DEF HandInv, BatchTyped, CounterSet, GroupsOf, Group
    <3>3. \A g \in whole : \A m \in Events(g) :
              fds[g][m] # NoFd /\ fds[g][m] \in DOMAIN kernel
      BY <1>1, <3>2 DEF GroupsOwn, WholeOrNone, HeldOpen
    <3>4. \A h : h \in theirs <=> \E g \in whole : \E m \in Events(g) : h = fds[g][m]
      OBVIOUS
    <3> HIDE DEF whole
    <3>5. ASSUME NEW h \in counting PROVE h \in theirs
      <4>1. PICK g \in Group : \E m \in Events(g) : h = fds[g][m] /\ h # NoFd
        BY <1>3
      <4>2. PICK m \in Events(g) : h = fds[g][m] /\ h # NoFd
        BY <4>1
      <4>3. Counting(fds[g][m])
        BY <4>2
      <4>4. g \in whole
        BY <1>2, <3>1, <4>2, <4>3
      <4> QED BY <3>4, <4>2, <4>4
    <3>6. ASSUME NEW h \in theirs PROVE h \in counting
      <4>1. PICK g \in whole : \E m \in Events(g) : h = fds[g][m]
        BY <3>4
      <4>2. PICK m \in Events(g) : h = fds[g][m]
        BY <4>1
      <4> QED BY <1>2, <3>1, <3>2, <3>3, <4>2
    <3>7. counting = theirs
      BY <3>5, <3>6
    <3> QED BY <2>1, <3>7 DEF OnlyTheSetCounts, whole
  <2>2. CASE pc \notin {"start", "lookup"}
    <3>1. counting = {}
      BY <1>2, <1>3, <2>2 DEF Measured
    <3> QED BY <2>2, <3>1 DEF OnlyTheSetCounts
  <2> QED BY <2>1, <2>2
<1> QED BY <1>4 DEF EventsInHand, HandInv, RecorderInv

\* Every open event is owned by its group, once, and counts only in the timed
\* look-ups of its set, whichever events the kernel refuses and whenever /dev/null
\* takes the descriptors.
THEOREM EventsAreInHand == Spec => []EventsInHand
<1>1. Spec => []HandInv
  BY HandInit, HandStep, PTL DEF Spec
<1> QED BY <1>1, HandShows, PTL

-----------------------------------------------------------------------------
(* The workload.                                                             *)

\* What FlattenSeq strings together is made of what it is given.
LEMMA FlattenTyped ==
    ASSUME NEW S, NEW seqs \in Seq(Seq(S))
    PROVE  FlattenSeq(seqs) \in Seq(S)
<1> DEFINE L == Len(seqs)
           Def(f, m) == f = [i \in 1 .. m |-> IF i = 1 THEN seqs[i] ELSE f[i - 1] \o seqs[i]]
           Good(f, m) == Def(f, m) /\ \A i \in 1 .. m : f[i] \in Seq(S)
           T == {m \in 0 .. L : ~ \E f : Good(f, m)}
<1>1. L \in Nat /\ \A i \in 1 .. L : seqs[i] \in Seq(S)
  BY ElementOfSeq
<1>2. \E f : Good(f, 0)
  <2> DEFINE f == [i \in 1 .. 0 |-> seqs[1]]
  <2>1. f = [i \in 1 .. 0 |-> IF i = 1 THEN seqs[i] ELSE f[i - 1] \o seqs[i]]
    OBVIOUS
  <2>2. Good(f, 0)
    BY <2>1
  <2> QED BY <2>2
<1>3. ASSUME NEW m \in Nat, m + 1 <= L, \E f : Good(f, m) PROVE \E f : Good(f, m + 1)
  <2>1. PICK f : Good(f, m)
    BY <1>3
  <2> DEFINE up == [i \in 1 .. m + 1 |-> IF i = 1 THEN seqs[i] ELSE f[i - 1] \o seqs[i]]
  <2>2. \A i \in 1 .. m : up[i] = f[i]
    <3>1. f = [i \in 1 .. m |-> IF i = 1 THEN seqs[i] ELSE f[i - 1] \o seqs[i]]
      BY <2>1
    <3>2. \A i \in 1 .. m : f[i] = IF i = 1 THEN seqs[i] ELSE f[i - 1] \o seqs[i]
      BY <3>1
    <3> QED BY <3>2
  <2>3. up = [i \in 1 .. m + 1 |-> IF i = 1 THEN seqs[i] ELSE up[i - 1] \o seqs[i]]
    <3>1. \A i \in 1 .. m + 1 : i # 1 => i - 1 \in 1 .. m
      OBVIOUS
    <3>2. \A i \in 1 .. m + 1 : i # 1 => up[i - 1] = f[i - 1]
      BY <2>2, <3>1
    <3> QED BY <3>2
  <2>4. \A i \in 1 .. m + 1 : up[i] \in Seq(S)
    <3> SUFFICES ASSUME NEW i \in 1 .. m + 1 PROVE up[i] \in Seq(S)
      OBVIOUS
    <3>1. seqs[i] \in Seq(S)
      BY <1>1, <1>3
    <3>2. CASE i = 1
      BY <3>1, <3>2
    <3>3. CASE i # 1
      <4>1. f[i - 1] \in Seq(S)
        BY <2>1, <3>3
      <4>2. up[i] = f[i - 1] \o seqs[i]
        BY <3>3
      <4> QED BY <3>1, <4>1, <4>2
    <3> QED BY <3>2, <3>3
  <2> HIDE DEF up
  <2>5. Good(up, m + 1)
    BY <2>3, <2>4
  <2> QED BY <2>5
<1>4. T = {}
  <2> SUFFICES ASSUME T # {} PROVE FALSE
    OBVIOUS
  <2>0. \A m : m \in T <=> m \in 0 .. L /\ ~ \E f : Good(f, m)
    OBVIOUS
  <2> HIDE DEF Good, L, T
  <2>1. T \in SUBSET Nat
    BY <1>1, <2>0
  <2>2. PICK m \in T : \A k \in T : m <= k
    BY <2>1, LeastNatural
  <2>3. m # 0 /\ m \in 0 .. L
    BY <1>2, <2>0, <2>2
  <2>4. m - 1 \in Nat /\ m - 1 \in 0 .. L /\ m - 1 < m
    BY <1>1, <2>3
  <2>5. \E f : Good(f, m - 1)
    BY <2>0, <2>1, <2>2, <2>4
  <2>6. (m - 1) + 1 = m /\ (m - 1) + 1 <= L
    BY <1>1, <2>3
  <2>7. \E f : Good(f, (m - 1) + 1)
    BY <1>3, <2>4, <2>5, <2>6
  <2> QED BY <2>0, <2>2, <2>6, <2>7
<1>5. CASE L = 0
  BY <1>5 DEF FlattenSeq
<1>6. CASE L # 0
  <2> DEFINE g == CHOOSE f : f = [i \in 1 .. Len(seqs) |->
                                    IF i = 1 THEN seqs[i] ELSE f[i - 1] \o seqs[i]]
  <2>1. FlattenSeq(seqs) = g[Len(seqs)]
    BY <1>6 DEF FlattenSeq
  <2>2. PICK h : Good(h, L)
    <3>1. L \in 0 .. L
      BY <1>1
    <3> HIDE DEF Good, L
    <3> QED BY <1>4, <3>1
  <2>3. h = [i \in 1 .. Len(seqs) |-> IF i = 1 THEN seqs[i] ELSE h[i - 1] \o seqs[i]]
    BY <2>2
  <2>4. g = [i \in 1 .. Len(seqs) |-> IF i = 1 THEN seqs[i] ELSE g[i - 1] \o seqs[i]]
    BY <2>3
  <2> HIDE DEF g
  <2> DEFINE U == {i \in 1 .. L : g[i] # h[i]}
  <2>5. \A i \in 1 .. L : g[i] = IF i = 1 THEN seqs[i] ELSE g[i - 1] \o seqs[i]
    BY <2>4
  <2>6. \A i \in 1 .. L : h[i] = IF i = 1 THEN seqs[i] ELSE h[i - 1] \o seqs[i]
    BY <2>3
  <2>7. U = {}
    <3> SUFFICES ASSUME U # {} PROVE FALSE
      OBVIOUS
    <3>1. U \in SUBSET Nat
      BY <1>1
    <3>2. PICK i \in U : \A k \in U : i <= k
      BY <3>1, LeastNatural
    <3>3. i \in 1 .. L /\ g[i] # h[i]
      BY <3>2
    <3>4. i # 1
      BY <2>5, <2>6, <3>3
    <3>5. i - 1 \in 1 .. L /\ i - 1 \notin U
      BY <1>1, <3>2, <3>3, <3>4
    <3>6. g[i - 1] = h[i - 1]
      BY <3>5
    <3> QED BY <2>5, <2>6, <3>3, <3>4, <3>6
  <2>8. L \in 1 .. L
    BY <1>1, <1>6
  <2>9. g[L] = h[L] /\ h[L] \in Seq(S)
    BY <2>2, <2>7, <2>8
  <2> QED BY <2>1, <2>9
<1> QED BY <1>5, <1>6

\* Each measurement looks keys up, as many as its batches have room for.
Measurement ==
    {x \in [pattern : {"random", "dense"}, shift : Nat, table : STRING,
            batch : DOMAIN BATCH_SIZE, lookups : Seq(Nat)] :
       Len(x.lookups) = ITERS * BATCH_SIZE[x.batch]}

LEMMA LookupsTyped ==
    ASSUME NEW s \in DOMAIN NUM_KEYS_SHIFT, NEW b \in DOMAIN BATCH_SIZE, NEW pattern
    PROVE  LET l == lookup_sets(pattern, NUM_KEYS_SHIFT[s])[b]
           IN  l \in Seq(Nat) /\ Len(l) = ITERS * BATCH_SIZE[b]
<1> DEFINE shift == NUM_KEYS_SHIFT[s]
           N == 2 ^ shift
           K == ITERS * BATCH_SIZE[b]
           keys == make_keys(N)
           l == lookup_sets(pattern, shift)[b]
<1>1. K \in Nat
  <2>1. BATCH_SIZE[b] \in Nat
    BY WorkloadAssumption, ElementOfSeq
  <2> QED BY <2>1, WorkloadAssumption
<1>2. N \in Nat \ {0} /\ \A i \in 1 .. K : Drawn[shift][DrawnBefore(b) + i] \in 0 .. N - 1
  BY DrawnAssumption
<1>3. l = [i \in 1 .. K |->
             IF pattern = "random" THEN keys[Drawn[shift][DrawnBefore(b) + i] + 1]
             ELSE keys[((i - 1) % Len(keys)) + 1]]
  BY DEF lookup_sets
<1> HIDE DEF N, K, l, shift
<1>4. Len(keys) = N /\ \A i \in 1 .. N : keys[i] = i
  BY <1>2 DEF make_keys
<1> HIDE DEF keys
<1>5. ASSUME NEW i \in 1 .. K
      PROVE  /\ keys[Drawn[shift][DrawnBefore(b) + i] + 1] \in Nat
             /\ keys[((i - 1) % Len(keys)) + 1] \in Nat
  <2> DEFINE d == Drawn[shift][DrawnBefore(b) + i]
             e == (i - 1) % N
  <2>1. d \in 0 .. N - 1
    BY <1>2
  <2>2. e \in 0 .. N - 1
    BY <1>1, <1>2
  <2> HIDE DEF d, e
  <2>3. d + 1 \in 1 .. N /\ e + 1 \in 1 .. N
    BY <1>2, <2>1, <2>2
  <2>4. keys[d + 1] \in Nat /\ keys[e + 1] \in Nat
    BY <1>2, <1>4, <2>3
  <2> QED BY <1>4, <2>4 DEF d, e
<1>6. \A i \in 1 .. K : l[i] \in Nat
  BY <1>3, <1>5
<1>7. l \in Seq(Nat) /\ Len(l) = K
  BY <1>1, <1>3, <1>6
<1> QED BY <1>7 DEF l, K, shift

LEMMA SplitsTyped == Splits \in Seq(Measurement)
<1>1. ASSUME NEW s \in DOMAIN NUM_KEYS_SHIFT, NEW q \in DOMAIN Pattern, NEW t \in DOMAIN Table
      PROVE  benchmark(Pattern[q], NUM_KEYS_SHIFT[s], Table[t]) \in Seq(Measurement)
  <2> DEFINE shift == NUM_KEYS_SHIFT[s]
             m(b) == [pattern |-> Pattern[q], shift |-> shift, table |-> Table[t],
                      batch |-> b, lookups |-> lookup_sets(Pattern[q], shift)[b]]
  <2>1. Pattern[q] \in {"random", "dense"}
    <3>1. DOMAIN Pattern = 1 .. 2 /\ Pattern[1] = "random" /\ Pattern[2] = "dense"
      BY DEF Pattern
    <3>2. q = 1 \/ q = 2
      BY <3>1
    <3> QED BY <3>1, <3>2
  <2>2. shift \in Nat /\ Table[t] \in STRING
    BY WorkloadAssumption, ElementOfSeq
  <2>3. ASSUME NEW b \in DOMAIN BATCH_SIZE PROVE m(b) \in Measurement
    <3> DEFINE l == lookup_sets(Pattern[q], shift)[b]
    <3>1. l \in Seq(Nat) /\ Len(l) = ITERS * BATCH_SIZE[b]
      BY LookupsTyped
    <3> HIDE DEF l, shift
    <3>2. [pattern |-> Pattern[q], shift |-> shift, table |-> Table[t],
           batch |-> b, lookups |-> l] \in Measurement
      BY <2>1, <2>2, <3>1 DEF Measurement
    <3> QED BY <3>2 DEF l
  <2>4. benchmark(Pattern[q], shift, Table[t]) = [b \in DOMAIN BATCH_SIZE |-> m(b)]
    BY DEF benchmark
  <2>5. DOMAIN BATCH_SIZE = 1 .. Len(BATCH_SIZE) /\ Len(BATCH_SIZE) \in Nat
    BY WorkloadAssumption
  <2> HIDE DEF m
  <2>6. [b \in DOMAIN BATCH_SIZE |-> m(b)] \in Seq(Measurement)
    BY <2>3, <2>5
  <2> QED BY <2>4, <2>6
<1>2. ASSUME NEW s \in DOMAIN NUM_KEYS_SHIFT, NEW q \in DOMAIN Pattern
      PROVE  run_benchmarks(Pattern[q], NUM_KEYS_SHIFT[s]) \in Seq(Measurement)
  <2> DEFINE r == [t \in DOMAIN Table |-> benchmark(Pattern[q], NUM_KEYS_SHIFT[s], Table[t])]
  <2>1. DOMAIN Table = 1 .. Len(Table) /\ Len(Table) \in Nat
    BY WorkloadAssumption
  <2>2. r \in Seq(Seq(Measurement))
    BY <1>1, <2>1
  <2>3. run_benchmarks(Pattern[q], NUM_KEYS_SHIFT[s]) = FlattenSeq(r)
    BY DEF run_benchmarks
  <2> HIDE DEF r
  <2> QED BY <2>2, <2>3, FlattenTyped
<1>3. ASSUME NEW s \in DOMAIN NUM_KEYS_SHIFT
      PROVE  FlattenSeq([q \in DOMAIN Pattern |-> run_benchmarks(Pattern[q], NUM_KEYS_SHIFT[s])])
               \in Seq(Measurement)
  <2> DEFINE r == [q \in DOMAIN Pattern |-> run_benchmarks(Pattern[q], NUM_KEYS_SHIFT[s])]
  <2>1. DOMAIN Pattern = 1 .. 2
    BY DEF Pattern
  <2>2. r \in Seq(Seq(Measurement))
    BY <1>2, <2>1
  <2> HIDE DEF r
  <2>3. FlattenSeq(r) \in Seq(Measurement)
    BY <2>2, FlattenTyped
  <2> QED BY <2>3 DEF r
<1> DEFINE all == [s \in DOMAIN NUM_KEYS_SHIFT |->
                     FlattenSeq([q \in DOMAIN Pattern |->
                                   run_benchmarks(Pattern[q], NUM_KEYS_SHIFT[s])])]
<1>4. DOMAIN NUM_KEYS_SHIFT = 1 .. Len(NUM_KEYS_SHIFT) /\ Len(NUM_KEYS_SHIFT) \in Nat
  BY WorkloadAssumption
<1>5. all \in Seq(Seq(Measurement))
  BY <1>3, <1>4
<1>6. Splits = FlattenSeq(all)
  BY DEF Splits
<1> HIDE DEF all
<1> QED BY <1>5, <1>6, FlattenTyped

-----------------------------------------------------------------------------
(* Sums.                                                                     *)

LEMMA MaxOfSome ==
    ASSUME NEW L \in Nat, NEW s \in SUBSET (1 .. L), s # {}
    PROVE  Max(s) \in s /\ \A x \in s : Max(s) >= x
<1> DEFINE T == {L - x : x \in s}
<1>1. T \in SUBSET Nat /\ T # {}
  <2>1. \A x \in s : x \in 1 .. L
    OBVIOUS
  <2>2. \A x \in s : L - x \in Nat
    BY <2>1
  <2> QED BY <2>2
<1>2. PICK m \in T : \A k \in T : m <= k
  BY <1>1, LeastNatural
<1>3. PICK x \in s : m = L - x
  BY <1>2
<1>4. ASSUME NEW y \in s PROVE x >= y
  <2>1. L - y \in T
    OBVIOUS
  <2>2. L - x <= L - y
    BY <1>2, <1>3, <2>1
  <2>3. x \in 1 .. L /\ y \in 1 .. L
    OBVIOUS
  <2> QED BY <2>2, <2>3
<1> QED BY <1>4 DEF Max

SumOf(seq) == FoldLeft(+, 0, seq)

\* The sum of the first k elements, for each k.
RunningSum(seq) ==
    CHOOSE P \in [0 .. Len(seq) -> Int] :
        /\ P[0] = 0
        /\ \A k \in 1 .. Len(seq) : P[k] = P[k - 1] + seq[k]
        /\ P[Len(seq)] = SumOf(seq)

LEMMA RunningSumIs ==
    ASSUME NEW seq \in Seq(Int)
    PROVE  LET P == RunningSum(seq)
           IN  /\ P \in [0 .. Len(seq) -> Int] /\ P[0] = 0
               /\ \A k \in 1 .. Len(seq) : P[k] = P[k - 1] + seq[k]
               /\ P[Len(seq)] = SumOf(seq)
<1> DEFINE L == Len(seq)
           S == 1 .. L
           c == [s \in SUBSET S |-> Max(s)]
<1>1. L \in Nat /\ DOMAIN seq = S /\ seq \in [S -> Int]
  OBVIOUS
<1> HIDE DEF L
<1>2. IsFiniteSet(S)
  BY <1>1, FS_Interval
<1>3. \A s \in SUBSET S : s # {} => c[s] \in s
  BY <1>1, MaxOfSome
<1> HIDE DEF S, c
<1>4. PICK it : IsSum(it, S, seq, c)
  <2>1. Chooses(c, S)
    BY <1>3 DEF Chooses
  <2>2. seq \in [S -> Int]
    BY <1>1
  <2> QED BY <1>2, <2>1, <2>2, SumExists
<1> USE DEF IsSum
<1>5. \A s \in SUBSET S : s # {} =>
        it[s] = it[s \ {Max(s)}] + seq[Max(s)]
  <2> SUFFICES ASSUME NEW s \in SUBSET S, s # {} PROVE it[s] = it[s \ {Max(s)}] + seq[Max(s)]
    OBVIOUS
  <2>1. c[s] = Max(s) /\ c[s] \in S
    BY <1>3 DEF c
  <2>2. seq[c[s]] \in Int /\ it[s \ {c[s]}] \in Int
    BY <1>1, <1>4, <2>1
  <2>3. it[s] = seq[c[s]] + it[s \ {c[s]}]
    BY <1>4
  <2> QED BY <2>1, <2>2, <2>3
<1> DEFINE Fold(f) == f = [s \in SUBSET (DOMAIN seq) |->
                             IF s = {} THEN 0 ELSE f[s \ {Max(s)}] + seq[Max(s)]]
           g == CHOOSE f : Fold(f)
<1>6. Fold(it)
  BY <1>1, <1>4, <1>5
<1>7. Fold(g)
  BY <1>6
<1>8. SumOf(seq) = g[DOMAIN seq]
  BY DEF SumOf, FoldLeft, MapThenFoldSet
<1>9. \A s \in SUBSET S : g[s] = IF s = {} THEN 0 ELSE g[s \ {Max(s)}] + seq[Max(s)]
  BY <1>1, <1>7
<1> HIDE DEF g
<1> DEFINE Upto(k) == 1 .. k
           P == [k \in 0 .. L |-> it[Upto(k)]]
           U == {k \in 0 .. L : g[Upto(k)] # it[Upto(k)]}
<1>10. \A k \in 0 .. L : Upto(k) \in SUBSET S
  BY <1>1 DEF S
<1>11. \A k \in 1 .. L : /\ Max(Upto(k)) = k /\ Upto(k) # {}
                         /\ Upto(k) \ {k} = Upto(k - 1)
  <2> SUFFICES ASSUME NEW k \in 1 .. L
               PROVE  Max(1 .. k) = k /\ 1 .. k # {} /\ (1 .. k) \ {k} = 1 .. k - 1
    OBVIOUS
  <2>1. k \in 1 .. k /\ k \in Nat
    BY <1>1
  <2>2. Max(1 .. k) \in 1 .. k /\ Max(1 .. k) >= k
    <3>1. 1 .. k \in SUBSET (1 .. k) /\ 1 .. k # {}
      BY <2>1
    <3> QED BY <2>1, <3>1, MaxOfSome
  <2> HIDE DEF Fold
  <2>3. Max(1 .. k) = k
    BY <2>1, <2>2
  <2>4. (1 .. k) \ {k} = 1 .. k - 1
    BY <2>1
  <2> QED BY <2>1, <2>3, <2>4
<1>12. Upto(0) = {} /\ Upto(L) = S
  BY DEF S
<1> HIDE DEF Upto, Fold
<1>13. P \in [0 .. L -> Int] /\ P[0] = 0
  BY <1>1, <1>4, <1>10, <1>12
<1>14. ASSUME NEW k \in 1 .. L PROVE P[k] = P[k - 1] + seq[k]
  <2>1. k \in 0 .. L /\ k - 1 \in 0 .. L
    BY <1>1
  <2>2. it[Upto(k)] = it[Upto(k) \ {k}] + seq[k]
    BY <1>5, <1>10, <1>11, <2>1
  <2> QED BY <1>11, <2>1, <2>2
<1>15. U = {}
  <2> SUFFICES ASSUME U # {} PROVE FALSE
    OBVIOUS
  <2>1. U \in SUBSET Nat
    BY <1>1
  <2>2. PICK k \in U : \A j \in U : k <= j
    BY <2>1, LeastNatural
  <2>3. k \in 0 .. L /\ g[Upto(k)] # it[Upto(k)]
    BY <2>2
  <2>4. k # 0
    BY <1>4, <1>9, <1>10, <1>12, <2>3
  <2>5. k \in 1 .. L /\ k - 1 \in 0 .. L /\ k - 1 < k
    BY <1>1, <2>3, <2>4
  <2>6. k - 1 \notin U
    BY <1>1, <2>2, <2>5
  <2>7. g[Upto(k - 1)] = it[Upto(k - 1)]
    BY <2>5, <2>6
  <2>8. /\ g[Upto(k)] = g[Upto(k) \ {k}] + seq[k]
        /\ it[Upto(k)] = it[Upto(k) \ {k}] + seq[k]
    BY <1>5, <1>9, <1>10, <1>11, <2>3, <2>5
  <2> QED BY <1>11, <2>3, <2>5, <2>7, <2>8
<1>16. P[L] = SumOf(seq)
  <2>1. L \in 0 .. L /\ L \notin U
    BY <1>1, <1>15
  <2>2. g[Upto(L)] = it[Upto(L)]
    BY <2>1
  <2> QED BY <1>1, <1>8, <1>12, <2>1, <2>2
<1> HIDE DEF P
<1>17. \E Q \in [0 .. Len(seq) -> Int] :
         /\ Q[0] = 0
         /\ \A k \in 1 .. Len(seq) : Q[k] = Q[k - 1] + seq[k]
         /\ Q[Len(seq)] = SumOf(seq)
  BY <1>13, <1>14, <1>16 DEF L
<1> QED BY <1>17 DEF RunningSum

-----------------------------------------------------------------------------
(* The words of a reading.                                                   *)

Mod == 2 ^ Word
LEMMA ModIs == Mod \in Nat \ {0}
  BY WordAssumption DEF Mod

LEMMA FieldsAre ==
    ASSUME NEW f \in Field
    PROVE  /\ GroupOf[f] \in Group
           /\ WordOf[GroupOf[f]][f] \in 1 .. 2 + Len(Config[GroupOf[f]])
<1>1. PICK g \in Group : f \in DOMAIN WordOf[g]
  BY DEF Field
<1>2. GroupOf[f] \in Group /\ f \in DOMAIN WordOf[GroupOf[f]]
  BY <1>1 DEF GroupOf
<1>3. ASSUME NEW h \in Group, f \in DOMAIN WordOf[h]
      PROVE  WordOf[h][f] \in 1 .. 2 + Len(Config[h])
  <2>1. CASE h = "core"
    BY <1>3, <2>1, GroupsAre DEF WordOf, CoreWords
  <2>2. CASE h = "l1d"
    BY <1>3, <2>2, GroupsAre DEF WordOf, L1dWords
  <2>3. CASE h = "llc"
    BY <1>3, <2>3, GroupsAre DEF WordOf, LlcWords
  <2> QED BY <2>1, <2>2, <2>3 DEF Group
<1> QED BY <1>2, <1>3

LEMMA EventHasRate ==
    ASSUME NEW j \in DOMAIN Splits, NEW g \in Group, NEW m \in Events(g)
    PROVE  Rate[j][Config[g][m]] \in Nat
<1>1. Config[g][m] \in Event
  BY DEF Event
<1> QED BY <1>1, RateAssumption

\* Counts are words; the times are not yet cut to words.
CountsTyped(k) ==
    \A h \in DOMAIN k : k[h].count \in 0 .. Mod - 1 /\ k[h].time \in Nat \X Nat
KernelTyped == CountsTyped(kernel)

LEMMA WordsTyped ==
    ASSUME HandInv, KernelTyped, NEW g \in Group, ok[g], NEW w \in 1 .. 2 + Len(Config[g])
    PROVE  /\ Words(g)[w] \in 0 .. Mod - 1
           /\ w \in 1 .. 2 => Words(g)[w] = kernel[fds[g][1]].time[w] % Mod
           /\ w \notin 1 .. 2 => w - 2 \in Events(g) /\ Words(g)[w] = kernel[fds[g][w - 2]].count
<1>1. \A m \in Events(g) : fds[g][m] \in DOMAIN kernel
  BY Owned DEF HandInv, RecorderInv, GroupsOwn, WholeOrNone, HeldOpen
<1>2. Len(Config[g]) \in Nat /\ Events(g) = 1 .. Len(Config[g]) /\ 1 \in Events(g)
  BY EventsAre
<1>3. CASE w \in 1 .. 2
  <2>1. Words(g)[w] = kernel[fds[g][1]].time[w] % Mod
    BY <1>2, <1>3 DEF Words, Mod
  <2>2. kernel[fds[g][1]].time[w] \in Nat
    <3>1. kernel[fds[g][1]].time \in Nat \X Nat
      BY <1>1, <1>2 DEF KernelTyped, CountsTyped
    <3>2. w = 1 \/ w = 2
      BY <1>3
    <3> QED BY <3>1, <3>2
  <2> QED BY <1>3, <2>1, <2>2, ModIs
<1>4. CASE w \notin 1 .. 2
  <2>1. w - 2 \in Events(g) /\ w # 0
    BY <1>2, <1>4
  <2>2. Words(g)[w] = kernel[fds[g][w - 2]].count
    BY <1>2, <1>4, <2>1 DEF Words
  <2> QED BY <1>1, <1>4, <2>1, <2>2 DEF KernelTyped, CountsTyped
<1> QED BY <1>3, <1>4

LEMMA ReadingTyped ==
    ASSUME HandInv, KernelTyped, NEW F
    PROVE  get_counters(set, F) \in [Field -> 0 .. Mod - 1]
<1>1. ASSUME NEW f \in Field, ok[GroupOf[f]]
      PROVE  Words(GroupOf[f])[WordOf[GroupOf[f]][f]] \in 0 .. Mod - 1
  BY <1>1, FieldsAre, WordsTyped
<1>2. 0 \in 0 .. Mod - 1
  BY ModIs
<1> QED BY <1>1, <1>2 DEF get_counters

\* What a look-up adds to the words of a group that is being measured.
Ticks(g, w, j, F) ==
    LET more == IF g \in F THEN 0 ELSE 1
    IN  Words(g)'[w] = (Words(g)[w] +
          CASE w = 1 -> 1 [] w = 2 -> more
            [] OTHER -> more * Rate[j][Config[g][w - 2]]) % Mod

LEMMA WordTicks ==
    ASSUME HandInv, KernelTyped, NEW g \in Group, Measured(g),
           NEW w \in 1 .. 2 + Len(Config[g]), NEW j \in DOMAIN Splits, NEW F,
           kernel' = Ticked(Rate[j], GroupsOf(set) \ F), fds' = fds
    PROVE  Ticks(g, w, j, F)
<1> DEFINE more == IF g \in F THEN 0 ELSE 1
<1> SUFFICES Words(g)'[w] = (Words(g)[w] +
               CASE w = 1 -> 1 [] w = 2 -> more
                 [] OTHER -> more * Rate[j][Config[g][w - 2]]) % Mod
  BY DEF Ticks
<1>1. GroupsOwn
  BY Owned DEF HandInv, RecorderInv
<1>2. ok[g] /\ g \in GroupsOf(set) /\ 1 \in Events(g) /\ Len(Config[g]) \in Nat
      /\ Events(g) = 1 .. Len(Config[g])
  BY EventsAre DEF Measured
<1>3. GroupsOf(set) \subseteq Group
  BY DEF HandInv, BatchTyped, CounterSet, GroupsOf, Group
<1>4. ASSUME NEW m \in Events(g)
      PROVE  LET h == fds[g][m]
             IN  /\ h \in DOMAIN kernel
                 /\ kernel'[h].count = (kernel[h].count + more * Rate[j][Config[g][m]]) % Mod
                 /\ kernel'[h].time = <<kernel[h].time[1] + 1, kernel[h].time[2] + more>>
  <2> DEFINE h == fds[g][m]
             runs == \E x \in GroupsOf(set) \ F : fds[x][1] = kernel[h].leader
             add == IF runs THEN 1 ELSE 0
             r == Rate[j]
             c == (kernel[h].count + add * r[kernel[h].event]) % 2 ^ Word
             u == <<kernel[h].time[1] + 1, kernel[h].time[2] + add>>
  <2>1. /\ h # NoFd /\ h \in DOMAIN kernel /\ kernel[h].event = Config[g][m]
        /\ kernel[h].leader = fds[g][1] /\ fds[g][1] # NoFd
    BY <1>1, <1>2 DEF GroupsOwn, WholeOrNone, HeldOpen
  <2>2. Counting(h)
    BY <2>1, CountsWhenMeasured
  <2>3. runs <=> g \notin F
    BY <1>1, <1>2, <1>3, <2>1, EventsAre DEF GroupsOwn, HeldOnce
  <2>4. IsEvent(kernel[h])
    BY <2>1 DEF HandInv, RecorderInv, RecorderTyped
  <2>5. kernel'[h] = [kernel[h] EXCEPT !.count = c, !.time = u]
    BY <2>1, <2>2, <2>4 DEF Ticked, IsEvent
  <2>6. add = more
    BY <2>3
  <2> HIDE DEF add, r, more
  <2>7. c = (kernel[h].count + more * r[Config[g][m]]) % Mod
        /\ u = <<kernel[h].time[1] + 1, kernel[h].time[2] + more>>
    BY <2>1, <2>6 DEF Mod
  <2> HIDE DEF c, u
  <2>8. kernel'[h].count = c /\ kernel'[h].time = u
    BY <2>4, <2>5 DEF IsEvent
  <2> QED BY <2>1, <2>7, <2>8 DEF r
<1>5. more \in Nat
  OBVIOUS
<1> HIDE DEF more
<1>6. CASE w \in 1 .. 2
  <2> DEFINE t == kernel[fds[g][1]].time
             add == IF w = 1 THEN 1 ELSE more
  <2>1. t[w] \in Nat
    <3>1. t \in Nat \X Nat
      BY <1>2, <1>4 DEF KernelTyped, CountsTyped
    <3>2. w = 1 \/ w = 2
      BY <1>6
    <3> QED BY <3>1, <3>2
  <2>2. Words(g)[w] = t[w] % Mod
    BY <1>2, <1>6, WordsTyped
  <2>3. kernel'[fds[g][1]].time = <<t[1] + 1, t[2] + more>>
    BY <1>2, <1>4
  <2>4. kernel'[fds[g][1]].time[w] = t[w] + add
    <3> DEFINE v == kernel'[fds[g][1]].time
               a == t[1] + 1
               b == t[2] + more
    <3>1. v = <<a, b>>
      BY <2>3
    <3>2. a = t[1] + 1 /\ b = t[2] + more
      OBVIOUS
    <3> HIDE DEF v, a, b, t
    <3>3. v[1] = a /\ v[2] = b
      BY <3>1
    <3>4. w = 1 => v[w] = t[w] + add
      BY <3>2, <3>3
    <3>5. w = 2 => v[w] = t[w] + add
      BY <3>2, <3>3
    <3>6. v[w] = t[w] + add
      BY <1>6, <3>4, <3>5
    <3> QED BY <3>6 DEF v
  <2>5. Words(g)'[w] = kernel'[fds'[g][1]].time[w] % Mod
    BY <1>2, <1>6 DEF Words, Mod
  <2>6. (t[w] + add) % Mod = ((t[w] % Mod) + add) % Mod
    <3> DEFINE v == t[w]
    <3>1. add \in Int /\ v \in Int
      BY <1>5, <2>1
    <3> HIDE DEF v, t, add
    <3>2. ((v % Mod) + add) % Mod = (v + add) % Mod
      BY <3>1, ModIs, AddMod
    <3> QED BY <3>2 DEF v
  <2>7. CASE w = 1 BY <2>2, <2>4, <2>5, <2>6, <2>7 DEF more
  <2>8. CASE w = 2 BY <2>2, <2>4, <2>5, <2>6, <2>8 DEF more
  <2> QED BY <1>6, <2>7, <2>8
<1>7. CASE w \notin 1 .. 2
  <2>1. w - 2 \in Events(g) /\ Words(g)[w] = kernel[fds[g][w - 2]].count
    BY <1>2, <1>7, WordsTyped
  <2>2. Words(g)'[w] = kernel'[fds'[g][w - 2]].count
    <3>1. fds' = fds /\ w \in 0 .. 2 + Len(Config[g])
      BY <1>2, <1>7
    <3>2. w # 0 /\ w \notin 1 .. 2
      BY <1>7
    <3> QED BY <3>1, <3>2 DEF Words
  <2>3. kernel'[fds[g][w - 2]].count =
          (kernel[fds[g][w - 2]].count + more * Rate[j][Config[g][w - 2]]) % Mod
    BY <1>4, <2>1
  <2> QED BY <1>7, <2>1, <2>2, <2>3 DEF more
<1> QED BY <1>6, <1>7

-----------------------------------------------------------------------------
(* The invariant.                                                            *)

Result == [counter : [Field -> 0 .. Mod - 1], sum : Int, lookups : Nat,
           misread : SUBSET Group, off : [Group -> Nat]]

BatchInv ==
    /\ n \in Nat /\ sum \in [CounterSet -> Int]
    /\ start \in [Field -> 0 .. Mod - 1] /\ counter \in [Field -> 0 .. Mod - 1]
    /\ results \in Seq(Result)
    /\ misread \in SUBSET Group /\ off \in [Group -> Nat]
    /\ pc # "returned" => Len(results) < Len(Splits)
    /\ KernelTyped

\* A batch begins with nothing done and nothing amiss, the first one before there is
\* a recorder.
FreshInv ==
    /\ pc \notin {"warmup", "lookup"} => n = 0
    /\ set = "cache" => pc # "returned"
    /\ stage \in {"unbuilt", "opening"} => results = << >> /\ set = "core"
    /\ pc # "lookup" => \A g \in GroupsOf(set) : off[g] = 0 /\ g \notin misread
    /\ set = "core" => \A g \in GroupsOf("cache") : off[g] = 0 /\ g \notin misread

\* What k look-ups of the current measurement add to a field.
Meant(f, k) ==
    LET g       == GroupOf[f]
        word    == WordOf[g][f]
        running == k - off[g]
    IN  CASE word = 1 -> k
          [] word = 2 -> running
          [] OTHER -> running * Rate[Len(results) + 1][Config[g][word - 2]]

\* Since the first reading a word has gained what the look-ups were meant to add.
LookupCounts ==
    \A f \in Field : GroupOf[f] \in GroupsOf(set) =>
        IF ~ ok[GroupOf[f]] THEN start[f] = 0
        ELSE GroupOf[f] \notin misread =>
               Words(GroupOf[f])[WordOf[GroupOf[f]][f]] = (start[f] + Meant(f, n)) % Mod
CoreCounts ==
    \A f \in Field : GroupOf[f] = "core" =>
        IF ~ ok["core"] THEN counter[f] = 0
        ELSE "core" \notin misread => counter[f] = Meant(f, Len(Lookups)) % Mod
ResultCounts ==
    \A s \in DOMAIN results : \A f \in Field :
        IF ~ ok[GroupOf[f]] THEN results[s].counter[f] = 0
        ELSE GroupOf[f] \notin results[s].misread =>
               results[s].counter[f] = MeantFor(s, f) % Mod
\* The results stay right when neither they nor the groups that work change.
LEMMA ResultCountsKeep ==
    ASSUME ResultCounts, UNCHANGED <<results, ok>>
    PROVE  ResultCounts'
<1>1. ASSUME NEW s, NEW f PROVE MeantFor(s, f)' = MeantFor(s, f)
  BY DEF MeantFor
<1> QED BY <1>1 DEF ResultCounts

CountInv ==
    stage = "built" => /\ pc = "lookup" => LookupCounts
                       /\ set = "cache" => CoreCounts
                       /\ ResultCounts

SumInv ==
    /\ pc = "lookup" => n <= Len(Lookups) /\ sum[set] = RunningSum(Lookups)[n]
    /\ pc # "lookup" => sum[set] = 0
    /\ set = "cache" => sum["core"] = RunningSum(Lookups)[Len(Lookups)]
    /\ set = "core" => sum["cache"] = 0
    /\ \A s \in DOMAIN results :
         /\ results[s].sum = 2 * SumOf(Splits[s].lookups)
         /\ results[s].lookups = Len(Splits[s].lookups)

BenchInv == HandInv /\ BatchInv /\ FreshInv /\ CountInv /\ SumInv

\* Every batch looks up the whole of its set.
LEMMA WholeSet ==
    ASSUME BatchInv, pc # "returned"
    PROVE  /\ Len(results) + 1 \in DOMAIN Splits
           /\ Lookups \in Seq(Nat) /\ Lookups \in Seq(Int) /\ Len(Lookups) \in Nat
           /\ batch_size \in Nat /\ ITERS * batch_size = Len(Lookups)
<1> DEFINE j == Len(results) + 1
<1>1. Len(results) \in Nat /\ Len(results) < Len(Splits) /\ Len(Splits) \in Nat
      /\ DOMAIN Splits = 1 .. Len(Splits)
  BY SplitsTyped DEF BatchInv
<1>2. j \in DOMAIN Splits
  BY <1>1
<1>3. Splits[j] \in Measurement
  BY <1>1, <1>2, SplitsTyped, ElementOfSeq
<1> DEFINE b == BATCH_SIZE[Splits[j].batch]
<1>4. /\ Splits[j].lookups \in Seq(Nat) /\ Len(Splits[j].lookups) = ITERS * b
      /\ Splits[j].batch \in DOMAIN BATCH_SIZE
  BY <1>3 DEF Measurement
<1>5. b \in Nat
  BY <1>4, WorkloadAssumption, ElementOfSeq
<1> HIDE DEF b
<1>6. (ITERS * b) \div ITERS = b
  BY <1>5, WorkloadAssumption
<1>7. Lookups = Splits[j].lookups
  BY DEF Lookups
<1>8. Lookups \in Seq(Int)
  <2>1. \A i \in 1 .. Len(Lookups) : Lookups[i] \in Int
    BY <1>4, <1>7
  <2> QED BY <1>4, <1>7, <2>1
<1> QED BY <1>2, <1>4, <1>5, <1>6, <1>7, <1>8 DEF batch_size

LEMMA MeantTyped ==
    ASSUME BatchInv, pc # "returned", NEW f \in Field, NEW k \in Int
    PROVE  Meant(f, k) \in Int
<1> DEFINE g == GroupOf[f]
           w == WordOf[g][f]
           r == Rate[Len(results) + 1][Config[g][w - 2]]
<1>1. g \in Group /\ w \in 1 .. 2 + Len(Config[g]) /\ off[g] \in Nat
  BY FieldsAre DEF BatchInv
<1>2. w # 1 /\ w # 2 => r \in Nat
  <2> SUFFICES ASSUME w # 1, w # 2 PROVE r \in Nat
    OBVIOUS
  <2>1. w - 2 \in Events(g)
    BY <1>1, EventsAre
  <2> HIDE DEF g, w
  <2> QED BY <1>1, <2>1, WholeSet, EventHasRate
<1>3. Meant(f, k) = CASE w = 1 -> k [] w = 2 -> k - off[g] [] OTHER -> (k - off[g]) * r
  BY DEF Meant
<1> HIDE DEF g, w, r
<1> QED BY <1>1, <1>2, <1>3

-----------------------------------------------------------------------------
(* The kernel's counts stay words.                                           *)

LEMMA SwitchTyped ==
    ASSUME NEW k, \A h \in DOMAIN k : IsEvent(k[h]), CountsTyped(k),
           NEW b \in BOOLEAN, NEW groups
    PROVE  CountsTyped(SwitchedTo(b, k, groups))
<1> DEFINE k2 == SwitchedTo(b, k, groups)
<1>1. DOMAIN k2 = DOMAIN k
  BY DEF SwitchedTo
<1>2. ASSUME NEW h \in DOMAIN k PROVE k2[h].count = k[h].count /\ k2[h].time = k[h].time
  <2>1. IsEvent(k[h])
    OBVIOUS
  <2>2. k2[h] = [k[h] EXCEPT !.enabled = b] \/ k2[h] = k[h]
    BY DEF SwitchedTo
  <2>3. [k[h] EXCEPT !.enabled = b] =
          [event |-> k[h].event, leader |-> k[h].leader, enabled |-> b,
           count |-> k[h].count, time |-> k[h].time]
    BY <2>1 DEF IsEvent
  <2> QED BY <2>2, <2>3
<1> QED BY <1>1, <1>2 DEF CountsTyped

LEMMA TickTyped ==
    ASSUME RecorderInv, KernelTyped, NEW j \in DOMAIN Splits, NEW onCpu
    PROVE  CountsTyped(Ticked(Rate[j], onCpu))
<1> DEFINE k2 == Ticked(Rate[j], onCpu)
           rate == Rate[j]
<1>1. DOMAIN k2 = DOMAIN kernel
  BY DEF Ticked
<1>2. ASSUME NEW h \in DOMAIN kernel
      PROVE  k2[h].count \in 0 .. Mod - 1 /\ k2[h].time \in Nat \X Nat
  <2>1. IsEvent(kernel[h]) /\ kernel[h].count \in 0 .. Mod - 1 /\ kernel[h].time \in Nat \X Nat
    BY DEF RecorderInv, RecorderTyped, KernelTyped, CountsTyped
  <2>2. rate[kernel[h].event] \in Nat
    <3>1. GroupsOwn
      BY Owned DEF RecorderInv
    <3>2. PICK g \in Group : \E m \in Events(g) : h = fds[g][m] /\ h # NoFd
      BY <3>1 DEF GroupsOwn, EachHeld
    <3>3. PICK m \in Events(g) : h = fds[g][m] /\ h # NoFd
      BY <3>2
    <3>4. kernel[h].event = Config[g][m]
      BY <3>1, <3>3 DEF GroupsOwn, HeldOpen
    <3> QED BY <3>4, EventHasRate
  <2>3. CASE Counting(h)
    <3> DEFINE runs == \E g \in onCpu : fds[g][1] = kernel[h].leader
               more == IF runs THEN 1 ELSE 0
               c == (kernel[h].count + more * rate[kernel[h].event]) % 2 ^ Word
               u == <<kernel[h].time[1] + 1, kernel[h].time[2] + more>>
    <3>1. k2[h] = [kernel[h] EXCEPT !.count = c, !.time = u]
      BY <2>1, <2>3 DEF Ticked, IsEvent
    <3>2. more \in Nat
      OBVIOUS
    <3> HIDE DEF more, rate
    <3>3. c \in 0 .. Mod - 1
      <4>1. kernel[h].count + more * rate[kernel[h].event] \in Int
        BY <2>1, <2>2, <3>2, ModIs
      <4> QED BY <4>1, ModIs DEF Mod
    <3>4. u \in Nat \X Nat
      BY <2>1, <3>2
    <3> HIDE DEF c, u
    <3>5. k2[h].count = c /\ k2[h].time = u
      BY <2>1, <3>1 DEF IsEvent
    <3> QED BY <3>3, <3>4, <3>5
  <2>4. CASE ~ Counting(h)
    <3>1. k2[h] = kernel[h]
      BY <2>4 DEF Ticked
    <3> QED BY <2>1, <3>1
  <2> QED BY <2>3, <2>4
<1> QED BY <1>1, <1>2 DEF CountsTyped

LEMMA OpenTyped ==
    ASSUME HandInv, KernelTyped, NEW success \in BOOLEAN, Open(success)
    PROVE  KernelTyped'
<1> DEFINE g == next[1]
           p == next[2]
           mine == [fds[g] EXCEPT ![p] = IF success THEN FreeFd ELSE NoFd]
           all == IF success THEN Opened(FreeFd, g, p) ELSE kernel
<1>1. CountsTyped(all)
  <2>1. CASE success
    <3> DEFINE l == IF p = 1 THEN FreeFd ELSE fds[g][1]
               b == p # 1
    <3>1. DOMAIN all = DOMAIN kernel \cup {FreeFd}
      BY <2>1 DEF Opened
    <3>2. all[FreeFd] = [event |-> Config[g][p], leader |-> l, enabled |-> b,
                         count |-> 0, time |-> <<0, 0>>]
      BY <2>1 DEF Opened
    <3>3. \A h \in DOMAIN kernel : h # FreeFd => all[h] = kernel[h]
      BY <2>1 DEF Opened
    <3> HIDE DEF l, b, g, p, all
    <3>4. all[FreeFd].count = 0 /\ all[FreeFd].time = <<0, 0>>
      BY <3>2
    <3>5. 0 \in 0 .. Mod - 1 /\ <<0, 0>> \in Nat \X Nat
      BY ModIs
    <3>6. \A h \in DOMAIN kernel :
              kernel[h].count \in 0 .. Mod - 1 /\ kernel[h].time \in Nat \X Nat
      BY DEF KernelTyped, CountsTyped
    <3>7. ASSUME NEW h \in DOMAIN all
          PROVE  all[h].count \in 0 .. Mod - 1 /\ all[h].time \in Nat \X Nat
      <4>1. CASE h = FreeFd BY <3>4, <3>5, <4>1
      <4>2. CASE h # FreeFd BY <3>1, <3>3, <3>6, <4>2
      <4> QED BY <4>1, <4>2
    <3> QED BY <3>7 DEF CountsTyped
  <2>2. CASE ~ success
    BY <2>2 DEF KernelTyped
  <2> QED BY <2>1, <2>2
<1>2. kernel' = all \/ close_all(g, mine, all)
  BY DEF Open
<1> HIDE DEF g, p, mine, all
<1> QED BY <1>1, <1>2 DEF close_all, Without, KernelTyped, CountsTyped

LEMMA KernelStep ==
    ASSUME HandInv, BatchInv, main PROVE KernelTyped'
<1>1. \A h \in DOMAIN kernel : IsEvent(kernel[h])
  BY DEF HandInv, RecorderInv, RecorderTyped
<1>2. KernelTyped /\ CountsTyped(kernel)
  BY DEF BatchInv, KernelTyped
<1>3. CountsTyped(AllOff) /\ SameEvents(kernel, AllOff)
  BY <1>1, <1>2, SwitchTyped, SwitchSame DEF AllOff
<1>4. ASSUME kernel' = kernel PROVE KernelTyped'
  BY <1>2, <1>4 DEF KernelTyped
<1>5. ASSUME Warmup \/ Lookup PROVE KernelTyped'
  <2>1. PICK F : Works(F)
    BY <1>5 DEF Warmup, Lookup
  <2>2. Len(results) + 1 \in DOMAIN Splits
    BY <1>5, SplitsTyped DEF BatchInv, Warmup, Lookup
  <2>3. CountsTyped(Ticked(Rate[Len(results) + 1], GroupsOf(set) \ F))
    BY <1>2, <2>2, TickTyped DEF HandInv
  <2> QED BY <2>1, <2>3 DEF Works, KernelTyped
<1>6. ASSUME Disable \/ Finish PROVE KernelTyped'
  BY <1>3, <1>6 DEF Disable, Finish, disable_all, KernelTyped
<1>7. ASSUME Enable PROVE KernelTyped'
  <2>1. \A h \in DOMAIN AllOff : IsEvent(AllOff[h])
    BY <1>3 DEF SameEvents
  <2>2. CountsTyped(SwitchedTo(TRUE, AllOff, GroupsOf(set)))
    BY <1>3, <2>1, SwitchTyped
  <2> QED BY <1>7, <2>2 DEF Enable, enable, KernelTyped
<1>8. ASSUME ExitProcess PROVE KernelTyped'
  BY <1>2, <1>8 DEF ExitProcess, Exit, Without, KernelTyped, CountsTyped
<1>9. ASSUME OpenEvent PROVE KernelTyped'
  BY <1>2, <1>9, OpenTyped DEF OpenEvent
<1>10. ASSUME CallSplit \/ WarmupDone \/ BuildRecorder \/ Start \/ sink_results \/ PrintSection
       PROVE  kernel' = kernel
  BY <1>10 DEF CallSplit, WarmupDone, BuildRecorder, Build, Start, sink_results, PrintSection,
               recorderVars
<1> QED BY <1>4, <1>5, <1>6, <1>7, <1>8, <1>9, <1>10 DEF main, Measure, benchmark_split

-----------------------------------------------------------------------------
(* The steps.                                                                *)

\* Steps that neither begin a measurement, nor look up in it, nor end it.
LEMMA QuietKeeps ==
    ASSUME BenchInv, UNCHANGED <<set, sum, start, counter, results, misread, off>>,
           KernelTyped', n' \in Nat,
           pc' \notin {"warmup", "lookup"} => n' = 0,
           pc' = "lookup" <=> pc = "lookup", pc = "lookup" => n' = n,
           pc' = "returned" => pc = "returned",
           pc' # "returned" => Len(results) < Len(Splits),
           stage' \in {"unbuilt", "opening"} => stage \in {"unbuilt", "opening"},
           stage' = "built" => \/ stage = "opening"
                               \/ stage = "built" /\ ok' = ok,
           pc = "lookup" /\ stage = "built" /\ stage' = "built" => UNCHANGED <<kernel, fds>>
    PROVE  BatchInv' /\ FreshInv' /\ CountInv' /\ SumInv'
<1>1. BatchInv'
  BY DEF BenchInv, BatchInv
<1>2. FreshInv'
  BY DEF BenchInv, FreshInv
<1>3. CountInv'
  <2> SUFFICES ASSUME stage' = "built" PROVE CountInv'
    BY DEF CountInv
  <2>1. CASE stage = "opening"
    <3>1. pc = "disable" /\ set = "core" /\ results = << >>
      BY <2>1 DEF BenchInv, HandInv, BatchTyped, FreshInv
    <3>2. ResultCounts'
      BY <3>1 DEF ResultCounts
    <3> QED BY <3>1, <3>2 DEF CountInv
  <2>2. CASE stage = "built" /\ ok' = ok
    <3>1. ResultCounts /\ (set = "cache" => CoreCounts) /\ (pc = "lookup" => LookupCounts)
      BY <2>2 DEF BenchInv, CountInv
    <3>2. ResultCounts'
      BY <2>2, <3>1, ResultCountsKeep
    <3>3. set' = "cache" => CoreCounts'
      <4>1. \A f \in Field : Meant(f, Len(Lookups))' = Meant(f, Len(Lookups))
        BY DEF Meant, Lookups
      <4> QED BY <2>2, <3>1, <4>1 DEF CoreCounts
    <3>4. pc' = "lookup" => LookupCounts'
      <4> SUFFICES ASSUME pc = "lookup" PROVE LookupCounts'
        OBVIOUS
      <4>1. \A f \in Field : Meant(f, n)' = Meant(f, n)
        BY DEF Meant
      <4>2. \A g : Words(g)' = Words(g)
        BY <2>2 DEF Words
      <4> QED BY <2>2, <3>1, <4>1, <4>2 DEF LookupCounts
    <3> QED BY <3>2, <3>3, <3>4 DEF CountInv
  <2> QED BY <2>1, <2>2
<1>4. SumInv'
  <2>1. Lookups' = Lookups
    BY DEF Lookups
  <2> QED BY <2>1 DEF BenchInv, SumInv
<1> QED BY <1>1, <1>2, <1>3, <1>4

\* What befalls groups befalls those that are being measured.
LEMMA HitIs ==
    ASSUME HandInv, NEW F \in Hit
    PROVE  /\ F \subseteq Group /\ F \subseteq GroupsOf(set)
           /\ set = "core" => GroupsOf(set) = {"core"} /\ "l1d" \notin F /\ "llc" \notin F
           /\ set = "cache" => GroupsOf(set) = {"l1d", "llc"} /\ "core" \notin F
           /\ set = "core" \/ set = "cache"
  BY DEF Hit, HandInv, BatchTyped, CounterSet, GroupsOf, Group

LEMMA StartKeeps ==
    ASSUME BenchInv, Start, KernelTyped'
    PROVE  BatchInv' /\ FreshInv' /\ CountInv' /\ SumInv'
<1>1. PICK F \in Hit : start' = get_counters(set, F) /\ misread' = misread \cup F
  BY DEF Start
<1>2. /\ pc = "start" /\ pc' = "lookup"
      /\ UNCHANGED <<kernel, others, fds, ok, stage, next>>
      /\ UNCHANGED <<set, n, sum, counter, results, off>>
  BY DEF Start, recorderVars
<1>3. /\ F \subseteq Group /\ F \subseteq GroupsOf(set)
      /\ set = "core" => GroupsOf(set) = {"core"} /\ "l1d" \notin F /\ "llc" \notin F
      /\ set = "cache" => GroupsOf(set) = {"l1d", "llc"} /\ "core" \notin F
      /\ set = "core" \/ set = "cache"
  BY HitIs DEF BenchInv
<1>4. HandInv /\ BatchInv /\ FreshInv /\ CountInv /\ SumInv
  BY DEF BenchInv
<1>5. n = 0 /\ \A g \in GroupsOf(set) : off[g] = 0
  BY <1>2, <1>4 DEF FreshInv
<1>6. get_counters(set, F) \in [Field -> 0 .. Mod - 1]
  BY <1>4, ReadingTyped DEF BatchInv
<1>7. BatchInv'
  BY <1>1, <1>2, <1>3, <1>4, <1>6 DEF BatchInv
<1>8. FreshInv'
  <2>1. GroupsOf("cache") = {"l1d", "llc"}
    BY DEF GroupsOf
  <2> QED BY <1>1, <1>2, <1>3, <1>4, <2>1 DEF FreshInv
<1>9. SumInv'
  <2>1. RunningSum(Lookups)[0] = 0 /\ Len(Lookups) \in Nat
    BY <1>2, <1>4, WholeSet, RunningSumIs
  <2>2. Lookups' = Lookups
    BY <1>2 DEF Lookups
  <2> QED BY <1>2, <1>4, <1>5, <2>1, <2>2 DEF SumInv
<1>10. CountInv'
  <2> SUFFICES ASSUME stage' = "built" PROVE CountInv'
    BY DEF CountInv
  <2>1. ResultCounts /\ (set = "cache" => CoreCounts)
    BY <1>2, <1>4 DEF CountInv
  <2>2. ResultCounts'
    BY <1>2, <2>1, ResultCountsKeep
  <2>3. set' = "cache" => CoreCounts'
    <3>1. \A f \in Field : Meant(f, Len(Lookups))' = Meant(f, Len(Lookups))
      BY <1>2 DEF Meant, Lookups
    <3> QED BY <1>1, <1>2, <2>1, <3>1 DEF CoreCounts
  <2>4. LookupCounts'
    <3> SUFFICES ASSUME NEW f \in Field, GroupOf[f] \in GroupsOf(set)
                 PROVE  IF ~ ok[GroupOf[f]] THEN start'[f] = 0
                        ELSE GroupOf[f] \notin misread' =>
                               Words(GroupOf[f])'[WordOf[GroupOf[f]][f]] =
                                 (start'[f] + Meant(f, n)') % Mod
      BY <1>2 DEF LookupCounts
    <3> DEFINE g == GroupOf[f]
               w == WordOf[g][f]
    <3>1. start'[f] = IF g \in GroupsOf(set) \ F /\ ok[g] THEN Words(g)[w] ELSE 0
      BY <1>1 DEF get_counters
    <3>2. Words(g)' = Words(g)
      BY <1>2 DEF Words
    <3>3. Meant(f, n)' = 0
      <4>1. off'[g] = 0 /\ n' = 0
        BY <1>2, <1>5
      <4>2. ASSUME w # 1, w # 2 PROVE Rate[Len(results') + 1][Config[g][w - 2]] \in Nat
        <5>1. g \in Group /\ w - 2 \in Events(g)
          BY <4>2, FieldsAre, EventsAre
        <5>2. Len(results') + 1 \in DOMAIN Splits
          BY <1>2, <1>4, WholeSet
        <5> HIDE DEF g, w
        <5> QED BY <5>1, <5>2, EventHasRate
      <4> DEFINE r == Rate[Len(results') + 1][Config[g][w - 2]]
      <4>3. Meant(f, n)' = CASE w = 1 -> n' [] w = 2 -> n' - off'[g]
                             [] OTHER -> (n' - off'[g]) * r
        BY DEF Meant
      <4>4. w # 1 /\ w # 2 => r \in Nat
        BY <4>2
      <4> HIDE DEF r, w, g
      <4> QED BY <4>1, <4>3, <4>4
    <3>4. g \notin misread' => g \notin F
      BY <1>1
    <3>5. ASSUME ok[g], g \notin misread'
          PROVE  Words(g)'[w] = (start'[f] + Meant(f, n)') % Mod
      <4>1. start'[f] = Words(g)[w] /\ start'[f] \in 0 .. Mod - 1
        BY <1>1, <1>6, <3>1, <3>4, <3>5
      <4> DEFINE v == Words(g)[w]
      <4>2. v \in 0 .. Mod - 1
        BY <4>1
      <4> HIDE DEF v
      <4>3. (v + 0) % Mod = v
        BY <4>2, ModIs
      <4> QED BY <3>2, <3>3, <4>1, <4>3 DEF v
    <3> QED BY <3>1, <3>5
  <2> QED BY <1>2, <2>2, <2>3, <2>4 DEF CountInv
<1> QED BY <1>7, <1>8, <1>9, <1>10

LEMMA LookupKeeps ==
    ASSUME BenchInv, Lookup, KernelTyped'
    PROVE  BatchInv' /\ FreshInv' /\ CountInv' /\ SumInv'
<1>1. PICK F \in Hit : Works(F) /\ off' = [g \in Group |-> off[g] + IF g \in F THEN 1 ELSE 0]
  BY DEF Lookup
<1>2. /\ pc = "lookup" /\ n < ITERS * batch_size /\ n' = n + 1
      /\ sum' = [sum EXCEPT ![set] = @ + Lookups[n + 1]]
      /\ UNCHANGED <<others, fds, ok, stage, next, pc, set, start, counter, results, misread>>
  BY DEF Lookup
<1>3. /\ F \subseteq Group /\ F \subseteq GroupsOf(set)
      /\ set = "core" => GroupsOf(set) = {"core"} /\ "l1d" \notin F /\ "llc" \notin F
      /\ set = "cache" => GroupsOf(set) = {"l1d", "llc"} /\ "core" \notin F
      /\ set = "core" \/ set = "cache"
  BY HitIs DEF BenchInv
<1>4. HandInv /\ BatchInv /\ FreshInv /\ CountInv /\ SumInv
  BY DEF BenchInv
<1>5. /\ Len(results) + 1 \in DOMAIN Splits
      /\ Lookups \in Seq(Int) /\ Len(Lookups) \in Nat /\ ITERS * batch_size = Len(Lookups)
  BY <1>2, <1>4, WholeSet
<1>6. n \in Nat /\ n + 1 \in 1 .. Len(Lookups) /\ Lookups[n + 1] \in Int /\ Lookups' = Lookups
  <2>1. n \in Nat /\ n + 1 \in 1 .. Len(Lookups)
    BY <1>2, <1>4, <1>5 DEF BatchInv
  <2> QED BY <1>2, <1>5, <2>1, ElementOfSeq DEF Lookups
<1>7. sum \in [CounterSet -> Int] /\ set \in CounterSet
  BY <1>4 DEF BatchInv, HandInv, BatchTyped
<1>8. sum' \in [CounterSet -> Int] /\ sum'[set] = sum[set] + Lookups[n + 1]
      /\ (set = "core" => sum'["cache"] = sum["cache"])
      /\ (set = "cache" => sum'["core"] = sum["core"])
  BY <1>2, <1>6, <1>7 DEF CounterSet
<1>9. off \in [Group -> Nat] /\ off' \in [Group -> Nat]
      /\ \A g \in Group : off'[g] = off[g] + IF g \in F THEN 1 ELSE 0
  BY <1>1, <1>4 DEF BatchInv
<1>10. BatchInv'
  BY <1>2, <1>4, <1>6, <1>8, <1>9 DEF BatchInv
<1>11. FreshInv'
  <2>1. GroupsOf("cache") = {"l1d", "llc"} /\ GroupsOf("cache") \subseteq Group
    BY DEF GroupsOf, Group
  <2>2. set = "core" => \A g \in GroupsOf("cache") : off'[g] = off[g]
    <3> SUFFICES ASSUME set = "core", NEW g \in {"l1d", "llc"} PROVE off'[g] = off[g]
      BY <2>1
    <3>1. g \in Group /\ g \notin F
      BY <1>3 DEF Group
    <3> QED BY <1>9, <3>1
  <2> QED BY <1>2, <1>4, <2>2 DEF FreshInv
<1>12. SumInv'
  <2>1. RunningSum(Lookups)[n + 1] = RunningSum(Lookups)[n] + Lookups[n + 1]
    <3>1. \A k \in 1 .. Len(Lookups) :
            RunningSum(Lookups)[k] = RunningSum(Lookups)[k - 1] + Lookups[k]
      BY <1>5, RunningSumIs
    <3>2. (n + 1) - 1 = n
      BY <1>6
    <3> QED BY <1>6, <3>1, <3>2
  <2>2. sum[set] = RunningSum(Lookups)[n]
    BY <1>2, <1>4 DEF SumInv
  <2>3. n' <= Len(Lookups)
    BY <1>2, <1>5, <1>6
  <2> QED BY <1>2, <1>3, <1>4, <1>6, <1>8, <2>1, <2>2, <2>3 DEF SumInv
<1>13. CountInv'
  <2> SUFFICES ASSUME stage' = "built" PROVE CountInv'
    BY DEF CountInv
  <2>1. ResultCounts /\ (set = "cache" => CoreCounts) /\ LookupCounts
    BY <1>2, <1>4 DEF CountInv
  <2>2. ResultCounts'
    BY <1>2, <2>1, ResultCountsKeep
  <2>3. set' = "cache" => CoreCounts'
    <3> SUFFICES ASSUME set = "cache" PROVE CoreCounts'
      BY <1>2
    <3>1. off'["core"] = off["core"]
      BY <1>3, <1>9 DEF Group
    <3>2. \A f \in Field : GroupOf[f] = "core" =>
            Meant(f, Len(Lookups))' = Meant(f, Len(Lookups))
      BY <1>2, <1>6, <3>1 DEF Meant
    <3> QED BY <1>2, <2>1, <3>2 DEF CoreCounts
  <2>4. LookupCounts'
    <3> SUFFICES ASSUME NEW f \in Field, GroupOf[f] \in GroupsOf(set)
                 PROVE  IF ~ ok[GroupOf[f]] THEN start[f] = 0
                        ELSE GroupOf[f] \notin misread =>
                               Words(GroupOf[f])'[WordOf[GroupOf[f]][f]] =
                                 (start[f] + Meant(f, n)') % Mod
      BY <1>2 DEF LookupCounts
    <3> DEFINE g == GroupOf[f]
               w == WordOf[g][f]
               j == Len(results) + 1
               r == Rate[j][Config[g][w - 2]]
               more == IF g \in F THEN 0 ELSE 1
               gain == CASE w = 1 -> 1 [] w = 2 -> more [] OTHER -> more * r
    <3>1. ~ ok[g] => start[f] = 0
      BY <2>1 DEF LookupCounts
    <3>2. ASSUME ok[g], g \notin misread
          PROVE  Words(g)[w] = (start[f] + Meant(f, n)) % Mod
      BY <2>1, <3>2 DEF LookupCounts
    <3>3. g \in Group /\ w \in 1 .. 2 + Len(Config[g]) /\ off[g] \in Nat
          /\ off'[g] = off[g] + (IF g \in F THEN 1 ELSE 0)
      BY <1>9, FieldsAre
    <3>4. ok[g] => Words(g)'[w] = (Words(g)[w] + gain) % Mod
      <4> SUFFICES ASSUME ok[g] PROVE Words(g)'[w] = (Words(g)[w] + gain) % Mod
        OBVIOUS
      <4>1. Measured(g)
        BY <1>2 DEF Measured
      <4>2. ASSUME NEW x \in Group, Measured(x), NEW v \in 1 .. 2 + Len(Config[x])
            PROVE  Ticks(x, v, j, F)
        <5>1. kernel' = Ticked(Rate[j], GroupsOf(set) \ F) /\ fds' = fds
          BY <1>1, <1>2 DEF Works
        <5>2. HandInv /\ KernelTyped /\ j \in DOMAIN Splits
          BY <1>4, <1>5 DEF BatchInv
        <5> HIDE DEF j
        <5> QED BY <4>2, <5>1, <5>2, WordTicks
      <4>3. Ticks(g, w, j, F)
        BY <3>3, <4>1, <4>2
      <4> QED BY <4>3 DEF Ticks
    <3>5. w # 1 /\ w # 2 => r \in Nat
      <4> SUFFICES ASSUME w # 1, w # 2 PROVE r \in Nat
        OBVIOUS
      <4>1. w - 2 \in Events(g)
        BY <3>3, EventsAre
      <4> HIDE DEF g, w
      <4> QED BY <1>5, <3>3, <4>1, EventHasRate
    <3>6. Meant(f, n) = CASE w = 1 -> n [] w = 2 -> n - off[g] [] OTHER -> (n - off[g]) * r
      BY DEF Meant
    <3>7. Meant(f, n)' = CASE w = 1 -> n' [] w = 2 -> n' - off'[g]
                           [] OTHER -> (n' - off'[g]) * r
      BY <1>2 DEF Meant
    <3>8. Meant(f, n)' = Meant(f, n) + gain /\ Meant(f, n) \in Int /\ gain \in Int
      <4> DEFINE hit == IF g \in F THEN 1 ELSE 0
                 a == n - off[g]
                 b == n' - off'[g]
      <4>1. a \in Int /\ b = a + more /\ n' = n + 1 /\ n \in Int
        BY <1>2, <1>6, <3>3, SMTT(20)
      <4>2. more = 0 \/ more = 1
        OBVIOUS
      <4> HIDE DEF a, b, more, r, w, g
      <4>3. CASE w = 1
        BY <3>6, <3>7, <4>1, <4>3 DEF gain
      <4>4. CASE w = 2
        BY <3>6, <3>7, <4>1, <4>2, <4>4 DEF gain, a, b
      <4>5. CASE w # 1 /\ w # 2
        <5>1. (a + more) * r = a * r + more * r /\ a * r \in Int /\ more * r \in Int
          <6>1. a \in Int /\ more \in Int /\ r \in Int
            BY <3>5, <4>1, <4>2, <4>5
          <6> QED BY ONLY <6>1, Distribute
        <5>2. Meant(f, n) = a * r /\ Meant(f, n)' = b * r /\ gain = more * r
          BY <3>6, <3>7, <4>5 DEF gain, a, b
        <5> QED BY <4>1, <5>1, <5>2
      <4> QED BY <4>3, <4>4, <4>5
    <3>9. start[f] \in Int
      BY <1>4, ModIs DEF BatchInv
    <3>10. ASSUME ok[g], g \notin misread
           PROVE  Words(g)'[w] = (start[f] + Meant(f, n)') % Mod
      <4> DEFINE u == start[f] + Meant(f, n)
      <4>1. u \in Int /\ gain \in Int /\ start[f] + Meant(f, n)' = u + gain
        <5> HIDE DEF gain
        <5> QED BY <3>8, <3>9
      <4>2. Words(g)'[w] = ((u % Mod) + gain) % Mod
        BY <3>2, <3>4, <3>10
      <4> HIDE DEF u, gain
      <4>3. ((u % Mod) + gain) % Mod = (u + gain) % Mod
        BY <4>1, ModIs, AddMod
      <4> QED BY <4>1, <4>2, <4>3
    <3> QED BY <3>1, <3>10
  <2> QED BY <1>2, <2>2, <2>3, <2>4 DEF CountInv
<1> QED BY <1>10, <1>11, <1>12, <1>13

\* What the second reading less the first shows of the groups that were measured.
LEMMA CountedIs ==
    ASSUME BenchInv, pc = "lookup", stage = "built", n = Len(Lookups), NEW F \in Hit
    PROVE  /\ Counted(F) \in [Field -> 0 .. Mod - 1]
           /\ \A f \in Field : GroupOf[f] \in GroupsOf(set) =>
                IF ~ ok[GroupOf[f]] THEN Counted(F)[f] = 0
                ELSE GroupOf[f] \notin misread \cup F =>
                       Counted(F)[f] = Meant(f, Len(Lookups)) % Mod
<1> DEFINE G == get_counters(set, F)
<1>1. HandInv /\ BatchInv /\ CountInv
  BY DEF BenchInv
<1>2. G \in [Field -> 0 .. Mod - 1] /\ start \in [Field -> 0 .. Mod - 1]
  BY <1>1, ReadingTyped DEF BatchInv
<1>3. Counted(F) = [f \in Field |-> (G[f] - start[f]) % Mod]
  BY DEF Counted, Minus, Mod
<1>4. Counted(F) \in [Field -> 0 .. Mod - 1]
  <2>1. \A f \in Field : (G[f] - start[f]) % Mod \in 0 .. Mod - 1
    BY <1>2, ModIs
  <2> QED BY <1>3, <2>1
<1>5. LookupCounts
  BY <1>1 DEF CountInv
<1>6. ASSUME NEW f \in Field, GroupOf[f] \in GroupsOf(set)
      PROVE  IF ~ ok[GroupOf[f]] THEN Counted(F)[f] = 0
             ELSE GroupOf[f] \notin misread \cup F =>
                    Counted(F)[f] = Meant(f, Len(Lookups)) % Mod
  <2> DEFINE g == GroupOf[f]
             w == WordOf[g][f]
             v == Words(g)[w]
             c == Counted(F)[f]
             d == Meant(f, n)
  <2>1. c = (G[f] - start[f]) % Mod
    BY <1>3
  <2>2. G[f] = IF g \in GroupsOf(set) \ F /\ ok[g] THEN v ELSE 0
    BY DEF get_counters
  <2>3. ~ ok[g] => start[f] = 0
    BY <1>5, <1>6 DEF LookupCounts
  <2>4. ok[g] /\ g \notin misread => v = (start[f] + d) % Mod
    BY <1>5, <1>6 DEF LookupCounts
  <2>5. start[f] \in 0 .. Mod - 1 /\ start[f] \in Int
    BY <1>2, ModIs
  <2>6. d \in Int
    <3>1. n \in Int /\ pc # "returned"
      BY <1>1 DEF BatchInv
    <3> QED BY <1>1, <3>1, MeantTyped
  <2>7. d = Meant(f, Len(Lookups))
    OBVIOUS
  <2> DEFINE s == start[f]
  <2> HIDE DEF g, w, v, c, d, G
  <2>8. ~ ok[g] => c = 0
    <3>1. (0 - 0) % Mod = 0
      BY ModIs
    <3> QED BY <2>1, <2>2, <2>3, <3>1
  <2>9. ASSUME ok[g], g \notin misread \cup F PROVE c = d % Mod
    <3>1. c = (((s + d) % Mod) - s) % Mod
      BY <1>6, <2>1, <2>2, <2>4, <2>9 DEF g
    <3> HIDE DEF s
    <3>2. s \in 0 .. Mod - 1
      BY <2>5 DEF s
    <3> QED BY <2>6, <3>1, <3>2, ModIs, GainMod
  <2> QED BY <2>7, <2>8, <2>9 DEF g, c
<1> QED BY <1>4, <1>6

LEMMA CoreEnds ==
    ASSUME BenchInv, Finish, set = "core", KernelTyped'
    PROVE  BatchInv' /\ FreshInv' /\ CountInv' /\ SumInv'
<1>1. PICK F \in Hit : /\ counter' = Counted(F) /\ misread' = misread \cup F
                       /\ set' = "cache" /\ pc' = "warmup"
                       /\ UNCHANGED <<sum, results, off>>
  BY DEF Finish
<1>2. /\ pc = "lookup" /\ n = ITERS * batch_size /\ n' = 0
      /\ UNCHANGED <<others, fds, ok, stage, next, start>>
  BY DEF Finish
<1>3. /\ F \subseteq Group /\ F \subseteq GroupsOf(set)
      /\ GroupsOf(set) = {"core"} /\ "l1d" \notin F /\ "llc" \notin F
  BY HitIs DEF BenchInv
<1>4. HandInv /\ BatchInv /\ FreshInv /\ CountInv /\ SumInv
  BY DEF BenchInv
<1>5. n = Len(Lookups) /\ Lookups' = Lookups
  BY <1>1, <1>2, <1>4, WholeSet DEF Lookups
<1>6. GroupsOf("cache") = {"l1d", "llc"}
  BY DEF GroupsOf
<1>7. stage \notin {"unbuilt", "opening"}
  BY <1>2, <1>4 DEF HandInv, BatchTyped
<1>8. counter' \in [Field -> 0 .. Mod - 1]
  <2>1. ASSUME NEW f \in Field PROVE (get_counters(set, F)[f] - start[f]) % Mod \in 0 .. Mod - 1
    <3>1. get_counters(set, F) \in [Field -> 0 .. Mod - 1] /\ start \in [Field -> 0 .. Mod - 1]
      BY <1>4, ReadingTyped DEF BatchInv
    <3> QED BY <3>1, ModIs
  <2> QED BY <1>1, <2>1 DEF Counted, Minus, Mod
<1>9. BatchInv'
  BY <1>1, <1>2, <1>3, <1>4, <1>8 DEF BatchInv
<1>10. FreshInv'
  BY <1>1, <1>2, <1>3, <1>4, <1>6, <1>7 DEF FreshInv
<1>11. SumInv'
  BY <1>1, <1>2, <1>4, <1>5 DEF SumInv
<1>12. CountInv'
  <2> SUFFICES ASSUME stage' = "built" PROVE CountInv'
    BY DEF CountInv
  <2>1. ResultCounts
    BY <1>2, <1>4 DEF CountInv
  <2>2. ResultCounts'
    BY <1>1, <1>2, <2>1, ResultCountsKeep
  <2>3. CoreCounts'
    <3> SUFFICES ASSUME NEW f \in Field, GroupOf[f] = "core"
                 PROVE  IF ~ ok["core"] THEN counter'[f] = 0
                        ELSE "core" \notin misread' =>
                               counter'[f] = Meant(f, Len(Lookups))' % Mod
      BY <1>2 DEF CoreCounts
    <3>1. Meant(f, Len(Lookups))' = Meant(f, Len(Lookups))
      BY <1>1, <1>5 DEF Meant
    <3>2. IF ~ ok[GroupOf[f]] THEN Counted(F)[f] = 0
          ELSE GroupOf[f] \notin misread \cup F => Counted(F)[f] = Meant(f, Len(Lookups)) % Mod
      <4>1. GroupOf[f] \in GroupsOf(set)
        BY <1>3
      <4> QED BY <1>2, <1>5, <4>1, CountedIs
    <3> QED BY <1>1, <3>1, <3>2
  <2> QED BY <1>1, <2>2, <2>3 DEF CountInv
<1> QED BY <1>9, <1>10, <1>11, <1>12

LEMMA CacheEnds ==
    ASSUME BenchInv, Finish, set = "cache", KernelTyped'
    PROVE  BatchInv' /\ FreshInv' /\ CountInv' /\ SumInv'
<1> DEFINE kept(F) == [f \in Field |-> IF GroupOf[f] = "core" THEN counter[f] ELSE Counted(F)[f]]
           total == sum.core + sum.cache
           befell(F) == misread \cup F
           r(F) == [counter |-> kept(F), sum |-> total, lookups |-> Len(Lookups),
                    misread |-> befell(F), off |-> off]
<1>1. PICK F \in Hit : /\ results' = Append(results, r(F))
                       /\ counter' = Zeros /\ misread' = {} /\ off' = [g \in Group |-> 0]
                       /\ sum' = [core |-> 0, cache |-> 0] /\ set' = "core" /\ pc' = "returned"
  BY DEF Finish
<1>2. /\ pc = "lookup" /\ n = ITERS * batch_size /\ n' = 0
      /\ UNCHANGED <<others, fds, ok, stage, next, start>>
  BY DEF Finish
<1>3. F \subseteq Group /\ F \subseteq GroupsOf(set) /\ GroupsOf(set) = {"l1d", "llc"}
      /\ "core" \notin F
  BY HitIs DEF BenchInv
<1>4. HandInv /\ BatchInv /\ FreshInv /\ CountInv /\ SumInv
  BY DEF BenchInv
<1>5. /\ n = Len(Lookups) /\ Len(Lookups) \in Nat /\ Lookups \in Seq(Int)
      /\ Lookups = Splits[Len(results) + 1].lookups
  BY <1>2, <1>4, WholeSet DEF Lookups
<1>6. stage \notin {"unbuilt", "opening"}
  BY <1>2, <1>4 DEF HandInv, BatchTyped
<1>7. results \in Seq(Result) /\ counter \in [Field -> 0 .. Mod - 1]
      /\ sum \in [CounterSet -> Int] /\ misread \in SUBSET Group /\ off \in [Group -> Nat]
  BY <1>4 DEF BatchInv
<1>8. kept(F) \in [Field -> 0 .. Mod - 1]
  <2>1. ASSUME NEW f \in Field PROVE (get_counters(set, F)[f] - start[f]) % Mod \in 0 .. Mod - 1
    <3>1. get_counters(set, F) \in [Field -> 0 .. Mod - 1] /\ start \in [Field -> 0 .. Mod - 1]
      BY <1>4, ReadingTyped DEF BatchInv
    <3> QED BY <3>1, ModIs
  <2>2. \A f \in Field : Counted(F)[f] \in 0 .. Mod - 1
    BY <2>1 DEF Counted, Minus, Mod
  <2> QED BY <1>7, <2>2
<1>9. total \in Int
  BY <1>7 DEF CounterSet
<1> DEFINE last == r(F)
<1>10. last \in Result /\ last.counter = kept(F) /\ last.sum = total
       /\ last.lookups = Len(Lookups) /\ last.misread = befell(F) /\ last.off = off
  <2>1. befell(F) \in SUBSET Group
    BY <1>3, <1>7
  <2> HIDE DEF kept, total, befell
  <2> QED BY <1>5, <1>7, <1>8, <1>9, <2>1 DEF Result
<1> HIDE DEF last
<1>11. /\ results' = Append(results, last) /\ results' \in Seq(Result)
       /\ Len(results) \in Nat /\ Len(results') = Len(results) + 1
       /\ \A s \in DOMAIN results' : s \in DOMAIN results \/ s = Len(results) + 1
       /\ \A s \in DOMAIN results : results'[s] = results[s]
       /\ results'[Len(results) + 1] = last
  <2>1. results' = Append(results, last)
    BY <1>1 DEF last
  <2> HIDE DEF r, kept, total, befell
  <2> QED BY <1>7, <1>10, <2>1
<1>12. BatchInv'
  <2>1. Zeros \in [Field -> 0 .. Mod - 1]
    BY ModIs DEF Zeros
  <2>2. sum' \in [CounterSet -> Int]
    BY <1>1 DEF CounterSet
  <2>3. off' \in [Group -> Nat]
    BY <1>1
  <2> QED BY <1>1, <1>2, <1>4, <1>11, <2>1, <2>2, <2>3 DEF BatchInv
<1>13. FreshInv'
  <2>1. GroupsOf("core") \subseteq Group /\ GroupsOf("cache") \subseteq Group
    BY DEF GroupsOf, Group
  <2> QED BY <1>1, <1>2, <1>6, <2>1 DEF FreshInv
<1>14. SumInv'
  <2>1. total = 2 * SumOf(Lookups)
    <3> DEFINE all == RunningSum(Lookups)[Len(Lookups)]
    <3>1. sum["core"] = all /\ sum["cache"] = all
      BY <1>2, <1>4, <1>5 DEF SumInv
    <3>2. all = SumOf(Lookups) /\ all \in Int
      BY <1>5, RunningSumIs
    <3> HIDE DEF all
    <3> QED BY <3>1, <3>2
  <2>2. ASSUME NEW s \in DOMAIN results'
        PROVE  /\ results'[s].sum = 2 * SumOf(Splits[s].lookups)
               /\ results'[s].lookups = Len(Splits[s].lookups)
    <3>1. CASE s \in DOMAIN results
      BY <1>4, <1>11, <3>1 DEF SumInv
    <3>2. CASE s = Len(results) + 1
      <4> HIDE DEF total
      <4> QED BY <1>5, <1>10, <1>11, <2>1, <3>2
    <3> QED BY <1>11, <3>1, <3>2
  <2> QED BY <1>1, <2>2 DEF SumInv
<1>15. CountInv'
  <2> SUFFICES ASSUME stage = "built" PROVE CountInv'
    BY <1>2 DEF CountInv
  <2>1. ResultCounts /\ CoreCounts
    BY <1>2, <1>4 DEF CountInv
  <2>2. ASSUME NEW s \in DOMAIN results', NEW f \in Field
        PROVE  IF ~ ok[GroupOf[f]] THEN results'[s].counter[f] = 0
               ELSE GroupOf[f] \notin results'[s].misread =>
                      results'[s].counter[f] = MeantFor(s, f)' % Mod
    <3>1. CASE s \in DOMAIN results
      <4>1. results'[s] = results[s] /\ ok' = ok
        BY <1>2, <1>11, <3>1
      <4>2. MeantFor(s, f)' = MeantFor(s, f)
        BY <4>1 DEF MeantFor
      <4> QED BY <2>1, <3>1, <4>1, <4>2 DEF ResultCounts
    <3>2. CASE s = Len(results) + 1
      <4>1. results'[s].counter[f] = kept(F)[f] /\ results'[s].misread = misread \cup F
            /\ results'[s].off = off
        BY <1>10, <1>11, <3>2
      <4>2. MeantFor(s, f)' = Meant(f, Len(Lookups))
        BY <1>5, <3>2, <4>1 DEF MeantFor, Meant
      <4>3. CASE GroupOf[f] = "core"
        BY <2>1, <4>1, <4>2, <4>3 DEF CoreCounts
      <4>4. CASE GroupOf[f] # "core"
        <5>1. GroupOf[f] \in GroupsOf(set)
          BY <1>3, <4>4, FieldsAre DEF Group
        <5>2. IF ~ ok[GroupOf[f]] THEN Counted(F)[f] = 0
              ELSE GroupOf[f] \notin misread \cup F =>
                     Counted(F)[f] = Meant(f, Len(Lookups)) % Mod
          BY <1>2, <1>5, <5>1, CountedIs
        <5> QED BY <4>1, <4>2, <4>4, <5>2
      <4> QED BY <4>3, <4>4
    <3> QED BY <1>11, <3>1, <3>2, SMTT(20)
  <2>3. ResultCounts'
    BY <1>2, <2>2 DEF ResultCounts
  <2> QED BY <1>1, <2>3 DEF CountInv
<1> QED BY <1>12, <1>13, <1>14, <1>15

LEMMA BenchStep == BenchInv /\ [main]_<<vars, reportVars>> => BenchInv'
<1> SUFFICES ASSUME BenchInv, [main]_<<vars, reportVars>>
             PROVE  BatchInv' /\ FreshInv' /\ CountInv' /\ SumInv'
  BY HandStep DEF BenchInv
<1> DEFINE kept == UNCHANGED <<set, sum, start, counter, results, misread, off>>
<1>1. HandInv /\ BatchInv /\ FreshInv /\ n \in Nat
  BY DEF BenchInv, BatchInv
<1>2. KernelTyped'
  <2>1. CASE main
    BY <1>1, <2>1, KernelStep
  <2>2. CASE UNCHANGED <<vars, reportVars>>
    BY <1>1, <2>2 DEF vars, recorderVars, BatchInv, KernelTyped
  <2> QED BY <2>1, <2>2
<1>3. /\ stage = "opening" => pc = "disable"
      /\ pc \notin {"warmup", "lookup"} => n = 0
      /\ pc # "returned" => Len(results) < Len(Splits)
  BY <1>1 DEF HandInv, BatchTyped, FreshInv, BatchInv
<1>4. CASE CallSplit
  <2>1. /\ kept /\ pc = "returned" /\ pc' = "warmup" /\ Len(results) < Len(Splits)
        /\ UNCHANGED <<kernel, fds, ok, stage, n>>
    BY <1>4 DEF CallSplit, befallen, recorderVars
  <2> QED BY <1>1, <1>2, <2>1, QuietKeeps
<1>5. CASE Warmup
  <2>1. /\ kept /\ pc = "warmup" /\ pc' = pc /\ n' = n + 1
        /\ UNCHANGED <<fds, ok, stage>>
    BY <1>5 DEF Warmup, befallen
  <2> QED BY <1>1, <1>2, <1>3, <2>1, QuietKeeps
<1>6. CASE WarmupDone
  <2>1. /\ kept /\ pc = "warmup" /\ pc' = "disable" /\ n' = 0
        /\ UNCHANGED <<fds, ok, stage>>
    BY <1>6 DEF WarmupDone, befallen, recorderVars
  <2> QED BY <1>2, <1>3, <2>1, QuietKeeps
<1>7. CASE BuildRecorder
  <2>1. /\ kept /\ pc = "disable" /\ pc' = pc /\ n' = n /\ stage = "unbuilt" /\ stage' = "opening"
    BY <1>7 DEF BuildRecorder, Build, benchVars, befallen
  <2> QED BY <1>1, <1>2, <1>3, <2>1, QuietKeeps
<1>8. CASE OpenEvent
  <2>1. kept /\ pc' = pc /\ n' = n /\ stage = "opening"
    BY <1>8 DEF OpenEvent, Open, benchVars, befallen
  <2> QED BY <1>1, <1>2, <1>3, <2>1, QuietKeeps
<1>9. CASE Disable
  <2>1. kept /\ pc = "disable" /\ pc' = "enable" /\ n' = n /\ UNCHANGED <<fds, ok, stage>>
    BY <1>9 DEF Disable, befallen
  <2> QED BY <1>1, <1>2, <1>3, <2>1, QuietKeeps
<1>10. CASE Enable
  <2>1. kept /\ pc = "enable" /\ pc' = "start" /\ n' = n /\ UNCHANGED <<fds, ok, stage>>
    BY <1>10 DEF Enable, befallen
  <2> QED BY <1>1, <1>2, <1>3, <2>1, QuietKeeps
<1>11. CASE Start
  BY <1>2, <1>11, StartKeeps
<1>12. CASE Lookup
  BY <1>2, <1>12, LookupKeeps
<1>13. CASE Finish
  <2>1. set = "core" \/ set = "cache"
    BY <1>1 DEF HandInv, BatchTyped, CounterSet
  <2> QED BY <1>2, <1>13, <2>1, CoreEnds, CacheEnds
<1>14. CASE sink_results \/ PrintSection
  <2>1. kept /\ pc' = pc /\ n' = n /\ UNCHANGED <<kernel, fds, ok, stage>>
    BY <1>14 DEF sink_results, PrintSection, benchVars, befallen, recorderVars
  <2> QED BY <1>1, <1>2, <1>3, <2>1, QuietKeeps
<1>15. CASE ExitProcess
  <2>1. kept /\ pc' = pc /\ n' = n /\ stage = "built" /\ stage' = "exited"
    BY <1>15 DEF ExitProcess, Exit, benchVars, befallen
  <2> QED BY <1>1, <1>2, <1>3, <2>1, QuietKeeps
<1>16. CASE UNCHANGED <<vars, reportVars>>
  <2>1. kept /\ pc' = pc /\ n' = n /\ UNCHANGED <<kernel, fds, ok, stage>>
    BY <1>16 DEF vars, benchVars, befallen, recorderVars
  <2> QED BY <1>1, <1>2, <1>3, <2>1, QuietKeeps
<1> QED BY <1>4, <1>5, <1>6, <1>7, <1>8, <1>9, <1>10, <1>11, <1>12, <1>13, <1>14, <1>15,
           <1>16 DEF main, Measure, benchmark_split

LEMMA BenchInit == Init_main => BenchInv
<1> SUFFICES ASSUME Init_main PROVE BenchInv
  OBVIOUS
<1>1. /\ kernel = << >> /\ stage = "unbuilt" /\ ok = [g \in Group |-> FALSE]
      /\ pc = "returned" /\ set = "core" /\ n = 0 /\ sum = [core |-> 0, cache |-> 0]
      /\ start = Zeros /\ counter = Zeros /\ results = << >>
      /\ misread = {} /\ off = [g \in Group |-> 0]
  BY DEF Init_main, Init, RecorderInit
<1>2. Zeros \in [Field -> 0 .. Mod - 1]
  BY ModIs DEF Zeros
<1>3. sum \in [CounterSet -> Int] /\ off \in [Group -> Nat] /\ results \in Seq(Result)
  BY <1>1 DEF CounterSet
<1>4. KernelTyped
  BY <1>1 DEF KernelTyped, CountsTyped
<1>5. BatchInv
  BY <1>1, <1>2, <1>3, <1>4 DEF BatchInv
<1>6. FreshInv
  <2>1. GroupsOf("core") \subseteq Group /\ GroupsOf("cache") \subseteq Group
    BY DEF GroupsOf, Group
  <2> QED BY <1>1, <2>1 DEF FreshInv
<1>7. CountInv
  BY <1>1 DEF CountInv
<1>8. SumInv
  BY <1>1 DEF SumInv
<1> QED BY <1>5, <1>6, <1>7, <1>8, HandInit DEF BenchInv

LEMMA BenchShows == BenchInv => CountsAreTheBatch
<1> SUFFICES ASSUME BenchInv PROVE CountsAreTheBatch
  OBVIOUS
<1>1. BatchCounted
  BY DEF BenchInv, CountInv, ResultCounts, BatchCounted, Mod
<1>2. SumIsTheLookups
  BY DEF BenchInv, SumInv, SumIsTheLookups, SumOf
<1> QED BY <1>1, <1>2 DEF CountsAreTheBatch

\* Each result holds what the timed look-ups of its own set did to its counters, cut
\* to their width, and twice the sum of the set, whatever is refused, misread or
\* taken off the CPU in between.
THEOREM ReportedIsTheBatch == Spec => []CountsAreTheBatch
<1>1. Spec => []BenchInv
  BY BenchInit, BenchStep, PTL DEF Spec
<1> QED BY <1>1, BenchShows, PTL
=============================================================================
