--------------------------- MODULE MCArmRecorder ----------------------------
(* Four processors, newest first; the last two know branches only as         *)
(* instructions.                                                             *)
EXTENDS ArmRecorder

MCDatabase == {
    {"FIXED_CYCLES", "FIXED_INSTRUCTIONS", "INST_BRANCH", "BRANCH_MISPRED_NONSPEC",
     "BRANCH_MISPREDICT"},
    {"CPU_CLK_UNHALTED.THREAD", "INST_RETIRED.ANY", "BR_INST_RETIRED.ALL_BRANCHES",
     "BR_MISP_RETIRED.ALL_BRANCHES"},
    {"CPU_CLK_UNHALTED.CORE", "INST_RETIRED.ANY", "BR_INST_RETIRED.MISPRED"},
    {"CPU_CLK_UNHALTED.CORE", "INST_RETIRED.ANY"}}
MCRate == [e \in UNION {{profile_events[i][j] : j \in DOMAIN profile_events[i]} : i \in 1 .. 4} |->
             CASE e \in {"FIXED_CYCLES", "CPU_CLK_UNHALTED.THREAD"} -> 7
               [] e = "CPU_CLK_UNHALTED.CORE" -> 6
               [] e \in {"FIXED_INSTRUCTIONS", "INST_RETIRED.ANY"} -> 5
               [] e \in {"INST_BRANCH", "BR_INST_RETIRED.ALL_BRANCHES"} -> 3
               [] e = "BRANCH_MISPRED_NONSPEC" -> 1
               [] OTHER -> 2]
MCBatch == <<1, 2>>
=============================================================================
