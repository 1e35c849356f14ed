------------------------------ MODULE MCBench -------------------------------
(* Two table sizes, two patterns, two tables and two batch sizes.  Every     *)
(* event has its own rate in every measurement, so that a counter that ends  *)
(* up elsewhere shows.                                                       *)
EXTENDS Report

MCShifts == <<1, 2>>
MCBatches == <<1, 2>>
MCTable == <<"boost", "twoway">>
MCDrawn == << <<1, 0, 0, 1, 1, 0>>, <<2, 0, 3, 3, 1, 2>> >>
MCRate == [j \in DOMAIN Splits |->
             [e \in Event |->
                CASE e = "cpu-cycles"          -> 8 + j
                  [] e = "branch-instructions" -> 3 + j
                  [] e = "branch-misses"       -> 1
                  [] e = "instructions"        -> 5 + j
                  [] e = "l1d-read-access"     -> 4 + j
                  [] e = "l1d-read-miss"       -> 2
                  [] e = "llc-read-access"     -> j
                  [] e = "llc-read-miss"       -> 4]]
=============================================================================
