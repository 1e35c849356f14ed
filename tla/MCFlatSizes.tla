---------------------------- MODULE MCFlatSizes ----------------------------
(* Groups of three, as 15 is 2^4 - 1: capacities are 2^k * 3 - 1, and above   *)
(* 32 a float of five digits no longer holds them.                            *)
EXTENDS FlatSizes

MCMaxLoad == <<7, 8>>
=============================================================================
