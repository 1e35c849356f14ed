------------------------------ MODULE MCTwoWay ------------------------------
(* Slots of two places, and hash halves chosen so that slots fill and grows  *)
(* nest.  At capacity 2 and 4 keys 3 to 5 have one slot, 1 and 2 both of its *)
(* neighbours': entries that fitted arrive in another order when a grow puts *)
(* them back, and it grows again.  At capacity 8, the limit, key 4 has left  *)
(* the others, which crowd slot 1.                                           *)
EXTENDS TwoWayReads

FiveKeys == 1 .. 5
MCEmpty == 9
MCH1 == <<1, 1, 1, 5, 1>>
MCH2 == <<0, 4, 1, 5, 1>>
=============================================================================
