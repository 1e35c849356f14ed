---------------------------- MODULE MCFlatTables ----------------------------
(* Hash words of ten bits: the high two choose the group, the low eight the   *)
(* metadata byte, of which the low three name the overflow bit.  Keys 1 and 2 *)
(* share all of that, 3 shares their byte but not their group, 4 their group  *)
(* but not their byte, 5 their group and overflow bit.  Byte 0 is reserved.   *)
EXTENDS FlatTables

Word(group, byte) == group * 256 + byte
MCHash == <<Word(0, 0), Word(0, 0), Word(3, 0), Word(0, 3), Word(1, 8)>>
MCHashOf == [h |-> MCHash, g |-> <<Word(3, 1), Word(2, 5), Word(0, 0), Word(0, 1), Word(1, 1)>>]
Policy(t, p, H, V) == [transfer |-> t, propagate |-> p, hashers |-> H, values |-> V,
                       ranges |-> {}, archives |-> FALSE]
MCCopied == {Policy("copyable", FALSE, {"h"}, Value)}
MCArchived == {[p EXCEPT !.archives = TRUE] : p \in MCCopied}
MCStranger == {Policy("copyable", FALSE, {"h", "g"}, Value)}
Pairs == {<<[key |-> 1, value |-> v], [key |-> 2, value |-> v]>> : v \in Value}
MCBoth == {[p EXCEPT !.ranges = Pairs] : p \in MCCopied} \cup {Policy("move_only", TRUE, {"h", "g"}, {v}) : v \in Value}
MCMaxLoad == <<7, 8>>
MCSymmetry == {p @@ q @@ r : p \in Permutations(Object), q \in Permutations(Allocator), r \in Permutations(Value)}
=============================================================================
