---------------------------- MODULE MCDynamicFph ----------------------------
(* Hash words of three bits: with four slots a word's high two bits name its  *)
(* slot, with eight all of it.  Seed 1 is bad: keys 1, 2 and 3 share a bucket, *)
(* 1 and 3 collide under bit 0, 1 and 2 under bit 1.  Seed 2 is good.          *)
EXTENDS DynamicFph

MCBucketHash == [s \in SeedOf |-> [k \in AnyKey |->
    IF s = 1 THEN IF k <= 3 THEN 0 ELSE 4 ELSE (3 * k) % 8]]
MCSlotHash == [s \in SeedOf |-> [b \in Bit |-> [k \in AnyKey |->
    IF s = 1 THEN IF b = 0 THEN <<0, 2, 1, 4, 6, 3>>[k] ELSE <<0, 1, 2, 6, 3, 2>>[k]
    ELSE IF b = 0 THEN (2 * k + 1) % 8 ELSE (5 * k) % 8]]]

Zero == [offset |-> 0, bit |-> 0]
Base == [low_bits |-> FALSE, generated |-> {2, 4}, seeds |-> {1}, max_ceil |-> 4,
         default_load |-> <<3, 5>>, loads |-> {}, garbage |-> {Zero},
         objects |-> {CHOOSE i \in Object : TRUE}, keys |-> {1, 3, 6},
         counts |-> {}, ranges |-> {}, loops |-> FALSE]
Item(k) == [key |-> k, value |-> CHOOSE v \in Value : TRUE]

\* Relocations and redrawn default keys in four slots.
MCMoves == [Base EXCEPT !.generated = {2, 4, 5}, !.seeds = {1, 2},
                        !.garbage = {Zero, [offset |-> 6, bit |-> 1]}]
\* Four slots become eight and four again.
MCGrows == [Base EXCEPT !.max_ceil = 8, !.default_load = <<1, 2>>, !.counts = {0},
                        !.keys = {1, 3}]
\* A load factor so low that the second element makes the table grow.
MCLoads == [Base EXCEPT !.max_ceil = 8, !.loads = {<<1, 4>>}, !.counts = {0}, !.keys = {1, 6},
                        !.seeds = {2}]
\* Loops, over slots that low bits name.
MCLoops == [Base EXCEPT !.low_bits = TRUE, !.generated = {2, 5}, !.seeds = {1, 2},
                        !.ranges = {<<Item(3), Item(1)>>}, !.loops = TRUE]
\* Two maps.
MCPairs == [Base EXCEPT !.seeds = {2}, !.objects = Object, !.keys = {1, 6}, !.loops = TRUE,
                        !.ranges = {<<Item(6)>>}]
\* Two maps of one key that keep, copy and give back larger arrays.
MCArrays == [Base EXCEPT !.max_ceil = 8, !.objects = Object, !.keys = {1}, !.counts = {5},
                         !.garbage = {[offset |-> 6, bit |-> 1]}, !.ranges = {<<Item(1)>>}]

MCPolicies == {MCMoves, MCGrows, MCLoads, MCLoops, MCPairs, MCArrays}
\* key_gen_ may return keys of the caller.
MCSmall == {[Base EXCEPT !.generated = {1, 2, 4}, !.keys = {1, 3, 4}, !.counts = {0, 5},
                         !.loads = {<<3, 5>>, <<9, 10>>}, !.garbage = MCMoves.garbage]}
=============================================================================
