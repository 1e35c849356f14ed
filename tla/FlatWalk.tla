------------------------------ MODULE FlatWalk ------------------------------
(***************************************************************************)
(* A loop over a flat table that erases elements on its way, while other   *)
(* calls insert and erase between its steps, as long as none of them       *)
(* rehashes or erases the element the loop stands on.                      *)
(*                                                                         *)
(* erase(it) hands back a table_erase_return_type, which still stands on   *)
(* the erased slot; only its conversion to an iterator moves on (held).    *)
(***************************************************************************)
EXTENDS FlatTables

CONSTANT Loop    \* the table object walked over

VARIABLES
  at,       \* the iterator's slot, NoSlot for end()
  held,     \* at is in an erase_return_type
  walking,
  due,      \* keys there since the loop began, those it erased included
  visited   \* how often the loop saw each of them

walkVars == <<at, held, walking, due, visited>>

WalkInit ==
  /\ Init
  /\ at = NoSlot /\ held = FALSE /\ walking = FALSE
  /\ due = {} /\ visited = [k \in Key |-> 0]

KeyAt(p) == Of(Loop).elem[p].key

Begin ==
  /\ ~walking /\ Here(Loop)
  /\ walking' = TRUE /\ at' = begin(Of(Loop))
  /\ due' = {e.key : e \in ToSet(Elements(Of(Loop)))}
  /\ UNCHANGED <<vars, held, visited>>

Seen(K) == visited' = [k \in Key |-> visited[k] + IF k \in K \cap due THEN 1 ELSE 0]

Standing == walking /\ ~held /\ at # NoSlot

operator_increment(a, p) == increment(a, p)

(* ++it                                                                    *)
Advance ==
  /\ Standing
  /\ Seen({KeyAt(at)})
  /\ at' = operator_increment(Of(Loop), at)
  /\ UNCHANGED <<vars, held, walking, due>>

EraseHere ==
  /\ Standing
  /\ Seen({KeyAt(at)})
  /\ Call(Done(recover_slot(World, Loop, at)))
  /\ held' = TRUE
  /\ UNCHANGED <<at, walking, due>>

\* Mutant: the slot after the erased one is passed over.
skip_one(a, p) == IF increment(a, p) = NoSlot THEN NoSlot ELSE increment(a, increment(a, p))

(* The conversion, from a slot that somebody may have filled since.        *)
operator_iterator(a, p) == increment(a, p)

Convert ==
  /\ walking /\ held
  /\ at' = operator_iterator(Of(Loop), at) /\ held' = FALSE
  /\ UNCHANGED <<vars, walking, due, visited>>

(* while (first != last) erase(first++), from here to a later slot or end. *)
Between(a, first, last) ==
  LET from[p \in DOMAIN a.elem \cup {NoSlot}] ==
        IF p = last THEN {} ELSE {p} \cup from[increment(a, p)]
  IN  from[first]

EraseRange ==
  /\ Standing
  /\ \E last \in {p \in DOMAIN Of(Loop).elem : p > at /\ Of(Loop).elem[p] # NoElement} \cup {NoSlot} :
       LET gone == Between(Of(Loop), at, last)
       IN  /\ Seen({KeyAt(p) : p \in gone})
           /\ Call(Done(FoldLeft(LAMBDA w, p : recover_slot(w, Loop, p), World,
                                 SetToSortSeq(gone, <))))
           /\ at' = last
  /\ UNCHANGED <<held, walking, due>>

End ==
  /\ walking /\ ~held /\ at = NoSlot
  /\ walking' = FALSE /\ due' = {} /\ visited' = [k \in Key |-> 0]
  /\ UNCHANGED <<vars, at, held>>

(* What others may do between two steps of the loop.                       *)
Meanwhile ==
  /\ walking
  /\ \E k \in Key :
       /\ due' = due \ {k} /\ visited' = [visited EXCEPT ![k] = 0]
       /\ \/ tab[Loop].size < tab[Loop].ml /\ \E v \in policy.values : Emplace(Loop, k, v)
          \/ Find(World, Loop, k) # at /\ Erase(Loop, k)
  /\ UNCHANGED <<at, held, walking>>

Otherwise == ~walking /\ Next /\ UNCHANGED walkVars

WalkNext == Begin \/ Advance \/ EraseHere \/ Convert \/ EraseRange \/ End
            \/ Meanwhile \/ Otherwise

WalkSpec == WalkInit /\ [][WalkNext]_<<vars, walkVars>>

(***************************************************************************)
(* The loop sees every element that was there all the time exactly once,   *)
(* although it erases what it stands on, slots are filled behind, before   *)
(* and right under it, and an erase_return_type is converted late.         *)
(***************************************************************************)
VisitsOnce ==
  walking => \A k \in due :
    /\ visited[k] <= 1
    /\ (at = NoSlot /\ ~held) => visited[k] = 1

(* An iterator that is not end() stands on an element whenever it can be   *)
(* dereferenced.                                                           *)
StandsOnElement == Standing => Of(Loop).elem[at] # NoElement

(* The loop stands where it may look and misses nothing.                   *)
LoopSeesAll == VisitsOnce /\ StandsOnElement
=============================================================================
