----------------------------- MODULE RwSpinlock -----------------------------
(***************************************************************************)
(* rw_spinlock of boost_unordered.hpp: a reader-writer lock in one atomic  *)
(* word, taken by threads that load the word and then try to replace what  *)
(* they saw.                                                               *)
(*                                                                         *)
(* The word is shown as its three parts: bit 31 (exclusive), bit 30        *)
(* (pending) and the count in the other bits (readers), whose largest      *)
(* value MaxCount is reader_lock_count_mask.  Every access is one atomic   *)
(* step.  A thread that called an operation is at the load or at the       *)
(* compare-exchange of it; seen[t] is its local variable st.               *)
(***************************************************************************)
EXTENDS Naturals, FiniteSets

CONSTANTS Thread, MaxCount, NoThread

ASSUME ThreadAssumption   == IsFiniteSet(Thread) /\ NoThread \notin Thread
ASSUME MaxCountAssumption == MaxCount \in Nat \ {0}

VARIABLES state_, pc, seen

vars == <<state_, pc, seen>>

Word == [exclusive : BOOLEAN, pending : BOOLEAN, readers : 0..MaxCount]

Free   == [exclusive |-> FALSE, pending |-> FALSE, readers |-> 0]
Locked == [Free EXCEPT !.exclusive = TRUE]

\* Mutant: a reader does not look at the pending bit.
RoomBesideWriter(w) == ~w.exclusive /\ w.readers < MaxCount

(* The order of the words below reader_lock_count_mask.                    *)
RoomForReader(w) == ~w.exclusive /\ ~w.pending /\ w.readers < MaxCount

(* w + 1, where the caller has checked that there is room.                 *)
OneMore(w) == [w EXCEPT !.readers = @ + 1]

(* fetch_sub(1): at a count of zero it borrows from the bits above.        *)
OneLess(w) ==
  IF w.readers > 0 THEN [w EXCEPT !.readers = @ - 1]
  ELSE [exclusive |-> w.exclusive = w.pending,
        pending   |-> ~w.pending,
        readers   |-> MaxCount]

-----------------------------------------------------------------------------

AtLoad == {"lock_shared", "try_lock_shared", "lock", "try_lock"}
AtCas  == {"lock_shared cas", "try_lock_shared cas", "lock cas",
           "lock pending", "try_lock cas"}

Init ==
  /\ state_ = Free
  /\ pc = [t \in Thread |-> "idle"]
  /\ seen = [t \in Thread |-> Free]

Goto(t, from, to) == pc[t] = from /\ pc' = [pc EXCEPT ![t] = to]

(* A thread calls one of the four operations that acquire the lock.        *)
Call(t) ==
  /\ \E op \in AtLoad : Goto(t, "idle", op)
  /\ UNCHANGED <<state_, seen>>

(* st = state_.load(), and where the code goes when cond holds of st.      *)
Load(t, from, cond, to) ==
  /\ cond
  /\ Goto(t, from, to)
  /\ seen' = [seen EXCEPT ![t] = IF to \in AtCas THEN state_ ELSE Free]
  /\ UNCHANGED state_

\* Mutant: the word is stored, not compared.
ExchangeBlindly(t, from, new, to) ==
  /\ Goto(t, from, to)
  /\ state_' = new
  /\ seen' = [seen EXCEPT ![t] = Free]

(* state_.compare_exchange(st, new) finds st and writes new.               *)
Exchange(t, from, new, to) ==
  /\ state_ = seen[t]
  /\ Goto(t, from, to)
  /\ state_' = new
  /\ seen' = [seen EXCEPT ![t] = Free]

(* It finds another word, or, when weak, fails without a reason.           *)
Miss(t, from, weak, to) ==
  /\ weak \/ state_ # seen[t]
  /\ Goto(t, from, to)
  /\ seen' = [seen EXCEPT ![t] = Free]
  /\ UNCHANGED state_

try_lock_shared(t) ==
  \/ Load(t, "try_lock_shared", ~RoomForReader(state_), "idle")
  \/ Load(t, "try_lock_shared", RoomForReader(state_), "try_lock_shared cas")
  \/ Exchange(t, "try_lock_shared cas", OneMore(seen[t]), "shared")
  \/ Miss(t, "try_lock_shared cas", FALSE, "idle")

(* A turn of the loop in which st is too large changes nothing.            *)
lock_shared(t) ==
  \/ Load(t, "lock_shared", RoomForReader(state_), "lock_shared cas")
  \/ Exchange(t, "lock_shared cas", OneMore(seen[t]), "shared")
  \/ Miss(t, "lock_shared cas", TRUE, "lock_shared")

unlock_shared(t) ==
  /\ Goto(t, "shared", "idle")
  /\ state_' = OneLess(state_)
  /\ UNCHANGED seen

\* Mutant: try_lock looks at bit 31 only.
try_lock_among_readers(t) ==
  \/ Load(t, "try_lock", state_.exclusive, "idle")
  \/ Load(t, "try_lock", ~state_.exclusive, "try_lock cas")
  \/ Exchange(t, "try_lock cas", Locked, "exclusive")
  \/ Miss(t, "try_lock cas", FALSE, "idle")

try_lock(t) ==
  LET held == state_.exclusive \/ state_.readers > 0
  IN  \/ Load(t, "try_lock", held, "idle")
      \/ Load(t, "try_lock", ~held, "try_lock cas")
      \/ Exchange(t, "try_lock cas", Locked, "exclusive")
      \/ Miss(t, "try_lock cas", FALSE, "idle")

\* Mutant: the exchange expects zero, although the pending bit may be set.
lock_expecting_free(t) ==
  LET shared == ~state_.exclusive /\ state_.readers > 0
  IN  \/ Load(t, "lock", ~state_.exclusive /\ ~shared, "lock cas")
      \/ Load(t, "lock", shared /\ ~state_.pending, "lock pending")
      \/ state_ = Free /\ Exchange(t, "lock cas", Locked, "exclusive")
      \/ Exchange(t, "lock pending", [seen[t] EXCEPT !.pending = TRUE], "lock")
      \/ Miss(t, "lock cas", TRUE, "lock")
      \/ Miss(t, "lock pending", TRUE, "lock")

(* A turn that sees the word locked exclusively, or a writer pending       *)
(* behind readers, changes nothing.                                        *)
lock(t) ==
  LET shared == ~state_.exclusive /\ state_.readers > 0
  IN  \/ Load(t, "lock", ~state_.exclusive /\ ~shared, "lock cas")
      \/ Load(t, "lock", shared /\ ~state_.pending, "lock pending")
      \/ Exchange(t, "lock cas", Locked, "exclusive")
      \/ Exchange(t, "lock pending", [seen[t] EXCEPT !.pending = TRUE], "lock")
      \/ Miss(t, "lock cas", TRUE, "lock")
      \/ Miss(t, "lock pending", TRUE, "lock")

unlock(t) ==
  /\ Goto(t, "exclusive", "idle")
  /\ state_' = Free
  /\ UNCHANGED seen

Step(t) ==
  \/ try_lock_shared(t) \/ lock_shared(t) \/ unlock_shared(t)
  \/ try_lock(t) \/ lock(t) \/ unlock(t)

Next == \E t \in Thread : Call(t) \/ Step(t)

Spec == Init /\ [][Next]_vars

(***************************************************************************)
(* Threads keep running, holders let go, and no thread is overtaken, or    *)
(* fails weakly, at the same compare-exchange for ever: an exchange that   *)
(* is possible again and again is made.                                    *)
(***************************************************************************)
Won(t) == pc[t] \in AtCas /\ state_' # state_
Fairness == \A t \in Thread : WF_vars(Step(t)) /\ SF_vars(Step(t) /\ Won(t))

FairSpec == Spec /\ Fairness
-----------------------------------------------------------------------------

Readers == {t \in Thread : pc[t] = "shared"}
Writers == {t \in Thread : pc[t] = "exclusive"}
InLock  == {t \in Thread : pc[t] \in {"lock", "lock cas", "lock pending"}}

TypeOK ==
  /\ state_ \in Word
  /\ pc \in [Thread -> {"idle", "shared", "exclusive"} \cup AtLoad \cup AtCas]
  /\ seen \in [Thread -> Word]

(***************************************************************************)
(* The word counts its holders: whatever threads saw and replaced, the     *)
(* count is the number of threads that hold the lock shared, and bit 31    *)
(* is set exactly while one holds it exclusively, alone.  So the count     *)
(* never reaches into bit 30 and unlock_shared never borrows.              *)
(***************************************************************************)
WordCountsHolders ==
  /\ state_.readers = Cardinality(Readers)
  /\ state_.exclusive <=> Writers # {}
  /\ Writers # {} => Readers = {}
  /\ \A s, t \in Writers : s = t

(***************************************************************************)
(* The pending bit, which stops readers, is only set while a thread is     *)
(* in lock(): were it left behind by a writer that got in or by one whose  *)
(* place another writer took, readers would be shut out for ever.          *)
(***************************************************************************)
PendingHasWriter == state_.pending => InLock # {} /\ ~state_.exclusive

(* All that the word says of the threads is true.                          *)
WordIsTrue == TypeOK /\ WordCountsHolders /\ PendingHasWriter

(***************************************************************************)
(* Once a writer has announced itself, no thread becomes a reader, not     *)
(* even one that had seen the word before the bit was set; and the bit     *)
(* goes away only by a writer getting in, never by what the readers that   *)
(* are still inside write when they leave.  The comment in unlock_shared   *)
(* (4617-4618) has the writer clear the bit "on unlock"; in the code the   *)
(* bit is gone already when a writer gets in, for lock() and try_lock()    *)
(* write locked_exclusive_mask, without it, over the word they saw.        *)
(***************************************************************************)
PendingHonoured ==
  [][state_.pending =>
       /\ \A t \in Thread : pc'[t] = "shared" => pc[t] = "shared"
       /\ ~state_'.pending => state_' = Locked]_vars

(* Seen by its callers, the word is a reader-writer lock.                  *)
Lock == INSTANCE RwLock WITH
  readers <- Readers,
  writer  <- IF Writers = {} THEN NoThread ELSE CHOOSE t \in Thread : t \in Writers
IsRwLock == Lock!Spec

(* While a thread is in lock() some thread gets the lock exclusively:      *)
(* readers that keep coming cannot starve all writers.                     *)
WritersGetIn == InLock # {} ~> Writers # {}

(* While threads wait at all, some thread gets in.                         *)
NoDeadlock ==
  (\E t \in Thread : pc[t] \in {"lock_shared", "lock"})
     ~> (Readers # {} \/ Writers # {})

(* Neither a stream of readers nor the threads' own retries keep all out.  *)
WaitersGetIn == WritersGetIn /\ NoDeadlock
=============================================================================
