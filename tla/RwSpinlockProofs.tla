-------------------------- MODULE RwSpinlockProofs --------------------------
(***************************************************************************)
(* That rw_spinlock is a reader-writer lock for any number of threads and  *)
(* any width of its reader count.  The invariant that carries the proof    *)
(* adds to WordIsTrue what a thread at a compare-exchange knows of the     *)
(* word it saw: the exchange finds that very word or fails, so what was    *)
(* tested of it holds of the word it replaces.                             *)
(***************************************************************************)
EXTENDS RwSpinlock, FiniteSetTheorems, TLAPS

InLockPc == {"lock", "lock cas", "lock pending"}

SeenFits ==
  \A t \in Thread :
    /\ pc[t] \in {"lock_shared cas", "try_lock_shared cas"} => RoomForReader(seen[t])
    /\ pc[t] \in {"lock cas", "try_lock cas"} => ~seen[t].exclusive /\ seen[t].readers = 0
    /\ pc[t] = "lock pending" => ~seen[t].exclusive /\ seen[t].readers > 0

IInv == WordIsTrue /\ SeenFits

\* What a step does to the holders and to the pending bit.
Stays            == /\ Readers' = Readers /\ Writers' = Writers
                    /\ state_.pending => state_'.pending
BecomesReader(t) == /\ t \notin Readers /\ Readers' = Readers \cup {t}
                    /\ Writers = {} /\ Writers' = {}
                    /\ ~state_.pending
BecomesWriter(t) == /\ Readers = {} /\ Readers' = {}
                    /\ Writers = {} /\ Writers' = {t}
                    /\ state_' = Locked
ReaderLeaves(t)  == /\ t \in Readers /\ Readers' = Readers \ {t}
                    /\ Writers = {} /\ Writers' = {}
                    /\ state_.pending => state_'.pending
WriterLeaves(t)  == /\ Readers = {} /\ Readers' = {}
                    /\ Writers = {t} /\ Writers' = {}
                    /\ ~state_.pending

Effect == \/ Stays
          \/ \E t \in Thread : BecomesReader(t) \/ BecomesWriter(t)
                             \/ ReaderLeaves(t) \/ WriterLeaves(t)

-----------------------------------------------------------------------------
(* The sets of holders.                                                    *)

LEMMA FiniteHolders == IsFiniteSet(Readers)
  BY ThreadAssumption, FS_Subset DEF Readers

LEMMA NobodyReads == (Cardinality(Readers) = 0) <=> (Readers = {})
  BY FiniteHolders, FS_EmptySet

\* A thread moves from one place that holds nothing to another, within lock()
\* if it was there, and the word stays or gains the pending bit: the holders are
\* who they were.
LEMMA Quiet ==
  ASSUME TypeOK, WordCountsHolders, NEW t \in Thread, NEW from, NEW to,
         Goto(t, from, to), from \notin {"shared", "exclusive"},
         to \notin {"shared", "exclusive"},
         state_'.readers = state_.readers, state_'.exclusive = state_.exclusive
  PROVE  WordCountsHolders' /\ Readers' = Readers /\ Writers' = Writers
<1>1. Readers' = Readers
  BY DEF Readers, Goto, TypeOK
<1>2. Writers' = Writers
  BY DEF Writers, Goto, TypeOK
<1> QED BY <1>1, <1>2 DEF WordCountsHolders

\* The pending bit survives a step that keeps the exclusive bit and does not
\* leave lock().
LEMMA StillPending ==
  ASSUME TypeOK, PendingHasWriter, NEW t \in Thread, NEW from, NEW to,
         Goto(t, from, to), from \in InLockPc => to \in InLockPc,
         state_'.pending => state_.pending \/ to \in InLockPc,
         state_'.pending => ~state_'.exclusive
  PROVE  PendingHasWriter'
<1> SUFFICES ASSUME state_'.pending PROVE InLock' # {}
  BY DEF PendingHasWriter
<1>1. CASE to \in InLockPc
  BY <1>1 DEF InLock, InLockPc, Goto, TypeOK
<1>2. CASE to \notin InLockPc
  <2>1. PICK u \in Thread : pc[u] \in InLockPc
    BY <1>2 DEF PendingHasWriter, InLock, InLockPc
  <2>2. u # t
    BY <1>2, <2>1 DEF Goto
  <2> QED BY <2>1, <2>2 DEF InLock, InLockPc, Goto, TypeOK
<1> QED BY <1>1, <1>2

-----------------------------------------------------------------------------
(* Types, and what is known of the words seen.                             *)

PcPlaces == {"idle", "shared", "exclusive"} \cup AtLoad \cup AtCas

\* What must hold of the word w that a thread remembers at the place to.
Fits(to, w) ==
  /\ to \in {"lock_shared cas", "try_lock_shared cas"} => RoomForReader(w)
  /\ to \in {"lock cas", "try_lock cas"} => ~w.exclusive /\ w.readers = 0
  /\ to = "lock pending" => ~w.exclusive /\ w.readers > 0

LEMMA Words == /\ Free \in Word /\ Locked \in Word
               /\ \A w \in Word : [w EXCEPT !.pending = TRUE] \in Word
               /\ \A w \in Word : w.readers < MaxCount => OneMore(w) \in Word
               /\ \A w \in Word : OneLess(w) \in Word
<1>1. Free \in Word /\ Locked \in Word
  <2>1. 0 \in 0..MaxCount
    BY MaxCountAssumption
  <2>2. Free \in Word
    BY <2>1 DEF Free, Word
  <2>3. ASSUME NEW w \in Word PROVE [w EXCEPT !.exclusive = TRUE] \in Word
    BY DEF Word
  <2> QED BY <2>2, <2>3 DEF Locked
<1>2. ASSUME NEW w \in Word PROVE [w EXCEPT !.pending = TRUE] \in Word
  BY DEF Word
<1>3. ASSUME NEW w \in Word, w.readers < MaxCount PROVE OneMore(w) \in Word
  BY <1>3, MaxCountAssumption DEF Word, OneMore
<1>4. ASSUME NEW w \in Word PROVE OneLess(w) \in Word
  <2>1. CASE w.readers > 0
    BY <2>1, MaxCountAssumption DEF Word, OneLess
  <2>2. CASE ~ (w.readers > 0)
    <3>1. /\ (w.exclusive = w.pending) \in BOOLEAN
          /\ (~w.pending) \in BOOLEAN
          /\ MaxCount \in 0..MaxCount
      BY MaxCountAssumption
    <3> HIDE MaxCountAssumption
    <3> QED BY <2>2, <3>1 DEF Word, OneLess
  <2> QED BY <2>1, <2>2
<1> QED BY <1>1, <1>2, <1>3, <1>4

LEMMA Keeps ==
  ASSUME TypeOK, SeenFits, NEW t \in Thread, NEW from, NEW to \in PcPlaces,
         Goto(t, from, to), NEW w \in Word, seen' = [seen EXCEPT ![t] = w],
         Fits(to, w), state_' \in Word
  PROVE  TypeOK' /\ SeenFits'
<1>1. TypeOK'
  BY DEF TypeOK, Goto, PcPlaces
<1>2. SeenFits'
  <2> SUFFICES ASSUME NEW u \in Thread PROVE Fits(pc'[u], seen'[u])
    BY DEF SeenFits, Fits
  <2>1. CASE u = t
    BY <2>1 DEF TypeOK, Goto
  <2>2. CASE u # t
    BY <2>2 DEF TypeOK, Goto, SeenFits, Fits
  <2> QED BY <2>1, <2>2
<1> QED BY <1>1, <1>2

\* A step that touches only pc.
LEMMA KeepsPc ==
  ASSUME TypeOK, SeenFits, NEW t \in Thread, NEW from, NEW to \in PcPlaces \ AtCas,
         Goto(t, from, to), UNCHANGED seen, state_' \in Word
  PROVE  TypeOK' /\ SeenFits'
<1>1. seen' = [seen EXCEPT ![t] = seen[t]] /\ seen[t] \in Word
  BY DEF TypeOK
<1>2. Fits(to, seen[t])
  BY DEF Fits, AtCas
<1> QED BY <1>1, <1>2, Keeps

-----------------------------------------------------------------------------
(* The steps.                                                              *)

LEMMA InitInv == Init => IInv
<1> SUFFICES ASSUME Init PROVE IInv
  OBVIOUS
<1>1. Readers = {} /\ Writers = {}
  BY DEF Init, Readers, Writers
<1>2. TypeOK /\ SeenFits
  BY Words DEF Init, TypeOK, SeenFits
<1>3. WordCountsHolders
  BY <1>1, FS_EmptySet DEF WordCountsHolders, Init, Free
<1>4. PendingHasWriter
  BY DEF PendingHasWriter, Init, Free
<1> QED BY <1>2, <1>3, <1>4 DEF IInv, WordIsTrue

\* A load sees the word that is there, a missed exchange forgets it; neither
\* changes it or a holder.
LEMMA LoadInv ==
  ASSUME IInv, NEW t \in Thread, NEW from, NEW to \in PcPlaces \ {"shared", "exclusive"},
         Goto(t, from, to), seen' = [seen EXCEPT ![t] = IF to \in AtCas THEN state_ ELSE Free],
         UNCHANGED state_, from \notin {"shared", "exclusive"}, from \in InLockPc => to \in InLockPc, Fits(to, state_)
  PROVE  IInv' /\ Effect
<1> USE DEF IInv, WordIsTrue
<1>1. TypeOK' /\ SeenFits'
  <2>1. CASE to \in AtCas
    BY <2>1, Keeps DEF TypeOK
  <2>2. CASE to \notin AtCas
    <3>1. Fits(to, Free)
      BY <2>2 DEF Fits, AtCas
    <3> QED BY <2>2, <3>1, Keeps, Words DEF TypeOK
  <2> QED BY <2>1, <2>2
<1>2. WordCountsHolders' /\ Effect
  BY Quiet DEF Effect, Stays
<1>3. PendingHasWriter'
  BY StillPending DEF PendingHasWriter
<1> QED BY <1>1, <1>2, <1>3

LEMMA MissInv ==
  ASSUME IInv, NEW t \in Thread, NEW from, NEW to \in PcPlaces \ ({"shared", "exclusive"} \cup AtCas),
         Goto(t, from, to), seen' = [seen EXCEPT ![t] = Free],
         UNCHANGED state_, from \notin {"shared", "exclusive"}, from \in InLockPc => to \in InLockPc
  PROVE  IInv' /\ Effect
<1> USE DEF IInv, WordIsTrue
<1>1. Fits(to, Free)
  BY DEF Fits, AtCas
<1>2. TypeOK' /\ SeenFits'
  BY <1>1, Keeps, Words DEF TypeOK
<1>3. WordCountsHolders' /\ Effect
  BY Quiet DEF Effect, Stays
<1>4. PendingHasWriter'
  BY StillPending DEF PendingHasWriter
<1> QED BY <1>2, <1>3, <1>4

\* The word a reader saw had room and is still there: one more reader, no writer.
LEMMA ShareInv ==
  ASSUME IInv, NEW t \in Thread, NEW from \in {"lock_shared cas", "try_lock_shared cas"},
         Exchange(t, from, OneMore(seen[t]), "shared")
  PROVE  IInv' /\ Effect
<1> USE DEF IInv, WordIsTrue
<1>1. RoomForReader(state_) /\ state_' = OneMore(state_)
  BY DEF Exchange, SeenFits, Goto
<1>2. /\ state_' \in Word
      /\ state_'.readers = state_.readers + 1
      /\ ~state_'.exclusive /\ ~state_'.pending
  BY <1>1, Words, MaxCountAssumption DEF OneMore, RoomForReader, TypeOK, Word
<1>3. TypeOK' /\ SeenFits'
  <2>1. Fits("shared", Free) /\ "shared" \in PcPlaces
    BY DEF Fits, PcPlaces
  <2> QED BY <1>2, <2>1, Keeps, Words DEF Exchange
<1>4. t \notin Readers /\ Readers' = Readers \cup {t} /\ Writers' = Writers
  BY DEF Exchange, Goto, Readers, Writers, TypeOK
<1>5. Cardinality(Readers') = Cardinality(Readers) + 1
  BY <1>4, FiniteHolders, FS_AddElement
<1>6. Writers = {}
  BY <1>1 DEF WordCountsHolders, RoomForReader
<1>7. WordCountsHolders'
  BY <1>2, <1>4, <1>5, <1>6 DEF WordCountsHolders
<1>8. PendingHasWriter'
  BY <1>2 DEF PendingHasWriter
<1>9. BecomesReader(t)
  BY <1>1, <1>4, <1>6 DEF BecomesReader, RoomForReader
<1> QED BY <1>3, <1>7, <1>8, <1>9 DEF Effect

\* The word a writer saw had no holder and is still there: the writer is alone.
LEMMA LockInv ==
  ASSUME IInv, NEW t \in Thread, NEW from \in {"lock cas", "try_lock cas"},
         Exchange(t, from, Locked, "exclusive")
  PROVE  IInv' /\ Effect
<1> USE DEF IInv, WordIsTrue
<1>1. ~state_.exclusive /\ state_.readers = 0 /\ state_' = Locked
  BY DEF Exchange, SeenFits, Goto
<1>2. /\ state_' \in Word
      /\ state_'.readers = 0 /\ state_'.exclusive /\ ~state_'.pending
  BY <1>1, Words DEF Locked, Free
<1>3. TypeOK' /\ SeenFits'
  <2>1. Fits("exclusive", Free) /\ "exclusive" \in PcPlaces
    BY DEF Fits, PcPlaces
  <2> QED BY <1>2, <2>1, Keeps, Words DEF Exchange
<1>4. Readers = {} /\ Writers = {}
  BY <1>1, NobodyReads DEF WordCountsHolders
<1>5. Readers' = {} /\ Writers' = {t}
  BY <1>4 DEF Exchange, Goto, Readers, Writers, TypeOK
<1>6. WordCountsHolders'
  BY <1>2, <1>5, FS_EmptySet DEF WordCountsHolders
<1>7. PendingHasWriter'
  BY <1>2 DEF PendingHasWriter
<1>8. BecomesWriter(t)
  BY <1>1, <1>4, <1>5 DEF BecomesWriter
<1> QED BY <1>3, <1>6, <1>7, <1>8 DEF Effect

\* A writer behind readers announces itself and stays in lock().
LEMMA AnnounceInv ==
  ASSUME IInv, NEW t \in Thread,
         Exchange(t, "lock pending", [seen[t] EXCEPT !.pending = TRUE], "lock")
  PROVE  IInv' /\ Effect
<1> USE DEF IInv, WordIsTrue
<1>1. ~state_.exclusive /\ state_' = [state_ EXCEPT !.pending = TRUE]
  BY DEF Exchange, SeenFits, Goto
<1>2. /\ state_' \in Word
      /\ state_'.readers = state_.readers
      /\ state_'.exclusive = state_.exclusive
      /\ state_'.pending
  BY <1>1, Words DEF TypeOK, Word
<1>3. TypeOK' /\ SeenFits'
  <2>1. Fits("lock", Free) /\ "lock" \in PcPlaces
    BY DEF Fits, PcPlaces, AtLoad
  <2> QED BY <1>2, <2>1, Keeps, Words DEF Exchange
<1>4. WordCountsHolders' /\ Effect
  BY <1>2, Quiet DEF Exchange, Effect, Stays
<1>5. PendingHasWriter'
  BY <1>1, <1>2, StillPending DEF Exchange, InLockPc
<1> QED BY <1>3, <1>4, <1>5

\* A reader leaves: the count is positive, so the subtraction does not borrow.
LEMMA UnlockSharedInv ==
  ASSUME IInv, NEW t \in Thread, unlock_shared(t)
  PROVE  IInv' /\ Effect
<1> USE DEF IInv, WordIsTrue
<1>1. t \in Readers /\ Readers' = Readers \ {t} /\ Writers' = Writers
  BY DEF unlock_shared, Goto, Readers, Writers, TypeOK
<1>2. Cardinality(Readers') = Cardinality(Readers) - 1 /\ Cardinality(Readers) > 0
  <2>1. Cardinality(Readers) \in Nat
    BY FiniteHolders, FS_CardinalityType
  <2>2. Cardinality(Readers) # 0
    BY <1>1, NobodyReads
  <2> QED BY <1>1, <2>1, <2>2, FiniteHolders, FS_RemoveElement
<1>3. state_.readers > 0
  BY <1>2 DEF WordCountsHolders
<1>4. state_' = [state_ EXCEPT !.readers = @ - 1]
  BY <1>3 DEF unlock_shared, OneLess
<1>5. /\ state_' \in Word
      /\ state_'.readers = state_.readers - 1
      /\ state_'.exclusive = state_.exclusive
      /\ state_'.pending = state_.pending
  BY <1>3, <1>4, MaxCountAssumption DEF TypeOK, Word
<1>6. TypeOK' /\ SeenFits'
  <2>1. "idle" \in PcPlaces \ AtCas
    BY DEF PcPlaces, AtCas
  <2> QED BY <1>5, <2>1, KeepsPc DEF unlock_shared
<1>7. WordCountsHolders'
  <2>1. Writers = {}
    BY <1>1 DEF WordCountsHolders
  <2> QED BY <1>1, <1>2, <1>5, <2>1 DEF WordCountsHolders
<1>8. PendingHasWriter'
  BY <1>5, StillPending DEF unlock_shared, InLockPc, PendingHasWriter
<1>9. ReaderLeaves(t)
  <2>1. Writers = {}
    BY <1>1 DEF WordCountsHolders
  <2> QED BY <1>1, <1>5, <2>1 DEF ReaderLeaves
<1> QED BY <1>6, <1>7, <1>8, <1>9 DEF Effect

\* The writer leaves a word of zeros; it was the only holder.
LEMMA UnlockInv ==
  ASSUME IInv, NEW t \in Thread, unlock(t)
  PROVE  IInv' /\ Effect
<1> USE DEF IInv, WordIsTrue
<1>1. Readers = {} /\ Writers = {t}
  BY DEF unlock, Goto, Writers, WordCountsHolders
<1>2. Readers' = {} /\ Writers' = {}
  BY <1>1 DEF unlock, Goto, Readers, Writers, TypeOK
<1>3. state_' \in Word /\ state_'.readers = 0 /\ ~state_'.exclusive /\ ~state_'.pending
  BY Words DEF unlock, Free
<1>4. TypeOK' /\ SeenFits'
  <2>1. "idle" \in PcPlaces \ AtCas
    BY DEF PcPlaces, AtCas
  <2> QED BY <1>3, <2>1, KeepsPc DEF unlock
<1>5. WordCountsHolders'
  BY <1>2, <1>3, FS_EmptySet DEF WordCountsHolders
<1>6. PendingHasWriter'
  BY <1>3 DEF PendingHasWriter
<1>7. WriterLeaves(t)
  BY <1>1, <1>2 DEF WriterLeaves, WordCountsHolders, PendingHasWriter
<1> QED BY <1>4, <1>5, <1>6, <1>7 DEF Effect

\* A call changes where a thread is and nothing else.
LEMMA CallInv ==
  ASSUME IInv, NEW t \in Thread, Call(t)
  PROVE  IInv' /\ Effect
<1> USE DEF IInv, WordIsTrue
<1>1. PICK op \in AtLoad : Goto(t, "idle", op)
  BY DEF Call
<1>2. op \in PcPlaces \ AtCas /\ op \notin {"shared", "exclusive"}
  BY <1>1 DEF AtLoad, AtCas, PcPlaces
<1>3. TypeOK' /\ SeenFits'
  BY <1>1, <1>2, KeepsPc DEF Call, TypeOK
<1>4. WordCountsHolders' /\ Effect
  BY <1>1, <1>2, Quiet DEF Call, Effect, Stays
<1>5. PendingHasWriter'
  BY <1>1, StillPending DEF Call, InLockPc, PendingHasWriter
<1> QED BY <1>3, <1>4, <1>5

-----------------------------------------------------------------------------
(* The operations: each disjunct is one of the steps above.                *)

LEMMA ReadersNat == TypeOK => state_.readers \in Nat
  BY MaxCountAssumption DEF TypeOK, Word

LEMMA SharedInv ==
  ASSUME IInv, NEW t \in Thread, lock_shared(t) \/ try_lock_shared(t)
  PROVE  IInv' /\ Effect
<1> USE DEF PcPlaces, AtLoad, AtCas, InLockPc, Fits
<1>1. CASE Load(t, "lock_shared", RoomForReader(state_), "lock_shared cas")
  BY <1>1, LoadInv DEF Load
<1>2. CASE Load(t, "try_lock_shared", ~RoomForReader(state_), "idle")
  BY <1>2, LoadInv DEF Load
<1>3. CASE Load(t, "try_lock_shared", RoomForReader(state_), "try_lock_shared cas")
  BY <1>3, LoadInv DEF Load
<1>4. CASE Exchange(t, "lock_shared cas", OneMore(seen[t]), "shared")
  BY <1>4, ShareInv
<1>5. CASE Exchange(t, "try_lock_shared cas", OneMore(seen[t]), "shared")
  BY <1>5, ShareInv
<1>6. CASE Miss(t, "lock_shared cas", TRUE, "lock_shared")
  BY <1>6, MissInv DEF Miss
<1>7. CASE Miss(t, "try_lock_shared cas", FALSE, "idle")
  BY <1>7, MissInv DEF Miss
<1> QED BY <1>1, <1>2, <1>3, <1>4, <1>5, <1>6, <1>7 DEF lock_shared, try_lock_shared

LEMMA ExclusiveInv ==
  ASSUME IInv, NEW t \in Thread, lock(t) \/ try_lock(t)
  PROVE  IInv' /\ Effect
<1> USE DEF PcPlaces, AtLoad, AtCas, InLockPc, Fits
<1>0. state_.readers \in Nat
  BY ReadersNat DEF IInv, WordIsTrue
<1>1. CASE Load(t, "lock", ~state_.exclusive /\ ~(~state_.exclusive /\ state_.readers > 0), "lock cas")
  <2>0. ~state_.exclusive /\ ~(state_.readers > 0)
    BY <1>1, Zenon DEF Load
  <2>1. ~state_.exclusive /\ state_.readers = 0
    BY <1>0, <2>0
  <2>2. Fits("lock cas", state_)
    BY <2>1 DEF Fits
  <2> HIDE DEF Fits
  <2> QED BY <1>1, <2>2, LoadInv DEF Load
<1>2. CASE Load(t, "lock", (~state_.exclusive /\ state_.readers > 0) /\ ~state_.pending, "lock pending")
  BY <1>2, LoadInv DEF Load
<1>3. CASE Exchange(t, "lock cas", Locked, "exclusive")
  BY <1>3, LockInv
<1>4. CASE Exchange(t, "lock pending", [seen[t] EXCEPT !.pending = TRUE], "lock")
  BY <1>4, AnnounceInv
<1>5. CASE Miss(t, "lock cas", TRUE, "lock")
  BY <1>5, MissInv DEF Miss
<1>6. CASE Miss(t, "lock pending", TRUE, "lock")
  BY <1>6, MissInv DEF Miss
<1>7. CASE Load(t, "try_lock", state_.exclusive \/ state_.readers > 0, "idle")
  BY <1>7, LoadInv DEF Load
<1>8. CASE Load(t, "try_lock", ~(state_.exclusive \/ state_.readers > 0), "try_lock cas")
  <2>0. ~state_.exclusive /\ ~(state_.readers > 0)
    BY <1>8, Zenon DEF Load
  <2>1. ~state_.exclusive /\ state_.readers = 0
    BY <1>0, <2>0
  <2>2. Fits("try_lock cas", state_)
    BY <2>1 DEF Fits
  <2> HIDE DEF Fits
  <2> QED BY <1>8, <2>2, LoadInv DEF Load
<1>9. CASE Exchange(t, "try_lock cas", Locked, "exclusive")
  BY <1>9, LockInv
<1>10. CASE Miss(t, "try_lock cas", FALSE, "idle")
  BY <1>10, MissInv DEF Miss
<1> QED BY <1>1, <1>2, <1>3, <1>4, <1>5, <1>6, <1>7, <1>8, <1>9, <1>10 DEF lock, try_lock

LEMMA StutterInv == ASSUME IInv, UNCHANGED vars PROVE IInv' /\ Effect
  BY DEF IInv, WordIsTrue, TypeOK, WordCountsHolders, PendingHasWriter, SeenFits, vars,
         Readers, Writers, InLock, Effect, Stays

LEMMA NextInv == ASSUME IInv, [Next]_vars PROVE IInv' /\ Effect
<1>1. CASE \E t \in Thread : Call(t)
  BY <1>1, CallInv
<1>2. CASE \E t \in Thread : Step(t)
  BY <1>2, SharedInv, ExclusiveInv, UnlockSharedInv, UnlockInv DEF Step
<1>3. CASE UNCHANGED vars
  BY <1>3, StutterInv
<1> QED BY <1>1, <1>2, <1>3 DEF Next

-----------------------------------------------------------------------------
(* The theorems.                                                           *)

(* However the loads and compare-exchanges of any number of threads        *)
(* interleave, the word counts its holders, a writer is alone, and the     *)
(* pending bit has a writer behind it.                                     *)
THEOREM HoldersCounted == Spec => []WordIsTrue
<1>1. IInv => WordIsTrue
  BY DEF IInv
<1>2. Spec => []IInv
  BY InitInv, NextInv, PTL DEF Spec
<1> QED BY <1>1, <1>2, PTL

(* Once a writer has announced itself no thread becomes a reader, and only *)
(* a writer that gets in takes the bit away.                               *)
THEOREM PendingKept == Spec => PendingHonoured
<1> DEFINE Honoured ==
      state_.pending =>
        /\ \A t \in Thread : pc'[t] = "shared" => pc[t] = "shared"
        /\ ~state_'.pending => state_' = Locked
<1>1. ASSUME IInv, [Next]_vars PROVE Honoured
  <2>1. CASE Stays
    BY <2>1 DEF Stays, Readers
  <2>2. CASE \E t \in Thread : BecomesReader(t) \/ WriterLeaves(t)
    BY <2>2 DEF BecomesReader, WriterLeaves
  <2>3. CASE \E t \in Thread : BecomesWriter(t)
    BY <2>3 DEF BecomesWriter, Readers
  <2>4. CASE \E t \in Thread : ReaderLeaves(t)
    BY <2>4 DEF ReaderLeaves, Readers
  <2> QED BY <1>1, <2>1, <2>2, <2>3, <2>4, NextInv DEF Effect
<1>2. Spec => []IInv
  BY InitInv, NextInv, PTL DEF Spec
<1>3. IInv /\ [Next]_vars => [Honoured]_vars
  BY <1>1
<1> QED BY <1>2, <1>3, PTL DEF Spec, PendingHonoured

(* Seen by its callers the word is a reader-writer lock: every step maps   *)
(* to one of RwLock or to none.                                            *)
THEOREM ImplementsRwLock == Spec => IsRwLock
<1> DEFINE Holder == IF Writers = {} THEN NoThread ELSE CHOOSE t \in Thread : t \in Writers
<1>1. Init => Lock!Init
  BY DEF Init, Lock!Init, Readers, Writers
<1>2. ASSUME IInv, [Next]_vars PROVE [Lock!Next]_<<Readers, Holder>>
  <2>1. ASSUME Writers = {} PROVE Holder = NoThread
    BY <2>1
  <2>2. ASSUME Writers' = {} PROVE Holder' = NoThread
    BY <2>2
  <2>3. ASSUME NEW t \in Thread, Writers = {t} PROVE Holder = t
    BY <2>3
  <2>4. ASSUME NEW t \in Thread, Writers' = {t} PROVE Holder' = t
    BY <2>4
  <2>5. CASE Stays
    BY <2>5 DEF Stays
  <2> HIDE DEF Holder
  <2>6. ASSUME NEW t \in Thread, BecomesReader(t) PROVE Lock!AcquireShared(t)
    BY <2>1, <2>2, <2>6 DEF BecomesReader, Lock!AcquireShared, Holder
  <2>7. ASSUME NEW t \in Thread, BecomesWriter(t) PROVE Lock!Acquire(t)
    BY <2>1, <2>4, <2>7 DEF BecomesWriter, Lock!Acquire, Holder
  <2>8. ASSUME NEW t \in Thread, ReaderLeaves(t) PROVE Lock!ReleaseShared(t)
    BY <2>1, <2>2, <2>8 DEF ReaderLeaves, Lock!ReleaseShared, Holder
  <2>9. ASSUME NEW t \in Thread, WriterLeaves(t) PROVE Lock!Release(t)
    BY <2>2, <2>3, <2>9 DEF WriterLeaves, Lock!Release, Holder
  <2> QED BY <1>2, <2>5, <2>6, <2>7, <2>8, <2>9, NextInv DEF Effect, Lock!Next
<1>3. Spec => []IInv
  BY InitInv, NextInv, PTL DEF Spec
<1> QED BY <1>1, <1>2, <1>3, PTL DEF Spec, IsRwLock, Lock!Spec
=============================================================================
