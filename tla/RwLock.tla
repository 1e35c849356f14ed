------------------------------- MODULE RwLock -------------------------------
(***************************************************************************)
(* What a reader-writer lock promises: at any moment either one writer or  *)
(* any number of readers holds it.                                         *)
(***************************************************************************)
CONSTANTS Thread, NoThread
VARIABLES readers, writer

Init == readers = {} /\ writer = NoThread

AcquireShared(t) ==
  /\ writer = NoThread
  /\ t \notin readers
  /\ readers' = readers \cup {t}
  /\ UNCHANGED writer

ReleaseShared(t) ==
  /\ t \in readers
  /\ readers' = readers \ {t}
  /\ UNCHANGED writer

Acquire(t) ==
  /\ writer = NoThread
  /\ readers = {}
  /\ writer' = t
  /\ UNCHANGED readers

Release(t) ==
  /\ writer = t
  /\ writer' = NoThread
  /\ UNCHANGED readers

Next == \E t \in Thread :
  AcquireShared(t) \/ ReleaseShared(t) \/ Acquire(t) \/ Release(t)

Spec == Init /\ [][Next]_<<readers, writer>>
=============================================================================
