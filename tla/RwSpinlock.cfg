SPECIFICATION FairSpec
CONSTANTS
  Thread = {t1, t2, t3}
  MaxCount = 2
  NoThread = none
INVARIANT WordIsTrue
PROPERTIES PendingHonoured IsRwLock WaitersGetIn
