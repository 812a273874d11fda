CONSTANTS
  Absent = Absent
  t1 = t1
  Tenants = {t1}
  LeavingShape <- Plain
  StayingShape <- Inline
  MaxDeletes = 1
  MaxCrashes = 1
SPECIFICATION FairSpec
CHECK_DEADLOCK FALSE
INVARIANTS  CleanLeave
PROPERTY Restored
