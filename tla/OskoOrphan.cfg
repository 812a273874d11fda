CONSTANTS
  Absent = Absent
  t1 = t1
  t2 = t2
  Tenants = {t1}
  Shapes <- Ordinary
  Starts = {{"slo", "sli", "ds", "pr", "mr"}}
  Editable = {"slo"}
  Deletable = {"slo"}
  MaxEdits = 1
  MaxDeletes = 1
  MaxFaults = 0
SPECIFICATION Spec
CHECK_DEADLOCK FALSE
INVARIANT NoOrphanedGroups
