CONSTANTS
  Absent = Absent
  t1 = t1
  t2 = t2
  Tenants = {t1}
  Shapes <- Ordinary
  Starts = {{"slo", "sli", "ds", "pr", "mr"}}
  Editable = {}
  Deletable = {"slo", "pr", "mr", "sli", "ds"}
  MaxEdits = 0
  MaxDeletes = 1
  MaxFaults = 1
SPECIFICATION FairSpec
CHECK_DEADLOCK FALSE
INVARIANTS CleanRelease DeletionNoticed
PROPERTIES DeletionCompletes RulesComeBack
