CONSTANTS
  Absent = Absent
  t1 = t1
  t2 = t2
  Tenants = {t1, t2}
  Shapes <- Ordinary
  Starts = {{"slo", "sli", "ds", "pr", "mr"}}
  Editable = {"ds"}
  Deletable = {}
  MaxEdits = 1
  MaxDeletes = 0
  MaxFaults = 0
SPECIFICATION FairSpec
CHECK_DEADLOCK FALSE
PROPERTY FollowsDatasource
