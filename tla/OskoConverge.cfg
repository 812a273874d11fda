CONSTANTS
  Absent = Absent
  t1 = t1
  t2 = t2
  Tenants = {t1}
  Shapes <- Ordinary
  Starts = {{"slo", "sli", "ds", "pr", "mr"}}
  Editable = {"slo", "sli"}
  Deletable = {}
  MaxEdits = 2
  MaxDeletes = 0
  MaxFaults = 0
SPECIFICATION FairSpec
CHECK_DEADLOCK FALSE
PROPERTIES Converges FlowSpec
