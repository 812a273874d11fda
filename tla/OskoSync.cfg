CONSTANTS
  Absent = Absent
  t1 = t1
  t2 = t2
  Tenants = {t1}
  Shapes <- Various
  Starts = {{"slo", "sli", "ds", "pr", "mr"}}
  Editable = {"slo"}
  Deletable = {}
  MaxEdits = 1
  MaxDeletes = 0
  MaxFaults = 1
SPECIFICATION Spec
CHECK_DEADLOCK FALSE
INVARIANTS TypeOK EditNoticed PushesGoOn
PROPERTY FlowSpec
