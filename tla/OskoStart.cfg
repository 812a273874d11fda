CONSTANTS
  Absent = Absent
  t1 = t1
  t2 = t2
  Tenants = {t1}
  Shapes <- Ordinary
  Starts = {{"slo"}, {"sli"}, {"sli", "ds"}}
  Editable = {"slo", "ds"}
  Deletable = {}
  MaxEdits = 2
  MaxDeletes = 0
  MaxFaults = 0
SPECIFICATION Spec
CHECK_DEADLOCK FALSE
INVARIANTS ReadyIsEarned CreationNoticed
PROPERTIES NoLostEdit
