CONSTANTS
  Absent = Absent
  a1 = a1
  a2 = a2
  s2 = s2
  d1 = d1
  d2 = d2
  Amcs = {a1, a2}
  ByOperator = {a2}
  Secrets = {a1, s2}
  SecretOf <- MCSecretOf
  Datasources = {d1, d2}
  DatasourceOf <- MCDatasourceOf
  Tenants = {t1, t2}
  Movable = {d2}
  MaxEdits = 2
  MaxDeletes = 1
  MaxFaults = 1
SPECIFICATION FairSpec
CHECK_DEADLOCK FALSE
INVARIANTS AmcTypeOK PushIsCovered ConfigAtHome AmcDeletionNoticed ConfigNoticed
PROPERTIES DeletionEnds ConfigArrives
