CONSTANTS
  Absent = Absent
  a1 = a1
  a2 = a2
  s2 = s2
  d1 = d1
  d2 = d2
  Amcs = {a1, a2}
  ByOperator = {a2}
  Secrets = {a1, s2}
  SecretOf <- MCSecretOf
  Datasources = {d1, d2}
  DatasourceOf <- MCDatasourceOf
  Tenants = {t1, t2}
  Movable = {}
  MaxEdits = 4
  MaxDeletes = 1
  MaxFaults = 0
SPECIFICATION Spec
CHECK_DEADLOCK FALSE
INVARIANT NoOrphanedConfig
