CONSTANTS
  Windows = {"5m", "10m", "30m", "1h", "2h", "6h", "24h", "1d", "3d", "28d"}
  BaseWindows = {"", "5m", "10m", "1h", "24h", "1d", "3d", "28d"}
  TimeWindows = {"", "28d", "3d", "10m", "1d"}
  Labelings <- MCLabelings
  Hidden = {"__meta__"}
  Tools = {"", "opsgenie", "sms"}
  Envs <- MCEnvs
  Floats <- MCFloats
  Durations <- MCDurations
SPECIFICATION Spec
CHECK_DEADLOCK FALSE
INVARIANT GoodFromBad
