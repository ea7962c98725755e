CONSTANTS
  prober = prober
  importer = importer
  Callers = {prober, importer}
  Prober = prober
  Families = {"bookorbit", "keyed"}
  MaxTokens = 5
  None = none
  FailureThreshold = 2
  BaseCooldown = 1
  MaxCooldown = 2
  JitterPercent = 50
  Saturation = 2
SPECIFICATION ClientSpec
INVARIANTS
  ProbeAccounted
PROPERTIES
  NoNeedlessMint
  CallsEnd
  OpenIsRetried
