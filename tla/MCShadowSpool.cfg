SPECIFICATION Spec
CONSTANTS
  Hosts = {a, b}
  Shadows = {b}
  First = a
  Envs <- MCStopEnvs
  MaxFaults <- MCStopFaults
  HBMax = 3
  CheckEvery = 2
CHECK_DEADLOCK FALSE
INVARIANT SpoolKept
