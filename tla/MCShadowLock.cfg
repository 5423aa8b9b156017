SPECIFICATION LiveSpec
CONSTANTS
  Hosts = {a, b, c}
  Shadows = {b, c}
  First = a
  Envs <- MCHangEnvs
  MaxFaults <- MCHangFaults
  HBMax = 3
  CheckEvery = 2
CHECK_DEADLOCK FALSE
PROPERTY MasterReplaced
