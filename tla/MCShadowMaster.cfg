SPECIFICATION LiveSpec
CONSTANTS
  Hosts = {a, b, c}
  Shadows = {b, c}
  First = a
  Envs <- MCEnvs
  MaxFaults <- MCMaxFaults
  HBMax = 3
  CheckEvery = 2
CHECK_DEADLOCK FALSE
INVARIANTS IInv OneTakesOver
PROPERTIES StopSticks TakenOver SplitHeals
