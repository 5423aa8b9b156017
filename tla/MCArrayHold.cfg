SPECIFICATION Spec
CONSTANTS
  j1 = j1
  j2 = j2
  j3 = j3
  Jobs = {j1, j2, j3}
  Lo = 1
  Confs <- MCThree
  Targets <- MCTargets
  Ranges <- MCRanges
CHECK_DEADLOCK FALSE
PROPERTY HoldsAll
