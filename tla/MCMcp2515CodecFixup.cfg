SPECIFICATION Spec
CONSTANTS
  StdIds = {0, 1, 291, 1024, 2047}
  ExtIds = {0, 262143, 262144, 28036591, 536608768, 536870911}
  DataBytes = {0, 170}
  SidhVals = {0, 36, 255}
  SidlVals = {0, 8, 16, 24, 99, 104, 227, 255}
  EidVals = {0, 255}
  DlcRegVals = {0, 2, 8, 9, 15, 64, 72, 79, 240, 255}
  FixedUp = TRUE
  Brps = {1, 2, 32, 64}
  Cnf3Olds = {0, 199}
INVARIANT BitTimingProgrammed
