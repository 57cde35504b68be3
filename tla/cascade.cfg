SPECIFICATION FairSpec
CONSTANTS
  SURVIVORS_N = 3
  SURVIVORS_SIZE = 3
  TENURED_SIZE = 5
  NREGS = 1
  INPUTS_COUNT = 0
  OUTPUTS_COUNT = 0
  ARR_SIZES = {1, 4}
  FUNCS = {}
  STR_SIZES = {0}
  OBJ_LAYOUTS <- NoLayouts
  MAX_FRAMES = 1
INVARIANTS
  MarkingComplete
  EndsOnlyWhenFull
PROPERTY
  RequestServed
