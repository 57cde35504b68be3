SPECIFICATION Spec
CONSTANTS
  SURVIVORS_N = 1
  SURVIVORS_SIZE = 7
  TENURED_SIZE = 9
  NREGS = 1
  INPUTS_COUNT = 0
  OUTPUTS_COUNT = 1
  ARR_SIZES = {}
  FUNCS = {}
  STR_SIZES = {}
  OBJ_LAYOUTS <- MethodOrHuge
  MAX_FRAMES = 1
INVARIANTS
  CollectorNeverFails
  EndsOnlyWhenFull
PROPERTY
  CollectorInvisible
