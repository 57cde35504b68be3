SPECIFICATION Spec
CONSTANTS
  SURVIVORS_N = 1
  SURVIVORS_SIZE = 7
  TENURED_SIZE = 10
  NREGS = 1
  INPUTS_COUNT = 1
  OUTPUTS_COUNT = 0
  ARR_SIZES = {}
  FUNCS = {"f"}
  STR_SIZES = {}
  OBJ_LAYOUTS <- NoLayouts
  MAX_FRAMES = 2
PROPERTY
  CollectorInvisible
