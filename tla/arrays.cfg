SPECIFICATION Spec
CONSTANTS
  SURVIVORS_N = 2
  SURVIVORS_SIZE = 5
  TENURED_SIZE = 5
  NREGS = 1
  INPUTS_COUNT = 0
  OUTPUTS_COUNT = 0
  ARR_SIZES = {1}
  FUNCS = {}
  STR_SIZES = {}
  OBJ_LAYOUTS <- NoLayouts
  MAX_FRAMES = 1
INVARIANTS
  TypeOK
  NoDanglingPointer
  RegionsTiled
  RecordedReferencesValid
  CollectorNeverFails
PROPERTY
  CollectorInvisible
