SPECIFICATION Spec
CONSTANTS
  MAX_BLOCKS = 6
  SELF_EDGES = TRUE
  MAX_INSTS = 0
  OPCODES = {}
  IMMS = {}
  CALL_ARGS = {}
  REGS_COUNT = 2
  SLOTS_COUNT = 255
INVARIANTS
  RpoIsTopological
  IDomsCorrect
  ReducibilityDetected
  LoopsAreNatural
  OrderRespectsEdges
  AbortsExplained
