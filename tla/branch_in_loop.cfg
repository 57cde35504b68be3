SPECIFICATION Spec
CONSTANTS
  MAX_BLOCKS = 5
  SELF_EDGES = FALSE
  MAX_INSTS = 0
  OPCODES = {}
  IMMS = {}
  CALL_ARGS = {}
  REGS_COUNT = 2
  SLOTS_COUNT = 255
INVARIANTS
  LoopPlacedBeforeLeft
