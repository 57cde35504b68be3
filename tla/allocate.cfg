SPECIFICATION ShapesSpec
CONSTANTS
  MAX_BLOCKS = 7
  SELF_EDGES = FALSE
  MAX_INSTS = 5
  OPCODES = {"CONST", "ADD", "PHI", "RETURNVOID"}
  IMMS = {0}
  CALL_ARGS = {}
  REGS_COUNT = 2
  SLOTS_COUNT = 255
INVARIANTS
  IntervalsCover
  LivenessGivesUp
  RegistersApart
  SpillsUnderPressure
  PhisReceiveInputs
  PhisMoveNothingElse
  AllocationGivesUp
