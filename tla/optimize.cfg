SPECIFICATION MCSpec
CONSTANTS
  MAX_BLOCKS = 11
  SELF_EDGES = FALSE
  MAX_INSTS = 5
  OPCODES = {"PARAMETER", "CONST", "SUB", "XOR", "ASHR", "SHL", "NEG", "NOT",
             "CHECKNULL", "CHECKBOUNDS", "GETELEM", "CALL", "PHI",
             "RETURN", "RETURNVOID"}
  IMMS = {0, 1, 2, 3}
  CALL_ARGS = {0, 1, 2}
  REGS_COUNT = 2
  SLOTS_COUNT = 255
  WIDTH = 2
  INSTS_LIMIT = 8
  MAX_PASSES = 2
INVARIANTS
  UsersMirrorInputs
  BlocksLinked
  UsesDominated
  NoCheckTwice
  OptimizationsGiveUp
  SameResult
