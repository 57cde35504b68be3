SPECIFICATION Spec
CONSTANTS
  NEAR = 2
  a = a
  b = b
  IDENTIFIERS = {"main", a, b}
  MEMBERS = {}
  NUMS = {1}
  STRS = {}
  MAX_CODE = 1
  MAX_DECLS = 3
  MAX_LABELS = 0
  MAX_MEMBERS = 0
INVARIANT
  LoadedAsWritten
