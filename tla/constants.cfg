SPECIFICATION Spec
CONSTANTS
  NEAR = 2
  a = a
  b = b
  c = c
  d = d
  IDENTIFIERS = {"main", a, b, c, d}
  MEMBERS = {}
  NUMS = {1}
  STRS = {"s"}
  MAX_CODE = 1
  MAX_DECLS = 5
  MAX_LABELS = 0
  MAX_MEMBERS = 0
SYMMETRY Symmetry
PROPERTY
  ConstantsStay
