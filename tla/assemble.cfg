SPECIFICATION Spec
CONSTANTS
  NEAR = 4
  a = a
  IDENTIFIERS = {"main", a}
  MEMBERS = {"x", "y"}
  NUMS = {1}
  STRS = {"s"}
  MAX_CODE = 3
  MAX_DECLS = 2
  MAX_LABELS = 1
  MAX_MEMBERS = 2
INVARIANTS
  TypeOK
  LabelsReached
  LoadedAsWritten
  MembersFound
