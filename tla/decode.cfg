SPECIFICATION Spec
CONSTANT NEAR = 2
INVARIANTS
  OperandsKept
  WellTypedDispatched
