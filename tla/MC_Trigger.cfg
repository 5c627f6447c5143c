CONSTANT DataMax = 2

SPECIFICATION Spec

INVARIANTS
  CmpTotalOrder
  CmpAgreesWithEq
