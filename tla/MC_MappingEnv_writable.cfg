CONSTANTS
  UsizeBits = 20
  KbInputs <- MCKbInputs

SPECIFICATION Spec

\* try_from runs once at start-up: its final state has no successor.
CHECK_DEADLOCK FALSE

INVARIANT
  AcceptedLocationWritable
