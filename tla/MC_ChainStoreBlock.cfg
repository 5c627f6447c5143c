\* i64 at 8 bits: -128 .. 127; "-128" is i64::MIN and "0x7f" the largest
\* hexadecimal quantity.
CONSTANTS
  I64Bits = 8
SPECIFICATION Spec
INVARIANTS
  TimestampRoundTrip
