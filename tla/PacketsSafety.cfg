CONSTANTS
  Halves <- MCHalves
  Chars <- MCChars
  MaxData = 2

SPECIFICATION Spec

CHECK_DEADLOCK FALSE

INVARIANT SumIsOnesComplement
INVARIANT AcceptedIsSent
INVARIANT IntactIsAccepted
