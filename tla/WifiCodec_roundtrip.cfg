CONSTANTS
  SsidW = 2
  PwW = 2
  Chars = {1, 2}
  MaxLen = 3
SPECIFICATION Spec
INVARIANTS
  TypeOK
  SsidWithinField
