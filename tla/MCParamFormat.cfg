CONSTANTS
  Limit = 500
  Cut = 200
  SsSize = 256
  StrSize = 1024
  NumberTexts = {8, 47}
  DoubleTexts = {15, 255, 256, 325}
  StringTexts = {9, 199, 200, 245, 600}
  HeaderTexts = {60, 524, 525, 530, 1023, 1024}
  MaxArgs = 5
SPECIFICATION Spec
INVARIANTS
  BuffersHold
  WordsMatch
CHECK_DEADLOCK FALSE
