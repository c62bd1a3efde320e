CONSTANTS
  ClassNames = {"java/lang/String"}
  MaxDimensions = 2
  MaxParameters = 2
SPECIFICATION Spec
INVARIANTS
  SignatureReadsBack
  ShortyFollowsSignature
CHECK_DEADLOCK FALSE
