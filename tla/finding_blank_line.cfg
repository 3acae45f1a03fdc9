SPECIFICATION Spec
CONSTANTS
  Texts <- WithoutText
  Of <- WithoutTextOf
INVARIANT OwnAnswer
CHECK_DEADLOCK FALSE
