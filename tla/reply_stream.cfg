SPECIFICATION Spec
CONSTANTS
  Texts <- Mixed
  Of <- MixedOf
INVARIANTS NoOtherAnswer OwnAnswerAfterText
PROPERTY CallsReturn
CHECK_DEADLOCK FALSE
