\* Answers of up to two elements, with one odd value anywhere in one of them.
SPECIFICATION Spec
CONSTANTS
  MaxElements = 2
INVARIANTS
  SentValuesSurvive
  MissingIsForgiven
  TokensAndVolumesFit
  RelativesAgree
\* One answer is decoded, and then the model stops.
CHECK_DEADLOCK FALSE
