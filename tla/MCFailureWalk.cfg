SPECIFICATION WalkSpec
CONSTANTS
  Links <- MCLinks
  Codes <- MCCodes
  Labels <- MCLabels
  MaxLinks = 3
INVARIANTS
  KindIsOutermost
  ContextOutranks
  RetryableKept
  TypedKindMatches
  DetailsAreOutermost
CHECK_DEADLOCK FALSE
