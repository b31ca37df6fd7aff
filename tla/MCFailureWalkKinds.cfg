SPECIFICATION WalkSpec
CONSTANTS
  Links <- MCLinks
  Codes <- MCCodes
  Labels <- MCLabels
  MaxLinks = 2
INVARIANT KindMatches
CHECK_DEADLOCK FALSE
