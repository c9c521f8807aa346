SPECIFICATION FairSpec
CONSTANTS
  N = 2
  MultiAPIs <- MCPartialOnly
PROPERTIES
  AnsweredBeforeCancelKept
