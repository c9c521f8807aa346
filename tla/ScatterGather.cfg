SPECIFICATION FairSpec
CONSTANTS
  N = 3
  MultiAPIs <- MCMultiAPIs
INVARIANTS
  TypeOK
  StrictComplete
  PartialAccounted
  AnswersComplete
  NoSilentEmpty
PROPERTIES
  ImplementsContract
  CallTerminates
  WorkersTerminate
