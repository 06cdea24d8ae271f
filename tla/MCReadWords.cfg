CONSTANTS
  Letters <- MCLetters
  Nul = Nul
  MaxLen = 4
  kInitialRead = 2
  ShortReads = FALSE
  ReadErrors = TRUE
SPECIFICATION FairSpec
CHECK_DEADLOCK FALSE
INVARIANTS TypeOK AnnouncesStream
PROPERTIES Terminates
