CONSTANTS
  Window = 1
  Retained = 1
  MaxMessages = 2
  MaxSeq = 2
  MaxResets = 3
SPECIFICATION Spec
CHECK_DEADLOCK FALSE
INVARIANTS
  JournalInStep
  HistoryIsRead
  EmittedOnce
  TurnIsLive
  NoCallHangs
