\* Two conversations and two turns; the first may be deleted; one load at a time.
SPECIFICATION Spec
CONSTANTS
  f1 = f1
  Turns = 2
  Conversations = 2
  Longest <- NoneThenTwo
  NoConversation = NoConversation
  Fetch = {f1}
  Deletable = {1}
  Pictures = {2}
  Nothing = Nothing
CONSTRAINT TokensOrDeletion
INVARIANTS
  TypeOK
  HistoryInOrder
  OwnMessages
  ShownIsStored
  BusyWhileSending
