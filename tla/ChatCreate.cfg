\* A continuation that crosses the creation.
CONSTANTS
  Chats = {c1}
  NoChat = NoChat
  Stored = {}
  Turns = {t1, t2}
  Deleters = {}
  MaxStarts = 3
SPECIFICATION Spec
INVARIANTS CloseReleasesAll
CHECK_DEADLOCK FALSE
