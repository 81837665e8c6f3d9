\* A conversation that is created, continued and deleted.
CONSTANTS
  Chats = {c1}
  NoChat = NoChat
  Stored = {}
  Turns = {t1, t2}
  Deleters = {d1}
  MaxStarts = 3
SPECIFICATION Spec
SYMMETRY Symmetry
INVARIANTS OneTurnPerSession
CHECK_DEADLOCK FALSE
