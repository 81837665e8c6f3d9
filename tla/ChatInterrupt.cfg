\* A resumed conversation that is stopped at once.
CONSTANTS
  Chats = {c1}
  NoChat = NoChat
  Stored = {c1}
  Turns = {t1, t2}
  Deleters = {}
  MaxStarts = 3
SPECIFICATION Spec
INVARIANTS InterruptStops
CHECK_DEADLOCK FALSE
