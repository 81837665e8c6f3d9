\* A deletion that crosses a resumption.
CONSTANTS
  Chats = {c1}
  NoChat = NoChat
  Stored = {c1}
  Turns = {t1, t2}
  Deleters = {d1}
  MaxStarts = 3
SPECIFICATION Spec
INVARIANTS TurnKeepsTranscript
CHECK_DEADLOCK FALSE
