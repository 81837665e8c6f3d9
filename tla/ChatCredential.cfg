\* A credential revoked after the conversation was resumed.
CONSTANTS
  Chats = {c1}
  NoChat = NoChat
  Stored = {c1}
  Turns = {t1, t2}
  Deleters = {}
  MaxStarts = 3
SPECIFICATION Spec
INVARIANTS TurnHasCredential
CHECK_DEADLOCK FALSE
