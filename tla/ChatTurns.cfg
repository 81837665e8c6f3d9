\* Two requests for one stored conversation, and the reaper.
CONSTANTS
  Chats = {c1}
  NoChat = NoChat
  Stored = {c1}
  Turns = {t1, t2}
  Deleters = {}
  MaxStarts = 3
SPECIFICATION FairSpec
INVARIANTS OneTurn TurnKeepsSession EverySessionIsOwned
CHECK_DEADLOCK FALSE
PROPERTIES LeftoverIsClosed
