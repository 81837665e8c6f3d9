\* DeleteConversation removes only the files of its conversation: not under SQLite.
CONSTANTS
  Backends = {"sqlite"}
  Conversations = {c1, c2}
  Appends = {a1, a2}
  Deletes = {d1, d2}
  Crashes = {k1}
SPECIFICATION Spec
SYMMETRY Symmetry
PROPERTIES OnlyItsFiles
