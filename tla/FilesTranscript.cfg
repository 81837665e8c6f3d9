\* DeleteConversation removes the transcript: not on every connection of SQLite.
CONSTANTS
  Backends = {"sqlite"}
  Conversations = {c1, c2}
  Appends = {a1, a2}
  Deletes = {d1, d2}
  Crashes = {k1}
SPECIFICATION Spec
SYMMETRY Symmetry
INVARIANTS TranscriptGoes
