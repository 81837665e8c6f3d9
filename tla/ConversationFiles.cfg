\* Two conversations, images appended and deleted beside a cleanup, one crash.
CONSTANTS
  Backends = {"sqlite", "postgres"}
  Conversations = {c1, c2}
  Appends = {a1, a2}
  Deletes = {d1, d2}
  Crashes = {k1}
SPECIFICATION Spec
SYMMETRY Symmetry
INVARIANTS TypeOK ImagesSurvive
PROPERTIES DeletesOwnFiles
