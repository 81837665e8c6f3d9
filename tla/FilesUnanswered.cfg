\* AppendMessage stores a message and its images: not when PostgreSQL's answer is lost.
CONSTANTS
  Backends = {"postgres"}
  Conversations = {c1, c2}
  Appends = {a1, a2}
  Deletes = {d1, d2}
  Crashes = {k1}
SPECIFICATION Spec
SYMMETRY Symmetry
INVARIANTS StoredWithImages
