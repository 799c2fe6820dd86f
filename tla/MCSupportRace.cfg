SPECIFICATION Spec
CONSTANTS
  a1 = a1
  m1 = m1
  o1 = o1
  r1 = r1
  u1 = u1
  w1 = w1
  w2 = w2
  Requests = {r1}
  Addresses = {a1}
  Members = {m1}
  Users = {u1, o1}
  Owners = {o1}
  Workers = {w1, w2}
  PublicCap = 1
  PerIpCap = 1
  MaxVersion = 2
  MaxSlugs = 1
SYMMETRY Symmetry
INVARIANTS TypeOK OneClosingEvent ErasedIsClosed
PROPERTIES TakenOnlyByEntitled ClosedIsFinal
