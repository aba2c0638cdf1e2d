\* Two writers and a reader on two gateway processes.
SPECIFICATION Spec
CONSTANTS
  a = a
  b = b
  c = c
  q = q
  g = g
  h = h
  Persist = {a, b}
  Resolve = {q}
  Gateway = {g, h}
  FirstKey = FirstKey
  NoKey = NoKey
INVARIANTS
  TypeOK
  NoOrphanEntry
  KeyIsStable
SYMMETRY Symmetric
CHECK_DEADLOCK FALSE
