\* Two first turns create two keys; a reader decrypts with one of them.
SPECIFICATION Spec
CONSTANTS
  a = a
  b = b
  c = c
  q = q
  g = g
  h = h
  Persist = {a, b}
  Resolve = {q}
  Gateway = {g, h}
  FirstKey = FirstKey
  NoKey = NoKey
INVARIANT Resolvable
SYMMETRY Symmetric
CHECK_DEADLOCK FALSE
