\* A deletion and a reload overlap, Redis up.
SPECIFICATION Spec
CONSTANTS
  a = a
  b = b
  x = x
  y = y
  g = g
  ann = ann
  bob = bob
  acme = acme
  Chat = {a}
  Reload = {g}
  Delete = {x}
  Conversation = {c1}
  EntityType = {"PERSON"}
  Value = {ann, bob}
  TypeOf <- PeopleType
  Prompt <- PeoplePrompts
  MaxIndex = 3
  RedisMayFail = FALSE
  NoEntry = NoEntry
INVARIANT ErasedFromCache
CHECK_DEADLOCK FALSE
