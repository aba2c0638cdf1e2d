\* Two overlapping first turns of one conversation, Redis up.
SPECIFICATION Spec
CONSTANTS
  a = a
  b = b
  x = x
  y = y
  g = g
  ann = ann
  bob = bob
  acme = acme
  Chat = {a, b}
  Reload = {}
  Delete = {}
  Conversation = {c1}
  EntityType = {"PERSON"}
  Value = {ann, bob}
  TypeOf <- PeopleType
  Prompt <- PeoplePrompts
  MaxIndex = 3
  RedisMayFail = FALSE
  NoEntry = NoEntry
INVARIANT NoForeignValue
CHECK_DEADLOCK FALSE
