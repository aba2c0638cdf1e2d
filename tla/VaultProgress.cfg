\* Two turns that take row locks in opposite orders, and a deletion.
SPECIFICATION FairSpec
CONSTANTS
  a = a
  b = b
  x = x
  y = y
  g = g
  ann = ann
  bob = bob
  acme = acme
  Chat = {a, b}
  Reload = {}
  Delete = {x}
  Conversation = {c1}
  EntityType = {"PERSON", "ORG"}
  Value = {ann, acme}
  TypeOf <- MixedType
  Prompt <- MixedPrompts
  MaxIndex = 2
  RedisMayFail = FALSE
  NoEntry = NoEntry
PROPERTY EveryRequestEnds
CHECK_DEADLOCK FALSE
