\* Two chat turns, a reload and a deletion race on one conversation; Redis may fail.
SPECIFICATION Spec
CONSTANTS
  a = a
  b = b
  x = x
  y = y
  g = g
  ann = ann
  bob = bob
  acme = acme
  Chat = {a, b}
  Reload = {g}
  Delete = {x}
  Conversation = {c1}
  EntityType = {"PERSON"}
  Value = {ann, bob}
  TypeOf <- PeopleType
  Prompt <- PeopleBothPrompts
  MaxIndex = 3
  RedisMayFail = TRUE
  NoEntry = NoEntry
INVARIANTS
  TypeOK
  UniquePlaceholder
  CacheSound
  SentIsPersisted
  ForwardAudited
  SerialRoundTrip
PROPERTY ImplementsMap
CHECK_DEADLOCK FALSE
