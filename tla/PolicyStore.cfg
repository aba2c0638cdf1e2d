\* A chat turn and two administrators' pages, with two rules to add or remove.
SPECIFICATION FairSpec
CONSTANTS
  turn = turn
  dpo = dpo
  cto = cto
  Reader = {turn}
  Editor = {dpo, cto}
  Rule = {"badge", "project"}
  MaxVersion = 3
  RedisMayFail = TRUE
  NoPolicy = NoPolicy
INVARIANTS
  TypeOK
  OnlyCommitted
  FreshUnlessOverlapped
  NoEditUndone
PROPERTY SettlesOnCommitted
CHECK_DEADLOCK FALSE
