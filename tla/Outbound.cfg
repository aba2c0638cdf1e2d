\* A short first turn, then any text with three spans or any three messages.
SPECIFICATION Spec
CONSTANTS
  anna = anna
  ANNA = ANNA
  bert = bert
  acme = acme
  smile = smile
  fink = fink
  fi_nk = fi_nk
  Word = {anna, ANNA, bert, acme, smile, fink, fi_nk}
  Canon <- Folded
  GatewayCanon <- Lowered
  EntityType = {"PERSON", "ORG", "CUSTOM"}
  MaxIndex = 2
  NoAction = NoAction
  Policy <- Policies
  Requests <- Turns
  RedactImages = TRUE
  Wide = {smile}
INVARIANTS
  TypeOK
  BestAreHidden
  PlacedRight
  RoundTrip
  SamePlaceholder
  BlockIsWhole
  ShieldMatches
CHECK_DEADLOCK FALSE
