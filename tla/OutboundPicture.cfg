\* One request of up to three messages, the newest perhaps without a text.
SPECIFICATION Spec
CONSTANTS
  anna = anna
  ANNA = ANNA
  bert = bert
  acme = acme
  smile = smile
  fink = fink
  fi_nk = fi_nk
  Word = {anna, ANNA, bert, acme, smile, fink, fi_nk}
  Canon <- Folded
  GatewayCanon <- Lowered
  EntityType = {"PERSON", "ORG", "CUSTOM"}
  MaxIndex = 2
  NoAction = NoAction
  Policy <- Policies
  Requests <- PictureLast
  RedactImages = TRUE
  Wide = {smile}
INVARIANT StoredIsNewest
CHECK_DEADLOCK FALSE
