\* Up to five lines, cut anywhere; the second may be over the limit.
SPECIFICATION Spec
CONSTANTS
  Char = {"[", "]", "_", "P", "E", "H", "1"}
  TypeName <- Types
  Digit = {"1"}
  MaxDigits = 2
  ValueOf <- KnownPE1
  DeltaText <- Fragments
  MaxLines = 5
  LongLine = 2
INVARIANTS
  TypeOK
  EmittedIsFinal
  CompleteAtDone
  StreamedAsReloaded
  CountedOnce
CHECK_DEADLOCK FALSE
