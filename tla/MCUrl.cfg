SPECIFICATION FairSpec
CONSTANTS
  Urls <- MCUrls
  Modes = {TRUE, FALSE}
  Width = 65536
  MaxBytes = 4
INVARIANTS
  AcceptsGrammar
  FieldsAreParts
  FieldsApart
PROPERTY
  Terminates
CHECK_DEADLOCK FALSE
