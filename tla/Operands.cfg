SPECIFICATION Spec
CONSTANTS
  Forms <- MCForms
  RegFields = {0, 1, 4, 5}
INVARIANTS
  ExecutedAsWritten
  LengthsAgree
