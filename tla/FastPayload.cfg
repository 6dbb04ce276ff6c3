CONSTANTS
  Message <- WithSuggestions
  MaxMessages = 2
  Conditions <- NoCut
SPECIFICATION Spec
INVARIANTS
  OnlySentKinds
CHECK_DEADLOCK FALSE
