SPECIFICATION Spec
CONSTANTS
  Chars <- MCChars
  Listing <- MCListing
  Size = 8
  MaxTabs = 3
PROPERTIES
  CompletionKeepsRest
CHECK_DEADLOCK FALSE
