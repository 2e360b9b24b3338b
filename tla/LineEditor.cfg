SPECIFICATION Spec
CONSTANTS
  Chars <- MCChars
  Listing <- MCListing
  Size = 8
  MaxTabs = 3
INVARIANTS
  ScreenShowsLine
PROPERTIES
  Refinement
CHECK_DEADLOCK FALSE
