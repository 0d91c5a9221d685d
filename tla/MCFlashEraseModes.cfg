CONSTANTS
  ChipSize = 98
  MaxStart = 33
  MaxEnd = 100
  Chips <- MCOtherChips
SPECIFICATION Spec
INVARIANT ErasesArea
