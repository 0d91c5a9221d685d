CONSTANTS
  ChipSize = 98
  MaxStart = 33
  MaxEnd = 100
  Chips <- MCChips
SPECIFICATION Spec
INVARIANTS TypeOK ErasesArea ErasesOnlyArea RunsFit
PROPERTY NoBlockTwice
