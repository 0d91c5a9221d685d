CONSTANTS
  chA = chA
  chB = chB
  chC = chC
  chD = chD
  Chunk <- MCChunk
  Size <- MCSize
  AreaSize = 31
  Blank = Blank
  Torn = Torn
SPECIFICATION Spec
INVARIANTS TypeOK WrittenIsReadable ProgramsBlankCells WritesInsideArea
PROPERTIES ErasedOnlyWhenFull ImplementsRegister
