CONSTANTS
  oldBuild = oldBuild
  newBuild = newBuild
  NSec = 2
  Version <- MCVersion
  Blank = Blank
  Bad = Bad
SPECIFICATION Spec
INVARIANTS UnpackedIsChecked
