CONSTANTS
  oldBuild = oldBuild
  newBuild = newBuild
  NSec = 2
  Version <- MCVersion
  Blank = Blank
  Bad = Bad
SPECIFICATION FairSpec
INVARIANTS TypeOK SafeToReset RunningIntact NeverStranded
PROPERTIES ImplementsUpdate Installs
