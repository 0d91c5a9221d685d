CONSTANTS
  Half = 3
  Thres = 3
  MaxCount = 7
  MaxNext = 8
SPECIFICATION FairSpec
INVARIANTS TypeOK Acknowledged NeverRepeats
PROPERTIES NeverTorn FlushDrains ImplementsStream Returns
CHECK_DEADLOCK FALSE
