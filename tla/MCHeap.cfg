CONSTANTS
  o1 = o1
  o2 = o2
  o3 = o3
  Owner <- MCOwner
  Link = Link
  Units = 9
  MaxWanted = 4
SPECIFICATION Spec
SYMMETRY Symmetry
INVARIANTS TypeOK Tiled Counted Private
