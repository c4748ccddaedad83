SPECIFICATION Spec
CONSTANTS
  NULL = NULL
  BAD = BAD
  empty = empty
  ann = ann
  bob = bob
  cut = cut
  d0 = d0
  d1 = d1
  d2 = d2
  d3 = d3
  minus1 = minus1
  minus2 = minus2
  minus3 = minus3
  minus4 = minus4
  Str <- MCStr
  CStr <- MCCStr
  Decimal <- MCDecimal
  Empty = empty
  MaxInt = 3
  MaxRows = 3
  Bodies <- MCBodies
  Layouts <- MCLayouts
  NoCall = NoCall
INVARIANT RInv
PROPERTY ShownAsSent
