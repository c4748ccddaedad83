SPECIFICATION Spec
CONSTANTS
  NULL = NULL
  BAD = BAD
  Nobody = Nobody
  empty = empty
  ann = ann
  bob = bob
  text = text
  tooLong = tooLong
  student = student
  teacher = teacher
  cut = cut
  Str <- MCStr
  CStr <- MCCStr
  Empty = empty
  MaxInt = 7
  Long <- MCLong
  Roles <- MCRoles
  Student = student
  Server = {s1, s2}
  Request = {r1, r2}
  Seeds <- OneUser
  FirstId <- AfterBodiesSeeds
  Offers <- BodiesOffers
SYMMETRY MCSymmetry
INVARIANT TypeOK
