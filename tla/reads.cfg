SPECIFICATION Spec
CONSTANTS
  NULL = NULL
  BAD = BAD
  Nobody = Nobody
  empty = empty
  ann = ann
  bob = bob
  text = text
  tooLong = tooLong
  student = student
  teacher = teacher
  cut = cut
  Str <- MCStr
  CStr <- MCCStr
  Empty = empty
  MaxInt = 5
  Long <- MCLong
  Roles <- MCRoles
  Student = student
  Server = {s1, s2}
  Request = {r1, r2, r3}
  Seeds <- ReadsSeeds
  FirstId <- AfterReadsSeeds
  Offers <- ReadsOffers
SYMMETRY MCSymmetry
INVARIANT ReadInv
PROPERTY ReadsSeeKnown
PROPERTY DeadConnectionAnswers500
