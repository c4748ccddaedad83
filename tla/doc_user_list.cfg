SPECIFICATION Spec
CONSTANTS
  NULL = NULL
  BAD = BAD
  Nobody = Nobody
  empty = empty
  ann = ann
  bob = bob
  text = text
  tooLong = tooLong
  student = student
  teacher = teacher
  cut = cut
  Str <- MCStr
  CStr <- MCCStr
  Empty = empty
  MaxInt = 3
  Long <- MCLong
  Roles <- MCRoles
  Student = student
  Server = {s1}
  Request = {r1}
  Seeds <- NoSeeds
  FirstId <- FirstKeys
  Offers <- ListUsers
INVARIANT UserListIsArray
