SPECIFICATION FairSpec
CONSTANTS
  NoFile = NoFile
  BAD = BAD
  None = None
  Ports = 4
  Server = {s1}
  CommandLines <- MCCommandLines
  Files <- MCFiles
INVARIANT IInv
INVARIANT SettingsOfOneFile
PROPERTY ProcessSpec
PROPERTY StartEnds
