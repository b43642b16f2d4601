SPECIFICATION Spec
CONSTANTS
  u1 = u1
  u2 = u2
  Upload = {u1, u2}
  Folder = {}
  Hollow = {}
  Want <- SameName
  Stored <- Nothing
  MaxTry = 1
INVARIANT
  ExistingNeverOverwritten
