CONSTANTS
  Words = 5
  SizeMod = 256
  Sizes = {1, 255}
  UserData = {}
  Misuse = FALSE
SPECIFICATION Spec
INVARIANT RoundedUp
