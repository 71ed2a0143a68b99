CONSTANTS
  Start = 4
  End = 12
  Sizes = {1, 2, 4}
  Aligns = {1, 2, 4}
  Reg = 4
  Nodes = {1, 2, 3, 4, 5, 6}
SPECIFICATION Spec
INVARIANT ListOK
INVARIANT PlacedIfPossible
INVARIANT SuperRegisterFree
 
