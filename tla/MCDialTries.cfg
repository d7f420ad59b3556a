\* Is every address of the list tried?
CONSTANTS
  Addresses = {v4, v6, v6mapped}
  MaxList = 3
  MaxFd = 3
SPECIFICATION Spec
INVARIANT TriesEveryAddress
