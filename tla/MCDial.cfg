\* Lists of up to three of three addresses.
CONSTANTS
  Addresses = {v4, v6, v6mapped}
  MaxList = 3
  MaxFd = 3
SPECIFICATION Spec
INVARIANTS TypeOK NothingLeaks
