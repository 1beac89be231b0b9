CONSTANTS
  HalfWord = 16
  WordSize = 2
  Offsets <- MCOffsets
  Counts <- MCCounts
  Strides <- MCStrides
  ObjSizes <- MCObjSizes
  RegionSize = 24
SPECIFICATION BindingSpec
INVARIANT
  RegionEndIsRefused
