\* Four assignable addresses between one reserved at each end; two handles,
\* each with several attributes.
CONSTANTS
  Handles = {h1, h2}
  AttrMaps = {NilMap, EmptyMap, s1}
  EmptyMap = EmptyMap
  NilMap = NilMap
  BlockSize = 6
  StartOfBlock = 1
  EndOfBlock = 1
  Reserved = {0, 5}
  MaxNum = 3
  Free = Free
  ReservedHandle = ReservedHandle
SPECIFICATION BlockImplSpec
SYMMETRY MCSymmetry
INVARIANTS BlockTypeOK FreeListExact AttributesInUse CountsAgree
PROPERTY ImplementsBlockSpec
