SPECIFICATION Spec
CONSTANTS
  Nodes = {n1, n2, n3, n4}
  Null = Null
  Full = "full"
  Long = "long"
  Empty = ""
  Byte = Byte
  Raw = Raw
  Dir = Dir
  Paths <- MCPaths
  MaxSize = 1
INVARIANTS
  TreeShape
  SizeExact

  
SYMMETRY Symmetry
