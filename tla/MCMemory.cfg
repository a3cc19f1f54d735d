SPECIFICATION Spec
CONSTANTS
  PHYS_LOW_MEM_END = 1
  PHYS_KERNEL_END = 6
  PHYS_HEAP_END = 7
  PHYS_FREE_START = 8
  PHYS_BUDDY_START = 20
  PHYS_MEMORY_END = 25
  PageIndexes = 64
  TableSize = 5
  Bars = {24, 79}
  BarPages = 2
  HeapPages <- MCHeapPages
INVARIANTS
  TablesExclusive
  Accounted
  SharedOnlyWhenFull
PROPERTIES
  IsAddressSpace
CHECK_DEADLOCK FALSE
