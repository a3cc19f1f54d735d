SPECIFICATION Spec
CONSTANTS
  TotalPages = 9
  PAGE_SIZE = 4096
  BUDDY_MAX_ORDER = 2
  PagesPerOrder <- MCPagesPerOrder
  Requests = {1, 2, 3, 5}
INVARIANTS
  PagesAccounted
  BuddiesMerged
PROPERTIES
  IsPageAllocator
