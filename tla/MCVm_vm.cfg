SPECIFICATION Spec
CONSTANTS
  Proc = {p1, p2}
  First = p1
  Memories = {5, 6, 7, 8, 9, 12}
  NPDE = 2
  NPTE = 2
  PGSIZE = 2
  Sizes = {1, 3}
  MaxCalls = 6
INVARIANTS PagesInv SizeIsMapped
PROPERTIES ImplementsAddressSpaces
CHECK_DEADLOCK FALSE
