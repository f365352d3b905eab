SPECIFICATION Spec
CONSTANTS
  PAGE_SIZE = 4
  USER_PAGES = 4
  USIZE = 128
  Ppn = {7, 8}
INVARIANT BytesInOrder
PROPERTY Terminates
