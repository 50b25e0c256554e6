SPECIFICATION Spec
CONSTANTS
    PAGE_SZ = 12
    MaxPages = 3
    NUM_QUICK_LISTS = 2
    QUICK_LIST_MAX = 1
    NUM_FREE_LISTS = 3
    Request <- MCRequest
    Width = 1024
INVARIANTS
    HeapInv
    ListsExact
PROPERTIES
    UserDataKept
