\* Every map of up to two regions.
SPECIFICATION Spec
CONSTANTS
    MaxU64 = 15
    EFI_PAGE = 4
    PAGE_SIZE = 2
    COLS = 1
    Widths = {1}
    Byte = {b1}
    MemoryMaps <- MCAllMaps
    MaxDescriptors = 3
    AttributeChoices <- MCSomeAttributes
    MaxWrites = 0
    MaxAttributeChanges = 0
INVARIANTS
    NavigationsAgree
PROPERTIES
    PageKeysFindNearest
    ImplementsPageBrowser
