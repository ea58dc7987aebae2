\* Firmware that changes attributes under the viewer while it is used.
SPECIFICATION Spec
CONSTANTS
    MaxU64 = 15
    EFI_PAGE = 4
    PAGE_SIZE = 2
    COLS = 2
    Widths = {1, 2}
    Byte = {b1, b2}
    MemoryMaps <- MCMixed
    MaxDescriptors = 3
    AttributeChoices <- MCSomeAttributes
    MaxWrites = 1
    MaxAttributeChanges = 2
SYMMETRY MCBytes
INVARIANTS
    TypeOK
    OnlyReadableRegionsAreRead
    TitleTellsAccess
PROPERTIES
    WritesAreAllowed
