\* A map with one descriptor more than the adapter keeps.
SPECIFICATION Spec
CONSTANTS
    MaxU64 = 31
    EFI_PAGE = 8
    PAGE_SIZE = 4
    COLS = 2
    Widths = {1, 2}
    Byte = {b1, b2}
    MemoryMaps <- MCMixed
    MaxDescriptors = 2
    AttributeChoices <- MCSomeAttributes
    MaxWrites = 1
    MaxAttributeChanges = 0
SYMMETRY MCBytes
INVARIANT TypeIsFirmwareType
