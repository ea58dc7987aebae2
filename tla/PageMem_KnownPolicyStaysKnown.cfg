\* A firmware without the memory attribute protocol.
SPECIFICATION Spec
CONSTANTS
    MaxU64 = 31
    EFI_PAGE = 8
    PAGE_SIZE = 4
    COLS = 2
    Widths = {1, 2}
    Byte = {b1, b2}
    MemoryMaps <- MCMixed
    MaxDescriptors = 3
    AttributeChoices <- MCSomeAttributes
    MaxWrites = 1
    MaxAttributeChanges = 0
SYMMETRY MCBytes
INVARIANT KnownPolicyStaysKnown
