\* Every interleaving of keys, prompts and edits, and what the screen then shows.
SPECIFICATION Spec
CONSTANTS
    MaxU64 = 47
    EFI_PAGE = 16
    PAGE_SIZE = 8
    COLS = 4
    Widths = {1, 2}
    Byte = {b1, b2}
    MemoryMaps <- MCAcpiAndRam
    MaxDescriptors = 3
    AttributeChoices <- MCSomeAttributes
    MaxWrites = 1
    MaxAttributeChanges = 0
SYMMETRY MCBytes
INVARIANTS
    PromptShowsPage
    NoStaleValueShown
    PreviewIsCurrent
    BytesStandUnderTheirOffsets
    HighlightFollowsCursor
    PageInfoIsCurrent
PROPERTIES
    ArrowsMoveBySlots
