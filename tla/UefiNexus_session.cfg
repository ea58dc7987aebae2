\* The application from start to exit.  It ends, so the system may stop.
SPECIFICATION SessionSpec
CONSTANTS
    MaxU64 = 7
    EFI_PAGE = 2
    PAGE_SIZE = 1
    COLS = 1
    Widths = {1}
    Byte = {b1}
    MemoryMaps <- MCMaps
    MaxDescriptors = 3
    AttributeChoices <- MCAttributeChoices
    MaxWrites = 0
    MaxAttributeChanges = 1
    EntryPoints <- MCEntryPoints
    Attributes <- MCAttributes
    LINES = 2
    ROWS = 7
INVARIANTS
    SessionTypeOK
    ConsoleRestored
    ListsEveryRegion
    ListAgreesWithTitle
    
    TitleTellsAccess
PROPERTIES
    EscComesNearer
    EscLeadsOut
CHECK_DEADLOCK FALSE
