\* The page opened several times while the firmware's map grows and shrinks.
SPECIFICATION Spec
CONSTANTS
    Descriptors <- MCDescriptors
    FirmwareMaps <- MCMaps
    MaxDescriptors = 3
    Slack = {0, 1}
    MaxOpenings = 4
INVARIANTS
    TypeOK
    NoBufferIsLost
    SizeFitsBuffer
    OpensOnMapOfThisOpening
PROPERTIES
    ImplementsMapSnapshot
