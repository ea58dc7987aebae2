\* The second opening with a map that did not grow.
SPECIFICATION Spec
CONSTANTS
    Descriptors <- MCDescriptors
    FirmwareMaps <- MCMaps
    MaxDescriptors = 3
    Slack = {0, 1}
    MaxOpenings = 4
INVARIANT FirstCallObtainsSize
