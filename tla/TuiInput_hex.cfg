\* Every line of up to three digits, typed and taken back in any way.
SPECIFICATION Spec
CONSTANTS
    BufferSize = 4
    Base = 4
    Digits = {0, 3}
    Requests = {1, 2, 4, 5}
    MaxU64 = 31
INVARIANTS
    TypeOK
    ShownIsDelivered
PROPERTIES
    ValueFitsRequest
    ImplementsLineEditor
