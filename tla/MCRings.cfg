SPECIFICATION Spec
CONSTANTS
    Hash = {"a"}
    RingCapacity = 4
    CheckpointSlots = 3
    MaxNumber = 4
    MaxLog = 1
INVARIANTS
    LookupsAgree
    SlotsAgeInOrder
PROPERTIES
    ImplementsSequences
