SPECIFICATION FairSpec
CONSTANTS
    Batch <- SomeBatches
    MaxPublished = 3
    MaxPageEvents = 1
INVARIANTS StopsInOrder
PROPERTIES ExitsWhenAsked
CHECK_DEADLOCK FALSE
