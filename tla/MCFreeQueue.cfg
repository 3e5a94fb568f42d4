CONSTANT NumBlocks = 4
SPECIFICATION Spec
INVARIANT WellLinked
PROPERTY ImplementsQueue
