CONSTANT NumBlocks = 4
SPECIFICATION Spec
INVARIANTS WellLinked
PROPERTY ImplementsQueue
