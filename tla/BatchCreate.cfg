SPECIFICATION Spec
CONSTANTS
  MaxBatch = 4
  MaxConcurrent = 2
INVARIANTS TypeOK BoundedPublishers SettledOnReturn AnnouncedAreStored
PROPERTY Terminates
