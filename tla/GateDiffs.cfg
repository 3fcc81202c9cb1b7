SPECIFICATION Spec
CONSTANTS
    MaxSubmits = 3
    MaxPosts = 3
    MaxRevisions = 4
    MaxFaults = 0
    MaxPurges = 1
PROPERTIES
    RevisionDiffsAgainstPrevious
