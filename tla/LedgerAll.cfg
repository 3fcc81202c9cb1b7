SPECIFICATION FairSpec
CONSTANTS
    Ids = {i1}
    Phases = {a, b}
    Procs = {p1}
    Commands = {"start", "rehydrate", "reap"}
    Reuse = TRUE
    MaxFaults = 1
    MaxKills = 1
    Root = root
    None = none
PROPERTIES
    RootSurvives
    StuckRegistrationClears
