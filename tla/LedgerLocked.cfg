SPECIFICATION Spec
CONSTANTS
    Ids = {i1, i2, i3}
    Phases = {a}
    Procs = {p1, p2}
    Commands = {"rehydrate", "reap", "cleanup"}
    Reuse = FALSE
    MaxFaults = 2
    MaxKills = 0
    Root = root
    None = none
INVARIANTS
    NoStrandedPane
    OneAgentPerPhase
PROPERTIES
    ClosesOnlyOurs
    ImplementsRegistry
SYMMETRY Symmetry
