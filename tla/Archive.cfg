SPECIFICATION Spec
CONSTANTS Procs = {p1, p2}
          Workspaces = {w0, w1, w2}
          First = w0
          None = None
          Ops = {"start", "panel", "resurrect", "rehydrate", "archive", "restore", "purge"}
          MaxCalls = 3
          MaxTrouble = 2
INVARIANTS NothingLiveForgotten NoFiction
PROPERTIES RevertsAreRaces NoWorkForArchived
CHECK_DEADLOCK FALSE
