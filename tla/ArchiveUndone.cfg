SPECIFICATION Spec
CONSTANTS Procs = {p1, p2}
          Workspaces = {w0}
          First = w0
          None = None
          Ops = {"start", "archive"}
          MaxCalls = 2
          MaxTrouble = 1
PROPERTY NoExceptions
CHECK_DEADLOCK FALSE
