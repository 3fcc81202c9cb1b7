SPECIFICATION FairSpec
CONSTANTS Servers = {s1, s2, s3}
          Drivers = {d1, d2}
          Ports = {p1, p2}
          None = None
          Foreign = Foreign
          MaxTrouble = 1
INVARIANTS OneServer
PROPERTIES FoundIsUp StartLeadsToServer
CHECK_DEADLOCK FALSE
