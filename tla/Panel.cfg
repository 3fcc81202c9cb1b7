SPECIFICATION FairSpec
CONSTANTS Angles = {a, b}
          None = None
          MaxIter = 2
          MaxHead = 2
          MaxPanes = 3
          Faulty <- Outages
          MaxTrouble = 1
INVARIANTS VerdictsAreCurrent DoneIsBanked NoStrandedReviewer
PROPERTIES ReapFollowsVerdict DeliveredPanelDrains
CHECK_DEADLOCK FALSE
