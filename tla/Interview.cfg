SPECIFICATION FairSpec
CONSTANTS Workers = {w1}
          Agent = agent
          Texts = {yes}
          None = None
          Cap = 4
          MaxAsks = 3
          MaxPosts = 3
          MaxWaits = 2
          MaxTorn = 1
INVARIANTS ExitZeroIsAnswered CancelledNeverAnswered LossIsBounded OverrunIsBounded
PROPERTIES AnsweredWaitEnds
CHECK_DEADLOCK FALSE
