SPECIFICATION FairSpec
CONSTANTS
    Tokens = {t1, t2}
    Drivers = {d1}
    Waiters = {w1}
    EmptyToken = empty
    NoPass = NoPass
    NoToken = NoToken
    Racy = TRUE
    SendToBusy = TRUE
    MaxRequests = 2
    MaxFaults = 0
INVARIANT DoneIsEarned
PROPERTY CompletionIsRecorded
