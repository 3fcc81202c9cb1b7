SPECIFICATION Spec
CONSTANTS
    Tokens = {t1, t2}
    Drivers = {d1}
    Waiters = {w1}
    EmptyToken = empty
    NoPass = NoPass
    NoToken = NoToken
    Racy = FALSE
    SendToBusy = FALSE
    MaxRequests = 3
    MaxFaults = 1
SYMMETRY Symmetry
INVARIANTS TypeOK NoStaleCompletion WaitAnswersRequest DoneMeansQuiet
PROPERTY SupersededMeansReEntry
