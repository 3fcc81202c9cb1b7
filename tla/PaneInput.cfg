SPECIFICATION FairSpec
CONSTANTS
    Senders = {s1}
    Waiters = {w1}
    None = None
    Page = Page
    MaxDialogs = 2
    MaxPosts = 2
    MaxFaults = 1
INVARIANTS OkMeansTaken
PROPERTIES KeysFollowLooks NobodyParks
CHECK_DEADLOCK FALSE
