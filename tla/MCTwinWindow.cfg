SPECIFICATION TwinSpec
CONSTANTS
    Passes = {p1}
    Titles = {"Trip"}
    FormOf <- MCFormOf
    Drafts = {"yes"}
    MaxMessages = 3
    MaxCandidates = 1
    PassLimit = 2
    TailLimit = 1
    MaxKept = 1
    NoTitle = NoTitle
INVARIANT CurrentOnceModelled
CHECK_DEADLOCK FALSE
