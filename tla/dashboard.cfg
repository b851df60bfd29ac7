SPECIFICATION FairSpec
CONSTANTS
    Polls = {p1, p2}
    States <- SomeStates
    MAX_RESTARTS = 1
PROPERTIES
    HonestDisplay
    DisplayFollows
    OutageShown
