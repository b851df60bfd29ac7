SPECIFICATION FairSpec
CONSTANTS
    Publishers = {p1, p2}
    NoOne = NoOne
    Messages <- ShortAndLong
    Chunks <- Pieces
    MAX_PUBLISHED = 2
PROPERTIES
    ImplementsQueue
    PublishedArrives
