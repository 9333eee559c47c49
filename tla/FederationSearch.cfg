CONSTANTS
    p1 = p1   p2 = p2
    Peers = {p1, p2}
    Fronts = {"api", "page", "tool"}
    Corpora <- SomeCorpora
    PeerHits <- Remotes
    Limit = 2
    Budget = 1
    MaxChanges = 1
SPECIFICATION LiveSpec
INVARIANTS
    BestHits
    NothingSkipped
PROPERTIES
    AnswersKept
    SearchEnds
