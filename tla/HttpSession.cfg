\* Two POST threads that may reuse ids, a stream, a DELETE; the server and the
\* client of the stream may go.
CONSTANTS
    Posts = {p1, p2}
    Opener = p1
    Gets = {g1}
    Nobody = Nobody
    NoId = NoId
    InitId = 1
    Ids = {1, 2}
    ServerIds = {7}
    Kinds = {"act", "answer"}
    Faults = {"dies", "client_gone", "reuse"}
    MaxPosts = 3
    MaxGets = 1
    MaxAsks = 1
    MaxMessages = 4
SPECIFICATION FairSpec
INVARIANTS
    HeardIsRecorded
    AnswerIsOwn
    DeletedHoldsAnswers
    NotStranded
PROPERTIES
    NobodyWaitsForTheDead
CHECK_DEADLOCK FALSE
