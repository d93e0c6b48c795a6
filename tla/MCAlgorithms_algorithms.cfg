SPECIFICATION MCSpec
CONSTANTS
    None = None
    AgentLimit = 1
    AtomicThreshold = 5
    ChunkSize = 4
    ChunkOverlap = 2
    MaxText = 8
    MaxReply = 7
    MaxRows = 3
    MaxPage = 5
INVARIANT IntentIsClear
INVARIANT NoCodeAnswered
INVARIANT ChunksKeepText
INVARIANT AccessAgrees
INVARIANT TodoQueriesAgree
