SPECIFICATION Spec
CONSTANTS
    Length = 6
    ChunkLength = 2
    CacheSize = 2
    RingSize = 2
    MaxStamp = 2
    Indices <- MCIndices
    MaxSynonyms = 2
INVARIANT AnswersAreArticles
INVARIANT AnswersAreComplete
CHECK_DEADLOCK FALSE
