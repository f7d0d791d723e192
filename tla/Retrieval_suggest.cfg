SPECIFICATION FairSpec
CONSTANTS
    Article <- MCArticle
    Space <- MCSpace
    Model <- MCModel
    Chunk <- MCChunk
    m1 = m1
    m2 = m2
    None = None
    ArticleOf <- MCArticleOf
    VersionOf <- MCVersionOf
    TopK = 3
    BranchDepth = 2
    SuggestSize = 2
    Retries = 1
    RRFK = 60
    MaxChanges = 2
    MaxFaults = 1
    Requests <- MCRequests
    Texts <- MCTexts
    Worlds <- MCWorlds
CHECK_DEADLOCK FALSE
INVARIANTS TypeOK RerankedOrFused
PROPERTIES WithinScope FusionFollowsBothSides BestOfEachArticle RequestEnds HitsAreAnswered
