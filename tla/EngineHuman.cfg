SPECIFICATION FairSpec
CONSTANTS
    s = s
    a = a
    b = b
    j = j
    k = k
    t = t
    u = u
    NoNode = NoNode
    Nodes <- HumanNodes
    Edges <- HumanEdges
    tail <- HumanTail
    head <- HumanHead
    handle <- HumanHandle
    Root = s
    DeclaredRoot <- HumanRoots
    DeclaredBranch <- HumanBranch
    Reports <- HumanReports
    CanFail <- HumanFail
    CanPause <- HumanPause
    ErrorStrategy <- HumanStrategy
    MaxRetries <- HumanRetries
    Workers = {w1, w2}
    MaxCommands = 1
    MaxResumes = 1
INVARIANTS
    SuccessMeansAllDone
    NothingForgottenAtPause
    CompletionIsLast
PROPERTY
    EveryRunEnds
CHECK_DEADLOCK FALSE
