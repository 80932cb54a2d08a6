SPECIFICATION Spec
CONSTANTS
    s = s
    a = a
    b = b
    j = j
    k = k
    t = t
    u = u
    NoNode = NoNode
    Nodes <- ForkNodes
    Edges <- ForkEdges
    tail <- ForkTail
    head <- ForkHead
    handle <- ForkHandle
    Root = s
    DeclaredRoot <- ForkRoots
    DeclaredBranch <- ForkBranch
    Reports <- ForkReports
    CanFail <- ForkFail
    CanPause <- ForkPause
    ErrorStrategy <- ForkStrategy
    MaxRetries <- ForkRetries
    Workers = {w1, w2}
    MaxCommands = 2
    MaxResumes = 0
INVARIANTS
    OneRunAtATime
    TrackedWork
    RunsOnlyWhenReady
PROPERTY
    EdgesDecidedOnce
CHECK_DEADLOCK FALSE
