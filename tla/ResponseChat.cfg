SPECIFICATION Spec
CONSTANTS
    start = start
    llm1 = llm1
    llm2 = llm2
    ask = ask
    assigner = assigner
    r1 = r1
    r2 = r2
    r3 = r3
    r4 = r4
    loose = loose
    NoNode = NoNode
    Text = Text
    Root = start
    Nodes <- ChatNodes
    Edges <- ChatEdges
    tail <- ChatTail
    head <- ChatHead
    handle <- ChatHandle
    source <- ChatSource
    template <- ChatTemplate
    assigns <- ChatAssigns
    strategy <- ChatStrategy
    Selectors <- ChatSelectors
    MaxRetries <- ChatRetries
    Responses = {r1, r2, r3, r4}
    DeclaredRoot = {start}
    DeclaredBranch = {ask}
    Containers = {}
    CanPause = {ask}
    Streams = {"llm1.text", "llm2.text"}
    onSuccess = {"llm1.text", "llm2.text"}
    onException = {"llm1.text"}
    CanFail = {llm1, llm2}
    MaxChunks = 2
    MaxSegments = 3
INVARIANTS
    AnswersInOrder
    ChunksOnceInOrder
    NotShownTwice
    NoPrematureAnswer
    SessionsEnd
CHECK_DEADLOCK FALSE
