\* Two clients created from the screen beside the first refresh, two polls under
\* way at a time, executions that change once.
SPECIFICATION SFairSpec
CONSTANTS
    NewClients = {c1, c2}
    Polls = {p1, p2}
    MaxVersion = 1
    Mount = Mount
    Pending = Pending
    Failed = Failed
    NoRefresh = NoRefresh
INVARIANTS
    STypeOK
    CreatedIsShown
PROPERTIES
    ScreenCatchesUp
