SPECIFICATION FairSpec
CONSTANTS
    None = None
    MaxCalls = 2
    MaxFaults = 1
    MaxTokens = 1
    Starts <- MCStarts
    LinksFrom <- MCLinks
    Exits <- MCExits
    Themed <- MCThemed
    Ids = {"s1"}
    Cores = {"paper", "fabric"}
    Default = "paper"
    Customs = {"c1"}
    Dirs = {"/", "world"}
    Root = "/"
    MaxUpload = 2
    Queries = {"q1", "q2"}
    MaxTasks = 1
    Drafts = {"d1", "d2"}
    DefaultDraft = "d1"
    Providers = {"discord", "telegram"}
    Users = {"me", "u1"}
    Me = "me"
INVARIANTS
    TypeOK
    WaitsForACall
    
    AnswersBelong
    MovesStayPut
    BotsFollowedOrSaid
    SessionAgrees
PROPERTIES
    
    ButtonsComeBack
CHECK_DEADLOCK FALSE
