CONSTANTS
    Parts = {"portal", "few", "notice", "chat"}
    Docs = {1, 2, 3}
    Forbidden = {2}
    Unreadable = {}
    FromTitle = {}
    Flaky = {}
    BodyRefused = {3}
    TitleRefused = {}
    MaxBodies = 2
    MaxMemo = 1
    MaxListed = 3
    MaxVersion = 1
    NoticeDays = 3
    Weekends = {2}
    People = {"a", "b"}
    Tabs = {1}
    GeminiModels <- OneGemini
    GroqModels <- OneGroq
    MaxTurns = 1
    MaxSessions = 1
    TTL = 0
    MaxAsked = 2
    MaxTicks = 1
    MaxRestarts = 1
SPECIFICATION Spec
INVARIANTS ChatIsTrue NothingRemains
PROPERTIES NoticedOnce DoneInTheEnd
CHECK_DEADLOCK FALSE
