SPECIFICATION ChannelSpec
CONSTANTS
    Builds = {"linux", "windows"}
    Swappers = {t1, t2}
    Messages <- MCMessages
    Parts <- MCParts
    Room = 3
    MaxAsked = 2
INVARIANTS
    KnowsWhatWasSaid
PROPERTIES
    LeavesOnlyTheGone
    RequestsAnswered
CHECK_DEADLOCK FALSE
