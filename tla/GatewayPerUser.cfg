SPECIFICATION MCSpec
CONSTANTS
    Client = {"u1", "u2"}
    RPCs = {"SendFriendRequest"}
    Chain = {"Login", "SendMessage", "StreamDmChat", "GetGuild", "PreviewInvite"}
    AuthLimit = 1
    MessageLimit = 2
    FriendLimit = 2
    DefaultLimit = 2
    Window = 3
    MaxPerTick = 3
    MaxRedisFaults = 0
INVARIANT LimitIsPerUser
CHECK_DEADLOCK FALSE
