SPECIFICATION MCSpec
CONSTANTS
    Users = {"me", "bob"}
    Guilds = {"g"}
    Channels = {"c"}
    DMs = {"d"}
    Roles = {"r"}
    Messages = {"mc", "md"}
    GuildOf <- MCGuildOf
    ChannelOf <- MCChannelOf
    Content = {"a", "b"}
    Me = "me"
    MaxNow = 4
    MaxFaults = 1
INVARIANTS FirstSyncMatchesLists NothingSkipped
CHECK_DEADLOCK FALSE
