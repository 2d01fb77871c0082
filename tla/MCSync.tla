------------------------------- MODULE MCSync -------------------------------
(***************************************************************************)
(* Sync for TLC: a guild with a channel and a role, a DM, one message in     *)
(* each channel, a friend.  A behaviour is of one mode: the kinds of row     *)
(* that handlers write, and what is stored when the client first syncs.      *)
(***************************************************************************)
EXTENDS Sync, TLC

VARIABLE mode

MCGuildOf == "c" :> "g" @@ "r" :> "g"
MCChannelOf == "mc" :> "c" @@ "md" :> "d"

Mine == {<<"member", "g", "me">>}

\* The rows that handlers write, the rows stored at first, and how many queries fail.
Mode ==
    {[writes |-> w, stored |-> s, failing |-> f] :
        <<w, s, f>> \in
            {<<GuildId \cup MemberId, "out", 0>>,
             <<{<<"role", "r">>}, "in", 1>>,
             <<{<<"role", "r">>, <<"channel", "c">>} \cup Mine, "in", 0>>,
             <<{<<"user", "bob">>} \cup MemberId, "in", 0>>,
             <<{<<"user", "bob">>} \cup FriendId, "out", 0>>,
             <<{<<"channel", "c">>, <<"message", "mc">>} \cup Mine, "in", 0>>,
             <<{<<"channel", "d">>, <<"message", "md">>, <<"dmMember", "d", "me">>}, "dm", 0>>,
             <<{<<"dmMember", "d", "bob">>, <<"user", "me">>}, "dm", 0>>,
             <<{<<"message", "mc">>}, "all", 1>>,
             <<{<<"user", "bob">>, <<"dmMember", "d", "me">>} \cup GuildId \cup RoleId \cup ChannelId, "alone", 0>>}}

Stored ==
    [out |-> UserId \cup GuildId \cup {<<"member", "g", "bob">>, <<"channel", "c">>},
     in |-> UserId \cup GuildId \cup MemberId \cup RoleId \cup {<<"channel", "c">>, <<"message", "mc">>},
     dm |-> UserId \cup {<<"channel", "d">>} \cup DMMemberId,
     alone |-> {<<"user", "me">>},
     all |-> Id \ FriendId]

Initially(id) ==
    IF id \notin Stored[mode.stored] THEN NoRow
    ELSE [val |-> "a", deleted |-> FALSE, at |-> CASE id \in MessageId -> 0
                                               [] id \in MemberId \cup DMMemberId -> 1
                                               [] OTHER -> 2]

MCInit ==
    /\ mode \in Mode
    /\ row = [id \in Id |-> Initially(id)]
    /\ now = 2
    /\ Init

InMode ==
    /\ \A id \in Id : row'[id] # row[id] => id \in mode.writes
    /\ DOMAIN slow' \subseteq mode.writes
    /\ faults' <= mode.failing

MCNext == Next /\ UNCHANGED mode /\ InMode

MCSpec == MCInit /\ [][MCNext]_<<vars, mode>>
=============================================================================
