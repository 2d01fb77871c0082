------------------------------ MODULE Reading -------------------------------
(***************************************************************************)
(* Reading messages: the pages of ListMessages, AckMessage and the unread  *)
(* counts of one user, against senders and deletes that go on meanwhile    *)
(* (internal/features/message).                                            *)
(*                                                                         *)
(* Message ids are TimeUUIDs: numbers, in the order of the senders'        *)
(* clocks.  SendMessage takes the id first and writes the row later, so    *)
(* rows need not appear in the order of their ids.                         *)
(***************************************************************************)
EXTENDS Integers, FiniteSetsExt

CONSTANTS
    Channel,
    DMs,            \* the user's DM channels; the other channels are a guild's
    MaxId,          \* bound: message ids of a channel
    MaxLimit, DefaultLimit,     \* 100 and 50 in ListMessages
    Preview,        \* 5 in GetUnreadCounts
    MaxReadFaults   \* bound: how many queries fail

ASSUME ReadingConstants ==
    /\ DMs \subseteq Channel
    /\ MaxId \in Nat \ {0}
    /\ DefaultLimit \in 1..MaxLimit
    /\ Preview \in Nat \ {0}
    /\ MaxReadFaults \in Nat

VARIABLES
    log,            \* messages: "free", "taken" (the id only), "live", "deleted"
    pointer,        \* read_states: the last message read, 0 the zero id, NoState no row
    walk,           \* the client that pages through a channel
    badge,          \* the running, or last, GetUnreadCounts
    readFaults,     \* queries that have failed
    late,           \* history: messages stored after one with a higher id
    fresh           \* history: messages stored since the last ack, or above it

readVars == <<log, pointer, walk, badge, readFaults, late, fresh>>

Id == 1..MaxId

NoState == -1

NoWalk == [dir |-> "none", chan |-> CHOOSE c \in Channel : TRUE, limit |-> 1, low |-> 0,
           high |-> 0, shown |-> {}, repeated |-> FALSE, ended |-> FALSE]

NoBadge == [pc |-> "idle", todo |-> {}, pointers |-> [c \in Channel |-> NoState],
            count |-> [c \in Channel |-> 0], last |-> [c \in Channel |-> 0],
            recent |-> [c \in Channel |-> {}], clean |-> TRUE]

\* A user who has been mentioned in a channel never opened has a row with the zero id.
ReadInit ==
    /\ log = [c \in Channel |-> [i \in Id |-> "free"]]
    /\ pointer \in [Channel -> {NoState, 0}]
    /\ walk = NoWalk
    /\ badge = NoBadge
    /\ readFaults = 0
    /\ late = [c \in Channel |-> {}]
    /\ fresh = [c \in Channel |-> {}]

-----------------------------------------------------------------------------
(* The queries: sets of rows of a channel, deleted ones included.  Of the    *)
(* order of the rows only two things matter: which ones a LIMIT keeps, and    *)
(* that the first of the unread ones is the newest.                           *)

Rows(c) == {i \in Id : log[c][i] \in {"live", "deleted"}}

Newest(ids, n) == {i \in ids : Cardinality({j \in ids : j > i}) < n}

Oldest(ids, n) == {i \in ids : Cardinality({j \in ids : j < i}) < n}

Listmessagesbefore(c, id, limit) == Newest({i \in Rows(c) : i < id}, limit)

\* Mutant: the rows after a message come newest first.
NewestAfter(c, id, limit) == Newest({i \in Rows(c) : i > id}, limit)

Listmessagesafter(c, id, limit) == Oldest({i \in Rows(c) : i > id}, limit)

Listrecentmessages(c, limit) == Newest(Rows(c), limit)

Countunreadmessages(c, id) == {i \in Rows(c) : i > id}

Countallmessages(c) == Rows(c)

Undeleted(c, rows) == {i \in rows : log[c][i] = "live"}

\* The three listings of the repository: twice as many rows as asked for, without the
\* deleted ones, cut to the limit.
PageBefore(c, id, limit) == Newest(Undeleted(c, Listmessagesbefore(c, id, 2 * limit)), limit)

ListMessagesAfter(c, id, limit) ==
    Oldest(Undeleted(c, Listmessagesafter(c, id, 2 * limit)), limit)

ListRecentMessages(c, limit) ==
    Newest(Undeleted(c, Listrecentmessages(c, 2 * limit)), limit)

Clamp(limit) == IF limit <= 0 \/ limit > MaxLimit THEN DefaultLimit ELSE limit

-----------------------------------------------------------------------------
(* Senders and deletes, and the user's own acks.                             *)

\* The user's GetUnreadCounts, if one is running, overlaps this change; the answer of the
\* last one is forgotten.
Disturbed == IF badge.pc \in {"idle", "done"} THEN NoBadge ELSE [badge EXCEPT !.clean = FALSE]

\* gocql.TimeUUID, at the start of SendMessage.
TakeId(c) ==
    /\ \E i \in Id : /\ log[c][i] = "free"
                     /\ \A j \in Id : j < i => log[c][j] # "free"
                     /\ log' = [log EXCEPT ![c][i] = "taken"]
    /\ UNCHANGED <<pointer, walk, badge, readFaults, late, fresh>>

StoreMessage(c) ==
    \E i \in Id :
        /\ log[c][i] = "taken"
        /\ log' = [log EXCEPT ![c][i] = "live"]
        /\ late' = [late EXCEPT ![c] = IF \E j \in Rows(c) : j > i THEN @ \cup {i} ELSE @]
        /\ fresh' = [fresh EXCEPT ![c] = @ \cup {i}]
        /\ badge' = Disturbed
        /\ UNCHANGED <<pointer, walk, readFaults>>

\* DeleteMessage or BulkDeleteMessages.
Delete(c) ==
    \E i \in Id :
        /\ log[c][i] = "live"
        /\ log' = [log EXCEPT ![c][i] = "deleted"]
        /\ badge' = Disturbed
        /\ UNCHANGED <<pointer, walk, readFaults, late, fresh>>

\* Any message may be acked, an older one than before too.
AckMessage(c) ==
    \E i \in Id :
        /\ log[c][i] = "live"
        /\ pointer' = [pointer EXCEPT ![c] = i]
        /\ fresh' = [fresh EXCEPT ![c] = {j \in Rows(c) : j > i}]
        /\ badge' = Disturbed
        /\ UNCHANGED <<log, walk, readFaults, late>>

-----------------------------------------------------------------------------
(* A client that shows a channel: the newest messages first, then on, page   *)
(* by page, towards the older ones or the newer ones.                        *)

OpenChannel(c) ==
    \E dir \in {"before", "after"}, asked \in 0..(MaxLimit + 1) :
        LET limit == Clamp(asked)
            page == ListRecentMessages(c, limit) IN
        /\ walk.dir = "none"
        /\ walk' = IF page = {} THEN walk
                   ELSE [dir |-> dir, chan |-> c, limit |-> limit, low |-> Min(page),
                         high |-> Max(page), shown |-> page, repeated |-> FALSE,
                         ended |-> FALSE]
        /\ UNCHANGED <<log, pointer, badge, readFaults, late, fresh>>

\* ListMessages with before or after set to the client's oldest or newest message.
NextPage ==
    LET page == IF walk.dir = "before" THEN PageBefore(walk.chan, walk.low, walk.limit)
                ELSE ListMessagesAfter(walk.chan, walk.high, walk.limit) IN
    /\ walk.dir # "none"
    /\ walk' = IF page = {} THEN [walk EXCEPT !.ended = TRUE]
               ELSE [walk EXCEPT !.low = IF walk.dir = "before" THEN Min(page) ELSE @,
                                 !.high = IF walk.dir = "after" THEN Max(page) ELSE @,
                                 !.repeated = @ \/ page \cap walk.shown # {},
                                 !.shown = @ \cup page,
                                 !.ended = FALSE]
    /\ UNCHANGED <<log, pointer, badge, readFaults, late, fresh>>

-----------------------------------------------------------------------------
(* GetUnreadCounts: one query per step.                                      *)

Badge(b) ==
    /\ badge' = b
    /\ UNCHANGED <<log, pointer, walk, readFaults, late, fresh>>

GetUnreadCounts ==
    /\ badge.pc \in {"idle", "done"}
    /\ Badge([NoBadge EXCEPT !.pc = "GetUserReadStates"])

Opened(p) == {c \in Channel : p[c] # NoState}

GetUserReadStates ==
    /\ badge.pc = "GetUserReadStates"
    /\ Badge([badge EXCEPT !.pc = "CountUnreadMessages", !.pointers = pointer,
                           !.todo = Opened(pointer)])

\* The channel is done with when it has nothing unread, or once its previews are read.
Counted(c, rows, next) ==
    LET unread == Undeleted(c, rows) IN
    IF unread = {} THEN [badge EXCEPT !.todo = @ \ {c}]
    ELSE [badge EXCEPT !.pc = next, !.count[c] = Cardinality(unread), !.last[c] = Max(unread)]

CountUnreadMessages ==
    /\ badge.pc = "CountUnreadMessages"
    /\ \E c \in badge.todo :
        Badge(Counted(c, Countunreadmessages(c, badge.pointers[c]), "ListMessagesAfter"))

Previewed(c, rows, next) ==
    [badge EXCEPT !.recent[c] = rows, !.pc = next, !.todo = @ \ {c}]

ListAfter ==
    /\ badge.pc = "ListMessagesAfter"
    /\ \E c \in {d \in badge.todo : badge.count[d] > 0} :
        Badge(Previewed(c, ListMessagesAfter(c, badge.pointers[c], Preview),
                        "CountUnreadMessages"))

\* Mutant: the DMs the read states stand for are counted again.
AllDMs ==
    /\ badge.pc = "CountUnreadMessages"
    /\ badge.todo = {}
    /\ Badge([badge EXCEPT !.pc = "CountAllMessages", !.todo = DMs])

\* The DM channels without a read state are counted in full.
GetUserDMChannelIDs ==
    /\ badge.pc = "CountUnreadMessages"
    /\ badge.todo = {}
    /\ Badge([badge EXCEPT !.pc = "CountAllMessages", !.todo = DMs \ Opened(badge.pointers)])

CountAllMessages ==
    /\ badge.pc = "CountAllMessages"
    /\ \E c \in badge.todo : Badge(Counted(c, Countallmessages(c), "ListRecentMessages"))

ListRecent ==
    /\ badge.pc = "ListRecentMessages"
    /\ \E c \in {d \in badge.todo : badge.count[d] > 0} :
        Badge(Previewed(c, ListRecentMessages(c, Preview), "CountAllMessages"))

ReturnUnread ==
    /\ badge.pc = "CountAllMessages"
    /\ badge.todo = {}
    /\ Badge([badge EXCEPT !.pc = "done"])

\* A query of GetUnreadCounts fails: what it was for is left out of the answer.
QueryFails ==
    /\ readFaults < MaxReadFaults
    /\ readFaults' = readFaults + 1
    /\ \/ /\ badge.pc = "GetUserReadStates"
          /\ badge' = [badge EXCEPT !.pc = "CountUnreadMessages", !.clean = FALSE]
       \/ \E c \in badge.todo :
            /\ badge.pc \in {"CountUnreadMessages", "CountAllMessages"}
            /\ badge' = [badge EXCEPT !.todo = @ \ {c}, !.clean = FALSE]
       \/ /\ badge.pc = "ListMessagesAfter"
          /\ \E c \in {d \in badge.todo : badge.count[d] > 0} :
                badge' = Previewed(c, {}, "CountUnreadMessages")
       \/ /\ badge.pc = "ListRecentMessages"
          /\ \E c \in {d \in badge.todo : badge.count[d] > 0} :
                badge' = Previewed(c, {}, "CountAllMessages")
       \/ /\ badge.pc = "CountUnreadMessages" /\ badge.todo = {}
          /\ badge' = [badge EXCEPT !.pc = "done", !.clean = FALSE]
    /\ UNCHANGED <<log, pointer, walk, late, fresh>>

ReadNext ==
    \/ \E c \in Channel : TakeId(c) \/ StoreMessage(c) \/ Delete(c) \/ AckMessage(c)
                          \/ OpenChannel(c)
    \/ NextPage \/ GetUnreadCounts \/ GetUserReadStates \/ CountUnreadMessages \/ ListAfter
    \/ GetUserDMChannelIDs \/ CountAllMessages \/ ListRecent \/ ReturnUnread \/ QueryFails

ReadSpec == ReadInit /\ [][ReadNext]_readVars

-----------------------------------------------------------------------------

LiveIn(c) == {i \in Id : log[c][i] = "live"}

\* Whatever is sent and deleted while a client pages through a channel, it is shown no
\* message twice and misses none between the oldest and the newest it shows, unless the
\* message was stored after one with a higher id; and an empty page towards the older
\* ones leaves out only messages that 2 * limit deleted ones hide.
PagesLeaveNoGap ==
    walk.dir # "none" =>
        /\ ~walk.repeated
        /\ \A i \in LiveIn(walk.chan) \ late[walk.chan] :
            /\ walk.low <= i /\ i <= walk.high => i \in walk.shown
            /\ walk.ended /\ walk.dir = "before" /\ i < walk.low =>
                Cardinality({j \in i..walk.low : log[walk.chan][j] = "deleted"})
                    >= 2 * walk.limit

\* A GetUnreadCounts that nothing overlapped counts, in every channel of the user's with a
\* read state and in every DM, the messages stored since the last ack or above it, but
\* possibly for ones stored after one with a higher id; it names the newest, and
\* previews only such messages.
UnreadExact ==
    badge.pc = "done" /\ badge.clean =>
        \A c \in Opened(badge.pointers) \cup DMs :
            LET unread == fresh[c] \cap LiveIn(c) IN
            /\ badge.count[c] \in Cardinality(unread \ late[c])..Cardinality(unread)
            /\ \A i \in unread \ late[c] : i <= badge.last[c]
            /\ badge.recent[c] \subseteq unread
=============================================================================
