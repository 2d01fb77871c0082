------------------------------ MODULE Presence ------------------------------
(***************************************************************************)
(* Presence of one user as the server keeps it and as one friend sees it:  *)
(* the presence:<user> hash of internal/features/presence/service.go, the  *)
(* OnUserConnect / OnUserDisconnect hooks around StreamFriendActivity, the *)
(* users.status intent of internal/features/user, and the friend's own     *)
(* StreamFriendActivity, which MultiSubscribe (internal/shared/realtime)   *)
(* feeds from NATS after replaying the last event it cached in Redis.      *)
(*                                                                         *)
(* Every hash write and every publication is a step of its own.  NATS      *)
(* keeps the order of one subject and forgets what nobody subscribes to.   *)
(***************************************************************************)
EXTENDS Naturals, Sequences, FiniteSets

CONSTANTS
    Session,        \* the user's StreamFriendActivity streams
    Worker,         \* the RPCs of the user that can run at once
    Ops,            \* the RPCs the user calls in this instance
    Choice,         \* the statuses the user picks from
    MaxBusy,        \* bound: hooks and RPCs that overlap
    MaxInFlight,    \* bound: published events the friend has not read
    MaxFaults,      \* bound: store calls that fail
    MaxCrashes      \* bound: crashes of the server

Status == {"online", "idle", "dnd", "offline"}

\* UploadAvatar does to presence what UpdateUsername does.
PresenceOps == {"UpdatePresence", "Logout", "UpdateStatus", "UpdateUser", "UpdateUsername"}

ASSUME PresenceConstants ==
    /\ Session \cap Worker = {}
    /\ Ops \subseteq PresenceOps
    /\ MaxBusy \in Nat
    /\ MaxInFlight \in Nat
    /\ MaxFaults \in Nat
    /\ MaxCrashes \in Nat

VARIABLES
    intent,     \* users.status in Postgres: free text
    live,       \* the status field of the Redis hash, "absent" before the first HSET
    job,        \* what each stream or RPC of the user is doing
    friend,     \* the friend's stream: how far MultiSubscribe got
    listening,  \* whether the user's subject is among those of the friend's stream
    inbox,      \* published events on their way to the friend, oldest first
    cache,      \* the last event cached under the friend's subject list
    caching,    \* an event delivered and not yet cached
    seen,       \* what the friend's client shows, and how it learnt it
    faults, crashes,
    unsettled,  \* history: since a disconnect hook last wrote offline, a stream has
                \*          ended without such a write or UpdatePresence has written
    serial,     \* history: OneAtATime has held so far
    orderly     \* history: PicksAlone has held so far

server == <<intent, live, job>>
stream == <<friend, listening, inbox, cache, caching, seen>>
history == <<faults, crashes, unsettled>>
vars == <<server, stream, history, serial, orderly>>

Actor == Session \cup Worker

\* The status of a FriendActivityEvent, and where it was taken from: the hash, users.status,
\* or nowhere, when the field is left unset.
Event == [status : Status \cup {"unspecified"}, from : {"hash", "users", "unset"}]

NoActivity == [status |-> "none", from |-> "unset"]

PresenceTypeOK ==
    /\ intent \in Status \cup Choice
    /\ live \in Status \cup {"absent"}
    /\ job \in [Actor ->
            [op : PresenceOps \cup {"none", "OnUserConnect", "OnUserDisconnect"},
             pc : {"idle", "GetStatusIntent", "UpdateUser", "HSet", "Publish", "open"},
             status : Status \cup Choice \cup {"unspecified", "kept", "none"}]]
    /\ friend \in {"closed", "Replay", "Subscribe", "open"}
    /\ listening \in BOOLEAN
    /\ inbox \in Seq(Event) /\ Len(inbox) <= MaxInFlight
    /\ cache \in Event \cup {NoActivity}
    /\ caching \in Event \cup {NoActivity}
    /\ seen \in [status : Status \cup {"unspecified", "none"},
                 via : {"none", "replay", "event", "intent", "read"}]
    /\ faults \in 0..MaxFaults
    /\ crashes \in 0..MaxCrashes
    /\ unsettled \in BOOLEAN
    /\ serial \in BOOLEAN
    /\ orderly \in BOOLEAN

Idle == [op |-> "none", pc |-> "idle", status |-> "none"]

Unknown == [status |-> "none", via |-> "none"]

\* A new account: the column default of users.status is 'offline', CreateUser
\* does not name the column, and no hash exists.
Init ==
    /\ intent = "offline"
    /\ live = "absent"
    /\ job = [a \in Actor |-> Idle]
    /\ friend = "closed"
    /\ listening = FALSE
    /\ inbox = <<>>
    /\ cache = NoActivity
    /\ caching = NoActivity
    /\ seen = Unknown
    /\ faults = 0
    /\ crashes = 0
    /\ unsettled = FALSE
    /\ serial = TRUE
    /\ orderly = TRUE

-----------------------------------------------------------------------------
(* Conversions between the four spellings of a status.                     *)

\* stringToStatus over what GetStatusIntent returns: the hash gets "online" for a
\* blank or unknown text.
StatusOf(text) == IF text \in Status THEN text ELSE "online"

\* presenceStatusFromString: the event gets UNSPECIFIED instead.
StreamStatusOf(text) == IF text \in Status THEN text ELSE "unspecified"

\* GetPresence and GetLiveStatus: no hash reads as offline.
View(hash) == IF hash = "absent" THEN "offline" ELSE hash

-----------------------------------------------------------------------------
(* The user's streams and RPCs.                                            *)

Busy == {a \in Actor : job[a].pc \notin {"idle", "open"}}

Start(a, op, pc, status) ==
    /\ job[a].pc = "idle"
    /\ Cardinality(Busy) < MaxBusy
    /\ job' = [job EXCEPT ![a] = [op |-> op, pc |-> pc, status |-> status]]

\* A connect hook is followed by the open stream, everything else by the end.
Done(a) ==
    job' = [job EXCEPT ![a] =
                IF job[a].op = "OnUserConnect" THEN [Idle EXCEPT !.pc = "open"] ELSE Idle]

Fault ==
    /\ faults < MaxFaults
    /\ faults' = faults + 1

\* StreamFriendActivity of the user: the connect hook comes first.
OpenStream(s) ==
    /\ Start(s, "OnUserConnect", "GetStatusIntent", "none")
    /\ UNCHANGED <<intent, live, stream, history>>

\* A failed lookup reads as "online".
GetStatusIntent(s) ==
    /\ job[s].pc = "GetStatusIntent"
    /\ \/ /\ job' = [job EXCEPT ![s].pc = "HSet", ![s].status = StatusOf(intent)]
          /\ UNCHANGED faults
       \/ /\ Fault
          /\ job' = [job EXCEPT ![s].pc = "HSet", ![s].status = "online"]
    /\ UNCHANGED <<intent, live, stream, crashes, unsettled>>

\* Mutant: the deferred OnUserDisconnect is missing.
CloseStreamSilently(s) ==
    /\ job[s].pc = "open"
    /\ job' = [job EXCEPT ![s] = Idle]
    /\ UNCHANGED <<intent, live, stream, history>>

\* The stream ends; its deferred hook writes offline under a fresh context.
CloseStream(s) ==
    /\ job[s].pc = "open"
    /\ Cardinality(Busy) < MaxBusy
    /\ job' = [job EXCEPT ![s] = [op |-> "OnUserDisconnect", pc |-> "HSet",
                                  status |-> "offline"]]
    /\ UNCHANGED <<intent, live, stream, history>>

\* UpdatePresence accepts the four statuses only.
UpdatePresence(w) ==
    /\ "UpdatePresence" \in Ops
    /\ \E st \in Choice \cap Status : Start(w, "UpdatePresence", "HSet", st)
    /\ UNCHANGED <<intent, live, stream, history>>

\* Logout: SetOffline, once the token is revoked.
Logout(w) ==
    /\ "Logout" \in Ops
    /\ Start(w, "Logout", "HSet", "offline")
    /\ UNCHANGED <<intent, live, stream, history>>

\* UpdateStatus and UpdateUser take any text for users.status, which UpdateUser may also
\* leave as it is, and UpdateUsername does.
UpdateStatus(w) ==
    /\ \E op \in Ops, text \in Choice \cup {"kept"} :
        /\ \/ op = "UpdateStatus" /\ text # "kept"
           \/ op = "UpdateUser"
           \/ op = "UpdateUsername" /\ text = "kept"
        /\ Start(w, op, "UpdateUser", text)
    /\ UNCHANGED <<intent, live, stream, history>>

-----------------------------------------------------------------------------
(* Store calls and publications of a running hook or RPC.                  *)

\* The intent goes to Postgres only, and from the updated row into the event: the hash is
\* left as it is.
UpdateUser(w) ==
    /\ job[w].pc = "UpdateUser"
    /\ \/ /\ intent' = IF job[w].status = "kept" THEN intent ELSE job[w].status
          /\ job' = [job EXCEPT ![w].pc = "Publish", ![w].status =
                        IF job[w].op = "UpdateUsername" THEN "unspecified"
                        ELSE StreamStatusOf(intent')]
          /\ UNCHANGED faults
       \/ /\ Fault
          /\ Done(w)
          /\ UNCHANGED intent
    /\ UNCHANGED <<live, stream, crashes, unsettled>>

\* Mutant: the event goes out even though the HSET failed.
HSetAnyway(a) ==
    /\ job[a].pc = "HSet"
    /\ job' = [job EXCEPT ![a].pc = "Publish"]
    /\ \/ live' = job[a].status /\ UNCHANGED faults
       \/ Fault /\ UNCHANGED live
    /\ unsettled' = (live' # job[a].status \/ job[a].op = "UpdatePresence"
                      \/ (unsettled /\ job[a].op # "OnUserDisconnect"))
    /\ UNCHANGED <<intent, stream, crashes>>

\* UpdatePresence in the service: a failed HSET publishes nothing, and the hooks
\* drop its error.
HSet(a) ==
    /\ job[a].pc = "HSet"
    /\ \/ /\ live' = job[a].status
          /\ job' = [job EXCEPT ![a].pc = "Publish"]
          /\ unsettled' = (job[a].op = "UpdatePresence"
                            \/ (unsettled /\ job[a].op # "OnUserDisconnect"))
          /\ UNCHANGED faults
       \/ /\ Fault
          /\ Done(a)
          /\ unsettled' = (unsettled \/ job[a].op = "OnUserDisconnect")
          /\ UNCHANGED live
    /\ UNCHANGED <<intent, stream, crashes>>

SourceOf(op) ==
    CASE op \in {"UpdateStatus", "UpdateUser"} -> "users"
      [] op = "UpdateUsername"                -> "unset"
      [] OTHER                                -> "hash"

EventOf(a) == [status |-> job[a].status, from |-> SourceOf(job[a].op)]

\* Mutant: the disconnect hook writes the hash and tells nobody.
PublishNotOnDisconnect(a) ==
    /\ job[a].pc = "Publish"
    /\ Len(inbox) < MaxInFlight
    /\ inbox' = IF friend = "open" /\ listening /\ job[a].op # "OnUserDisconnect"
                THEN Append(inbox, EventOf(a)) ELSE inbox
    /\ Done(a)
    /\ UNCHANGED <<intent, live, friend, listening, cache, caching, seen, history>>

\* publishPresence and publishFriendActivity: only a subscriber gets the event.
Publish(a) ==
    /\ job[a].pc = "Publish"
    /\ Len(inbox) < MaxInFlight
    /\ inbox' = IF friend = "open" /\ listening THEN Append(inbox, EventOf(a)) ELSE inbox
    /\ Done(a)
    /\ UNCHANGED <<intent, live, friend, listening, cache, caching, seen, history>>

\* The process dies: no deferred hook runs, and the hash has no TTL.
Crash ==
    /\ crashes < MaxCrashes
    /\ crashes' = crashes + 1
    /\ job' = [a \in Actor |-> Idle]
    /\ unsettled' = (unsettled \/ \E s \in Session : job[s] # Idle)
    /\ UNCHANGED <<intent, live, stream, faults>>

-----------------------------------------------------------------------------
(* The friend's StreamFriendActivity.                                      *)

\* What a client shows after an event; one with no status says nothing of presence.
Shown(event, via) ==
    IF event.from = "unset" THEN seen
    ELSE [status |-> event.status,
          via |-> IF via = "event" /\ event.from = "users" THEN "intent" ELSE via]

\* When the query for the friends fails, the stream is opened without their subjects.
Watch ==
    /\ friend = "closed"
    /\ friend' = "Replay"
    /\ \/ listening' = TRUE /\ UNCHANGED faults
       \/ listening' = FALSE /\ Fault
    /\ UNCHANGED <<server, inbox, cache, caching, seen, crashes, unsettled>>

\* MultiSubscribe hands the cached event, if it gets one, to the stream first; the key is
\* the list of subjects, and what other lists cache is not about the user.
Replay ==
    /\ friend = "Replay"
    /\ friend' = "Subscribe"
    /\ \/ /\ seen' = IF listening /\ cache # NoActivity THEN Shown(cache, "replay") ELSE seen
          /\ UNCHANGED faults
       \/ Fault /\ UNCHANGED seen
    /\ UNCHANGED <<server, listening, inbox, cache, caching, crashes, unsettled>>

Subscribe ==
    /\ friend = "Subscribe"
    /\ friend' = "open"
    /\ UNCHANGED <<server, listening, inbox, cache, caching, seen, history>>

\* The subscription's callback sends the event, then caches it.
Deliver ==
    /\ friend = "open"
    /\ caching = NoActivity
    /\ inbox # <<>>
    /\ seen' = Shown(Head(inbox), "event")
    /\ caching' = Head(inbox)
    /\ inbox' = Tail(inbox)
    /\ UNCHANGED <<server, friend, listening, cache, history>>

\* A failing SET leaves the older event there.
CacheEvent ==
    /\ caching # NoActivity
    /\ caching' = NoActivity
    /\ \/ cache' = caching /\ UNCHANGED faults
       \/ Fault /\ UNCHANGED cache
    /\ UNCHANGED <<server, friend, listening, inbox, seen, crashes, unsettled>>

\* Five minutes pass without an event.
CacheExpires ==
    /\ cache # NoActivity
    /\ cache' = NoActivity
    /\ UNCHANGED <<server, friend, listening, inbox, caching, seen, history>>

\* GetPresence or GetBulkPresence of the friend, once its stream is up.
ReadPresence ==
    /\ friend = "open"
    /\ seen' = [status |-> View(live), via |-> "read"]
    /\ UNCHANGED <<server, friend, listening, inbox, cache, caching, history>>

\* The friend's stream ends: unread events are gone, and the SET of the event in
\* hand fails with the stream's context.
Unwatch ==
    /\ friend # "closed"
    /\ friend' = "closed"
    /\ listening' = FALSE
    /\ inbox' = <<>>
    /\ caching' = NoActivity
    /\ seen' = Unknown
    /\ UNCHANGED <<server, cache, history>>

-----------------------------------------------------------------------------

UserStep ==
    \/ \E s \in Session : OpenStream(s) \/ GetStatusIntent(s) \/ CloseStream(s)
    \/ \E w \in Worker : UpdatePresence(w) \/ Logout(w) \/ UpdateStatus(w) \/ UpdateUser(w)
    \/ \E a \in Actor : HSet(a) \/ Publish(a)
    \/ Crash

FriendStep ==
    \/ Watch \/ Replay \/ Subscribe \/ Deliver \/ CacheEvent \/ CacheExpires
    \/ ReadPresence \/ Unwatch

Calling(op) == \E a \in Actor : job[a].op = op

NoOverlap == \A a, b \in Busy : a = b

\* Nothing overlaps, and the server is up.
OneAtATime == crashes = 0 /\ NoOverlap

\* Nothing overlaps with an UpdatePresence.
PicksAlone == Calling("UpdatePresence") => NoOverlap

Next ==
    /\ UserStep \/ FriendStep
    /\ serial' = (serial /\ OneAtATime')
    /\ orderly' = (orderly /\ PicksAlone')

Spec == Init /\ [][Next]_vars

-----------------------------------------------------------------------------
(* Properties.                                                             *)

\* Nothing is being written, published or delivered.
AtRest == Busy = {} /\ inbox = <<>>

Gone == \A s \in Session : job[s].pc = "idle"

\* Once every stream of the user has closed and nothing runs, the hash says offline
\* however the hooks of several streams overlapped, unless a disconnect write
\* failed, a crash skipped it, or UpdatePresence was called since.
GoneMeansOffline == AtRest /\ Gone /\ ~unsettled => View(live) = "offline"

\* The friend's stream has the user's subject, and what the friend heard last of the user's
\* status, if anything, was what the hash said: UpdateStatus and UpdateUser tell friends
\* what users.status says, which is not written to the hash.
Told == friend = "open" /\ listening /\ seen.via \in {"event", "read"}

\* However the writes and the publications of overlapping hooks, logouts and updates of
\* the profile are ordered, a friend who has heard of the user sees offline once every
\* stream has closed; an UpdatePresence that overlaps with a hook would break it.
GoneLooksOffline ==
    orderly /\ AtRest /\ Gone /\ ~unsettled /\ Told => seen.status = "offline"

\* While handlers do not overlap, a friend whose stream has the user's subject, and who has
\* last heard the user's presence through it, or has asked, sees what the Redis hash says
\* as soon as the server is at rest: the write and the publication of UpdatePresence
\* never drift apart, even when a write fails.
SeenIsLive == serial /\ AtRest /\ Told => seen.status = View(live)
=============================================================================
