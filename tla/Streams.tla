------------------------------ MODULE Streams -------------------------------
(***************************************************************************)
(* The server streams of internal/features/stream/handler.go but for       *)
(* StreamFriendActivity (Presence): the subjects a stream subscribes to,   *)
(* the snapshot StreamVoiceState begins with, the filter on every event    *)
(* and the replay cache of MultiSubscribe.                                 *)
(*                                                                         *)
(* One guild and its rooms; the subject of a DM stream is the user's own.  *)
(* An event tells what a room is like from now on: who is in it, say.  A   *)
(* room is on or off, and a client shows what it was told last.  The room  *)
(* is changed first, by another service, and the event published after     *)
(* that; handlers overlap, and an event may overtake an earlier one.       *)
(***************************************************************************)
EXTENDS Naturals, Sequences

CONSTANTS
    Viewer, Room,
    MaxChanges,     \* bound: how often a room changes
    MaxSkips        \* bound: how many queries fail

\* StreamVoiceState; StreamTextChannels and StreamVoiceChat; StreamTyping;
\* StreamGuildEvents; StreamDmChat, StreamDmChannels and StreamDmCalls.
Kind == {"voice", "text", "typing", "events", "dm"}

ASSUME StreamsConstants == "none" \notin Room /\ MaxChanges \in Nat /\ MaxSkips \in Nat

VARIABLES
    kind,           \* the kind of stream, the same throughout
    inGuild,        \* guild_members
    mayView,        \* the rooms CanViewChannel holds of, by user
    on,             \* the rooms that are on
    outgoing,       \* the events of changes that are still to be published
    tap,            \* the stream of each user
    replay,         \* Redis: the event cached under each subject
    screen,         \* the rooms a client shows as on
    changes, skips, \* bounds
    told,           \* history: the rooms a client has been told of and may still view,
                    \*          and of which it was denied no event since
    admitted,       \* history: the rooms a client could view at some time, or was let see
    blurred,        \* history: clients whose stream missed or was replayed something
    crossed         \* history: the rooms whose last change came before the event of
                    \*          another was published

guild == <<inGuild, mayView>>
ledger == <<told, admitted, blurred, crossed>>
streamVars == <<kind, guild, on, outgoing, tap, replay, screen, changes, skips, ledger>>

\* The streams that ask canSeeChannel.
Filtered == kind \in {"voice", "text", "typing"}

NoEvent == [room |-> "none", on |-> FALSE]

\* The subject a stream of user u listens to, which is also the key of its cache: all
\* members of the guild share one.
Subject(u) == IF kind = "dm" THEN u ELSE "guild"

Closed == [pc |-> "closed", todo |-> {}, subject |-> FALSE, mail |-> <<>>, caching |-> NoEvent]

StreamInit ==
    /\ kind \in Kind
    /\ inGuild = Viewer
    /\ mayView \in [Viewer -> SUBSET Room]
    /\ on = {}
    /\ outgoing = {}
    /\ tap = [u \in Viewer |-> Closed]
    /\ replay = [s \in Viewer \cup {"guild"} |-> NoEvent]
    /\ screen = [u \in Viewer |-> {}]
    /\ changes = 0
    /\ skips = 0
    /\ told = [u \in Viewer |-> {}]
    /\ admitted = mayView
    /\ blurred = {}
    /\ crossed = {}

-----------------------------------------------------------------------------
(* What goes on in the guild.                                                *)

\* An event about room r is still to be published.
Unpublished(r) == \E o \in outgoing : o.room = r

\* The service writes the rows first.
Change ==
    \E r \in Room :
        /\ changes < MaxChanges
        /\ changes' = changes + 1
        /\ on' = IF r \in on THEN on \ {r} ELSE on \cup {r}
        /\ outgoing' = outgoing \cup {[room |-> r, on |-> r \notin on, n |-> changes]}
        /\ crossed' = IF Unpublished(r) THEN crossed \cup {r} ELSE crossed \ {r}
        /\ UNCHANGED <<kind, guild, tap, replay, screen, skips, told, admitted, blurred>>

Opening(u) == tap[u].pc \in {"Snapshot", "Replay", "Subscribe"}

\* NATS brings the event to those subscribed now.
PublishEvent ==
    \E o \in outgoing :
        /\ outgoing' = outgoing \ {o}
        /\ tap' = [u \in Viewer |->
                    IF tap[u].pc = "open" /\ tap[u].subject
                    THEN [tap[u] EXCEPT !.mail = Append(@, [room |-> o.room, on |-> o.on])]
                    ELSE tap[u]]
        /\ blurred' = blurred \cup {u \in Viewer : Opening(u)}
        /\ UNCHANGED <<kind, guild, on, replay, screen, changes, skips, told, admitted, crossed>>

\* A role or an override changes what a user may view.
Permit ==
    \E u \in Viewer, r \in Room :
        /\ r \notin mayView[u]
        /\ mayView' = [mayView EXCEPT ![u] = @ \cup {r}]
        /\ admitted' = [admitted EXCEPT ![u] = @ \cup {r}]
        /\ UNCHANGED <<kind, inGuild, on, outgoing, tap, replay, screen, changes, skips, told,
                       blurred, crossed>>

Revoke ==
    \E u \in Viewer, r \in Room :
        /\ r \in mayView[u]
        /\ mayView' = [mayView EXCEPT ![u] = @ \ {r}]
        /\ told' = [told EXCEPT ![u] = @ \ {r}]
        /\ UNCHANGED <<kind, inGuild, on, outgoing, tap, replay, screen, changes, skips, admitted,
                       blurred, crossed>>

\* The streams of a user who leaves go on, and so does what roles still assigned allow.
LeaveGuild ==
    \E u \in inGuild : \E left \in SUBSET mayView[u] :
        /\ inGuild' = inGuild \ {u}
        /\ mayView' = [mayView EXCEPT ![u] = left]
        /\ told' = [told EXCEPT ![u] = @ \cap left]
        /\ UNCHANGED <<kind, on, outgoing, tap, replay, screen, changes, skips, admitted, blurred,
                       crossed>>

-----------------------------------------------------------------------------
(* A stream.                                                                 *)

\* Mutant: only the live events are filtered.
SeesReplayed(u, r) == ~Filtered \/ r \in mayView[u] \/ Opening(u)

\* canSeeChannel, where the stream asks it.
Sees(u, r) == ~Filtered \/ r \in mayView[u]

Draw(u, r, isOn) == screen' = [screen EXCEPT ![u] = IF isOn THEN @ \cup {r} ELSE @ \ {r}]

\* The client is told of room r, if the user may view it.
Show(u, r, isOn) ==
    /\ IF Sees(u, r) THEN Draw(u, r, isOn) /\ told' = [told EXCEPT ![u] = @ \cup {r}]
       ELSE UNCHANGED <<screen, told>>
    /\ UNCHANGED <<skips, admitted>>

\* A query fails.
Skip == skips < MaxSkips /\ skips' = skips + 1

\* A query of CanViewChannel fails.  The event is lost, but for the query of the overrides,
\* without which the permissions in the guild decide: they may grant what an override takes.
ShowUnchecked(u, r, isOn) ==
    /\ Filtered
    /\ Skip
    /\ IF r \in mayView[u] THEN UNCHANGED <<screen, admitted>>
       ELSE Draw(u, r, isOn) /\ admitted' = [admitted EXCEPT ![u] = @ \cup {r}]
    /\ told' = [told EXCEPT ![u] = @ \ {r}]

\* GetUserGuildIDs, once and for all.
Open(u) ==
    LET subject == kind = "dm" \/ u \in inGuild
        rooms == IF kind = "voice" /\ subject THEN Room ELSE {} IN
    /\ tap[u].pc = "closed"
    /\ tap' = [tap EXCEPT ![u] = [Closed EXCEPT !.subject = subject, !.todo = rooms,
                                                !.pc = IF rooms = {} THEN "Replay" ELSE "Snapshot"]]
    /\ screen' = [screen EXCEPT ![u] = {}]
    /\ told' = [told EXCEPT ![u] = {}]
    /\ admitted' = [admitted EXCEPT ![u] = mayView[u]]
    /\ blurred' = blurred \ {u}
    /\ UNCHANGED <<kind, guild, on, outgoing, replay, changes, skips, crossed>>

\* StreamTyping goes on without the guilds it failed to look up.
OpenUnresolved(u) ==
    /\ kind = "typing"
    /\ tap[u].pc = "closed"
    /\ Skip
    /\ tap' = [tap EXCEPT ![u] = [Closed EXCEPT !.pc = "Replay"]]
    /\ screen' = [screen EXCEPT ![u] = {}]
    /\ told' = [told EXCEPT ![u] = {}]
    /\ admitted' = [admitted EXCEPT ![u] = mayView[u]]
    /\ blurred' = blurred \ {u}
    /\ UNCHANGED <<kind, guild, on, outgoing, replay, changes, crossed>>

Visited(u, rooms) ==
    tap' = [tap EXCEPT ![u].todo = @ \ rooms,
                       ![u].pc = IF tap[u].todo \subseteq rooms THEN "Replay" ELSE "Snapshot"]

\* GetChannelParticipants of a room the user may view.
Snapshot(u) ==
    /\ tap[u].pc = "Snapshot"
    /\ \E r \in tap[u].todo : Show(u, r, r \in on) /\ Visited(u, {r})
    /\ UNCHANGED <<kind, guild, on, outgoing, replay, changes, blurred, crossed>>

\* A room whose query fails is passed over, and all of them when listing them fails.
SnapshotFails(u) ==
    /\ tap[u].pc = "Snapshot"
    /\ \/ \E r \in tap[u].todo : ShowUnchecked(u, r, r \in on) /\ Visited(u, {r})
       \/ /\ tap[u].todo = Room
          /\ Skip /\ Visited(u, Room)
          /\ UNCHANGED <<screen, told, admitted>>
    /\ UNCHANGED <<kind, guild, on, outgoing, replay, changes, blurred, crossed>>

\* What subscribers were last told of room r.
Published(r) == IF Unpublished(r) THEN r \notin on ELSE r \in on

\* MultiSubscribe: the cached event, if there is one and the GET succeeds, and then the
\* subscription.  A cached event that later ones have overtaken blurs the screen.
ReplayCached(u) ==
    /\ tap[u].pc = "Replay"
    /\ LET e == replay[Subject(u)] IN
        IF tap[u].subject /\ kind # "typing" /\ e # NoEvent
        THEN \/ /\ Show(u, e.room, e.on)
                /\ blurred' = IF e.on = Published(e.room) THEN blurred ELSE blurred \cup {u}
             \/ ShowUnchecked(u, e.room, e.on) /\ UNCHANGED blurred
             \/ Skip /\ UNCHANGED <<screen, told, admitted, blurred>>
        ELSE UNCHANGED <<screen, skips, told, admitted, blurred>>
    /\ tap' = [tap EXCEPT ![u].pc = "Subscribe"]
    /\ UNCHANGED <<kind, guild, on, outgoing, replay, changes, crossed>>

SubscribeAll(u) ==
    /\ tap[u].pc = "Subscribe"
    /\ tap' = [tap EXCEPT ![u].pc = "open"]
    /\ UNCHANGED <<kind, guild, on, outgoing, replay, screen, changes, skips, ledger>>

\* The callback of a subscription: one event at a time, then its copy to Redis.
DeliverEvent(u) ==
    /\ tap[u].mail # <<>>
    /\ tap[u].caching = NoEvent
    /\ LET e == Head(tap[u].mail) IN
        /\ Show(u, e.room, e.on) \/ ShowUnchecked(u, e.room, e.on)
        /\ tap' = [tap EXCEPT ![u].mail = Tail(@),
                              ![u].caching = IF kind = "typing" THEN NoEvent ELSE e]
    /\ UNCHANGED <<kind, guild, on, outgoing, replay, changes, blurred, crossed>>

\* A failing SET leaves the older event there.
CacheDelivered(u) ==
    /\ tap[u].caching # NoEvent
    /\ \/ replay' = [replay EXCEPT ![Subject(u)] = tap[u].caching] /\ UNCHANGED skips
       \/ Skip /\ UNCHANGED replay
    /\ tap' = [tap EXCEPT ![u].caching = NoEvent]
    /\ UNCHANGED <<kind, guild, on, outgoing, screen, changes, ledger>>

CachedExpires ==
    /\ \E s \in DOMAIN replay :
        /\ replay[s] # NoEvent
        /\ replay' = [replay EXCEPT ![s] = NoEvent]
    /\ UNCHANGED <<kind, guild, on, outgoing, tap, screen, changes, skips, ledger>>

\* The client goes away, or its connection does.
Close(u) ==
    /\ tap[u].pc # "closed"
    /\ tap' = [tap EXCEPT ![u] = Closed]
    /\ UNCHANGED <<kind, guild, on, outgoing, replay, screen, changes, skips, ledger>>

StreamNext ==
    \/ Change \/ PublishEvent \/ Permit \/ Revoke \/ LeaveGuild \/ CachedExpires
    \/ \E u \in Viewer :
        \/ Open(u) \/ OpenUnresolved(u) \/ Snapshot(u) \/ SnapshotFails(u) \/ ReplayCached(u)
        \/ SubscribeAll(u) \/ DeliverEvent(u) \/ CacheDelivered(u) \/ Close(u)

StreamSpec == StreamInit /\ [][StreamNext]_streamVars

-----------------------------------------------------------------------------

\* A client whose stream is up, and whose events have been delivered, shows a room it has
\* been told of, and may still view, as the room is once the events about it have been
\* published: unless one was published while the stream was being opened, between a
\* snapshot and the subscription; or a cached event was replayed that later ones had
\* overtaken; or a query of the permission failed for the last one; or two changes of the
\* room overlapped, whose events may come in either order.  Of a room the user could not
\* view since the stream was opened it shows nothing, although the members of a guild share
\* one replay cache, unless the query of the channel's overrides failed.
StreamAgrees ==
    \A u \in Viewer : tap[u].pc = "open" =>
        /\ tap[u].mail = <<>> /\ u \notin blurred =>
            \A r \in told[u] \ crossed :
                ~Unpublished(r) => (r \in screen[u] <=> r \in on)
        /\ Filtered => screen[u] \subseteq admitted[u]
=============================================================================
