------------------------------ MODULE Messages ------------------------------
(***************************************************************************)
(* The messages of one guild channel: internal/features/message.           *)
(*                                                                         *)
(* An RPC is a sequence of Scylla statements and every statement is a step *)
(* of its own: nothing in the code makes two of them atomic.  A statement  *)
(* is atomic, and one emoji stands for all of them.  An UPDATE of an id    *)
(* that has no row makes one, of the columns it sets.                      *)
(*                                                                         *)
(* view is what a client that has been subscribed all along shows: each    *)
(* published event replaces its copy of the message.                       *)
(***************************************************************************)
EXTENDS Naturals, FiniteSets

CONSTANTS
    User,           \* their ids, in the order in which Scylla sorts them
    Message, Content, Worker,
    Manager,        \* the users CanManageChannel holds for
    Ops,            \* the RPCs clients call in this instance
    None,
    MaxFaults       \* bound: how many store calls fail

MessageOps == {"SendMessage", "EditMessage", "DeleteMessage", "PinMessage", "UnpinMessage",
               "AddReaction", "RemoveReaction", "AckMessage", "BulkDeleteMessages"}

ASSUME MessagesConstants ==
    /\ User \subseteq Nat /\ IsFiniteSet(User)
    /\ Manager \subseteq User
    /\ Ops \subseteq MessageOps
    /\ None \notin User \cup Message \cup Content
    /\ MaxFaults \in Nat

VARIABLES
    row,            \* messages
    attached,       \* message_attachments: the messages that have some
    reactions,      \* message_reactions: who has reacted
    edits,          \* message_edit_history: the old contents
    readState,      \* read_states
    view,           \* what a subscribed client shows
    rpc,            \* the running RPC of each worker
    faults,         \* store calls that have failed so far
    written,        \* history: every content a message has had
    due,            \* history: what each user's read state stands for
    purged,         \* history: the messages BulkDeleteMessages has deleted
    serial          \* history: no two RPCs have overlapped

tables == <<row, attached, reactions, edits, readState>>
history == <<written, due, purged>>
vars == <<tables, view, rpc, faults, history, serial>>

\* stored: the table has the row.  A row an UPDATE has made has no author.
Row == [stored : BOOLEAN, author : User \cup {None}, content : Content \cup {None}, deleted : BOOLEAN,
        pinned : BOOLEAN, replyTo : Message \cup {None}, source : Message \cup {None}]

ReadState == [last : Message \cup {None}, mentions : Nat]

\* count and names: how many have reacted, and the list of them, in which None stands for
\* empty strings.
View == [shown : BOOLEAN, content : Content \cup {None}, pinned : BOOLEAN,
         count : Nat, names : SUBSET (User \cup {None})]

Calls == {"idle", "GetSource", "GetSourceAttachments", "GetParent", "CreateMessage",
          "AddMessageAttachment", "GetReadState", "IncrementMentionCount", "GetMessage",
          "UpdateMessageContent", "SaveEditHistory", "DeleteMessage", "DeleteAttachments",
          "DeleteReactions", "DeleteEditHistory", "SetPinned", "WriteReaction",
          "UpsertReadState", "BulkDelete", "GetReactions", "Publish"}

Request == [op : MessageOps \cup {"none"}, pc : Calls, user : User \cup {None},
            msg : Message \cup {None}, reply : Message \cup {None},
            source : Message \cup {None}, ids : SUBSET Message,
            text : Content \cup {None}, att : BOOLEAN, mention : User \cup {None},
            old : Content \cup {None}, state : ReadState, event : View]

MessagesTypeOK ==
    /\ row \in [Message -> Row]
    /\ attached \subseteq Message
    /\ reactions \in [Message -> SUBSET User]
    /\ edits \in [Message -> SUBSET (Content \cup {None})]
    /\ readState \in [User -> ReadState]
    /\ view \in [Message -> View]
    /\ rpc \in [Worker -> Request]
    /\ faults \in Nat
    /\ written \in [Message -> SUBSET (Content \cup {None})]
    /\ due \in [User -> ReadState]
    /\ purged \subseteq Message

NoRow == [stored |-> FALSE, author |-> None, content |-> None, deleted |-> FALSE,
          pinned |-> FALSE, replyTo |-> None, source |-> None]

Unread == [last |-> None, mentions |-> 0]

Hidden == [shown |-> FALSE, content |-> None, pinned |-> FALSE, count |-> 0, names |-> {}]

Idle == [op |-> "none", pc |-> "idle", user |-> None, msg |-> None, reply |-> None,
         source |-> None, ids |-> {}, text |-> None, att |-> FALSE, mention |-> None,
         old |-> None, state |-> Unread, event |-> Hidden]

Init ==
    /\ row = [m \in Message |-> NoRow]
    /\ attached = {}
    /\ reactions = [m \in Message |-> {}]
    /\ edits = [m \in Message |-> {}]
    /\ readState = [u \in User |-> Unread]
    /\ view = [m \in Message |-> Hidden]
    /\ rpc = [w \in Worker |-> Idle]
    /\ faults = 0
    /\ written = [m \in Message |-> {}]
    /\ due = [u \in User |-> Unread]
    /\ purged = {}
    /\ serial = TRUE

-----------------------------------------------------------------------------

Stored == {m \in Message : row[m].stored}

\* The messages SendMessage has stored.
Sent == {m \in Message : row[m].author # None}

\* GetMessage finds a row that is not deleted, whoever made it.
Live(m) == m \in Stored /\ ~row[m].deleted

Goto(w, pc) == rpc' = [rpc EXCEPT ![w].pc = pc]

Return(w) == rpc' = [rpc EXCEPT ![w] = Idle]

Proceed(w, ok, pc) == IF ok THEN Goto(w, pc) ELSE Return(w)

Read == UNCHANGED <<tables, view, faults, history>>

AfterSource(r) == IF r.reply # None THEN "GetParent" ELSE "CreateMessage"

Entry(r) ==
    CASE r.op = "SendMessage" -> IF r.source # None THEN "GetSource" ELSE AfterSource(r)
      [] r.op \in {"PinMessage", "UnpinMessage"} -> "SetPinned"
      [] r.op = "AckMessage" -> "UpsertReadState"
      [] r.op = "BulkDeleteMessages" -> "BulkDelete"
      [] OTHER -> "GetMessage"

Send(u, p, s, t, a, v) ==
    [Idle EXCEPT !.op = "SendMessage", !.user = u, !.reply = p, !.source = s, !.text = t,
                 !.att = t = None \/ a, !.mention = v]

Bulk(u, ids) == [Idle EXCEPT !.op = "BulkDeleteMessages", !.user = u, !.ids = ids]

\* An RPC on message m; only an edit has a text.
About(op, u, m, t) == [Idle EXCEPT !.op = op, !.user = u, !.msg = m, !.text = t]

\* What a client may put in a request.  Any id, stored or not; a send without a text has
\* an attachment; dedupMentions leaves out the author.
Inputs(op, u) ==
    CASE op = "SendMessage" ->
            {Send(u, p, s, t, a, v) :
                p \in Message \cup {None}, s \in Message \cup {None}, t \in Content \cup {None},
                a \in BOOLEAN, v \in (User \ {u}) \cup {None}}
      [] op = "BulkDeleteMessages" -> {Bulk(u, ids) : ids \in SUBSET Message \ {{}}}
      [] op = "EditMessage" -> {About(op, u, m, t) : m \in Message, t \in Content}
      [] OTHER -> {About(op, u, m, None) : m \in Message}

\* A request reaches a free worker.  The permissions to send, attach, pin and react
\* are those of Authz and have been granted.
Call(w) ==
    /\ rpc[w].pc = "idle"
    /\ \E op \in Ops, u \in User : \E r \in Inputs(op, u) :
        rpc' = [rpc EXCEPT ![w] = [r EXCEPT !.pc = Entry(r)]]
    /\ Read

-----------------------------------------------------------------------------
(* SendMessage.                                                              *)

\* The step dereferences a null column of a row that SendMessage has not stored: the
\* author of a forwarded message, or the content or the type of one to be published.
Dereferences(r) ==
    \/ r.pc = "GetSource" /\ Live(r.source) /\ r.source \notin Sent
    \/ r.pc = "GetReactions" /\ r.msg \notin Sent

\* Nothing recovers: the process ends, and every RPC with it.
Panic(w) ==
    /\ Dereferences(rpc[w])
    /\ rpc' = [v \in Worker |-> Idle]
    /\ Read

\* An empty text is replaced by the source's.
GetSource(w) ==
    /\ rpc[w].pc = "GetSource"
    /\ ~Dereferences(rpc[w])
    /\ LET s == rpc[w].source IN
        IF Live(s)
        THEN rpc' = [rpc EXCEPT ![w].text = IF @ = None THEN row[s].content ELSE @,
                                ![w].pc = "GetSourceAttachments"]
        ELSE Return(w)
    /\ Read

\* The forwarded copies are added along with the sender's own attachments.
GetSourceAttachments(w) ==
    /\ rpc[w].pc = "GetSourceAttachments"
    /\ rpc' = [rpc EXCEPT ![w].att = @ \/ rpc[w].source \in attached,
                          ![w].pc = AfterSource(rpc[w])]
    /\ Read

GetParent(w) ==
    /\ rpc[w].pc = "GetParent"
    /\ Proceed(w, Live(rpc[w].reply), "CreateMessage")
    /\ Read

AfterAttachments(r) == IF r.mention # None THEN "GetReadState" ELSE "GetReactions"

AfterCreate(r) == IF r.att THEN "AddMessageAttachment" ELSE AfterAttachments(r)

CreateMessage(w) ==
    /\ rpc[w].pc = "CreateMessage"
    /\ LET r == rpc[w] IN
        \E m \in Message \ Stored :
            /\ row' = [row EXCEPT ![m] = [NoRow EXCEPT !.stored = TRUE, !.author = r.user,
                                            !.content = r.text, !.replyTo = r.reply, !.source = r.source]]
            /\ written' = [written EXCEPT ![m] = {r.text}]
            /\ rpc' = [rpc EXCEPT ![w].msg = m, ![w].pc = AfterCreate(r),
                                  ![w].event = [Hidden EXCEPT !.shown = TRUE,
                                                              !.content = r.text]]
    /\ UNCHANGED <<attached, reactions, edits, readState, view, faults, due, purged>>

\* Bound: no message id of the instance is left.
Full(w) ==
    /\ rpc[w].pc = "CreateMessage"
    /\ Stored = Message
    /\ Return(w)
    /\ Read

AddMessageAttachment(w) ==
    /\ rpc[w].pc = "AddMessageAttachment"
    /\ attached' = attached \cup {rpc[w].msg}
    /\ Goto(w, AfterAttachments(rpc[w]))
    /\ UNCHANGED <<row, reactions, edits, readState, view, faults, history>>

\* IncrementMentionCount is a read and a write of the whole row.  Where there is none yet
\* the read gives zeroes.
GetReadState(w) ==
    /\ rpc[w].pc = "GetReadState"
    /\ rpc' = [rpc EXCEPT ![w].state = readState[rpc[w].mention],
                          ![w].pc = "IncrementMentionCount"]
    /\ Read

\* Mutant: the row is written without the pointer that was read.
IncrementForgets(w) ==
    /\ rpc[w].pc = "IncrementMentionCount"
    /\ LET r == rpc[w] IN
        /\ readState' = [readState EXCEPT ![r.mention] =
                            [last |-> None, mentions |-> r.state.mentions + 1]]
        /\ due' = [due EXCEPT ![r.mention].mentions = @ + 1]
    /\ Goto(w, "GetReactions")
    /\ UNCHANGED <<row, attached, reactions, edits, view, faults, written, purged>>

\* The zero UUID of a user who has acked nothing goes into a TIMEUUID column: the store
\* takes it, or refuses the row.
IncrementMentionCount(w) ==
    /\ rpc[w].pc = "IncrementMentionCount"
    /\ LET r == rpc[w] IN
        /\ \/ readState' = [readState EXCEPT ![r.mention] =
                                [r.state EXCEPT !.mentions = @ + 1]]
           \/ r.state.last = None /\ readState' = readState
        /\ due' = [due EXCEPT ![r.mention].mentions = @ + 1]
    /\ Goto(w, "GetReactions")
    /\ UNCHANGED <<row, attached, reactions, edits, view, faults, written, purged>>

-----------------------------------------------------------------------------
(* EditMessage, DeleteMessage, setPinned, toggleReaction.                    *)

\* The author edits within EditWindow (inTime); anybody else needs ManageChannel.
Permitted(r, inTime) ==
    LET own == r.user = row[r.msg].author IN
    CASE r.op = "EditMessage" -> IF own THEN inTime ELSE r.user \in Manager
      [] r.op = "DeleteMessage" -> own \/ r.user \in Manager
      [] OTHER -> TRUE

AfterGet(op) ==
    CASE op = "EditMessage" -> "UpdateMessageContent"
      [] op = "DeleteMessage" -> "DeleteMessage"
      [] op \in {"AddReaction", "RemoveReaction"} -> "WriteReaction"
      [] OTHER -> "GetReactions"

\* setPinned reads the message after its write, the others before.
GetMessage(w) ==
    /\ rpc[w].pc = "GetMessage"
    /\ LET r == rpc[w] IN
        \E inTime \in BOOLEAN :
            IF Live(r.msg) /\ Permitted(r, inTime)
            THEN rpc' = [rpc EXCEPT ![w].old = row[r.msg].content,
                                    ![w].pc = AfterGet(r.op),
                                    ![w].event = [shown |-> r.op # "DeleteMessage",
                                                  content |-> row[r.msg].content,
                                                  pinned |-> row[r.msg].pinned,
                                                  count |-> 0, names |-> {}]]
            ELSE Return(w)
    /\ Read

\* Mutant: the whole message that was read is written back.
UpdateWholeRow(w) ==
    /\ rpc[w].pc = "UpdateMessageContent"
    /\ LET r == rpc[w] IN
        /\ row' = [row EXCEPT ![r.msg].content = r.text, ![r.msg].deleted = FALSE]
        /\ written' = [written EXCEPT ![r.msg] = @ \cup {r.text}]
        /\ rpc' = [rpc EXCEPT ![w].event.content = r.text, ![w].pc = "SaveEditHistory"]
    /\ UNCHANGED <<attached, reactions, edits, readState, view, faults, due, purged>>

\* Deleted by now or not.
UpdateMessageContent(w) ==
    /\ rpc[w].pc = "UpdateMessageContent"
    /\ LET r == rpc[w] IN
        /\ row' = [row EXCEPT ![r.msg].content = r.text]
        /\ written' = [written EXCEPT ![r.msg] = @ \cup {r.text}]
        /\ rpc' = [rpc EXCEPT ![w].event.content = r.text, ![w].pc = "SaveEditHistory"]
    /\ UNCHANGED <<attached, reactions, edits, readState, view, faults, due, purged>>

\* Mutant: what is saved is the new text.
SaveNewContent(w) ==
    /\ rpc[w].pc = "SaveEditHistory"
    /\ edits' = [edits EXCEPT ![rpc[w].msg] = @ \cup {rpc[w].text}]
    /\ Goto(w, "GetReactions")
    /\ UNCHANGED <<row, attached, reactions, readState, view, faults, history>>

\* The content read before the update.
SaveEditHistory(w) ==
    /\ rpc[w].pc = "SaveEditHistory"
    /\ edits' = [edits EXCEPT ![rpc[w].msg] = @ \cup {rpc[w].old}]
    /\ Goto(w, "GetReactions")
    /\ UNCHANGED <<row, attached, reactions, readState, view, faults, history>>

DeleteMessage(w) ==
    /\ rpc[w].pc = "DeleteMessage"
    /\ row' = [row EXCEPT ![rpc[w].msg].deleted = TRUE]
    /\ Goto(w, "DeleteAttachments")
    /\ UNCHANGED <<attached, reactions, edits, readState, view, faults, history>>

\* CascadeDeleteChildren, in its order.
DeleteAttachments(w) ==
    /\ rpc[w].pc = "DeleteAttachments"
    /\ attached' = attached \ {rpc[w].msg}
    /\ Goto(w, "DeleteReactions")
    /\ UNCHANGED <<row, reactions, edits, readState, view, faults, history>>

\* Mutant: the reactions outlive their message.
KeepReactions(w) ==
    /\ rpc[w].pc = "DeleteReactions"
    /\ Goto(w, "DeleteEditHistory")
    /\ Read

DeleteReactions(w) ==
    /\ rpc[w].pc = "DeleteReactions"
    /\ reactions' = [reactions EXCEPT ![rpc[w].msg] = {}]
    /\ Goto(w, "DeleteEditHistory")
    /\ UNCHANGED <<row, attached, edits, readState, view, faults, history>>

DeleteEditHistory(w) ==
    /\ rpc[w].pc = "DeleteEditHistory"
    /\ edits' = [edits EXCEPT ![rpc[w].msg] = {}]
    /\ Goto(w, "GetReactions")
    /\ UNCHANGED <<row, attached, reactions, readState, view, faults, history>>

\* The update comes before the message is looked up, so it may make a row.
SetPinned(w) ==
    /\ rpc[w].pc = "SetPinned"
    /\ row' = [row EXCEPT ![rpc[w].msg].pinned = rpc[w].op = "PinMessage",
                          ![rpc[w].msg].stored = TRUE]
    /\ Goto(w, "GetMessage")
    /\ UNCHANGED <<attached, reactions, edits, readState, view, faults, history>>

WriteReaction(w) ==
    /\ rpc[w].pc = "WriteReaction"
    /\ LET r == rpc[w] IN
        reactions' = [reactions EXCEPT ![r.msg] =
                        IF r.op = "AddReaction" THEN @ \cup {r.user} ELSE @ \ {r.user}]
    /\ Goto(w, "GetReactions")
    /\ UNCHANGED <<row, attached, edits, readState, view, faults, history>>

\* Those of all who have reacted, in the order of their ids, as far as the author
\* me of the message, where the loop breaks off; before them as many empty strings.
Names(all, me) ==
    {u \in all : me \in all => u <= me} \cup (IF all = {} THEN {} ELSE {None})

NamesOf(m) == Names(reactions[m], row[m].author)

\* Mutant: the event carries the caller's own reaction only.
SnapshotOwn(w) ==
    /\ rpc[w].pc = "GetReactions"
    /\ ~Dereferences(rpc[w])
    /\ rpc' = [rpc EXCEPT ![w].event.names = NamesOf(rpc[w].msg) \cap {rpc[w].user},
                          ![w].event.count = Cardinality(reactions[rpc[w].msg]),
                          ![w].pc = "Publish"]
    /\ Read

\* buildMessageEvent: the copy read earlier, with the reactions of now.
GetReactions(w) ==
    /\ rpc[w].pc = "GetReactions"
    /\ ~Dereferences(rpc[w])
    /\ rpc' = [rpc EXCEPT ![w].event.names = NamesOf(rpc[w].msg),
                          ![w].event.count = Cardinality(reactions[rpc[w].msg]),
                          ![w].event.pinned = IF rpc[w].op = "PinMessage" THEN TRUE
                                              ELSE IF rpc[w].op = "UnpinMessage" THEN FALSE
                                              ELSE @,
                          ![w].pc = "Publish"]
    /\ Read

Publish(w) ==
    /\ rpc[w].pc = "Publish"
    /\ view' = [view EXCEPT ![rpc[w].msg] =
                    IF rpc[w].event.shown THEN rpc[w].event ELSE Hidden]
    /\ Return(w)
    /\ UNCHANGED <<tables, faults, history>>

-----------------------------------------------------------------------------
(* AckMessage, BulkDeleteMessages.                                           *)

\* The read receipt that follows changes no message.
UpsertReadState(w) ==
    /\ rpc[w].pc = "UpsertReadState"
    /\ LET read == [last |-> rpc[w].msg, mentions |-> 0] IN
        /\ readState' = [readState EXCEPT ![rpc[w].user] = read]
        /\ due' = [due EXCEPT ![rpc[w].user] = read]
    /\ Return(w)
    /\ UNCHANGED <<row, attached, reactions, edits, view, faults, written, purged>>

\* One id after the other, whether it has a row or not; no cascade and no event.
BulkDelete(w) ==
    /\ rpc[w].pc = "BulkDelete"
    /\ \E m \in rpc[w].ids :
        /\ row' = [row EXCEPT ![m].deleted = TRUE, ![m].stored = TRUE]
        /\ purged' = IF row[m].deleted THEN purged ELSE purged \cup {m}
        /\ IF rpc[w].ids = {m} THEN Return(w)
           ELSE rpc' = [rpc EXCEPT ![w].ids = @ \ {m}]
    /\ UNCHANGED <<attached, reactions, edits, readState, view, faults, written, due>>

-----------------------------------------------------------------------------

\* Where an RPC goes on to after a call whose error it ignores.
OnError(r) ==
    CASE r.pc = "GetSourceAttachments" -> AfterSource(r)
      [] r.pc = "AddMessageAttachment" -> AfterAttachments(r)
      [] r.pc \in {"GetReadState", "IncrementMentionCount", "SaveEditHistory",
                   "DeleteEditHistory"} -> "GetReactions"
      [] r.pc = "DeleteAttachments" -> "DeleteReactions"
      [] r.pc = "DeleteReactions" -> "DeleteEditHistory"
      [] r.pc = "GetReactions" -> "Publish"
      [] OTHER -> "idle"

\* A store call, or the publication, fails.
CallFails(w) ==
    /\ rpc[w].pc # "idle" /\ ~Dereferences(rpc[w])
    /\ faults < MaxFaults
    /\ faults' = faults + 1
    /\ IF rpc[w].pc = "BulkDelete" /\ Cardinality(rpc[w].ids) > 1
       THEN \E m \in rpc[w].ids : rpc' = [rpc EXCEPT ![w].ids = @ \ {m}]
       ELSE Proceed(w, OnError(rpc[w]) # "idle", OnError(rpc[w]))
    /\ UNCHANGED <<tables, view, history>>

Step(w) ==
    \/ GetSource(w) \/ GetSourceAttachments(w) \/ GetParent(w) \/ CreateMessage(w) \/ Full(w)
    \/ AddMessageAttachment(w) \/ GetReadState(w) \/ IncrementMentionCount(w)
    \/ GetMessage(w) \/ UpdateMessageContent(w) \/ SaveEditHistory(w) \/ DeleteMessage(w)
    \/ DeleteAttachments(w) \/ DeleteReactions(w) \/ DeleteEditHistory(w) \/ SetPinned(w)
    \/ WriteReaction(w) \/ GetReactions(w) \/ Publish(w) \/ UpsertReadState(w)
    \/ BulkDelete(w)

OneAtATime == \A v, w \in Worker : rpc[v].pc # "idle" /\ rpc[w].pc # "idle" => v = w

Next ==
    /\ \E w \in Worker : Call(w) \/ Step(w) \/ CallFails(w) \/ Panic(w)
    /\ serial' = (serial /\ OneAtATime')

Spec == Init /\ [][Next]_vars

-----------------------------------------------------------------------------

\* Whatever the interleaving, and whichever calls fail, a deleted message stays deleted:
\* no edit or pin that read it before brings it back.
NoResurrection == [][\A m \in Message : row[m].deleted => row'[m].deleted]_vars

\* RPCs have not overlapped, no call has failed and none is running.
AtRest == serial /\ faults = 0 /\ \A w \in Worker : rpc[w].pc = "idle"

\* Between RPCs, the tables that belong to a message agree with it: its edit timeline
\* holds every content it has had but the present one, and a message DeleteMessage has
\* deleted has left no attachment, reaction or edit behind.
ChildrenAgree ==
    AtRest => \A m \in Stored \ purged :
        /\ Live(m) => written[m] \subseteq edits[m] \cup {row[m].content}
        /\ row[m].deleted => m \notin attached /\ reactions[m] = {} /\ edits[m] = {}

\* Between RPCs, a subscribed client shows every message that was sent as it is stored,
\* but for those of a bulk delete, and nothing of a row that an UPDATE has made; it shows
\* how many have reacted, and, unless the author is one of them, who.
ViewAgrees ==
    AtRest => \A m \in Message \ purged :
        IF m \in Sent /\ Live(m)
        THEN /\ view[m].shown /\ view[m].content = row[m].content
             /\ view[m].pinned = row[m].pinned
             /\ view[m].count = Cardinality(reactions[m])
             /\ row[m].author \notin reactions[m] => view[m].names \ {None} = reactions[m]
        ELSE view[m] = Hidden

\* With RPCs that do not overlap, the read state of every user who has acked a message has
\* the last one acked and counts the mentions since.
BadgeExact ==
    serial /\ faults = 0 => \A u \in User : due[u].last # None => readState[u] = due[u]
=============================================================================
