----------------------------- MODULE MCMessages -----------------------------
(***************************************************************************)
(* The message feature for TLC: a channel's messages (Messages), their       *)
(* readers (Reading), or files and attachments (Media).  A behaviour is of    *)
(* one mode: of Messages, which RPCs are called, what a SendMessage carries   *)
(* besides a text, whether requests name ids of no message, how many messages *)
(* and texts there are, how many RPCs overlap and how many calls fail; of the *)
(* others, as said there.                                                     *)
(***************************************************************************)
EXTENDS Messages, Reading, Media, TLC

VARIABLE mode

Parts == {"reply", "forward", "attachment", "mention"}

MessageMode ==
    {\* Everything that can happen to a message.
     [kind |-> "messages", ops |-> MessageOps, parts |-> {"attachment"},
      stray |-> FALSE, messages |-> 1, texts |-> 2, width |-> 1, failing |-> 0],
     \* Replies, and who has read which message.
     [kind |-> "messages", ops |-> {"SendMessage", "DeleteMessage", "AckMessage"}, parts |-> {"reply", "mention"},
      stray |-> FALSE, messages |-> 2, texts |-> 1, width |-> 1, failing |-> 0],
     \* Forwards of messages with attachments; a third message finds no id.
     [kind |-> "messages", ops |-> {"SendMessage", "DeleteMessage"}, parts |-> {"reply", "forward", "attachment"},
      stray |-> FALSE, messages |-> 3, texts |-> 1, width |-> 1, failing |-> 0],
     \* Changes of one message that overlap.
     [kind |-> "messages", ops |-> {"SendMessage", "EditMessage", "DeleteMessage", "PinMessage",
               "BulkDeleteMessages"}, parts |-> {},
      stray |-> FALSE, messages |-> 1, texts |-> 2, width |-> 2, failing |-> 1],
     \* Pins and bulk deletes of ids of no message, and what becomes of the rows they make.
     [kind |-> "messages", ops |-> {"SendMessage", "EditMessage", "DeleteMessage", "PinMessage",
               "BulkDeleteMessages"}, parts |-> {"forward"},
      stray |-> TRUE, messages |-> 1, texts |-> 1, width |-> 1, failing |-> 0],
     \* Another RPC runs when the process ends.
     [kind |-> "messages", ops |-> {"SendMessage", "DeleteMessage", "PinMessage"}, parts |-> {},
      stray |-> TRUE, messages |-> 1, texts |-> 1, width |-> 2, failing |-> 0]}

Running == {w \in Worker : rpc[w].pc # "idle"}

\* What request r carries.
Carried(r) ==
    {p \in Parts : CASE p = "reply" -> r.reply # None
                     [] p = "forward" -> r.source # None
                     [] p = "attachment" -> r.att
                     [] p = "mention" -> r.mention # None}

\* The sends that have still to store their message.
Sending == {w \in Running : rpc[w].op = "SendMessage" /\ rpc[w].msg = None}

Texts == (UNION {written[m] : m \in Message} \cup {rpc[w].text : w \in Worker}) \ {None}

\* The ids request r names.
Ids(r) == ({r.msg, r.reply, r.source} \ {None}) \cup r.ids

InMode ==
    /\ faults <= mode.failing
    /\ Cardinality(Running) <= mode.width
    /\ \A w \in Running : rpc[w].op \in mode.ops /\ Carried(rpc[w]) \subseteq mode.parts
    /\ mode.stray \/ \A w \in Running : Ids(rpc[w]) \subseteq Sent
    /\ Cardinality(Sent) + Cardinality(Sending) <= mode.messages
    /\ Cardinality(Texts) <= mode.texts

ReadingMode ==
    {\* Pages of one channel, sends overlapping.
     [kind |-> "reading", chans |-> 1, ids |-> 5, paging |-> TRUE, overlap |-> TRUE],
     \* Unread counts of one channel, which changes meanwhile.
     [kind |-> "reading", chans |-> 1, ids |-> 2, paging |-> FALSE, overlap |-> TRUE],
     \* Unread counts of one channel, or of a guild channel and a DM, between changes.
     [kind |-> "reading", chans |-> 1, ids |-> 3, paging |-> FALSE, overlap |-> FALSE],
     [kind |-> "reading", chans |-> 2, ids |-> 2, paging |-> FALSE, overlap |-> FALSE]}

InUse == {c \in Channel : log[c][1] # "free"}

\* A client that pages asks for no counts, and the other way round.
InReadingMode ==
    /\ Cardinality(InUse) <= mode.chans
    /\ \A c \in Channel :
        /\ Cardinality({i \in Id : log[c][i] # "free"}) <= mode.ids
        /\ Cardinality({i \in Id : log[c][i] = "taken"}) <= 2
        /\ mode.paging => pointer[c] = NoState
    /\ IF mode.paging THEN badge = NoBadge ELSE walk = NoWalk
    /\ ~mode.overlap => badge.clean /\ readFaults = 0

MediaMode ==
    {\* Uploads, downloads and deletes of one file, and a message that has it.
     [kind |-> "media", files |-> 1, posts |-> 1, width |-> 2, failing |-> 1, storage |-> TRUE],
     \* Forwards of forwards, and forwards with a file of the sender's own.
     [kind |-> "media", files |-> 1, posts |-> 3, width |-> 1, failing |-> 0, storage |-> FALSE],
     [kind |-> "media", files |-> 2, posts |-> 2, width |-> 1, failing |-> 0, storage |-> FALSE],
     \* Forwards that overlap their source's send and its delete.
     [kind |-> "media", files |-> 1, posts |-> 2, width |-> 2, failing |-> 1, storage |-> FALSE]}

InMediaMode ==
    /\ Cardinality({f \in File : file[f] # NoFile}) <= mode.files
    /\ Cardinality({p \in Post : post[p] # NoPost})
        + Cardinality({s \in Server : task[s].op = "SendMessage" /\ task[s].post = Nobody})
        <= mode.posts
    /\ \A p, q \in Post : q < p /\ post[p] # NoPost => post[q] # NoPost
    /\ Cardinality({s \in Server : task[s] # Free}) <= mode.width
    /\ mediaFaults <= mode.failing
    /\ ~mode.storage => /\ \A s \in Server : task[s].op # "DeleteFile"
                        /\ {f \in File : file[f] # NoFile} \subseteq putURL

MCInit ==
    /\ Init /\ ReadInit /\ MediaInit
    /\ mode \in MessageMode \cup ReadingMode \cup MediaMode
    /\ mode.kind # "reading" \/ mode.paging => pointer = [c \in Channel |-> NoState]

\* A step of an RPC that runs: what Next leaves when no other may start.
Busy ==
    /\ \E w \in Running : Step(w) \/ CallFails(w) \/ Panic(w)
    /\ serial' = (serial /\ OneAtATime')

MCNext ==
    /\ UNCHANGED mode
    /\ \/ /\ mode.kind = "messages"
          /\ IF Cardinality(Running) < mode.width THEN Next ELSE Busy
          /\ InMode'
          /\ UNCHANGED <<readVars, mediaVars>>
       \/ /\ mode.kind = "reading" /\ ReadNext /\ InReadingMode'
          /\ UNCHANGED <<vars, mediaVars>>
       \/ /\ mode.kind = "media" /\ MediaNext /\ InMediaMode'
          /\ UNCHANGED <<vars, readVars>>

MCSpec == MCInit /\ [][MCNext]_<<vars, readVars, mediaVars, mode>>

\* The files and the servers of Media have the values of Content and of Worker.
Symmetric == Permutations(Message) \cup Permutations(Content) \cup Permutations(Worker)
=============================================================================
