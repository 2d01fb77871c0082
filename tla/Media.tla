------------------------------- MODULE Media --------------------------------
(***************************************************************************)
(* Uploaded files and the messages they are attached to:                   *)
(* internal/features/media, and the attachments of                         *)
(* internal/features/message.                                              *)
(*                                                                         *)
(* A client uploads a file's object to MinIO itself, through a presigned   *)
(* URL.  An attachment is a copy of the file's name and public URL: it     *)
(* stands for the object, not for the media_files row.                     *)
(***************************************************************************)
EXTENDS Naturals, FiniteSets

CONSTANTS
    Owner, File, Post, Server,
    Nobody,
    MaxMediaFaults  \* bound: how many calls fail

ASSUME MediaConstants ==
    /\ Nobody \notin Owner \cup File \cup Post
    /\ MaxMediaFaults \in Nat

VARIABLES
    file,           \* media_files; uploader Nobody is no row
    object,         \* MinIO: the files whose object exists
    putURL,         \* the files with a presigned URL that has not expired
    post,           \* messages; author Nobody is no row
    links,          \* message_attachments: the files whose URL a message has
    task,           \* the running RPC of each server
    mediaFaults,    \* calls that have failed
    answered,       \* history: the files ConfirmUpload or GetDownloadURL gave a URL of
    premature,      \* history: the files confirmed before their object existed
    removed,        \* history: the files whose object a DeleteFile has removed
    authors,        \* history: who wrote a message and those it was forwarded from
    owed            \* history: what the source of a forward had attached

files == <<file, object, putURL>>
posts == <<post, links>>
account == <<answered, premature, removed, authors, owed>>
mediaVars == <<files, posts, task, mediaFaults, account>>

NoFile == [uploader |-> Nobody, confirmed |-> FALSE, deleted |-> FALSE]

NoPost == [author |-> Nobody, source |-> Nobody, deleted |-> FALSE]

Free == [op |-> "none", pc |-> "idle", user |-> Nobody, file |-> Nobody, post |-> Nobody,
         source |-> Nobody, ids |-> {}, copies |-> {}, due |-> {}]

MediaInit ==
    /\ file = [f \in File |-> NoFile]
    /\ object = {}
    /\ putURL = {}
    /\ post = [p \in Post |-> NoPost]
    /\ links = [p \in Post |-> {}]
    /\ task = [s \in Server |-> Free]
    /\ mediaFaults = 0
    /\ answered = {}
    /\ premature = {}
    /\ removed = {}
    /\ authors = [p \in Post |-> {}]
    /\ owed = [p \in Post |-> {}]

-----------------------------------------------------------------------------
(* The media service.                                                        *)

CreateMediaFile(u) == [NoFile EXCEPT !.uploader = u]

\* The row is created, and a URL unless signing fails.  Requests with a wrong size or type
\* are refused and change nothing.
RequestUpload ==
    \E f \in File, u \in Owner :
        /\ file[f] = NoFile
        /\ file' = [file EXCEPT ![f] = CreateMediaFile(u)]
        /\ \/ putURL' = putURL \cup {f} /\ UNCHANGED mediaFaults
           \/ /\ mediaFaults < MaxMediaFaults
              /\ mediaFaults' = mediaFaults + 1
              /\ UNCHANGED putURL
        /\ UNCHANGED <<object, posts, task, account>>

\* The client uploads, once or again, while the URL is valid.
PutObject ==
    \E f \in putURL :
        /\ object' = object \cup {f}
        /\ UNCHANGED <<file, putURL, posts, task, mediaFaults, account>>

\* presignedURLExpiry.
URLExpires ==
    \E f \in putURL :
        /\ putURL' = putURL \ {f}
        /\ UNCHANGED <<file, object, posts, task, mediaFaults, account>>

\* GetMediaFile; a deleted row is not found.
Found(f) == file[f].uploader # Nobody /\ ~file[f].deleted

ConfirmMediaFile(r) == [r EXCEPT !.confirmed = TRUE]

\* One update; it asks neither for the object nor for the owner, and finds a deleted row
\* too.
ConfirmUpload ==
    \E f \in File :
        /\ file[f].uploader # Nobody
        /\ file' = [file EXCEPT ![f] = ConfirmMediaFile(@)]
        /\ answered' = answered \cup {f}
        /\ premature' = IF f \in object THEN premature ELSE premature \cup {f}
        /\ UNCHANGED <<object, putURL, posts, task, mediaFaults, removed, authors, owed>>

\* Mutant: the upload need not have been confirmed.
DownloadUnconfirmed ==
    \E f \in File :
        /\ Found(f)
        /\ answered' = answered \cup {f}
        /\ UNCHANGED <<files, posts, task, mediaFaults, premature, removed, authors, owed>>

GetDownloadURL ==
    \E f \in File :
        /\ Found(f) /\ file[f].confirmed
        /\ answered' = answered \cup {f}
        /\ UNCHANGED <<files, posts, task, mediaFaults, premature, removed, authors, owed>>

Go(s, pc) == task' = [task EXCEPT ![s].pc = pc]

End(s) == task' = [task EXCEPT ![s] = Free]

CallDelete(s) ==
    /\ task[s] = Free
    /\ \E f \in File :
        /\ Found(f)
        /\ task' = [task EXCEPT ![s] = [Free EXCEPT !.op = "DeleteFile", !.file = f,
                                                    !.pc = "RemoveObject"]]
    /\ UNCHANGED <<files, posts, mediaFaults, account>>

RemoveObject(s) ==
    /\ task[s].pc = "RemoveObject"
    /\ object' = object \ {task[s].file}
    /\ removed' = removed \cup {task[s].file}
    /\ Go(s, "DeleteMediaFile")
    /\ UNCHANGED <<file, putURL, posts, mediaFaults, answered, premature, authors, owed>>

DeleteMediaFile(s) ==
    /\ task[s].pc = "DeleteMediaFile"
    /\ file' = [file EXCEPT ![task[s].file].deleted = TRUE]
    /\ End(s)
    /\ UNCHANGED <<object, putURL, posts, mediaFaults, account>>

-----------------------------------------------------------------------------
(* SendMessage, as far as attachments go.                                    *)

Posted(p) == post[p].author # Nobody /\ ~post[p].deleted

\* A forward owes its readers what its source had attached when it was called, if the
\* source's own send had ended.
Owed(p) ==
    IF p = Nobody \/ \E s \in Server : task[s].op = "SendMessage" /\ task[s].post = p
    THEN {} ELSE links[p]

CallSend(s) ==
    /\ task[s] = Free
    /\ \E u \in Owner, ids \in SUBSET File, p \in Post \cup {Nobody} :
        /\ p # Nobody => post[p].author # Nobody
        /\ task' = [task EXCEPT ![s] =
                        [Free EXCEPT !.op = "SendMessage", !.user = u, !.ids = ids,
                                     !.source = p, !.due = Owed(p),
                                     !.pc = IF p = Nobody THEN "CreateMessage"
                                            ELSE "GetSource"]]
    /\ UNCHANGED <<files, posts, mediaFaults, account>>

GetForwardSource(s) ==
    /\ task[s].pc = "GetSource"
    /\ IF Posted(task[s].source) THEN Go(s, "GetMessageAttachments") ELSE End(s)
    /\ UNCHANGED <<files, posts, mediaFaults, account>>

GetMessageAttachments(s) ==
    /\ task[s].pc = "GetMessageAttachments"
    /\ task' = [task EXCEPT ![s].copies = links[task[s].source], ![s].pc = "CreateMessage"]
    /\ UNCHANGED <<files, posts, mediaFaults, account>>

CreatePost(s) ==
    /\ task[s].pc = "CreateMessage"
    /\ LET t == task[s] IN
        \E p \in {q \in Post : post[q] = NoPost} :
            /\ post' = [post EXCEPT ![p] = [NoPost EXCEPT !.author = t.user,
                                                          !.source = t.source]]
            /\ authors' = [authors EXCEPT ![p] = {t.user} \cup
                                IF t.source = Nobody THEN {} ELSE authors[t.source]]
            /\ owed' = [owed EXCEPT ![p] = t.due]
            /\ task' = [task EXCEPT ![s].post = p, ![s].pc = "ResolveAttachment"]
    /\ UNCHANGED <<files, links, mediaFaults, answered, premature, removed>>

\* Bound: no message id of the instance is left.
NoPostLeft(s) ==
    /\ task[s].pc = "CreateMessage"
    /\ \A p \in Post : post[p] # NoPost
    /\ End(s)
    /\ UNCHANGED <<files, posts, mediaFaults, account>>

\* Mutant: anybody's confirmed file will do.
AnyConfirmed(f, u) == Found(f) /\ file[f].confirmed

\* ResolveAttachment: a confirmed file of the sender's own.
Attachable(f, u) == Found(f) /\ file[f].confirmed /\ file[f].uploader = u

\* A file that does not resolve is skipped.
ResolveAttachment(s) ==
    /\ task[s].pc = "ResolveAttachment"
    /\ \E f \in task[s].ids :
        task' = IF Attachable(f, task[s].user)
                THEN [task EXCEPT ![s].file = f, ![s].pc = "AddMessageAttachment"]
                ELSE [task EXCEPT ![s].ids = @ \ {f}]
    /\ UNCHANGED <<files, posts, mediaFaults, account>>

AttachFile(s) ==
    /\ task[s].pc = "AddMessageAttachment"
    /\ links' = [links EXCEPT ![task[s].post] = @ \cup {task[s].file}]
    /\ task' = [task EXCEPT ![s].ids = @ \ {task[s].file}, ![s].pc = "ResolveAttachment"]
    /\ UNCHANGED <<files, post, mediaFaults, account>>

\* Mutant: a sender's own file leaves no room for the forwarded ones.
MirrorFirst(s) ==
    /\ task[s].pc = "ResolveAttachment"
    /\ task[s].ids = {}
    /\ IF links[task[s].post] # {} \/ task[s].copies = {}
       THEN End(s) /\ UNCHANGED links
       ELSE \E f \in task[s].copies :
                /\ links' = [links EXCEPT ![task[s].post] = @ \cup {f}]
                /\ task' = [task EXCEPT ![s].copies = @ \ {f}]
    /\ UNCHANGED <<files, post, mediaFaults, account>>

\* The source's attachments, one after the other; SendMessage goes on in Messages.
MirrorAttachment(s) ==
    /\ task[s].pc = "ResolveAttachment"
    /\ task[s].ids = {}
    /\ IF task[s].copies = {}
       THEN End(s) /\ UNCHANGED links
       ELSE \E f \in task[s].copies :
                /\ links' = [links EXCEPT ![task[s].post] = @ \cup {f}]
                /\ task' = [task EXCEPT ![s].copies = @ \ {f}]
    /\ UNCHANGED <<files, post, mediaFaults, account>>

\* DeleteMessage.  A forward that has yet to read this message's attachments owes none.
DeletePost(s) ==
    /\ task[s] = Free
    /\ \E p \in Post :
        /\ Posted(p)
        /\ post' = [post EXCEPT ![p].deleted = TRUE]
        /\ task' = [t \in Server |->
                        IF t = s THEN [Free EXCEPT !.op = "DeleteMessage", !.post = p,
                                                   !.pc = "DeleteMessageAttachments"]
                        ELSE IF task[t].source = p
                                /\ task[t].pc \in {"GetSource", "GetMessageAttachments"}
                        THEN [task[t] EXCEPT !.due = {}] ELSE task[t]]
    /\ UNCHANGED <<files, links, mediaFaults, account>>

DeleteLinks(s) ==
    /\ task[s].pc = "DeleteMessageAttachments"
    /\ links' = [links EXCEPT ![task[s].post] = {}]
    /\ End(s)
    /\ UNCHANGED <<files, post, mediaFaults, account>>

\* A call fails: what it was to attach is skipped, and a forward that lost some of its
\* source's attachments owes none.
AttachmentFails(s) ==
    /\ \/ /\ task[s].pc = "GetMessageAttachments"
          /\ task' = [task EXCEPT ![s].pc = "CreateMessage", ![s].due = {}]
          /\ UNCHANGED owed
       \/ /\ task[s].pc \in {"ResolveAttachment", "AddMessageAttachment"}
          /\ \E f \in task[s].ids :
                /\ task[s].pc = "AddMessageAttachment" => f = task[s].file
                /\ task' = [task EXCEPT ![s].ids = @ \ {f}, ![s].pc = "ResolveAttachment"]
          /\ UNCHANGED owed
       \/ /\ task[s].pc = "ResolveAttachment" /\ task[s].ids = {}
          /\ \E f \in task[s].copies : task' = [task EXCEPT ![s].copies = @ \ {f}]
          /\ owed' = [owed EXCEPT ![task[s].post] = {}]
    /\ mediaFaults < MaxMediaFaults
    /\ mediaFaults' = mediaFaults + 1
    /\ UNCHANGED <<files, posts, answered, premature, removed, authors>>

\* Every other call that fails ends its RPC; DeleteFile's then stops half way.
MediaCallFails(s) ==
    /\ task[s].pc \in {"RemoveObject", "DeleteMediaFile", "GetSource", "CreateMessage",
                       "DeleteMessageAttachments"}
    /\ mediaFaults < MaxMediaFaults
    /\ mediaFaults' = mediaFaults + 1
    /\ End(s)
    /\ UNCHANGED <<files, posts, account>>

MediaNext ==
    \/ RequestUpload \/ PutObject \/ URLExpires \/ ConfirmUpload \/ GetDownloadURL
    \/ \E s \in Server :
        \/ CallDelete(s) \/ RemoveObject(s) \/ DeleteMediaFile(s)
        \/ CallSend(s) \/ GetForwardSource(s) \/ GetMessageAttachments(s) \/ CreatePost(s)
        \/ NoPostLeft(s) \/ ResolveAttachment(s) \/ AttachFile(s) \/ MirrorAttachment(s)
        \/ DeletePost(s) \/ DeleteLinks(s) \/ AttachmentFails(s) \/ MediaCallFails(s)

MediaSpec == MediaInit /\ [][MediaNext]_mediaVars

-----------------------------------------------------------------------------

\* Every file attached to a message was confirmed, and uploaded by the message's author or
\* by the author of a message it was forwarded from, however often.
AttachmentsGrounded ==
    \A p \in Post : \A f \in links[p] : file[f].confirmed /\ file[f].uploader \in authors[p]

\* A forward stands on its own: once its send has ended it has, and keeps until it is
\* deleted itself, what its source had attached, whatever becomes of the source.
ForwardStandsAlone ==
    \A p \in Post : Posted(p) /\ (\A s \in Server : task[s].post # p) => owed[p] \subseteq links[p]

\* A URL a client was given, or finds in a message, leads to an object, unless the file
\* was confirmed before it was uploaded or a DeleteFile has removed its object, and be it
\* one that failed half way.
LinksResolve ==
    (answered \cup UNION {links[p] : p \in Post}) \ (premature \cup removed) \subseteq object
=============================================================================
