--------------------------- MODULE MessagesProofs ---------------------------
(***************************************************************************)
(* Theorems about Media and Messages, for any number of users, messages,     *)
(* files and RPCs that overlap, and about Reading, for any channels, limits   *)
(* and number of messages.                                                    *)
(***************************************************************************)
EXTENDS Media, Messages, Reading, FiniteSetTheorems, TLAPS

TaskPC == {"idle", "RemoveObject", "DeleteMediaFile", "GetSource", "GetMessageAttachments", "CreateMessage",
           "ResolveAttachment", "AddMessageAttachment", "DeleteMessageAttachments"}

Task == [op : {"none", "DeleteFile", "SendMessage", "DeleteMessage"}, pc : TaskPC,
         user : Owner \cup {Nobody}, file : File \cup {Nobody}, post : Post \cup {Nobody},
         source : Post \cup {Nobody}, ids : SUBSET File, copies : SUBSET File, due : SUBSET File]

FileRow == [uploader : Owner \cup {Nobody}, confirmed : BOOLEAN, deleted : BOOLEAN]

PostRow == [author : Owner \cup {Nobody}, source : Post \cup {Nobody}, deleted : BOOLEAN]

MediaTypeOK ==
    /\ file \in [File -> FileRow]
    /\ post \in [Post -> PostRow]
    /\ links \in [Post -> SUBSET File]
    /\ task \in [Server -> Task]
    /\ mediaFaults \in Nat
    /\ answered \subseteq File
    /\ authors \in [Post -> SUBSET Owner]
    /\ owed \in [Post -> SUBSET File]

\* File f is confirmed, and one of us uploaded it.
Grounds(f, us) == file[f].confirmed /\ file[f].uploader \in us

Exists(p) == post[p].author # Nobody

\* What a running RPC may count on.
TaskOK(t) ==
    /\ t.source # Nobody => Exists(t.source)
    /\ t.pc \in {"GetSource", "GetMessageAttachments"} =>
        t.source \in Post /\ t.user \in Owner /\ t.copies = {}
    /\ t.pc = "CreateMessage" =>
        /\ t.user \in Owner
        /\ IF t.source = Nobody THEN t.copies = {} ELSE \A f \in t.copies : Grounds(f, authors[t.source])
    /\ t.pc \in {"ResolveAttachment", "AddMessageAttachment"} =>
        /\ t.post \in Post /\ Exists(t.post) /\ t.user \in authors[t.post]
        /\ \A f \in t.copies : Grounds(f, authors[t.post])
    /\ t.pc = "AddMessageAttachment" => t.file \in File /\ Grounds(t.file, {t.user})
    /\ t.pc = "DeleteMessageAttachments" => t.post \in Post /\ post[t.post].deleted
    /\ t.pc \in {"RemoveObject", "DeleteMediaFile"} => t.file \in File

\* What a forward owes it can still copy.
ForwardOK(t) ==
    /\ t.pc \in {"GetSource", "GetMessageAttachments"} /\ Posted(t.source) => t.due \subseteq links[t.source]
    /\ t.pc = "GetMessageAttachments" /\ ~Posted(t.source) => t.due = {}
    /\ t.pc = "CreateMessage" => t.due \subseteq t.copies

GroundInv ==
    /\ \A p \in Post : ~Exists(p) => links[p] = {}
    /\ \A p \in Post : \A f \in links[p] : Grounds(f, authors[p])
    /\ \A s \in Server : TaskOK(task[s])

\* A confirmed file has its object, unless it is one of the two exceptions.
ConfirmInv ==
    /\ \A f \in File : file[f].confirmed => f \in object \cup premature \cup removed
    /\ \A f \in answered : file[f].confirmed

Mirrors(t, p) == t.pc \in {"ResolveAttachment", "AddMessageAttachment"} /\ t.post = p

ForwardInv ==
    /\ \A s \in Server : ForwardOK(task[s])
    /\ \A p \in Post : Posted(p) =>
            \/ owed[p] \subseteq links[p]
            \/ \E s \in Server : Mirrors(task[s], p) /\ owed[p] \subseteq links[p] \cup task[s].copies

-----------------------------------------------------------------------------
(* A step of one server.                                                     *)

LEMMA FreeTask ==
  /\ Free \in Task /\ Free.op = "none" /\ Free.pc = "idle" /\ Free.user = Nobody /\ Free.file = Nobody
  /\ Free.post = Nobody /\ Free.source = Nobody /\ Free.ids = {} /\ Free.copies = {} /\ Free.due = {}
  BY DEF Free, Task, TaskPC

Turns(s, t) ==
    /\ task' \in [Server -> Task]
    /\ task'[s] = t
    /\ \A v \in Server \ {s} : task'[v] = task[v]

LEMMA Turned ==
  ASSUME MediaTypeOK, NEW s \in Server, NEW t \in Task, task' = [task EXCEPT ![s] = t]
  PROVE  Turns(s, t)
  BY DEF MediaTypeOK, Turns

LEMMA Ended ==
  ASSUME MediaTypeOK, NEW s \in Server, End(s)
  PROVE  Turns(s, Free)
  BY FreeTask, Turned DEF End

LEMMA Gone ==
  ASSUME MediaTypeOK, NEW s \in Server, NEW pc \in TaskPC, Go(s, pc)
  PROVE  \E t \in Task :
            /\ Turns(s, t)
            /\ t.op = task[s].op /\ t.pc = pc /\ t.user = task[s].user /\ t.file = task[s].file
            /\ t.post = task[s].post /\ t.source = task[s].source /\ t.ids = task[s].ids
            /\ t.copies = task[s].copies /\ t.due = task[s].due
<1>1. PICK i \in Task : i = task[s]
  BY DEF MediaTypeOK
<1>2. PICK t \in Task : t = [i EXCEPT !.pc = pc]
  BY DEF Task
<1>3. /\ t.op = i.op /\ t.pc = pc /\ t.user = i.user /\ t.file = i.file /\ t.post = i.post
      /\ t.source = i.source /\ t.ids = i.ids /\ t.copies = i.copies /\ t.due = i.due
  BY <1>2 DEF Task
<1>4. task' = [task EXCEPT ![s] = t]
  BY <1>1, <1>2 DEF Go
<1> QED BY <1>1, <1>3, <1>4, Turned

StoreTypeOK ==
    /\ file \in [File -> FileRow]
    /\ post \in [Post -> PostRow]
    /\ links \in [Post -> SUBSET File]
    /\ mediaFaults \in Nat
    /\ answered \subseteq File
    /\ authors \in [Post -> SUBSET Owner]
    /\ owed \in [Post -> SUBSET File]

LinksOK ==
    /\ \A p \in Post : ~Exists(p) => links[p] = {}
    /\ \A p \in Post : \A f \in links[p] : Grounds(f, authors[p])

\* Confirmed files stay confirmed, and messages stay and keep their authors.
Kept ==
    /\ \A f \in File : file[f].confirmed => file'[f].confirmed /\ file'[f].uploader = file[f].uploader
    /\ \A p \in Post : Exists(p) => Exists(p)' /\ authors'[p] = authors[p]
    /\ \A p \in Post : post[p].deleted => post'[p].deleted

\* The messages there are keep their attachments until they are deleted.
Linked ==
    \A p \in Post : Exists(p) => Posted(p)' = Posted(p) /\ (Posted(p) => links[p] \subseteq links'[p])

\* What forwards owe after server s has turned to t.
Settles(s, t) ==
    \A p \in Post : Posted(p)' =>
        \/ owed'[p] \subseteq links'[p]
        \/ Mirrors(t, p) /\ owed'[p] \subseteq links'[p] \cup t.copies
        \/ /\ Posted(p) /\ owed'[p] = owed[p] /\ links[p] \subseteq links'[p]
           /\ Mirrors(task[s], p) =>
                \/ task[s].copies \subseteq links'[p]
                \/ Mirrors(t, p) /\ task[s].copies \subseteq t.copies \cup links'[p]

LEMMA TaskStays ==
  ASSUME MediaTypeOK, Kept, NEW t \in Task, TaskOK(t)
  PROVE  TaskOK(t)'
<1>1. \A us : \A f \in File : Grounds(f, us) => Grounds(f, us)'
  BY DEF Kept, Grounds
<1>2. t.copies \subseteq File /\ t.source \in Post \cup {Nobody} /\ t.post \in Post \cup {Nobody}
  BY DEF Task
<1>3. t.source # Nobody => Exists(t.source)' /\ authors'[t.source] = authors[t.source]
  BY <1>2 DEF Kept, TaskOK
<1>4. t.pc \in {"ResolveAttachment", "AddMessageAttachment"} =>
        Exists(t.post)' /\ authors'[t.post] = authors[t.post]
  BY DEF Kept, TaskOK
<1>5. t.pc = "CreateMessage" /\ t.source # Nobody => \A f \in t.copies : Grounds(f, authors[t.source])'
  BY <1>1, <1>2, <1>3 DEF TaskOK
<1>6. t.pc \in {"ResolveAttachment", "AddMessageAttachment"} => \A f \in t.copies : Grounds(f, authors[t.post])'
  BY <1>1, <1>2, <1>4 DEF TaskOK
<1>7. t.pc = "AddMessageAttachment" => Grounds(t.file, {t.user})'
  BY <1>1 DEF TaskOK
<1>8. t.pc = "DeleteMessageAttachments" => post'[t.post].deleted
  BY DEF TaskOK, Kept
<1> QED BY <1>3, <1>4, <1>5, <1>6, <1>7, <1>8 DEF TaskOK

LEMMA ForwardStays ==
  ASSUME Linked, NEW t \in Task, TaskOK(t), ForwardOK(t)
  PROVE  ForwardOK(t)'
<1>1. ASSUME t.pc \in {"GetSource", "GetMessageAttachments"}
      PROVE  /\ Posted(t.source)' = Posted(t.source)
             /\ Posted(t.source) => links[t.source] \subseteq links'[t.source]
  <2>1. t.source \in Post /\ Exists(t.source)
    BY <1>1, MediaConstants DEF TaskOK
  <2> QED BY <2>1 DEF Linked
<1> QED BY <1>1 DEF ForwardOK

LEMMA ServerStep ==
  ASSUME MediaTypeOK, GroundInv, ForwardInv, NEW s \in Server, NEW t \in Task, Turns(s, t),
         StoreTypeOK', Kept, Linked, LinksOK', TaskOK(t)', ForwardOK(t)', Settles(s, t)
  PROVE  MediaTypeOK' /\ GroundInv' /\ ForwardInv'
<1>1. MediaTypeOK'
  BY DEF Turns, StoreTypeOK, MediaTypeOK
<1>2. ASSUME NEW v \in Server PROVE TaskOK(task[v])' /\ ForwardOK(task[v])'
  <2>1. CASE v = s
    BY <2>1 DEF Turns, TaskOK, ForwardOK
  <2>2. CASE v # s
    <3>1. PICK i \in Task : i = task[v]
      BY DEF MediaTypeOK
    <3>2. TaskOK(i) /\ ForwardOK(i) /\ task'[v] = i
      BY <2>2, <3>1 DEF GroundInv, ForwardInv, Turns
    <3>3. TaskOK(i)' /\ ForwardOK(i)'
      BY <3>2, TaskStays, ForwardStays
    <3> QED BY <3>2, <3>3 DEF TaskOK, ForwardOK
  <2> QED BY <2>1, <2>2
<1>3. (\A v \in Server : TaskOK(task[v]) /\ ForwardOK(task[v]))'
  BY <1>2
<1>4. GroundInv'
  BY <1>3 DEF GroundInv, LinksOK
<1>5. ASSUME NEW p \in Post, Posted(p)'
      PROVE  \/ owed'[p] \subseteq links'[p]
             \/ \E v \in Server : Mirrors(task'[v], p) /\ owed'[p] \subseteq links'[p] \cup task'[v].copies
  <2>1. CASE owed'[p] \subseteq links'[p] \/ (Mirrors(t, p) /\ owed'[p] \subseteq links'[p] \cup t.copies)
    BY <2>1 DEF Turns
  <2>2. CASE /\ Posted(p) /\ owed'[p] = owed[p] /\ links[p] \subseteq links'[p]
             /\ Mirrors(task[s], p) =>
                  \/ task[s].copies \subseteq links'[p]
                  \/ Mirrors(t, p) /\ task[s].copies \subseteq t.copies \cup links'[p]
    <3>1. CASE owed[p] \subseteq links[p]
      BY <2>2, <3>1
    <3>2. CASE Mirrors(task[s], p) /\ owed[p] \subseteq links[p] \cup task[s].copies
      BY <2>2, <3>2 DEF Turns
    <3>3. ASSUME NEW v \in Server \ {s}, Mirrors(task[v], p), owed[p] \subseteq links[p] \cup task[v].copies
          PROVE  \E x \in Server : Mirrors(task'[x], p) /\ owed'[p] \subseteq links'[p] \cup task'[x].copies
      BY <2>2, <3>3 DEF Turns
    <3>4. \/ owed[p] \subseteq links[p]
          \/ \E v \in Server : Mirrors(task[v], p) /\ owed[p] \subseteq links[p] \cup task[v].copies
      BY <2>2 DEF ForwardInv
    <3> QED BY <3>1, <3>2, <3>3, <3>4
  <2> QED BY <1>5, <2>1, <2>2 DEF Settles
<1>6. (\A p \in Post : Posted(p) =>
            \/ owed[p] \subseteq links[p]
            \/ \E v \in Server : Mirrors(task[v], p) /\ owed[p] \subseteq links[p] \cup task[v].copies)'
  BY <1>5 DEF Mirrors
<1> QED BY <1>1, <1>3, <1>4, <1>6 DEF ForwardInv

Sound == MediaTypeOK /\ GroundInv /\ ForwardInv

LEMMA SoundNow ==
  ASSUME Sound, NEW s \in Server
  PROVE  /\ MediaTypeOK /\ GroundInv /\ ForwardInv /\ LinksOK /\ StoreTypeOK
         /\ task[s] \in Task /\ TaskOK(task[s]) /\ ForwardOK(task[s])
  BY DEF Sound, MediaTypeOK, GroundInv, ForwardInv, LinksOK, StoreTypeOK

Unlinked == UNCHANGED <<file, post, links, authors, owed, answered>> /\ mediaFaults' \in Nat

\* A step that changes neither files nor messages.
LEMMA TaskStep ==
  ASSUME Sound, NEW s \in Server, NEW t \in Task, Turns(s, t), Unlinked,
         TaskOK(t), ForwardOK(t),
         Mirrors(task[s], task[s].post) =>
            task[s].copies = {} \/ (Mirrors(t, task[s].post) /\ task[s].copies \subseteq t.copies)
  PROVE  Sound'
<1>1. StoreTypeOK' /\ LinksOK' /\ TaskOK(t)' /\ ForwardOK(t)'
  BY SoundNow DEF Unlinked, StoreTypeOK, LinksOK, TaskOK, ForwardOK, Exists, Grounds, Posted
<1>2. Kept /\ Linked
  BY DEF Unlinked, Kept, Linked, Exists, Posted
<1>3. Settles(s, t)
  BY DEF Unlinked, Settles, Mirrors, Posted
<1> QED BY <1>1, <1>2, <1>3, SoundNow, ServerStep DEF Sound

LEMMA TaskEnds ==
  ASSUME Sound, NEW s \in Server, End(s), Unlinked,
         Mirrors(task[s], task[s].post) => task[s].copies = {}
  PROVE  Sound'
<1>1. Turns(s, Free) /\ Free \in Task
  BY SoundNow, Ended, FreeTask
<1>2. TaskOK(Free) /\ ForwardOK(Free)
  BY FreeTask DEF TaskOK, ForwardOK
<1> QED BY <1>1, <1>2, TaskStep

LEMMA CallDeleteStep ==
  ASSUME Sound, NEW s \in Server, CallDelete(s)
  PROVE  Sound'
<1>1. PICK f \in File : task' = [task EXCEPT ![s] = [Free EXCEPT !.op = "DeleteFile", !.file = f,
                                                                 !.pc = "RemoveObject"]]
  BY DEF CallDelete
<1>2. PICK i \in Task : i = Free
  BY FreeTask
<1>3. [i EXCEPT !.op = "DeleteFile", !.file = f, !.pc = "RemoveObject"] \in Task
  BY DEF Task, TaskPC
<1>4. PICK t \in Task : t = [i EXCEPT !.op = "DeleteFile", !.file = f, !.pc = "RemoveObject"]
  BY <1>3
<1>5. t.pc = "RemoveObject" /\ t.file = f /\ t.source = i.source
  BY <1>4 DEF Task
<1>6. Turns(s, t)
  BY <1>1, <1>2, <1>4, SoundNow, Turned
<1>7. TaskOK(t) /\ ForwardOK(t)
  BY <1>2, <1>5, FreeTask DEF TaskOK, ForwardOK
<1>8. Unlinked /\ task[s] = Free
  BY SoundNow DEF CallDelete, Unlinked, files, posts, account, MediaTypeOK
<1> QED BY <1>6, <1>7, <1>8, FreeTask, TaskStep DEF Mirrors

LEMMA CallSendStep ==
  ASSUME Sound, NEW s \in Server, CallSend(s)
  PROVE  Sound'
<1>1. PICK u \in Owner, ids \in SUBSET File, p \in Post \cup {Nobody} :
        /\ p # Nobody => post[p].author # Nobody
        /\ task' = [task EXCEPT ![s] =
                        [Free EXCEPT !.op = "SendMessage", !.user = u, !.ids = ids,
                                     !.source = p, !.due = Owed(p),
                                     !.pc = IF p = Nobody THEN "CreateMessage"
                                            ELSE "GetSource"]]
  BY DEF CallSend
<1>2. PICK i \in Task : i = Free
  BY FreeTask
<1>3. PICK pc \in TaskPC : pc = IF p = Nobody THEN "CreateMessage" ELSE "GetSource"
  BY DEF TaskPC
<1>4. Owed(p) \in SUBSET File /\ (p = Nobody => Owed(p) = {}) /\ (p # Nobody => Owed(p) \subseteq links[p])
  BY SoundNow DEF Owed, MediaTypeOK
<1>5. PICK d \in SUBSET File : d = Owed(p)
  BY <1>4
<1>6. [i EXCEPT !.op = "SendMessage", !.user = u, !.ids = ids, !.source = p, !.due = d, !.pc = pc] \in Task
  BY DEF Task
<1>7. PICK t \in Task : t = [i EXCEPT !.op = "SendMessage", !.user = u, !.ids = ids, !.source = p,
                                      !.due = d, !.pc = pc]
  BY <1>6
<1>8. t.pc = pc /\ t.user = u /\ t.source = p /\ t.due = d /\ t.copies = i.copies
  BY <1>7 DEF Task
<1>9. Turns(s, t)
  BY <1>1, <1>2, <1>3, <1>5, <1>7, SoundNow, Turned
<1>10. TaskOK(t) /\ ForwardOK(t)
  BY <1>1, <1>2, <1>3, <1>4, <1>5, <1>8, FreeTask DEF TaskOK, ForwardOK, Exists
<1>11. Unlinked /\ task[s] = Free
  BY SoundNow DEF CallSend, Unlinked, files, posts, account, MediaTypeOK
<1> QED BY <1>9, <1>10, <1>11, FreeTask, TaskStep DEF Mirrors

LEMMA GetForwardSourceStep ==
  ASSUME Sound, NEW s \in Server, GetForwardSource(s)
  PROVE  Sound'
<1>1. Unlinked /\ task[s].pc = "GetSource" /\ ~Mirrors(task[s], task[s].post)
  BY SoundNow DEF GetForwardSource, Unlinked, files, posts, account, MediaTypeOK, Mirrors
<1>2. CASE Posted(task[s].source)
  <2>1. Go(s, "GetMessageAttachments")
    BY <1>2 DEF GetForwardSource
  <2>2. PICK t \in Task :
            /\ Turns(s, t)
            /\ t.op = task[s].op /\ t.pc = "GetMessageAttachments" /\ t.user = task[s].user /\ t.file = task[s].file
            /\ t.post = task[s].post /\ t.source = task[s].source /\ t.ids = task[s].ids
            /\ t.copies = task[s].copies /\ t.due = task[s].due
    BY <2>1, SoundNow, Gone DEF TaskPC
  <2>3. TaskOK(t) /\ ForwardOK(t)
    BY <1>1, <1>2, <2>2, SoundNow DEF TaskOK, ForwardOK
  <2> QED BY <1>1, <2>2, <2>3, TaskStep
<1>3. CASE ~Posted(task[s].source)
  BY <1>1, <1>3, TaskEnds DEF GetForwardSource
<1> QED BY <1>2, <1>3

LEMMA GetMessageAttachmentsStep ==
  ASSUME Sound, NEW s \in Server, GetMessageAttachments(s)
  PROVE  Sound'
<1>1. Unlinked /\ task[s].pc = "GetMessageAttachments" /\ ~Mirrors(task[s], task[s].post)
  BY SoundNow DEF GetMessageAttachments, Unlinked, files, posts, account, MediaTypeOK, Mirrors
<1>2. PICK i \in Task : i = task[s] /\ TaskOK(i) /\ ForwardOK(i)
  BY SoundNow
<1>3. i.source \in Post /\ i.source # Nobody /\ links[i.source] \in SUBSET File
  BY <1>1, <1>2, SoundNow, MediaConstants DEF TaskOK, MediaTypeOK
<1>4. PICK c \in SUBSET File : c = links[i.source]
  BY <1>3
<1>5. [i EXCEPT !.copies = c, !.pc = "CreateMessage"] \in Task
  BY DEF Task, TaskPC
<1>6. PICK t \in Task : t = [i EXCEPT !.copies = c, !.pc = "CreateMessage"]
  BY <1>5
<1>7. t.pc = "CreateMessage" /\ t.user = i.user /\ t.source = i.source /\ t.due = i.due /\ t.copies = c
  BY <1>6 DEF Task
<1>8. Turns(s, t)
  BY <1>2, <1>4, <1>6, SoundNow, Turned DEF GetMessageAttachments
<1>9. TaskOK(t)
  BY <1>1, <1>2, <1>3, <1>4, <1>7, SoundNow DEF TaskOK, LinksOK
<1>10. ForwardOK(t)
  BY <1>1, <1>2, <1>4, <1>7 DEF ForwardOK
<1> QED BY <1>1, <1>8, <1>9, <1>10, TaskStep

LEMMA ResolveAttachmentStep ==
  ASSUME Sound, NEW s \in Server, ResolveAttachment(s)
  PROVE  Sound'
<1>1. Unlinked /\ task[s].pc = "ResolveAttachment"
  BY SoundNow DEF ResolveAttachment, Unlinked, files, posts, account, MediaTypeOK
<1>2. PICK i \in Task : i = task[s] /\ TaskOK(i) /\ ForwardOK(i)
  BY SoundNow
<1>3. PICK f \in i.ids :
        task' = IF Attachable(f, i.user)
                THEN [task EXCEPT ![s].file = f, ![s].pc = "AddMessageAttachment"]
                ELSE [task EXCEPT ![s].ids = @ \ {f}]
  BY <1>2 DEF ResolveAttachment
<1>4. f \in File
  BY DEF Task
<1>5. CASE Attachable(f, i.user)
  <2>1. [i EXCEPT !.file = f, !.pc = "AddMessageAttachment"] \in Task
    BY <1>4 DEF Task, TaskPC
  <2>2. PICK t \in Task : t = [i EXCEPT !.file = f, !.pc = "AddMessageAttachment"]
    BY <2>1
  <2>3. /\ t.pc = "AddMessageAttachment" /\ t.file = f /\ t.user = i.user /\ t.source = i.source
        /\ t.post = i.post /\ t.copies = i.copies
    BY <2>2 DEF Task
  <2>4. Turns(s, t)
    BY <1>2, <1>3, <1>5, <2>2, SoundNow, Turned
  <2>5. Grounds(f, {i.user})
    BY <1>5 DEF Attachable, Grounds
  <2>6. TaskOK(t) /\ ForwardOK(t)
    BY <1>1, <1>2, <1>4, <2>3, <2>5 DEF TaskOK, ForwardOK
  <2> QED BY <1>1, <1>2, <2>3, <2>4, <2>6, TaskStep DEF Mirrors
<1>6. CASE ~Attachable(f, i.user)
  <2>1. PICK ids \in SUBSET File : ids = i.ids \ {f}
    BY DEF Task
  <2>2. PICK t \in Task : t = [i EXCEPT !.ids = ids]
    BY DEF Task
  <2>3. t.pc = i.pc /\ t.user = i.user /\ t.source = i.source /\ t.post = i.post /\ t.copies = i.copies
    BY <2>2 DEF Task
  <2>4. Turns(s, t)
    BY <1>2, <1>3, <1>6, <2>1, <2>2, SoundNow, Turned
  <2>5. TaskOK(t) /\ ForwardOK(t)
    BY <1>1, <1>2, <2>3 DEF TaskOK, ForwardOK
  <2> QED BY <1>1, <1>2, <2>3, <2>4, <2>5, TaskStep DEF Mirrors
<1> QED BY <1>5, <1>6

\* One of the sender's own files has been dealt with.
LEMMA NextFile ==
  ASSUME Sound, NEW s \in Server, NEW f,
         task' = [task EXCEPT ![s].ids = @ \ {f}, ![s].pc = "ResolveAttachment"]
  PROVE  \E t \in Task :
            /\ Turns(s, t)
            /\ t.pc = "ResolveAttachment" /\ t.user = task[s].user /\ t.source = task[s].source
            /\ t.post = task[s].post /\ t.copies = task[s].copies
<1>1. PICK i \in Task : i = task[s]
  BY SoundNow
<1>2. PICK ids \in SUBSET File : ids = i.ids \ {f}
  BY DEF Task
<1>3. [i EXCEPT !.ids = ids, !.pc = "ResolveAttachment"] \in Task
  BY DEF Task, TaskPC
<1>4. PICK t \in Task : t = [i EXCEPT !.ids = ids, !.pc = "ResolveAttachment"]
  BY <1>3
<1>5. t.pc = "ResolveAttachment" /\ t.user = i.user /\ t.source = i.source /\ t.post = i.post /\ t.copies = i.copies
  BY <1>4 DEF Task
<1>6. Turns(s, t)
  BY <1>1, <1>2, <1>4, SoundNow, Turned
<1> QED BY <1>1, <1>5, <1>6

\* One of the source's files has been dealt with.
LEMMA NextCopy ==
  ASSUME Sound, NEW s \in Server, NEW f, task' = [task EXCEPT ![s].copies = @ \ {f}]
  PROVE  \E t \in Task :
            /\ Turns(s, t)
            /\ t.pc = task[s].pc /\ t.user = task[s].user /\ t.source = task[s].source
            /\ t.post = task[s].post /\ t.copies = task[s].copies \ {f}
<1>1. PICK i \in Task : i = task[s]
  BY SoundNow
<1>2. PICK c \in SUBSET File : c = i.copies \ {f}
  BY DEF Task
<1>3. PICK t \in Task : t = [i EXCEPT !.copies = c]
  BY DEF Task
<1>4. t.pc = i.pc /\ t.user = i.user /\ t.source = i.source /\ t.post = i.post /\ t.copies = c
  BY <1>3 DEF Task
<1>5. Turns(s, t)
  BY <1>1, <1>2, <1>3, SoundNow, Turned
<1> QED BY <1>1, <1>2, <1>4, <1>5

LEMMA AttachFileStep ==
  ASSUME Sound, NEW s \in Server, AttachFile(s)
  PROVE  Sound'
<1>1. /\ task[s].pc = "AddMessageAttachment"
      /\ links' = [links EXCEPT ![task[s].post] = @ \cup {task[s].file}]
      /\ task' = [task EXCEPT ![s].ids = @ \ {task[s].file}, ![s].pc = "ResolveAttachment"]
      /\ UNCHANGED <<file, post, authors, owed, answered, mediaFaults>>
  BY DEF AttachFile, files, account
<1>2. PICK i \in Task : i = task[s] /\ TaskOK(i) /\ ForwardOK(i)
  BY SoundNow
<1>3. PICK t \in Task :
            /\ Turns(s, t)
            /\ t.pc = "ResolveAttachment" /\ t.user = task[s].user /\ t.source = task[s].source
            /\ t.post = task[s].post /\ t.copies = task[s].copies
  BY <1>1, NextFile
<1>4. i.post \in Post /\ i.file \in File /\ Exists(i.post) /\ Grounds(i.file, authors[i.post])
  BY <1>1, <1>2 DEF TaskOK, Grounds
<1>5. /\ links' \in [Post -> SUBSET File] /\ links'[i.post] = links[i.post] \cup {i.file}
      /\ \A p \in Post \ {i.post} : links'[p] = links[p]
  BY <1>1, <1>2, <1>4, SoundNow DEF MediaTypeOK
<1>6. StoreTypeOK'
  BY <1>1, <1>5, SoundNow DEF StoreTypeOK
<1>7. Kept /\ Linked
  BY <1>1, <1>5 DEF Kept, Linked, Exists, Posted
<1>8. LinksOK'
  <2>1. \A p \in Post : ~Exists(p)' => links'[p] = {}
    BY <1>1, <1>4, <1>5, SoundNow DEF LinksOK, Exists
  <2>2. \A p \in Post : \A f \in links'[p] : Grounds(f, authors[p])
    BY <1>4, <1>5, SoundNow DEF LinksOK
  <2> QED BY <1>1, <2>1, <2>2 DEF LinksOK, Grounds
<1>9. TaskOK(t)' /\ ForwardOK(t)'
  BY <1>1, <1>2, <1>3, SoundNow DEF TaskOK, ForwardOK, Exists, Grounds
<1>10. Settles(s, t)
  BY <1>1, <1>3, <1>5 DEF Settles, Posted, Mirrors
<1> QED BY <1>3, <1>6, <1>7, <1>8, <1>9, <1>10, SoundNow, ServerStep DEF Sound

LEMMA MirrorAttachmentStep ==
  ASSUME Sound, NEW s \in Server, MirrorAttachment(s)
  PROVE  Sound'
<1>1. task[s].pc = "ResolveAttachment" /\ UNCHANGED <<file, post, authors, owed, answered, mediaFaults>>
  BY DEF MirrorAttachment, files, account
<1>2. CASE task[s].copies = {}
  <2>1. End(s) /\ UNCHANGED links
    BY <1>2 DEF MirrorAttachment
  <2>2. Unlinked
    BY <1>1, <2>1, SoundNow DEF Unlinked, MediaTypeOK
  <2> QED BY <1>2, <2>1, <2>2, TaskEnds
<1>3. CASE task[s].copies # {}
  <2>1. PICK f \in task[s].copies :
            /\ links' = [links EXCEPT ![task[s].post] = @ \cup {f}]
            /\ task' = [task EXCEPT ![s].copies = @ \ {f}]
    BY <1>3 DEF MirrorAttachment
  <2>2. PICK i \in Task : i = task[s] /\ TaskOK(i) /\ ForwardOK(i)
    BY SoundNow
  <2>3. task' = [task EXCEPT ![s].copies = @ \ {f}]
    BY <2>1
  <2>4. PICK t \in Task :
            /\ Turns(s, t)
            /\ t.pc = task[s].pc /\ t.user = task[s].user /\ t.source = task[s].source
            /\ t.post = task[s].post /\ t.copies = task[s].copies \ {f}
    BY <2>3, NextCopy
  <2>5. i.post \in Post /\ f \in File /\ Exists(i.post) /\ Grounds(f, authors[i.post])
    BY <1>1, <2>1, <2>2 DEF TaskOK, Task
  <2>6. /\ links' \in [Post -> SUBSET File] /\ links'[i.post] = links[i.post] \cup {f}
        /\ \A p \in Post \ {i.post} : links'[p] = links[p]
    BY <2>1, <2>2, <2>5, SoundNow DEF MediaTypeOK
  <2>7. StoreTypeOK'
    BY <1>1, <2>6, SoundNow DEF StoreTypeOK
  <2>8. Kept /\ Linked
    BY <1>1, <2>6 DEF Kept, Linked, Exists, Posted
  <2>9. LinksOK'
    <3>1. \A p \in Post : ~Exists(p)' => links'[p] = {}
      BY <1>1, <2>5, <2>6, SoundNow DEF LinksOK, Exists
    <3>2. \A p \in Post : \A g \in links'[p] : Grounds(g, authors[p])
      BY <2>5, <2>6, SoundNow DEF LinksOK
    <3> QED BY <1>1, <3>1, <3>2 DEF LinksOK, Grounds
  <2>10. TaskOK(t)' /\ ForwardOK(t)'
    BY <1>1, <2>2, <2>4, SoundNow DEF TaskOK, ForwardOK, Exists, Grounds
  <2>11. Settles(s, t)
    BY <1>1, <2>2, <2>4, <2>6 DEF Settles, Posted, Mirrors
  <2> QED BY <2>4, <2>7, <2>8, <2>9, <2>10, <2>11, SoundNow, ServerStep DEF Sound
<1> QED BY <1>2, <1>3

LEMMA CreatePostStep ==
  ASSUME Sound, NEW s \in Server, CreatePost(s)
  PROVE  Sound'
<1>1. PICK i \in Task : i = task[s] /\ TaskOK(i) /\ ForwardOK(i)
  BY SoundNow
<1>2. i.pc = "CreateMessage" /\ UNCHANGED <<file, links, answered, mediaFaults>>
  BY <1>1 DEF CreatePost, files
<1>3. PICK p \in Post :
            /\ post[p] = NoPost
            /\ post' = [post EXCEPT ![p] = [NoPost EXCEPT !.author = i.user, !.source = i.source]]
            /\ authors' = [authors EXCEPT ![p] = {i.user} \cup
                                IF i.source = Nobody THEN {} ELSE authors[i.source]]
            /\ owed' = [owed EXCEPT ![p] = i.due]
            /\ task' = [task EXCEPT ![s].post = p, ![s].pc = "ResolveAttachment"]
  BY <1>1 DEF CreatePost
<1>4. /\ i.user \in Owner /\ i.source \in Post \cup {Nobody} /\ i.due \in SUBSET File /\ i.copies \subseteq File
      /\ i.due \subseteq i.copies
  BY <1>1, <1>2 DEF TaskOK, ForwardOK, Task
<1>22. [NoPost EXCEPT !.author = i.user, !.source = i.source] \in PostRow
  BY <1>4 DEF NoPost, PostRow
<1>23. PICK r \in PostRow : r = [NoPost EXCEPT !.author = i.user, !.source = i.source]
  BY <1>22
<1>5. r = [NoPost EXCEPT !.author = i.user, !.source = i.source] /\ r.author = i.user /\ r.deleted = FALSE
  BY <1>23 DEF NoPost
<1>6. PICK us \in SUBSET Owner : us = {i.user} \cup IF i.source = Nobody THEN {} ELSE authors[i.source]
  BY <1>4, SoundNow DEF MediaTypeOK
<1>7. ~Exists(p) /\ links[p] = {}
  BY <1>3, SoundNow DEF Exists, NoPost, LinksOK
<1>8. /\ post' \in [Post -> PostRow] /\ post'[p] = r /\ \A q \in Post \ {p} : post'[q] = post[q]
      /\ authors' \in [Post -> SUBSET Owner] /\ authors'[p] = us /\ \A q \in Post \ {p} : authors'[q] = authors[q]
      /\ owed' \in [Post -> SUBSET File] /\ owed'[p] = i.due /\ \A q \in Post \ {p} : owed'[q] = owed[q]
  BY <1>3, <1>4, <1>5, <1>6, SoundNow DEF MediaTypeOK
<1>9. [i EXCEPT !.post = p, !.pc = "ResolveAttachment"] \in Task
  BY DEF Task, TaskPC
<1>10. PICK t \in Task : t = [i EXCEPT !.post = p, !.pc = "ResolveAttachment"]
  BY <1>9
<1>11. /\ t.pc = "ResolveAttachment" /\ t.post = p /\ t.user = i.user /\ t.source = i.source
       /\ t.copies = i.copies
  BY <1>10 DEF Task
<1>12. Turns(s, t)
  BY <1>1, <1>3, <1>10, SoundNow, Turned
<1>13. StoreTypeOK'
  BY <1>2, <1>8, SoundNow DEF StoreTypeOK
<1>14. Exists(p)' /\ \A q \in Post \ {p} : Exists(q)' = Exists(q) /\ Posted(q)' = Posted(q)
  BY <1>4, <1>5, <1>8, MediaConstants DEF Exists, Posted
<1>15. post[p].deleted = FALSE
  BY <1>3 DEF NoPost
<1>16. Kept
  BY <1>2, <1>7, <1>8, <1>14, <1>15 DEF Kept
<1>17. Linked
  BY <1>2, <1>7, <1>14 DEF Linked
<1>18. LinksOK'
  <2>1. \A q \in Post : ~Exists(q)' => links'[q] = {}
    BY <1>2, <1>14, SoundNow DEF LinksOK
  <2>2. \A q \in Post : \A f \in links'[q] : Grounds(f, authors'[q])
    BY <1>2, <1>7, <1>8, SoundNow DEF LinksOK
  <2> QED BY <1>2, <2>1, <2>2 DEF LinksOK, Grounds
<1>19. TaskOK(t)'
  <2>1. i.source # Nobody => Exists(i.source) /\ i.source \in Post \ {p} /\ \A f \in i.copies : Grounds(f, authors[i.source])
    BY <1>1, <1>2, <1>4, <1>7 DEF TaskOK
  <2>2. i.source = Nobody => i.copies = {}
    BY <1>1, <1>2 DEF TaskOK
  <2>3. \A f \in i.copies : Grounds(f, us)
    BY <1>6, <2>1, <2>2 DEF Grounds
  <2>4. i.source # Nobody => Exists(i.source)'
    BY <1>14, <2>1
  <2>5. (\A f \in i.copies : Grounds(f, authors[p]))'
    BY <1>2, <1>8, <2>3 DEF Grounds
  <2>6. i.user \in authors'[p]
    BY <1>6, <1>8
  <2> QED BY <1>11, <1>14, <2>4, <2>5, <2>6 DEF TaskOK
<1>20. ForwardOK(t)'
  BY <1>11 DEF ForwardOK
<1>21. Settles(s, t)
  <2>1. ASSUME NEW q \in Post, Posted(q)', q # p
        PROVE  /\ Posted(q) /\ owed'[q] = owed[q] /\ links[q] \subseteq links'[q] /\ ~Mirrors(task[s], q)
    BY <1>1, <1>2, <1>8, <1>14, <2>1 DEF Mirrors
  <2>2. Mirrors(t, p) /\ owed'[p] \subseteq links'[p] \cup t.copies
    BY <1>4, <1>8, <1>11 DEF Mirrors
  <2> QED BY <2>1, <2>2 DEF Settles
<1> QED BY <1>12, <1>13, <1>16, <1>17, <1>18, <1>19, <1>20, <1>21, SoundNow, ServerStep DEF Sound

LEMMA DeleteLinksStep ==
  ASSUME Sound, NEW s \in Server, DeleteLinks(s)
  PROVE  Sound'
<1>1. PICK i \in Task : i = task[s] /\ TaskOK(i) /\ ForwardOK(i)
  BY SoundNow
<1>2. /\ i.pc = "DeleteMessageAttachments" /\ links' = [links EXCEPT ![i.post] = {}] /\ End(s)
      /\ UNCHANGED <<file, post, authors, owed, answered, mediaFaults>>
  BY <1>1 DEF DeleteLinks, files, account
<1>3. i.post \in Post /\ post[i.post].deleted /\ ~Posted(i.post)
  BY <1>1, <1>2 DEF TaskOK, Posted
<1>4. links' \in [Post -> SUBSET File] /\ links'[i.post] = {} /\ \A p \in Post \ {i.post} : links'[p] = links[p]
  BY <1>2, <1>3, SoundNow DEF MediaTypeOK
<1>5. Turns(s, Free) /\ Free \in Task
  BY <1>2, SoundNow, Ended, FreeTask
<1>6. StoreTypeOK'
  BY <1>2, <1>4, SoundNow DEF StoreTypeOK
<1>7. \A p \in Post : Posted(p)' = Posted(p) /\ Exists(p)' = Exists(p)
  BY <1>2 DEF Posted, Exists
<1>8. Kept /\ Linked
  BY <1>2, <1>3, <1>4, <1>7 DEF Kept, Linked
<1>9. LinksOK'
  <2>1. \A p \in Post : ~Exists(p)' => links'[p] = {}
    BY <1>4, <1>7, SoundNow DEF LinksOK
  <2>2. \A p \in Post : \A f \in links'[p] : Grounds(f, authors[p])
    BY <1>4, SoundNow DEF LinksOK
  <2> QED BY <1>2, <2>1, <2>2 DEF LinksOK, Grounds
<1>10. TaskOK(Free)' /\ ForwardOK(Free)'
  BY FreeTask DEF TaskOK, ForwardOK
<1>11. Settles(s, Free)
  <2>1. ASSUME NEW p \in Post, Posted(p)'
        PROVE  /\ Posted(p) /\ owed'[p] = owed[p] /\ links[p] \subseteq links'[p] /\ ~Mirrors(task[s], p)
    BY <1>1, <1>2, <1>3, <1>4, <1>7, <2>1 DEF Mirrors
  <2> QED BY <2>1 DEF Settles
<1> QED BY <1>5, <1>6, <1>8, <1>9, <1>10, <1>11, SoundNow, ServerStep DEF Sound

LEMMA DeleteMediaFileStep ==
  ASSUME Sound, NEW s \in Server, DeleteMediaFile(s)
  PROVE  Sound' /\ Kept /\ \A f \in File : file'[f].confirmed = file[f].confirmed
<1>1. PICK i \in Task : i = task[s] /\ TaskOK(i) /\ ForwardOK(i)
  BY SoundNow
<1>2. /\ i.pc = "DeleteMediaFile" /\ file' = [file EXCEPT ![i.file].deleted = TRUE] /\ End(s)
      /\ UNCHANGED <<post, links, authors, owed, answered, mediaFaults>>
  BY <1>1 DEF DeleteMediaFile, posts, account
<1>3. i.file \in File
  BY <1>1, <1>2 DEF TaskOK
<1>4. PICK r \in FileRow : r = file[i.file]
  BY <1>3, SoundNow DEF MediaTypeOK
<1>13. PICK d \in FileRow : d = [r EXCEPT !.deleted = TRUE]
  BY DEF FileRow
<1>5. d = [r EXCEPT !.deleted = TRUE] /\ d.confirmed = r.confirmed /\ d.uploader = r.uploader
  BY <1>13 DEF FileRow
<1>6. file' = [file EXCEPT ![i.file] = d]
  BY <1>2, <1>4, <1>5
<1>7. file' \in [File -> FileRow] /\ \A f \in File : file'[f].confirmed = file[f].confirmed
                                                     /\ file'[f].uploader = file[f].uploader
  BY <1>3, <1>4, <1>5, <1>6, SoundNow DEF MediaTypeOK
<1>8. StoreTypeOK'
  BY <1>2, <1>7, SoundNow DEF StoreTypeOK
<1>9. Kept /\ Linked
  BY <1>2, <1>7 DEF Kept, Linked, Exists, Posted
<1>10. LinksOK'
  <2>1. \A p \in Post : \A f \in links[p] : f \in File
    BY SoundNow DEF MediaTypeOK
  <2>2. \A p \in Post : \A f \in links[p] : Grounds(f, authors[p])'
    BY <1>2, <1>7, <2>1, SoundNow DEF LinksOK, Grounds
  <2> QED BY <1>2, <2>2, SoundNow DEF LinksOK, Exists
<1>11. Turns(s, Free) /\ Free \in Task /\ TaskOK(Free)' /\ ForwardOK(Free)'
  BY <1>2, SoundNow, Ended, FreeTask DEF TaskOK, ForwardOK
<1>12. Settles(s, Free)
  BY <1>1, <1>2 DEF Settles, Mirrors, Posted
<1> QED BY <1>7, <1>8, <1>9, <1>10, <1>11, <1>12, SoundNow, ServerStep DEF Sound

LEMMA RemoveObjectStep ==
  ASSUME Sound, NEW s \in Server, RemoveObject(s)
  PROVE  Sound'
<1>1. Unlinked /\ task[s].pc = "RemoveObject" /\ ~Mirrors(task[s], task[s].post) /\ Go(s, "DeleteMediaFile")
  BY SoundNow DEF RemoveObject, Unlinked, posts, MediaTypeOK, Mirrors
<1>2. PICK t \in Task :
            /\ Turns(s, t)
            /\ t.op = task[s].op /\ t.pc = "DeleteMediaFile" /\ t.user = task[s].user /\ t.file = task[s].file
            /\ t.post = task[s].post /\ t.source = task[s].source /\ t.ids = task[s].ids
            /\ t.copies = task[s].copies /\ t.due = task[s].due
  BY <1>1, SoundNow, Gone DEF TaskPC
<1>3. TaskOK(t) /\ ForwardOK(t)
  BY <1>1, <1>2, SoundNow DEF TaskOK, ForwardOK
<1> QED BY <1>1, <1>2, <1>3, TaskStep

LEMMA EndingStep ==
  ASSUME Sound, NEW s \in Server, NoPostLeft(s) \/ MediaCallFails(s)
  PROVE  Sound'
<1>1. Unlinked /\ End(s) /\ ~Mirrors(task[s], task[s].post)
  BY SoundNow DEF NoPostLeft, MediaCallFails, Unlinked, files, posts, account, MediaTypeOK, Mirrors
<1> QED BY <1>1, TaskEnds

LEMMA AttachmentFailsStep ==
  ASSUME Sound, NEW s \in Server, AttachmentFails(s)
  PROVE  Sound'
<1>1. PICK i \in Task : i = task[s] /\ TaskOK(i) /\ ForwardOK(i)
  BY SoundNow
<1>2. UNCHANGED <<file, post, links, authors, answered>> /\ mediaFaults' \in Nat
  BY SoundNow DEF AttachmentFails, files, posts, MediaTypeOK
<1>3. CASE /\ i.pc = "GetMessageAttachments" /\ UNCHANGED owed
           /\ task' = [task EXCEPT ![s].pc = "CreateMessage", ![s].due = {}]
  <2>1. [i EXCEPT !.pc = "CreateMessage", !.due = {}] \in Task
    BY DEF Task, TaskPC
  <2>2. PICK t \in Task : t = [i EXCEPT !.pc = "CreateMessage", !.due = {}]
    BY <2>1
  <2>3. t.pc = "CreateMessage" /\ t.due = {} /\ t.user = i.user /\ t.source = i.source /\ t.copies = i.copies
    BY <2>2 DEF Task
  <2>4. Turns(s, t)
    BY <1>1, <1>3, <2>2, SoundNow, Turned
  <2>5. TaskOK(t) /\ ForwardOK(t)
    BY <1>1, <1>3, <2>3 DEF TaskOK, ForwardOK
  <2> QED BY <1>1, <1>2, <1>3, <2>4, <2>5, TaskStep DEF Unlinked, Mirrors
<1>4. CASE /\ i.pc \in {"ResolveAttachment", "AddMessageAttachment"} /\ UNCHANGED owed
           /\ \E f \in i.ids : task' = [task EXCEPT ![s].ids = @ \ {f}, ![s].pc = "ResolveAttachment"]
  <2>1. PICK f : task' = [task EXCEPT ![s].ids = @ \ {f}, ![s].pc = "ResolveAttachment"]
    BY <1>4
  <2>2. PICK t \in Task :
            /\ Turns(s, t)
            /\ t.pc = "ResolveAttachment" /\ t.user = task[s].user /\ t.source = task[s].source
            /\ t.post = task[s].post /\ t.copies = task[s].copies
    BY <2>1, NextFile
  <2>3. TaskOK(t) /\ ForwardOK(t)
    BY <1>1, <1>4, <2>2 DEF TaskOK, ForwardOK
  <2> QED BY <1>1, <1>2, <1>4, <2>2, <2>3, TaskStep DEF Unlinked, Mirrors
<1>5. CASE /\ i.pc = "ResolveAttachment" /\ owed' = [owed EXCEPT ![i.post] = {}]
           /\ \E f \in i.copies : task' = [task EXCEPT ![s].copies = @ \ {f}]
  <2>1. PICK f : task' = [task EXCEPT ![s].copies = @ \ {f}]
    BY <1>5
  <2>2. PICK t \in Task :
            /\ Turns(s, t)
            /\ t.pc = task[s].pc /\ t.user = task[s].user /\ t.source = task[s].source
            /\ t.post = task[s].post /\ t.copies = task[s].copies \ {f}
    BY <2>1, NextCopy
  <2>3. i.post \in Post
    BY <1>1, <1>5 DEF TaskOK
  <2>4. owed' \in [Post -> SUBSET File] /\ owed'[i.post] = {} /\ \A p \in Post \ {i.post} : owed'[p] = owed[p]
    BY <1>5, <2>3, SoundNow DEF MediaTypeOK
  <2>5. StoreTypeOK' /\ LinksOK'
    BY <1>2, <2>4, SoundNow DEF StoreTypeOK, LinksOK, Exists, Grounds
  <2>6. Kept /\ Linked
    BY <1>2 DEF Kept, Linked, Exists, Posted
  <2>7. TaskOK(t)' /\ ForwardOK(t)'
    BY <1>1, <1>2, <1>5, <2>2 DEF TaskOK, ForwardOK, Exists, Grounds
  <2>8. Settles(s, t)
    BY <1>1, <1>2, <2>4 DEF Settles, Mirrors, Posted
  <2> QED BY <2>2, <2>5, <2>6, <2>7, <2>8, SoundNow, ServerStep DEF Sound
<1> QED BY <1>1, <1>3, <1>4, <1>5 DEF AttachmentFails

\* Task j is task i, except perhaps for what it owes.
Alike(i, j) ==
    /\ j.pc = i.pc /\ j.user = i.user /\ j.file = i.file /\ j.post = i.post /\ j.source = i.source
    /\ j.copies = i.copies

LEMMA DeletePostStep ==
  ASSUME Sound, NEW s \in Server, DeletePost(s)
  PROVE  Sound'
<1>0. MediaTypeOK /\ GroundInv /\ ForwardInv /\ LinksOK /\ StoreTypeOK
  BY SoundNow
<1>1. task[s] = Free /\ UNCHANGED <<file, links, authors, owed, answered, mediaFaults>>
  BY DEF DeletePost, files, account
<1>2. PICK p \in Post :
        /\ Posted(p)
        /\ post' = [post EXCEPT ![p].deleted = TRUE]
        /\ task' = [t \in Server |->
                        IF t = s THEN [Free EXCEPT !.op = "DeleteMessage", !.post = p,
                                                   !.pc = "DeleteMessageAttachments"]
                        ELSE IF task[t].source = p
                                /\ task[t].pc \in {"GetSource", "GetMessageAttachments"}
                        THEN [task[t] EXCEPT !.due = {}] ELSE task[t]]
  BY DEF DeletePost
<1>3. PICK r \in PostRow : r = post[p]
  BY <1>0 DEF MediaTypeOK
<1>4. PICK x \in PostRow : x = [r EXCEPT !.deleted = TRUE]
  BY DEF PostRow
<1>5. x.author = r.author /\ x.deleted
  BY <1>4 DEF PostRow
<1>6. post' = [post EXCEPT ![p] = x]
  BY <1>2, <1>3, <1>4
<1>7. post' \in [Post -> PostRow] /\ post'[p] = x /\ \A q \in Post \ {p} : post'[q] = post[q]
  BY <1>0, <1>6 DEF MediaTypeOK
<1>8. /\ ~Posted(p)' /\ \A q \in Post \ {p} : Posted(q)' = Posted(q)
      /\ \A q \in Post : Exists(q)' = Exists(q)
  BY <1>3, <1>5, <1>7 DEF Posted, Exists
<1>9. Kept
  BY <1>1, <1>5, <1>7, <1>8 DEF Kept
<1>10. PICK f \in Task : f = Free
  BY FreeTask
<1>11. [f EXCEPT !.op = "DeleteMessage", !.post = p, !.pc = "DeleteMessageAttachments"] \in Task
  BY DEF Task, TaskPC
<1>12. PICK d \in Task : d = [f EXCEPT !.op = "DeleteMessage", !.post = p, !.pc = "DeleteMessageAttachments"]
  BY <1>11
<1>13. d.pc = "DeleteMessageAttachments" /\ d.post = p /\ d.source = f.source
  BY <1>12 DEF Task
<1>14. task'[s] = d /\ TaskOK(d)' /\ ForwardOK(d)'
  <2>1. task'[s] = d
    BY <1>2, <1>10, <1>12
  <2>2. d.source = Nobody /\ post'[p].deleted
    BY <1>5, <1>7, <1>10, <1>13, FreeTask
  <2> QED BY <1>13, <2>1, <2>2 DEF TaskOK, ForwardOK
<1>15. ASSUME NEW v \in Server \ {s}
       PROVE  \E j \in Task : /\ j = task'[v] /\ Alike(task[v], j)
                              /\ IF task[v].source = p /\ task[v].pc \in {"GetSource", "GetMessageAttachments"}
                                 THEN j.due = {} ELSE j.due = task[v].due
  <2>1. PICK i \in Task : i = task[v]
    BY <1>0 DEF MediaTypeOK
  <2>2. CASE i.source = p /\ i.pc \in {"GetSource", "GetMessageAttachments"}
    <3>1. PICK j \in Task : j = [i EXCEPT !.due = {}]
      BY DEF Task
    <3>2. Alike(i, j) /\ j.due = {}
      BY <3>1 DEF Task, Alike
    <3>3. j = task'[v]
      BY <1>2, <2>1, <2>2, <3>1
    <3> QED BY <2>1, <2>2, <3>2, <3>3
  <2>3. CASE ~(i.source = p /\ i.pc \in {"GetSource", "GetMessageAttachments"})
    BY <1>2, <2>1, <2>3 DEF Alike
  <2> QED BY <2>2, <2>3
<1>16. ASSUME NEW v \in Server
       PROVE  task'[v] \in Task /\ TaskOK(task[v])' /\ ForwardOK(task[v])'
  <2>1. CASE v = s
    BY <1>14, <2>1 DEF TaskOK, ForwardOK
  <2>2. CASE v # s
    <3>1. PICK i \in Task : i = task[v] /\ TaskOK(i) /\ ForwardOK(i)
      BY SoundNow
    <3>2. PICK j \in Task : /\ j = task'[v] /\ Alike(i, j)
                            /\ IF i.source = p /\ i.pc \in {"GetSource", "GetMessageAttachments"}
                               THEN j.due = {} ELSE j.due = i.due
      BY <1>15, <2>2, <3>1
    <3>3. TaskOK(i)'
      BY <1>0, <1>9, <3>1, TaskStays
    <3>4. TaskOK(j)'
      BY <3>2, <3>3 DEF Alike, TaskOK
    <3>5. ForwardOK(j)'
      <4>1. CASE j.pc \in {"GetSource", "GetMessageAttachments"} /\ j.source = p
        BY <3>2, <4>1 DEF Alike, ForwardOK
      <4>2. CASE j.pc \in {"GetSource", "GetMessageAttachments"} /\ j.source # p
        <5>1. i.source \in Post /\ j.source = i.source /\ j.due = i.due /\ j.pc = i.pc
          BY <3>1, <3>2, <4>2 DEF Alike, TaskOK
        <5>2. Posted(j.source)' = Posted(i.source) /\ links'[j.source] = links[i.source]
          BY <1>1, <1>8, <4>2, <5>1
        <5> QED BY <3>1, <4>2, <5>1, <5>2 DEF ForwardOK
      <4>3. CASE j.pc \notin {"GetSource", "GetMessageAttachments"}
        BY <3>1, <3>2, <4>3 DEF Alike, ForwardOK
      <4> QED BY <4>1, <4>2, <4>3
    <3> QED BY <3>2, <3>4, <3>5 DEF TaskOK, ForwardOK
  <2> QED BY <2>1, <2>2
<1>17. MediaTypeOK'
  <2>1. task' \in [Server -> Task]
    BY <1>2, <1>16
  <2> QED BY <1>0, <1>1, <1>7, <2>1 DEF MediaTypeOK
<1>18. (\A v \in Server : TaskOK(task[v]) /\ ForwardOK(task[v]))'
  BY <1>16
<1>19. LinksOK'
  BY <1>0, <1>1, <1>8 DEF LinksOK, Grounds
<1>20. ASSUME NEW q \in Post, Posted(q)'
       PROVE  \/ owed'[q] \subseteq links'[q]
              \/ \E v \in Server : Mirrors(task'[v], q) /\ owed'[q] \subseteq links'[q] \cup task'[v].copies
  <2>1. Posted(q) /\ q # p
    BY <1>8, <1>20
  <2>2. \/ owed[q] \subseteq links[q]
        \/ \E v \in Server : Mirrors(task[v], q) /\ owed[q] \subseteq links[q] \cup task[v].copies
    BY <1>0, <2>1 DEF ForwardInv
  <2>3. ASSUME NEW v \in Server, Mirrors(task[v], q)
        PROVE  Mirrors(task'[v], q) /\ task'[v].copies = task[v].copies
    <3>1. v # s
      BY <1>1, <2>3, FreeTask DEF Mirrors
    <3> QED BY <1>15, <2>3, <3>1 DEF Mirrors, Alike
  <2> QED BY <1>1, <2>2, <2>3
<1>21. (\A q \in Post : Posted(q) =>
            \/ owed[q] \subseteq links[q]
            \/ \E v \in Server : Mirrors(task[v], q) /\ owed[q] \subseteq links[q] \cup task[v].copies)'
  BY <1>20 DEF Mirrors
<1> QED BY <1>17, <1>18, <1>19, <1>21 DEF Sound, GroundInv, ForwardInv, LinksOK

-----------------------------------------------------------------------------
(* The files.                                                                *)

\* A step of the media service leaves the messages alone.
LEMMA FileStep ==
  ASSUME Sound, Kept, file' \in [File -> FileRow], answered' \subseteq File, mediaFaults' \in Nat,
         UNCHANGED <<post, links, task, authors, owed>>
  PROVE  Sound'
<1>0. MediaTypeOK /\ GroundInv /\ ForwardInv
  BY DEF Sound
<1>1. MediaTypeOK'
  BY <1>0 DEF MediaTypeOK
<1>2. ASSUME NEW s \in Server PROVE TaskOK(task[s])'
  <2>1. PICK i \in Task : i = task[s] /\ TaskOK(i)
    BY SoundNow
  <2>2. TaskOK(i)'
    BY <1>0, <2>1, TaskStays
  <2> QED BY <2>1, <2>2 DEF TaskOK
<1>3. \A p \in Post : \A f \in links[p] : f \in File /\ Grounds(f, authors[p])'
  BY <1>0 DEF GroundInv, Grounds, Kept, MediaTypeOK
<1>4. GroundInv'
  BY <1>0, <1>2, <1>3 DEF GroundInv, Exists
<1>5. ForwardInv'
  BY <1>0 DEF ForwardInv, ForwardOK, Posted, Mirrors
<1> QED BY <1>1, <1>4, <1>5 DEF Sound

LEMMA RequestUploadStep ==
  ASSUME Sound, ConfirmInv, RequestUpload
  PROVE  Sound' /\ ConfirmInv'
<1>0. MediaTypeOK
  BY DEF Sound
<1>1. PICK f \in File, u \in Owner : file[f] = NoFile /\ file' = [file EXCEPT ![f] = CreateMediaFile(u)]
  BY DEF RequestUpload
<1>2. CreateMediaFile(u) \in FileRow /\ CreateMediaFile(u).confirmed = FALSE
  BY DEF CreateMediaFile, NoFile, FileRow
<1>3. file' \in [File -> FileRow] /\ ~file'[f].confirmed /\ \A g \in File \ {f} : file'[g] = file[g]
  BY <1>0, <1>1, <1>2 DEF MediaTypeOK
<1>4. ~file[f].confirmed
  BY <1>1 DEF NoFile
<1>5. /\ UNCHANGED <<post, links, task, authors, owed, answered, object, premature, removed>>
      /\ mediaFaults' \in Nat
  BY <1>0 DEF RequestUpload, posts, account, MediaTypeOK
<1>6. Kept
  BY <1>3, <1>4, <1>5 DEF Kept, Exists
<1>7. answered' \subseteq File
  BY <1>0, <1>5 DEF MediaTypeOK
<1>8. ConfirmInv'
  BY <1>3, <1>4, <1>5, <1>7 DEF ConfirmInv
<1> QED BY <1>3, <1>5, <1>6, <1>7, <1>8, FileStep

LEMMA ConfirmUploadStep ==
  ASSUME Sound, ConfirmInv, ConfirmUpload
  PROVE  Sound' /\ ConfirmInv'
<1>0. MediaTypeOK
  BY DEF Sound
<1>1. PICK f \in File :
        /\ file' = [file EXCEPT ![f] = ConfirmMediaFile(@)]
        /\ answered' = answered \cup {f}
        /\ premature' = IF f \in object THEN premature ELSE premature \cup {f}
  BY DEF ConfirmUpload
<1>2. PICK r \in FileRow : r = file[f]
  BY <1>0 DEF MediaTypeOK
<1>3. ConfirmMediaFile(r) \in FileRow
  BY DEF ConfirmMediaFile, FileRow
<1>4. PICK d \in FileRow : d = ConfirmMediaFile(r)
  BY <1>3
<1>5. d.confirmed /\ d.uploader = r.uploader
  BY <1>4 DEF ConfirmMediaFile, FileRow
<1>6. file' = [file EXCEPT ![f] = d]
  BY <1>1, <1>2, <1>4
<1>7. file' \in [File -> FileRow] /\ file'[f] = d /\ \A g \in File \ {f} : file'[g] = file[g]
  BY <1>0, <1>6 DEF MediaTypeOK
<1>8. UNCHANGED <<object, post, links, task, mediaFaults, removed, authors, owed>>
  BY DEF ConfirmUpload, posts
<1>9. Kept
  BY <1>2, <1>5, <1>7, <1>8 DEF Kept, Exists
<1>10. answered' \subseteq File /\ mediaFaults' \in Nat
  BY <1>0, <1>1, <1>8 DEF MediaTypeOK
<1>11. ConfirmInv'
  BY <1>0, <1>1, <1>5, <1>7, <1>8 DEF ConfirmInv, MediaTypeOK
<1> QED BY <1>7, <1>8, <1>9, <1>10, <1>11, FileStep

LEMMA OtherFileStep ==
  ASSUME Sound, ConfirmInv, PutObject \/ URLExpires \/ GetDownloadURL
  PROVE  Sound' /\ ConfirmInv'
<1>0. MediaTypeOK
  BY DEF Sound
<1>1. UNCHANGED <<file, post, links, task, mediaFaults, premature, removed, authors, owed>>
  BY DEF PutObject, URLExpires, GetDownloadURL, files, posts, account
<1>2. object \subseteq object'
  BY DEF PutObject, URLExpires, GetDownloadURL, files
<1>3. \A f \in answered' : f \in File /\ file[f].confirmed
  BY <1>0 DEF PutObject, URLExpires, GetDownloadURL, account, ConfirmInv, MediaTypeOK
<1>4. ConfirmInv'
  BY <1>1, <1>2, <1>3 DEF ConfirmInv
<1>5. Kept
  BY <1>1 DEF Kept, Exists
<1>6. file' \in [File -> FileRow] /\ answered' \subseteq File /\ mediaFaults' \in Nat
  BY <1>0, <1>1, <1>3 DEF MediaTypeOK
<1> QED BY <1>1, <1>4, <1>5, <1>6, FileStep

ServerActs(s) ==
    \/ CallDelete(s) \/ RemoveObject(s) \/ DeleteMediaFile(s)
    \/ CallSend(s) \/ GetForwardSource(s) \/ GetMessageAttachments(s) \/ CreatePost(s)
    \/ NoPostLeft(s) \/ ResolveAttachment(s) \/ AttachFile(s) \/ MirrorAttachment(s)
    \/ DeletePost(s) \/ DeleteLinks(s) \/ AttachmentFails(s) \/ MediaCallFails(s)

LEMMA ConfirmStep ==
  ASSUME Sound, ConfirmInv, NEW s \in Server, ServerActs(s)
  PROVE  ConfirmInv'
<1>1. CASE RemoveObject(s)
  <2>1. /\ UNCHANGED <<file, answered, premature>> /\ object' = object \ {task[s].file}
        /\ removed' = removed \cup {task[s].file}
    BY <1>1 DEF RemoveObject
  <2> QED BY <2>1 DEF ConfirmInv
<1>2. CASE DeleteMediaFile(s)
  <2>1. UNCHANGED <<object, answered, premature, removed>> /\ answered \subseteq File
    BY <1>2, SoundNow DEF DeleteMediaFile, account, MediaTypeOK
  <2>2. \A f \in File : file'[f].confirmed = file[f].confirmed
    BY <1>2, DeleteMediaFileStep
  <2> QED BY <2>1, <2>2 DEF ConfirmInv
<1>3. CASE ~RemoveObject(s) /\ ~DeleteMediaFile(s)
  <2>1. UNCHANGED <<file, object, answered, premature, removed>>
    BY <1>3 DEF ServerActs, CallDelete, CallSend, GetForwardSource, GetMessageAttachments, CreatePost,
                NoPostLeft, ResolveAttachment, AttachFile, MirrorAttachment, DeletePost, DeleteLinks,
                AttachmentFails, MediaCallFails, files, account
  <2> QED BY <2>1 DEF ConfirmInv
<1> QED BY <1>1, <1>2, <1>3

LEMMA MediaStep ==
  ASSUME Sound, ConfirmInv, [MediaNext]_mediaVars
  PROVE  Sound' /\ ConfirmInv'
<1>1. CASE UNCHANGED mediaVars
  <2>1. UNCHANGED <<file, object, post, links, task, mediaFaults, answered, premature, removed, authors, owed>>
    BY <1>1 DEF mediaVars, files, posts, account
  <2>2. Kept /\ ConfirmInv'
    BY <2>1 DEF Kept, Exists, ConfirmInv
  <2> QED BY <2>1, <2>2, FileStep DEF Sound, MediaTypeOK
<1>2. ASSUME NEW s \in Server, ServerActs(s) PROVE Sound' /\ ConfirmInv'
  <2>1. Sound'
    BY <1>2, CallDeleteStep, RemoveObjectStep, DeleteMediaFileStep, CallSendStep, GetForwardSourceStep,
       GetMessageAttachmentsStep, CreatePostStep, EndingStep, ResolveAttachmentStep, AttachFileStep,
       MirrorAttachmentStep, DeletePostStep, DeleteLinksStep, AttachmentFailsStep DEF ServerActs
  <2> QED BY <1>2, <2>1, ConfirmStep
<1> QED BY <1>1, <1>2, RequestUploadStep, ConfirmUploadStep, OtherFileStep DEF MediaNext, ServerActs

LEMMA MediaStart == MediaInit => Sound /\ ConfirmInv
<1> SUFFICES ASSUME MediaInit PROVE Sound /\ ConfirmInv
  OBVIOUS
<1>1. \A s \in Server : task[s] = Free
  BY DEF MediaInit
<1>2. NoFile \in FileRow /\ ~NoFile.confirmed /\ NoPost \in PostRow /\ NoPost.author = Nobody
  BY DEF NoFile, FileRow, NoPost, PostRow
<1>3. MediaTypeOK
  BY <1>2, FreeTask DEF MediaInit, MediaTypeOK
<1>4. \A s \in Server : TaskOK(task[s]) /\ ForwardOK(task[s])
  BY <1>1, FreeTask DEF TaskOK, ForwardOK
<1>5. \A p \in Post : ~Exists(p) /\ ~Posted(p) /\ links[p] = {}
  BY <1>2 DEF MediaInit, Exists, Posted
<1>6. GroundInv /\ ForwardInv
  BY <1>4, <1>5 DEF GroundInv, ForwardInv
<1>7. ConfirmInv
  BY <1>2 DEF MediaInit, ConfirmInv
<1> QED BY <1>3, <1>6, <1>7 DEF Sound

LEMMA MediaAlways == MediaSpec => [](Sound /\ ConfirmInv)
<1>1. Sound /\ ConfirmInv /\ [MediaNext]_mediaVars => (Sound /\ ConfirmInv)'
  BY MediaStep
<1> QED BY <1>1, MediaStart, PTL DEF MediaSpec

\* Every file attached to a message was confirmed, and uploaded by its author or by the
\* author of a message it was forwarded from: for any number of files, of forwards of
\* forwards and of SendMessage, DeleteMessage and DeleteFile that overlap or fail.
THEOREM AttachmentsAreGrounded == MediaSpec => []AttachmentsGrounded
<1>1. Sound /\ ConfirmInv => AttachmentsGrounded
  BY DEF Sound, GroundInv, Grounds, AttachmentsGrounded
<1> QED BY <1>1, MediaAlways, PTL

\* A forward whose send has ended has, and keeps until it is deleted itself, what its
\* source had attached, whatever becomes of the source meanwhile.
THEOREM ForwardsStandAlone == MediaSpec => []ForwardStandsAlone
<1>1. Sound /\ ConfirmInv => ForwardStandsAlone
  BY DEF Sound, ForwardInv, Mirrors, ForwardStandsAlone
<1> QED BY <1>1, MediaAlways, PTL

\* Every URL that a client was given, or finds in a message, leads to an object, unless
\* the file was confirmed before its upload or a DeleteFile has removed the object.
THEOREM LinksLeadSomewhere == MediaSpec => []LinksResolve
<1>1. ASSUME Sound, ConfirmInv PROVE LinksResolve
  <2>1. \A f \in answered : f \in File /\ file[f].confirmed
    BY <1>1 DEF Sound, MediaTypeOK, ConfirmInv
  <2>2. \A p \in Post : \A f \in links[p] : f \in File /\ file[f].confirmed
    BY <1>1 DEF Sound, MediaTypeOK, GroundInv, Grounds
  <2>3. \A f \in UNION {links[p] : p \in Post} : f \in File /\ file[f].confirmed
    BY <2>2
  <2> QED BY <1>1, <2>1, <2>3 DEF ConfirmInv, LinksResolve
<1> QED BY <1>1, MediaAlways, PTL

-----------------------------------------------------------------------------
(* Messages: what a running RPC may count on.                                *)

\* The steps of an RPC that names one message.
OnMessage == {"AddMessageAttachment", "GetReadState", "IncrementMentionCount", "GetMessage",
              "UpdateMessageContent", "SaveEditHistory", "DeleteMessage", "DeleteAttachments",
              "DeleteReactions", "DeleteEditHistory", "SetPinned", "WriteReaction",
              "UpsertReadState", "GetReactions", "Publish"}

\* Those at which the message is known to have a row.
WithRow == OnMessage \ {"GetMessage", "SetPinned", "UpsertReadState"}

\* The steps of one RPC only.
BeforeSend == {"GetSource", "GetSourceAttachments", "GetParent", "CreateMessage"}

SendSteps == {"AddMessageAttachment", "GetReadState", "IncrementMentionCount"}

EditSteps == {"UpdateMessageContent", "SaveEditHistory"}

Cascade == {"DeleteAttachments", "DeleteReactions", "DeleteEditHistory"}

\* Whatever the interleaving, an RPC goes on only with a message that has a row, and
\* publishes only one that was sent.
Keyed(r) ==
    /\ r.pc \in OnMessage => r.msg \in Message
    /\ r.pc \in WithRow => r.msg \in Stored
    /\ r.pc \in SendSteps \cup {"Publish"} => r.msg \in Sent
    /\ r.pc # "idle" => r.user \in User
    /\ r.pc \in {"GetReadState", "IncrementMentionCount"} => r.mention \in User
    /\ r.pc \in BeforeSend \cup SendSteps => r.op = "SendMessage"
    /\ r.pc \in EditSteps => r.op = "EditMessage"
    /\ r.pc \in Cascade \cup {"DeleteMessage"} => r.op = "DeleteMessage"
    /\ r.pc = "WriteReaction" => r.op \in {"AddReaction", "RemoveReaction"}
    /\ r.pc = "SetPinned" => r.op \in {"PinMessage", "UnpinMessage"}

\* What there is of a message that has no row, and of a row that was not sent.
RowFacts ==
    /\ Sent \subseteq Stored
    /\ \A m \in Message \ Stored : ~row[m].deleted /\ written[m] = {}
    /\ \A m \in Message \ Sent : view[m] = Hidden

KeyInv ==
    /\ RowFacts
    /\ \A m \in purged : row[m].deleted
    /\ \A w \in Worker : Keyed(rpc[w])

\* serial means what it says of the RPCs that are running.
MessagesSerial == serial \in BOOLEAN /\ (serial => OneAtATime)

\* RPC r is about to publish message r.msg as it is stored.
Carries(r) ==
    /\ Live(r.msg)
    /\ r.event.shown
    /\ r.event.content = row[r.msg].content
    /\ r.event.pinned = row[r.msg].pinned

\* RPC r, the only one to run, has the message as it stands, and the cascade of a delete has
\* removed what it has passed.
Holds(r) ==
    /\ \/ r.pc \in SendSteps \cup EditSteps \cup {"WriteReaction"}
       \/ r.pc \in {"GetReactions", "Publish"} /\ r.op # "DeleteMessage"
       => Carries(r)
    /\ r.pc = "UpdateMessageContent" => r.old = row[r.msg].content
    /\ r.pc = "SaveEditHistory" => written[r.msg] \subseteq edits[r.msg] \cup {r.old, row[r.msg].content}
    /\ r.pc \in {"GetMessage", "GetReactions"} /\ r.op = "PinMessage" => row[r.msg].pinned
    /\ r.pc \in {"GetMessage", "GetReactions"} /\ r.op = "UnpinMessage" => ~row[r.msg].pinned
    /\ r.pc = "Publish" /\ r.op # "DeleteMessage" =>
        r.event.count = Cardinality(reactions[r.msg]) /\ r.event.names = NamesOf(r.msg)
    /\ r.pc = "IncrementMentionCount" => r.state = readState[r.mention]
    /\ r.op = "DeleteMessage" =>
        /\ r.pc \in Cascade \cup {"DeleteMessage", "GetReactions", "Publish"} => ~r.event.shown
        /\ r.pc \in Cascade \cup {"GetReactions", "Publish"} => row[r.msg].deleted
        /\ r.pc \in {"DeleteReactions", "DeleteEditHistory", "GetReactions", "Publish"} => r.msg \notin attached
        /\ r.pc \in {"DeleteEditHistory", "GetReactions", "Publish"} => reactions[r.msg] = {}
        /\ r.pc \in {"GetReactions", "Publish"} => edits[r.msg] = {}

\* What a subscribed client shows of message m is what is stored.
Shows(m) ==
    view[m] = IF m \in Sent /\ Live(m)
              THEN [shown |-> TRUE, content |-> row[m].content, pinned |-> row[m].pinned,
                    count |-> Cardinality(reactions[m]), names |-> NamesOf(m)]
              ELSE Hidden

\* The tables that belong to message m agree with it.
Tidy(m) ==
    /\ Live(m) => written[m] \subseteq edits[m] \cup {row[m].content}
    /\ m \in Stored /\ row[m].deleted => m \notin attached /\ reactions[m] = {} /\ edits[m] = {}

\* RPC r has changed message m and will publish it.
Owes(r, m) ==
    /\ r.msg = m
    /\ \/ r.pc \in SendSteps \cup Cascade \cup {"SaveEditHistory", "GetReactions", "Publish"}
       \/ r.pc = "GetMessage" /\ r.op \in {"PinMessage", "UnpinMessage"} /\ Live(m)

\* RPC r has changed message m and will bring its tables in line.
Tidies(r, m) == r.msg = m /\ r.pc \in Cascade \cup {"SaveEditHistory"}

\* The read states of the users who have acked a message are the ones due.
Acked == \A u \in User : due[u].last # None => readState[u] = due[u]

CalmFacts ==
    /\ Acked
    /\ \A w \in Worker : Holds(rpc[w])
    /\ \A m \in Message \ purged : Shows(m) \/ \E w \in Worker : Owes(rpc[w], m)
    /\ \A m \in Message \ purged : Tidy(m) \/ \E w \in Worker : Tidies(rpc[w], m)

\* As long as RPCs have not overlapped and no call has failed, a table or a view that is
\* behind is one the running RPC is about to write.
CalmInv == serial /\ faults = 0 => CalmFacts

MessagesInv == MessagesTypeOK /\ KeyInv /\ MessagesSerial /\ CalmInv

-----------------------------------------------------------------------------
(* A step of one RPC.                                                        *)

LEMMA IdleRequest ==
  /\ Idle \in Request /\ Idle.op = "none" /\ Idle.pc = "idle" /\ Idle.user = None /\ Idle.msg = None
  /\ Idle.reply = None /\ Idle.source = None /\ Idle.ids = {} /\ Idle.mention = None
  BY DEF Idle, Request, Calls, Unread, ReadState, Hidden, View

\* What is deleted stays deleted.
Lasting == \A m \in Message : row[m].deleted => row'[m].deleted

\* The tables without the running RPCs.
TablesOK ==
    /\ row \in [Message -> Row]
    /\ attached \subseteq Message
    /\ reactions \in [Message -> SUBSET User]
    /\ edits \in [Message -> SUBSET (Content \cup {None})]
    /\ readState \in [User -> ReadState]
    /\ view \in [Message -> View]
    /\ faults \in Nat
    /\ written \in [Message -> SUBSET (Content \cup {None})]
    /\ due \in [User -> ReadState]
    /\ purged \subseteq Message

\* The stored state as r, when it is the only RPC that may run, leaves it.
Settled(r) ==
    /\ Acked
    /\ Holds(r)
    /\ \A m \in Message \ purged : Shows(m) \/ Owes(r, m)
    /\ \A m \in Message \ purged : Tidy(m) \/ Tidies(r, m)

\* Worker w's request becomes j.
Moves(w, j) == rpc' = [rpc EXCEPT ![w] = j] /\ serial' = (serial /\ OneAtATime')

Like(i, j) ==
    /\ j.op = i.op /\ j.user = i.user /\ j.msg = i.msg /\ j.reply = i.reply /\ j.source = i.source
    /\ j.ids = i.ids /\ j.text = i.text /\ j.mention = i.mention /\ j.old = i.old
    /\ j.state = i.state /\ j.event = i.event

LEMMA Moved ==
  ASSUME MessagesTypeOK, NEW w \in Worker, NEW j \in Request, Moves(w, j)
  PROVE  rpc' \in [Worker -> Request] /\ rpc'[w] = j /\ \A v \in Worker : v # w => rpc'[v] = rpc[v]
  BY DEF Moves, MessagesTypeOK

LEMMA Goes ==
  ASSUME MessagesTypeOK, NEW w \in Worker, NEW pc \in Calls, Goto(w, pc)
  PROVE  \E j \in Request : rpc' = [rpc EXCEPT ![w] = j] /\ Like(rpc[w], j) /\ j.pc = pc
<1>1. PICK i \in Request : i = rpc[w] /\ i \in Request
  BY DEF MessagesTypeOK
<1>2. [i EXCEPT !.pc = pc] \in Request
  BY DEF Request
<1>3. PICK j \in Request : j = [i EXCEPT !.pc = pc] /\ j \in Request
  BY <1>2
<1>4. Like(i, j) /\ j.pc = pc
  BY <1>3 DEF Request, Like
<1>5. rpc' = [rpc EXCEPT ![w] = j]
  BY <1>1, <1>3 DEF Goto
<1> QED
  BY <1>1, <1>4, <1>5

LEMMA Others ==
  ASSUME MessagesInv, NEW w \in Worker, NEW j \in Request, Moves(w, j),
         rpc[w].pc # "idle" \/ j.pc # "idle", serial'
  PROVE  serial /\ \A v \in Worker : v # w => rpc[v].pc = "idle" /\ rpc'[v].pc = "idle"
<1>1. rpc'[w] = j /\ \A v \in Worker : v # w => rpc'[v] = rpc[v]
  BY Moved DEF MessagesInv
<1>2. serial /\ OneAtATime /\ OneAtATime'
  BY DEF Moves, MessagesInv, MessagesSerial
<1>3. ASSUME NEW v \in Worker, v # w  PROVE rpc[v].pc = "idle"
  BY <1>1, <1>2, <1>3 DEF OneAtATime
<1> QED
  BY <1>1, <1>2, <1>3

\* A request that is done counts on nothing.
LEMMA IdleHolds ==
  ASSUME NEW i, i.pc = "idle"
  PROVE  Holds(i) /\ \A m \in Message : ~Owes(i, m) /\ ~Tidies(i, m)
  BY DEF Holds, Owes, Tidies, SendSteps, EditSteps, Cascade

LEMMA SettledNow ==
  ASSUME MessagesInv, NEW w \in Worker, NEW j \in Request, Moves(w, j),
         rpc[w].pc # "idle" \/ j.pc # "idle", serial', faults = 0
  PROVE  Settled(rpc[w])
<1>1. serial /\ \A v \in Worker : v # w => rpc[v].pc = "idle"
  BY Others
<1>2. ASSUME NEW v \in Worker, NEW m \in Message, Owes(rpc[v], m) \/ Tidies(rpc[v], m)  PROVE v = w
  BY <1>1, <1>2, IdleHolds
<1> QED
  BY <1>1, <1>2 DEF MessagesInv, CalmInv, CalmFacts, Settled

LEMMA KeyedStays ==
  ASSUME NEW i, Keyed(i), Stored \subseteq Stored', Sent \subseteq Sent'
  PROVE  Keyed(i)'
  BY DEF Keyed

LEMMA RpcStep ==
  ASSUME MessagesInv, NEW w \in Worker, NEW j \in Request, Moves(w, j),
         rpc[w].pc # "idle" \/ j.pc # "idle",
         TablesOK', Stored \subseteq Stored', Sent \subseteq Sent', RowFacts', Keyed(j)',
         Lasting, \A m \in purged' : m \in purged \/ row'[m].deleted,
         faults' = 0 => faults = 0, faults' = 0 /\ Settled(rpc[w]) => Settled(j)'
  PROVE  MessagesInv' /\ Lasting
<1>1. rpc' \in [Worker -> Request] /\ rpc'[w] = j /\ \A v \in Worker : v # w => rpc'[v] = rpc[v]
  BY Moved DEF MessagesInv
<1>2. MessagesTypeOK'
  BY <1>1 DEF MessagesTypeOK, TablesOK
<1>3. KeyInv'
  <2>1. ASSUME NEW v \in Worker  PROVE Keyed(rpc[v])'
    <3>1. CASE v = w
      <4>1. PICK i \in Request : i = rpc'[v] /\ i = j
        BY <1>1, <3>1
      <4>2. Keyed(i)'
        BY <4>1
      <4> QED
        BY <4>1, <4>2 DEF Keyed
    <3>2. CASE v # w
      <4>1. PICK i \in Request : i = rpc[v] /\ i = rpc'[v]
        BY <1>1, <3>2
      <4>2. Keyed(i)
        BY <4>1 DEF MessagesInv, KeyInv
      <4>3. Keyed(i)'
        BY <4>2, KeyedStays
      <4> QED
        BY <4>1, <4>3 DEF Keyed
    <3> QED
      BY <3>1, <3>2
  <2>2. (\A v \in Worker : Keyed(rpc[v]))'
    BY <2>1
  <2>3. (\A m \in purged : row[m].deleted)'
    BY DEF Lasting, MessagesInv, KeyInv, MessagesTypeOK
  <2> QED
    BY <2>2, <2>3 DEF KeyInv
<1>4. MessagesSerial'
  BY DEF Moves, MessagesInv, MessagesSerial, OneAtATime
<1>5. CalmInv'
  <2> SUFFICES ASSUME serial', faults' = 0  PROVE CalmFacts'
    BY DEF CalmInv
  <2>1. Settled(rpc[w])
    BY SettledNow
  <2>2. Settled(j)'
    BY <2>1
  <2>3. PICK i \in Request : i = rpc'[w] /\ i = j
    BY <1>1
  <2>4. ASSUME NEW v \in Worker  PROVE Holds(rpc[v])'
    <3>1. CASE v = w
      <4>1. Holds(i)'
        BY <2>2, <2>3 DEF Settled
      <4> QED
        BY <2>3, <3>1, <4>1 DEF Holds, Carries
    <3>2. CASE v # w
      <4>1. rpc'[v].pc = "idle"
        BY <3>2, Others
      <4> QED
        BY <4>1 DEF Holds, SendSteps, EditSteps, Cascade
    <3> QED
      BY <3>1, <3>2
  <2>5. ASSUME NEW m \in Message, Owes(j, m)'  PROVE Owes(rpc[w], m)'
    BY <1>1, <2>5 DEF Owes
  <2>6. ASSUME NEW m \in Message, Tidies(j, m)'  PROVE Tidies(rpc[w], m)'
    BY <1>1, <2>6 DEF Tidies
  <2>7. (\A v \in Worker : Holds(rpc[v]))'
    BY <2>4
  <2>8. ASSUME NEW m \in Message, m \notin purged'  PROVE Shows(m)' \/ \E v \in Worker : Owes(rpc[v], m)'
    BY <2>2, <2>5, <2>8 DEF Settled
  <2>9. ASSUME NEW m \in Message, m \notin purged'  PROVE Tidy(m)' \/ \E v \in Worker : Tidies(rpc[v], m)'
    BY <2>2, <2>6, <2>9 DEF Settled
  <2> QED
    BY <2>2, <2>7, <2>8, <2>9 DEF Settled, CalmFacts
<1> QED
  BY <1>2, <1>3, <1>4, <1>5 DEF MessagesInv

LEMMA LivePurged ==
  ASSUME MessagesInv, NEW m \in Message, Live(m)
  PROVE  m \notin purged
  BY DEF MessagesInv, KeyInv, Live

-----------------------------------------------------------------------------
(* Steps that only read.                                                     *)

\* What r still owed, j owes too, or it is there.
Takes(r, j) ==
    /\ Holds(j)
    /\ \A m \in Message \ purged : Owes(r, m) => Shows(m) \/ Owes(j, m)
    /\ \A m \in Message \ purged : Tidies(r, m) => Tidy(m) \/ Tidies(j, m)

LEMMA ReadStep ==
  ASSUME MessagesInv, NEW w \in Worker, NEW j \in Request, rpc' = [rpc EXCEPT ![w] = j],
         serial' = (serial /\ OneAtATime'), rpc[w].pc # "idle" \/ j.pc # "idle",
         Read, Keyed(j), Settled(rpc[w]) => Takes(rpc[w], j)
  PROVE  MessagesInv' /\ Lasting
<1>1. UNCHANGED <<row, attached, reactions, edits, readState, view, faults, written, due, purged>>
  BY DEF Read, tables, history
<1>2. TablesOK'
  BY <1>1 DEF TablesOK, MessagesTypeOK, MessagesInv
<1>3. Stored' = Stored /\ Sent' = Sent /\ RowFacts'
  BY <1>1 DEF Stored, Sent, RowFacts, MessagesInv, KeyInv
<1>4. Keyed(j)'
  BY <1>3, KeyedStays
<1>5. ASSUME Settled(rpc[w])  PROVE Settled(j)'
  <2>1. Settled(j)
    BY <1>5 DEF Settled, Takes
  <2> QED
    BY <1>1, <2>1 DEF Settled, Acked, Holds, Carries, Shows, Tidy, Owes, Tidies, Live, Stored, Sent, NamesOf
<1>6. Lasting /\ purged' = purged
  BY <1>1 DEF Lasting
<1> QED
  BY <1>1, <1>2, <1>3, <1>4, <1>5, <1>6, RpcStep DEF Moves

LEMMA IdleKeyed ==
  Keyed(Idle)
  BY IdleRequest DEF Keyed, OnMessage, WithRow, BeforeSend, SendSteps, EditSteps, Cascade

\* An RPC that has nothing left to publish may return.
LEMMA ReturnStep ==
  ASSUME MessagesInv, NEW w \in Worker, Return(w), serial' = (serial /\ OneAtATime'),
         rpc[w].pc # "idle", Read, \A m \in Message : ~Owes(rpc[w], m) /\ ~Tidies(rpc[w], m)
  PROVE  MessagesInv' /\ Lasting
<1>1. Takes(rpc[w], Idle)
  BY IdleRequest, IdleHolds DEF Takes
<1> QED
  BY <1>1, IdleRequest, IdleKeyed, ReadStep DEF Return

LEMMA SendTyped ==
  ASSUME NEW u \in User, NEW p \in Message \cup {None}, NEW s \in Message \cup {None},
         NEW t \in Content \cup {None}, NEW a \in BOOLEAN, NEW v \in User \cup {None}
  PROVE  Send(u, p, s, t, a, v) \in Request
<1>0. (t = None \/ a) \in BOOLEAN
  OBVIOUS
<1> DEFINE j1 == [Idle EXCEPT !.op = "SendMessage"]
           j2 == [j1 EXCEPT !.user = u]
           j3 == [j2 EXCEPT !.reply = p]
           j4 == [j3 EXCEPT !.source = s]
           j5 == [j4 EXCEPT !.text = t]
           j6 == [j5 EXCEPT !.att = t = None \/ a]
           j7 == [j6 EXCEPT !.mention = v]
<1> HIDE DEF j1, j2, j3, j4, j5, j6, j7
<1>1. j1 \in Request
  BY IdleRequest DEF j1, Request, MessageOps
<1>2. j2 \in Request
  BY <1>1 DEF j2, Request
<1>3. j3 \in Request
  BY <1>2 DEF j3, Request
<1>4. j4 \in Request
  BY <1>3 DEF j4, Request
<1>5. j5 \in Request
  BY <1>4 DEF j5, Request
<1>6. j6 \in Request
  BY <1>0, <1>5 DEF j6, Request
<1>7. j7 \in Request
  BY <1>6 DEF j7, Request
<1> QED
  BY <1>7 DEF Send, j1, j2, j3, j4, j5, j6, j7

\* The RPCs a request may be one of, and where each begins.
LEMMA Inputed ==
  ASSUME NEW op \in MessageOps, NEW u \in User, NEW r \in Inputs(op, u), MessagesInv
  PROVE  /\ r \in Request /\ r.op = op /\ r.user = u /\ r.pc = "idle"
         /\ op \notin {"SendMessage", "BulkDeleteMessages"} => r.msg \in Message
<1>1. CASE op = "SendMessage"
  <2>1. PICK p \in Message \cup {None}, s \in Message \cup {None}, t \in Content \cup {None}, a \in BOOLEAN,
             v \in (User \ {u}) \cup {None} : r = Send(u, p, s, t, a, v)
    BY <1>1 DEF Inputs
  <2>2. (t = None \/ a) \in BOOLEAN
    OBVIOUS
  <2>3. PICK b \in BOOLEAN : b = (t = None \/ a) /\ b \in BOOLEAN
    BY <2>2
  <2>4. r = [Idle EXCEPT !.op = "SendMessage", !.user = u, !.reply = p, !.source = s, !.text = t,
                         !.att = b, !.mention = v]
    BY <2>1, <2>3 DEF Send
  <2>5. PICK i \in Request : i = Idle /\ i.pc = "idle" /\ i.msg = None /\ i.ids = {}
    BY IdleRequest
  <2>6. r = [i EXCEPT !.op = "SendMessage", !.user = u, !.reply = p, !.source = s, !.text = t,
                      !.att = b, !.mention = v]
    BY <2>4, <2>5
  <2>7. p \in Message \cup {None} /\ s \in Message \cup {None} /\ v \in User \cup {None}
        /\ "SendMessage" \in MessageOps \cup {"none"}
    BY DEF MessageOps
  <2>8. r \in Request
    BY <2>1, <2>7, SendTyped
  <2>9. r.op = op /\ r.user = u /\ r.pc = "idle" /\ r.msg = None /\ r.ids = {} /\ r.reply = p /\ r.source = s
    BY <1>1, <2>5, <2>6 DEF Request
  <2> QED
    BY <1>1, <2>8, <2>9
<1>2. CASE op = "BulkDeleteMessages"
  <2>1. PICK ids \in SUBSET Message : r = Bulk(u, ids)
    BY <1>2 DEF Inputs
  <2> QED
    BY <1>2, <2>1, IdleRequest DEF Request, MessageOps, Bulk
<1>3. CASE op = "EditMessage"
  <2>1. PICK m \in Message, t \in Content : r = About(op, u, m, t)
    BY <1>3 DEF Inputs
  <2> QED
    BY <1>3, <2>1, IdleRequest DEF Request, MessageOps, About
<1>4. CASE op \notin {"SendMessage", "BulkDeleteMessages", "EditMessage"}
  <2>1. PICK m \in Message : r = About(op, u, m, None)
    BY <1>4 DEF Inputs
  <2> QED
    BY <1>4, <2>1, IdleRequest DEF Request, MessageOps, About
<1> QED
  BY <1>1, <1>2, <1>3, <1>4

LEMMA CallStep ==
  ASSUME MessagesInv, NEW w \in Worker, Call(w), serial' = (serial /\ OneAtATime')
  PROVE  MessagesInv' /\ Lasting
<1>1. PICK op \in MessageOps, u \in User :
        \E r \in Inputs(op, u) : rpc' = [rpc EXCEPT ![w] = [r EXCEPT !.pc = Entry(r)]]
  BY MessagesConstants DEF Call
<1>2. PICK r \in Inputs(op, u) : rpc' = [rpc EXCEPT ![w] = [r EXCEPT !.pc = Entry(r)]] /\ r = r
  BY <1>1
<1>3. r \in Request /\ r.op = op /\ r.user = u
  BY Inputed
<1>4. /\ Entry(r) \in {"GetSource", "GetParent", "CreateMessage", "SetPinned", "UpsertReadState", "BulkDelete",
                       "GetMessage"}
      /\ Entry(r) \in OnMessage => op \notin {"SendMessage", "BulkDeleteMessages"}
      /\ Entry(r) = "GetMessage" => op \notin {"PinMessage", "UnpinMessage"}
      /\ Entry(r) \in {"GetSource", "GetParent", "CreateMessage"} => op = "SendMessage"
      /\ Entry(r) = "SetPinned" => op \in {"PinMessage", "UnpinMessage"}
  BY <1>3 DEF Entry, AfterSource, MessageOps, OnMessage
<1>5. PICK pc \in Calls : pc = Entry(r) /\ pc \in Calls
  BY <1>4 DEF Calls
<1>6. [r EXCEPT !.pc = pc] \in Request
  BY <1>3 DEF Request
<1>7. PICK j \in Request : j = [r EXCEPT !.pc = pc] /\ j \in Request
  BY <1>6
<1>8. Like(r, j) /\ j.pc = pc
  BY <1>3, <1>7 DEF Request, Like
<1>9. rpc' = [rpc EXCEPT ![w] = j]
  BY <1>2, <1>5, <1>7
<1>10. Keyed(j)
  BY <1>3, <1>4, <1>5, <1>8, Inputed DEF Keyed, Like, OnMessage, WithRow, BeforeSend, SendSteps, EditSteps, Cascade
<1>11. Takes(rpc[w], j)
  <2>1. Holds(j)
    BY <1>3, <1>4, <1>5, <1>8 DEF Holds, Like, SendSteps, EditSteps, Cascade
  <2> QED
    BY <2>1, IdleHolds DEF Takes, Call
<1> QED
  BY <1>4, <1>5, <1>8, <1>9, <1>10, <1>11, ReadStep DEF Call

\* The pcs at which an RPC has changed nothing yet.
LEMMA NothingOwed ==
  ASSUME NEW i, i.pc \in {"idle", "GetSource", "GetSourceAttachments", "GetParent", "CreateMessage",
                          "UpdateMessageContent", "DeleteMessage", "SetPinned", "WriteReaction",
                          "UpsertReadState", "BulkDelete"}
  PROVE  \A m \in Message : ~Owes(i, m) /\ ~Tidies(i, m)
  BY DEF Owes, Tidies, SendSteps, Cascade

LEMMA EarlyHolds ==
  ASSUME NEW i, i.pc \in {"idle", "GetSource", "GetSourceAttachments", "GetParent", "CreateMessage",
                          "SetPinned", "UpsertReadState", "BulkDelete"}
  PROVE  Holds(i)
  BY DEF Holds, SendSteps, EditSteps, Cascade

LEMMA GetSourceStep ==
  ASSUME MessagesInv, NEW w \in Worker, GetSource(w), serial' = (serial /\ OneAtATime')
  PROVE  MessagesInv' /\ Lasting
<1>1. PICK r \in Request : r = rpc[w] /\ r \in Request
  BY DEF MessagesInv, MessagesTypeOK
<1>2. r.pc = "GetSource" /\ Keyed(r) /\ Read
  BY <1>1 DEF GetSource, MessagesInv, KeyInv
<1>3. CASE Live(r.source)
  <2>1. r.source \in Message
    BY <1>3 DEF Live, Stored
  <2>2. row[r.source].content \in Content \cup {None} /\ r.text \in Content \cup {None}
    BY <2>1 DEF MessagesInv, MessagesTypeOK, Row, Request
  <2>3. PICK t \in Content \cup {None} : t = (IF r.text = None THEN row[r.source].content ELSE r.text) /\ t = t
    BY <2>2
  <2>4. rpc' = [rpc EXCEPT ![w] = [r EXCEPT !.text = t, !.pc = "GetSourceAttachments"]]
    BY <1>1, <1>3, <2>3 DEF GetSource
  <2>5. [r EXCEPT !.text = t, !.pc = "GetSourceAttachments"] \in Request
    BY DEF Request, Calls
  <2>6. PICK j \in Request : j = [r EXCEPT !.text = t, !.pc = "GetSourceAttachments"] /\ j \in Request
    BY <2>5
  <2>7. j.pc = "GetSourceAttachments" /\ j.op = r.op /\ j.user = r.user /\ j.msg = r.msg
        /\ j.reply = r.reply /\ j.source = r.source /\ j.ids = r.ids
    BY <2>6 DEF Request
  <2>8. Keyed(j)
    BY <1>2, <2>7 DEF Keyed, OnMessage, WithRow, BeforeSend, SendSteps, EditSteps, Cascade
  <2>9. Takes(rpc[w], j)
    BY <1>1, <1>2, <2>7, NothingOwed, EarlyHolds DEF Takes
  <2>10. rpc' = [rpc EXCEPT ![w] = j]
    BY <2>4, <2>6
  <2> QED
    BY <1>1, <1>2, <2>8, <2>9, <2>10, ReadStep
<1>4. CASE ~Live(r.source)
  <2>1. Return(w)
    BY <1>1, <1>4 DEF GetSource
  <2> QED
    BY <1>1, <1>2, <2>1, NothingOwed, ReturnStep
<1> QED
  BY <1>3, <1>4

LEMMA GetSourceAttachmentsStep ==
  ASSUME MessagesInv, NEW w \in Worker, GetSourceAttachments(w), serial' = (serial /\ OneAtATime')
  PROVE  MessagesInv' /\ Lasting
<1>1. PICK r \in Request : r = rpc[w] /\ r \in Request
  BY DEF MessagesInv, MessagesTypeOK
<1>2. r.pc = "GetSourceAttachments" /\ Keyed(r) /\ Read
  BY <1>1 DEF GetSourceAttachments, MessagesInv, KeyInv
<1>3. (r.att \/ r.source \in attached) \in BOOLEAN
  OBVIOUS
<1>4. PICK a \in BOOLEAN : a = (r.att \/ r.source \in attached) /\ a \in BOOLEAN
  BY <1>3
<1>5. PICK pc \in {"GetParent", "CreateMessage"} : pc = AfterSource(r) /\ pc = pc
  BY DEF AfterSource
<1>6. rpc' = [rpc EXCEPT ![w] = [r EXCEPT !.att = a, !.pc = pc]]
  BY <1>1, <1>4, <1>5 DEF GetSourceAttachments
<1>7. [r EXCEPT !.att = a, !.pc = pc] \in Request
  BY DEF Request, Calls
<1>8. PICK j \in Request : j = [r EXCEPT !.att = a, !.pc = pc] /\ j \in Request
  BY <1>7
<1>9. j.pc = pc /\ j.op = r.op /\ j.user = r.user /\ j.msg = r.msg
      /\ j.reply = r.reply /\ j.source = r.source /\ j.ids = r.ids
  BY <1>8 DEF Request
<1>10. Keyed(j)
  BY <1>2, <1>9 DEF Keyed, OnMessage, WithRow, BeforeSend, SendSteps, EditSteps, Cascade
<1>11. Takes(rpc[w], j)
  BY <1>1, <1>2, <1>9, NothingOwed, EarlyHolds DEF Takes
<1>12. rpc' = [rpc EXCEPT ![w] = j]
  BY <1>6, <1>8
<1> QED
  BY <1>1, <1>2, <1>10, <1>11, <1>12, ReadStep

LEMMA GetParentStep ==
  ASSUME MessagesInv, NEW w \in Worker, GetParent(w), serial' = (serial /\ OneAtATime')
  PROVE  MessagesInv' /\ Lasting
<1>1. rpc[w].pc = "GetParent" /\ Keyed(rpc[w]) /\ Read
  BY DEF GetParent, MessagesInv, KeyInv
<1>2. CASE Live(rpc[w].reply)
  <2>1. Goto(w, "CreateMessage")
    BY <1>2 DEF GetParent, Proceed
  <2>2. PICK j \in Request : rpc' = [rpc EXCEPT ![w] = j] /\ Like(rpc[w], j) /\ j.pc = "CreateMessage"
    BY <2>1, Goes DEF MessagesInv, Calls
  <2>3. Keyed(j)
    BY <1>1, <2>2 DEF Keyed, Like, OnMessage, WithRow, BeforeSend, SendSteps, EditSteps, Cascade
  <2>4. Takes(rpc[w], j)
    BY <1>1, <2>2, NothingOwed, EarlyHolds DEF Takes
  <2> QED
    BY <1>1, <2>2, <2>3, <2>4, ReadStep
<1>3. CASE ~Live(rpc[w].reply)
  <2>1. Return(w)
    BY <1>3 DEF GetParent, Proceed
  <2> QED
    BY <1>1, <2>1, NothingOwed, ReturnStep
<1> QED
  BY <1>2, <1>3

LEMMA FullStep ==
  ASSUME MessagesInv, NEW w \in Worker, Full(w), serial' = (serial /\ OneAtATime')
  PROVE  MessagesInv' /\ Lasting
  BY NothingOwed, ReturnStep DEF Full

LEMMA GetReadStateStep ==
  ASSUME MessagesInv, NEW w \in Worker, GetReadState(w), serial' = (serial /\ OneAtATime')
  PROVE  MessagesInv' /\ Lasting
<1>1. PICK r \in Request : r = rpc[w] /\ r \in Request
  BY DEF MessagesInv, MessagesTypeOK
<1>2. r.pc = "GetReadState" /\ Keyed(r) /\ Read
  BY <1>1 DEF GetReadState, MessagesInv, KeyInv
<1>3. r.mention \in User
  BY <1>2 DEF Keyed
<1>4. PICK s \in ReadState : s = readState[r.mention] /\ s \in ReadState
  BY <1>3 DEF MessagesInv, MessagesTypeOK
<1> DEFINE k == [r EXCEPT !.state = s]
           l == [k EXCEPT !.pc = "IncrementMentionCount"]
<1> HIDE DEF k, l
<1>5. k \in Request
  BY DEF k, Request
<1>6. l \in Request
  BY <1>5 DEF l, Request, Calls
<1>7. PICK j \in Request : j = l /\ j \in Request
  BY <1>6
<1>8. rpc' = [rpc EXCEPT ![w] = j]
  BY <1>1, <1>4, <1>7 DEF GetReadState, k, l
<1>9. j.pc = "IncrementMentionCount" /\ j.op = r.op /\ j.user = r.user /\ j.msg = r.msg /\ j.reply = r.reply
      /\ j.source = r.source /\ j.ids = r.ids /\ j.mention = r.mention /\ j.event = r.event /\ j.state = s
  BY <1>7 DEF k, l, Request
<1>10. Keyed(j)
  BY <1>2, <1>9 DEF Keyed, OnMessage, WithRow, BeforeSend, SendSteps, EditSteps, Cascade
<1>11. ASSUME Settled(rpc[w])  PROVE Takes(rpc[w], j)
  <2>1. Holds(r)
    BY <1>1, <1>11 DEF Settled
  <2>2. Carries(r)
    BY <1>2, <2>1 DEF Holds, SendSteps
  <2>3. Holds(j)
    BY <1>2, <1>4, <1>9, <2>2 DEF Holds, Keyed, Carries, SendSteps, EditSteps, Cascade
  <2> QED
    BY <1>1, <1>2, <1>9, <2>3 DEF Takes, Owes, Tidies, SendSteps, EditSteps, Cascade
<1> QED
  BY <1>1, <1>2, <1>8, <1>10, <1>11, ReadStep

LEMMA GetMessageStep ==
  ASSUME MessagesInv, NEW w \in Worker, GetMessage(w), serial' = (serial /\ OneAtATime')
  PROVE  MessagesInv' /\ Lasting
<1>1. PICK r \in Request : r = rpc[w] /\ r \in Request
  BY DEF MessagesInv, MessagesTypeOK
<1>2. r.pc = "GetMessage" /\ Keyed(r) /\ Read
  BY <1>1 DEF GetMessage, MessagesInv, KeyInv
<1>3. r.msg \in Message
  BY <1>2 DEF Keyed, OnMessage, WithRow, Stored
<1>4. row[r.msg].content \in Content \cup {None} /\ row[r.msg].pinned \in BOOLEAN
  BY <1>3 DEF MessagesInv, MessagesTypeOK, Row
<1>5. PICK inTime \in BOOLEAN :
        IF Live(r.msg) /\ Permitted(r, inTime)
        THEN rpc' = [rpc EXCEPT ![w].old = row[r.msg].content, ![w].pc = AfterGet(r.op),
                                ![w].event = [shown |-> r.op # "DeleteMessage", content |-> row[r.msg].content,
                                              pinned |-> row[r.msg].pinned, count |-> 0, names |-> {}]]
        ELSE Return(w)
  BY <1>1 DEF GetMessage
<1>6. CASE Live(r.msg) /\ Permitted(r, inTime)
  <2>1. (r.op # "DeleteMessage") \in BOOLEAN
    OBVIOUS
  <2>2. PICK e \in View : e = [shown |-> r.op # "DeleteMessage", content |-> row[r.msg].content,
                               pinned |-> row[r.msg].pinned, count |-> 0, names |-> {}] /\ e \in View
    <3>1. [shown |-> r.op # "DeleteMessage", content |-> row[r.msg].content,
           pinned |-> row[r.msg].pinned, count |-> 0, names |-> {}] \in View
      BY <1>4, <2>1 DEF View
    <3> QED
      BY <3>1, Zenon
  <2>3. /\ e.shown = (r.op # "DeleteMessage") /\ e.content = row[r.msg].content /\ e.pinned = row[r.msg].pinned
    BY <2>2
  <2>4. PICK pc \in {"UpdateMessageContent", "DeleteMessage", "WriteReaction", "GetReactions"} :
          /\ pc = AfterGet(r.op)
          /\ pc = "UpdateMessageContent" <=> r.op = "EditMessage"
          /\ pc = "DeleteMessage" <=> r.op = "DeleteMessage"
          /\ pc = "WriteReaction" <=> r.op \in {"AddReaction", "RemoveReaction"}
    BY DEF AfterGet
  <2>5. PICK c \in Content \cup {None} : c = row[r.msg].content /\ c = c
    BY <1>4
  <2> DEFINE k == [r EXCEPT !.old = c]
             l == [k EXCEPT !.pc = pc]
             n == [l EXCEPT !.event = e]
  <2> HIDE DEF k, l, n
  <2>6. k \in Request
    BY DEF k, Request
  <2>7. l \in Request
    BY <2>6 DEF l, Request, Calls
  <2>8. n \in Request
    BY <2>7 DEF n, Request
  <2>9. PICK j \in Request : j = n /\ j \in Request
    BY <2>8
  <2>10. rpc' = [rpc EXCEPT ![w] = j]
    BY <1>1, <1>5, <1>6, <2>2, <2>4, <2>5, <2>9 DEF k, l, n
  <2>11. j.pc = pc /\ j.op = r.op /\ j.user = r.user /\ j.msg = r.msg /\ j.reply = r.reply
         /\ j.source = r.source /\ j.ids = r.ids /\ j.mention = r.mention /\ j.event = e /\ j.old = c
    BY <2>9 DEF k, l, n, Request
  <2>12. Keyed(j)
    BY <1>2, <1>3, <1>6, <2>4, <2>11 DEF Live, Keyed, OnMessage, WithRow, BeforeSend, SendSteps, EditSteps, Cascade
  <2>13. ASSUME Settled(rpc[w])  PROVE Takes(rpc[w], j)
    <3>1. Holds(r)
      BY <1>1, <2>13 DEF Settled
    <3>2. r.op # "DeleteMessage" => Carries(j)
      BY <1>6, <2>3, <2>11 DEF Carries
    <3>3. Holds(j)
      BY <1>2, <2>3, <2>4, <2>5, <2>11, <3>1, <3>2 DEF Holds, SendSteps, EditSteps, Cascade
    <3> QED
      BY <1>1, <1>2, <2>4, <2>11, <3>3 DEF Takes, Owes, Tidies, SendSteps, EditSteps, Cascade
  <2> QED
    BY <1>1, <1>2, <2>10, <2>12, <2>13, ReadStep
<1>7. CASE ~(Live(r.msg) /\ Permitted(r, inTime))
  <2>1. Return(w)
    BY <1>5, <1>7
  <2>2. r.op \in {"PinMessage", "UnpinMessage"} => ~Live(r.msg)
    BY <1>7 DEF Permitted
  <2>3. \A m \in Message : ~Owes(rpc[w], m) /\ ~Tidies(rpc[w], m)
    BY <1>1, <1>2, <2>2 DEF Owes, Tidies, SendSteps, Cascade
  <2> QED
    BY <1>1, <1>2, <2>1, <2>3, ReturnStep
<1> QED
  BY <1>6, <1>7

LEMMA Reactors ==
  ASSUME MessagesInv, NEW m \in Message
  PROVE  Cardinality(reactions[m]) \in Nat /\ NamesOf(m) \in SUBSET (User \cup {None})
<1>1. reactions[m] \subseteq User
  BY DEF MessagesInv, MessagesTypeOK
<1>2. IsFiniteSet(reactions[m])
  BY <1>1, MessagesConstants, FS_Subset
<1> QED
  BY <1>1, <1>2, FS_CardinalityType DEF NamesOf, Names

LEMMA GetReactionsStep ==
  ASSUME MessagesInv, NEW w \in Worker, GetReactions(w), serial' = (serial /\ OneAtATime')
  PROVE  MessagesInv' /\ Lasting
<1>1. PICK r \in Request : r = rpc[w] /\ r \in Request
  BY DEF MessagesInv, MessagesTypeOK
<1>2. r.pc = "GetReactions" /\ Keyed(r) /\ Read
  BY <1>1 DEF GetReactions, MessagesInv, KeyInv
<1>3. r.msg \in Message /\ r.msg \in Sent
  BY <1>1, <1>2 DEF Keyed, OnMessage, GetReactions, Dereferences
<1>4. PICK c \in Nat, us \in SUBSET (User \cup {None}) : c = Cardinality(reactions[r.msg]) /\ us = NamesOf(r.msg)
  BY <1>3, Reactors
<1>5. PICK v \in View : v = r.event /\ v \in View
  BY DEF Request
<1>6. v.pinned \in BOOLEAN
  BY DEF View
<1>7. PICK p \in BOOLEAN : p = (IF r.op = "PinMessage" THEN TRUE ELSE IF r.op = "UnpinMessage" THEN FALSE ELSE v.pinned)
                           /\ p \in BOOLEAN
  BY <1>6
<1>8. [v EXCEPT !.names = us, !.count = c, !.pinned = p] \in View
  BY DEF View
<1>9. PICK e \in View : e = [v EXCEPT !.names = us, !.count = c, !.pinned = p] /\ e \in View
  BY <1>8
<1>10. e.shown = v.shown /\ e.content = v.content /\ e.pinned = p /\ e.names = us /\ e.count = c
  BY <1>9 DEF View
<1> DEFINE k == [r EXCEPT !.event = e]
           l == [k EXCEPT !.pc = "Publish"]
<1> HIDE DEF k, l
<1>11. k \in Request
  BY DEF k, Request
<1>12. l \in Request
  BY <1>11 DEF l, Request, Calls
<1>13. PICK j \in Request : j = l /\ j \in Request
  BY <1>12
<1>14. rpc' = [rpc EXCEPT ![w] = j]
  <2>1. [[v EXCEPT !.names = us] EXCEPT !.count = c].pinned = v.pinned
    BY DEF View
  <2>2. rpc' = [rpc EXCEPT ![w].event.names = us, ![w].event.count = c, ![w].event.pinned = p, ![w].pc = "Publish"]
    BY <1>1, <1>4, <1>5, <1>7, <2>1 DEF GetReactions
  <2> QED
    BY <1>1, <1>5, <1>9, <1>13, <2>2 DEF k, l
<1>15. j.pc = "Publish" /\ j.op = r.op /\ j.user = r.user /\ j.msg = r.msg /\ j.reply = r.reply
       /\ j.source = r.source /\ j.ids = r.ids /\ j.mention = r.mention /\ j.event = e
  BY <1>13 DEF k, l, Request
<1>16. Keyed(j)
  BY <1>2, <1>3, <1>15 DEF Keyed, OnMessage, WithRow, BeforeSend, SendSteps, EditSteps, Cascade
<1>17. ASSUME Settled(rpc[w])  PROVE Takes(rpc[w], j)
  <2>1. Holds(r)
    BY <1>1, <1>17 DEF Settled
  <2>2. ASSUME r.op # "DeleteMessage"  PROVE Carries(j)
    <3>1. Carries(r)
      BY <1>2, <2>1, <2>2 DEF Holds
    <3>2. p = row[r.msg].pinned
      <4>1. row[r.msg].pinned \in BOOLEAN
        BY <1>3 DEF MessagesInv, MessagesTypeOK, Row
      <4> QED
        BY <1>2, <1>5, <1>7, <2>1, <3>1, <4>1 DEF Holds, Carries
    <3> QED
      BY <1>5, <1>10, <1>15, <3>1, <3>2 DEF Carries
  <2>3. Holds(j)
    BY <1>2, <1>4, <1>5, <1>10, <1>15, <2>1, <2>2 DEF Holds, SendSteps, EditSteps, Cascade
  <2> QED
    BY <1>1, <1>2, <1>15, <2>3 DEF Takes, Owes, Tidies, SendSteps, EditSteps, Cascade
<1> QED
  BY <1>1, <1>2, <1>14, <1>16, <1>17, ReadStep

-----------------------------------------------------------------------------
(* Steps that write.                                                         *)

\* Nothing of message n is written.
Untouched(n) ==
    /\ row'[n] = row[n] /\ view'[n] = view[n] /\ reactions'[n] = reactions[n]
    /\ edits'[n] = edits[n] /\ written'[n] = written[n] /\ (n \in attached' <=> n \in attached)

LEMMA Elsewhere ==
  ASSUME NEW n \in Message, Untouched(n)
  PROVE  /\ Shows(n)' <=> Shows(n)
         /\ Tidy(n)' <=> Tidy(n)
         /\ n \in Stored' <=> n \in Stored
         /\ n \in Sent' <=> n \in Sent
<1>1. (n \in Stored' <=> n \in Stored) /\ (Live(n)' <=> Live(n)) /\ (n \in Sent' <=> n \in Sent)
  BY DEF Untouched, Stored, Live, Sent
<1> QED
  BY <1>1 DEF Untouched, Shows, Tidy, NamesOf

\* The step of the one RPC that writes message m.
LEMMA WriteStep ==
  ASSUME MessagesInv, NEW w \in Worker, rpc[w].pc # "idle", NEW j \in Request, rpc' = [rpc EXCEPT ![w] = j],
         serial' = (serial /\ OneAtATime'), TablesOK', NEW m \in Message, \A n \in Message : n # m => Untouched(n),
         m \in Stored' \/ (row'[m] = row[m] /\ written'[m] = written[m]), m \in Sent => m \in Sent',
         view'[m] = view[m] \/ m \in Sent', row[m].deleted => row'[m].deleted, Keyed(j)', faults' = faults,
         purged' = purged,
         \A n \in Message : n # m => ~Owes(rpc[w], n) /\ ~Tidies(rpc[w], n),
         Settled(rpc[w]) =>
            /\ Acked' /\ Holds(j)'
            /\ m \notin purged => (Shows(m)' \/ Owes(j, m)') /\ (Tidy(m)' \/ Tidies(j, m)')
  PROVE  MessagesInv' /\ Lasting
<1>1. ASSUME NEW n \in Message, n # m
      PROVE  /\ Shows(n)' <=> Shows(n)
             /\ Tidy(n)' <=> Tidy(n)
             /\ n \in Stored' <=> n \in Stored
             /\ n \in Sent' <=> n \in Sent
  BY <1>1, Elsewhere
<1>2. Stored \subseteq Stored' /\ Sent \subseteq Sent' /\ Sent' \subseteq Message /\ Stored' \subseteq Message
  <2>1. m \in Stored => m \in Stored'
    BY DEF Stored
  <2>2. Stored \subseteq Message /\ Sent \subseteq Message /\ Sent' \subseteq Message /\ Stored' \subseteq Message
    BY DEF Stored, Sent
  <2> QED
    BY <1>1, <2>1, <2>2
<1>3. RowFacts'
  <2>0. RowFacts
    BY DEF MessagesInv, KeyInv
  <2>1. m \in Sent' => m \in Stored'
    <3>1. CASE row'[m] = row[m]
      BY <2>0, <3>1 DEF RowFacts, Stored, Sent
    <3> QED
      BY <3>1
  <2>2. m \notin Stored' => ~row'[m].deleted /\ written'[m] = {}
    BY <2>0 DEF RowFacts, Stored
  <2>3. m \notin Sent' => view'[m] = Hidden
    BY <2>0 DEF RowFacts
  <2>4. ASSUME NEW n \in Message, n # m
        PROVE  /\ n \in Sent' => n \in Stored'
               /\ n \notin Stored' => ~row'[n].deleted /\ written'[n] = {}
               /\ n \notin Sent' => view'[n] = Hidden
    BY <1>1, <2>0, <2>4 DEF RowFacts, Untouched
  <2>5. Sent' \subseteq Stored'
    BY <1>2, <2>1, <2>4
  <2>6. \A n \in Message : n \notin Stored' => ~row'[n].deleted /\ written'[n] = {}
    BY <2>2, <2>4
  <2>7. \A n \in Message : n \notin Sent' => view'[n] = Hidden
    BY <2>3, <2>4
  <2> QED
    BY <2>5, <2>6, <2>7 DEF RowFacts
<1>4. ASSUME Settled(rpc[w])  PROVE Settled(j)'
  <2>1. ASSUME NEW n \in Message, n \notin purged, n # m  PROVE Shows(n) /\ Tidy(n)
    BY <1>4, <2>1 DEF Settled
  <2>2. ASSUME NEW n \in Message, n \notin purged
        PROVE  (Shows(n)' \/ Owes(j, n)') /\ (Tidy(n)' \/ Tidies(j, n)')
    BY <1>1, <1>4, <2>1, <2>2
  <2> QED
    BY <1>4, <2>2 DEF Settled
<1>5. Lasting
  BY DEF Lasting, Untouched
<1> QED
  BY <1>2, <1>3, <1>4, <1>5, RpcStep DEF Moves

\* An RPC owes nothing of a message that is not its own.
LEMMA OwnMessage ==
  ASSUME NEW i, NEW m, i.msg = m
  PROVE  \A n \in Message : n # m => ~Owes(i, n) /\ ~Tidies(i, n)
  BY DEF Owes, Tidies

LEMMA AddMessageAttachmentStep ==
  ASSUME MessagesInv, NEW w \in Worker, AddMessageAttachment(w), serial' = (serial /\ OneAtATime')
  PROVE  MessagesInv' /\ Lasting
<1>1. rpc[w].pc = "AddMessageAttachment" /\ Keyed(rpc[w])
      /\ UNCHANGED <<row, reactions, edits, readState, view, faults, written, due, purged>>
  BY DEF AddMessageAttachment, MessagesInv, KeyInv, history
<1>2. PICK pc \in {"GetReadState", "GetReactions"} :
        pc = AfterAttachments(rpc[w]) /\ (pc = "GetReadState" => rpc[w].mention # None)
  BY DEF AfterAttachments
<1>3. PICK j \in Request : rpc' = [rpc EXCEPT ![w] = j] /\ Like(rpc[w], j) /\ j.pc = pc
  BY <1>2, Goes DEF MessagesInv, Calls, AddMessageAttachment
<1>4. PICK m \in Message : m = rpc[w].msg /\ m \in Stored
  BY <1>1 DEF Keyed, OnMessage, WithRow, Stored
<1>5. attached' = attached \cup {m}
  BY <1>4 DEF AddMessageAttachment
<1>6. TablesOK'
  BY <1>1, <1>5 DEF TablesOK, MessagesInv, MessagesTypeOK
<1>7. Stored' = Stored /\ Sent' = Sent
  BY <1>1 DEF Stored, Sent
<1>8. Keyed(j)
  <2>1. rpc[w].mention \in User \cup {None}
    BY DEF MessagesInv, MessagesTypeOK, Request
  <2> QED
    BY <1>1, <1>2, <1>3, <2>1 DEF Keyed, Like, OnMessage, WithRow, BeforeSend, SendSteps, EditSteps, Cascade
<1>9. Keyed(j)'
  BY <1>7, <1>8, KeyedStays
<1>10. \A n \in Message : n # m => Untouched(n)
  BY <1>1, <1>5 DEF Untouched
<1>11. ASSUME Settled(rpc[w])
       PROVE  /\ Acked' /\ Holds(j)'
              /\ m \notin purged => (Shows(m)' \/ Owes(j, m)') /\ (Tidy(m)' \/ Tidies(j, m)')
  <2>1. Acked' /\ Holds(rpc[w]) /\ (m \notin purged => Tidy(m))
    BY <1>1, <1>11 DEF Settled, Tidies, Cascade, Acked
  <2>2. Carries(rpc[w]) /\ rpc[w].op = "SendMessage"
    BY <1>1, <2>1 DEF Holds, Keyed, SendSteps
  <2>3. Carries(j)'
    BY <1>1, <1>3, <1>7, <2>2 DEF Carries, Like, Live
  <2>4. Holds(j)'
    BY <1>2, <1>3, <2>2, <2>3 DEF Holds, Like, SendSteps, EditSteps, Cascade
  <2>5. Owes(j, m)'
    BY <1>2, <1>3, <1>4 DEF Owes, Like, SendSteps
  <2>6. m \notin purged => Tidy(m)'
    BY <1>1, <1>4, <1>7, <2>1, <2>2 DEF Tidy, Live, Carries
  <2> QED
    BY <2>1, <2>4, <2>5, <2>6
<1> QED
  BY <1>1, <1>3, <1>4, <1>6, <1>7, <1>9, <1>10, <1>11, WriteStep, OwnMessage

LEMMA IncrementMentionCountStep ==
  ASSUME MessagesInv, NEW w \in Worker, IncrementMentionCount(w), serial' = (serial /\ OneAtATime')
  PROVE  MessagesInv' /\ Lasting
<1>1. rpc[w].pc = "IncrementMentionCount" /\ Keyed(rpc[w])
      /\ UNCHANGED <<row, attached, reactions, edits, view, faults, written, purged>>
  BY DEF IncrementMentionCount, MessagesInv, KeyInv
<1>2. PICK j \in Request : rpc' = [rpc EXCEPT ![w] = j] /\ Like(rpc[w], j) /\ j.pc = "GetReactions"
  BY Goes DEF MessagesInv, Calls, IncrementMentionCount
<1>3. PICK m \in Message : m = rpc[w].msg /\ m \in Stored
  BY <1>1 DEF Keyed, OnMessage, WithRow, Stored
<1>4. PICK u \in User : u = rpc[w].mention /\ u \in User
  BY <1>1 DEF Keyed
<1>5. PICK s \in ReadState : s = rpc[w].state /\ s \in ReadState
  BY DEF MessagesInv, MessagesTypeOK, Request
<1>6. PICK d \in ReadState : d = due[u] /\ d \in ReadState
  BY DEF MessagesInv, MessagesTypeOK
<1>7. [s EXCEPT !.mentions = @ + 1] \in ReadState /\ [d EXCEPT !.mentions = @ + 1] \in ReadState
  BY DEF ReadState
<1>8. /\ \/ readState' = [readState EXCEPT ![u] = [s EXCEPT !.mentions = @ + 1]]
         \/ s.last = None /\ readState' = readState
      /\ due' = [due EXCEPT ![u] = [d EXCEPT !.mentions = @ + 1]]
  BY <1>4, <1>5, <1>6 DEF IncrementMentionCount
<1>9. TablesOK'
  BY <1>1, <1>7, <1>8 DEF TablesOK, MessagesInv, MessagesTypeOK
<1>10. Stored' = Stored /\ Sent' = Sent
  BY <1>1 DEF Stored, Sent
<1>11. Keyed(j)
  BY <1>1, <1>2 DEF Keyed, Like, OnMessage, WithRow, BeforeSend, SendSteps, EditSteps, Cascade
<1>12. Keyed(j)'
  BY <1>10, <1>11, KeyedStays
<1>13. \A n \in Message : n # m => Untouched(n)
  BY <1>1 DEF Untouched
<1>14. ASSUME Settled(rpc[w])
       PROVE  /\ Acked' /\ Holds(j)'
              /\ m \notin purged => (Shows(m)' \/ Owes(j, m)') /\ (Tidy(m)' \/ Tidies(j, m)')
  <2>1. Acked /\ Holds(rpc[w]) /\ (m \notin purged => Tidy(m))
    BY <1>1, <1>14 DEF Settled, Tidies, Cascade, Acked
  <2>2. Carries(rpc[w]) /\ rpc[w].op = "SendMessage" /\ s = readState[u]
    BY <1>1, <1>4, <1>5, <2>1 DEF Holds, Keyed, SendSteps
  <2>3. Acked'
    <3>1. /\ \A v \in User : v # u => readState'[v] = readState[v] /\ due'[v] = due[v]
          /\ due'[u] = [d EXCEPT !.mentions = @ + 1]
      BY <1>8 DEF MessagesInv, MessagesTypeOK
    <3>2. ASSUME due'[u].last # None  PROVE readState'[u] = due'[u]
      <4>1. d.last # None
        BY <3>1, <3>2 DEF ReadState
      <4>2. s = d
        BY <1>6, <2>1, <2>2, <4>1 DEF Acked
      <4>3. readState' = [readState EXCEPT ![u] = [s EXCEPT !.mentions = @ + 1]]
        BY <1>8, <4>1, <4>2
      <4> QED
        BY <3>1, <4>2, <4>3 DEF MessagesInv, MessagesTypeOK
    <3> QED
      BY <2>1, <3>1, <3>2 DEF Acked
  <2>4. Carries(j)'
    BY <1>1, <1>2, <1>10, <2>2 DEF Carries, Like, Live
  <2>5. Holds(j)'
    BY <1>2, <2>2, <2>4 DEF Holds, Like, SendSteps, EditSteps, Cascade
  <2>6. Owes(j, m)'
    BY <1>2, <1>3 DEF Owes, Like, SendSteps
  <2>7. m \notin purged => Tidy(m)'
    BY <1>1, <1>10, <2>1 DEF Tidy, Live
  <2> QED
    BY <2>3, <2>5, <2>6, <2>7
<1> QED
  BY <1>1, <1>2, <1>3, <1>9, <1>10, <1>12, <1>13, <1>14, WriteStep, OwnMessage

\* Message m's row becomes y, and its author stays.
LEMMA RowChange ==
  ASSUME MessagesTypeOK, NEW m \in Message, NEW y \in Row, row' = [row EXCEPT ![m] = y], y.author = row[m].author,
         y.stored = row[m].stored
  PROVE  /\ row' \in [Message -> Row] /\ row'[m] = y
         /\ \A n \in Message : n # m => row'[n] = row[n]
         /\ Stored' = Stored /\ Sent' = Sent
<1>1. /\ row' \in [Message -> Row] /\ row'[m] = y
      /\ \A n \in Message : n # m => row'[n] = row[n]
  BY DEF MessagesTypeOK
<1> QED
  BY <1>1 DEF Stored, Sent

\* Message m's row becomes y, whether there was one or not.
LEMMA Upserted ==
  ASSUME MessagesTypeOK, NEW m \in Message, NEW y \in Row, row' = [row EXCEPT ![m] = y], y.author = row[m].author,
         y.stored = TRUE
  PROVE  /\ row' \in [Message -> Row] /\ row'[m] = y
         /\ \A n \in Message : n # m => row'[n] = row[n]
         /\ Stored' = Stored \cup {m} /\ Sent' = Sent
<1>1. /\ row' \in [Message -> Row] /\ row'[m] = y
      /\ \A n \in Message : n # m => row'[n] = row[n]
  BY DEF MessagesTypeOK
<1> QED
  BY <1>1 DEF Stored, Sent

LEMMA UpdateMessageContentStep ==
  ASSUME MessagesInv, NEW w \in Worker, UpdateMessageContent(w), serial' = (serial /\ OneAtATime')
  PROVE  MessagesInv' /\ Lasting
<1>1. PICK r \in Request : r = rpc[w] /\ r \in Request
  BY DEF MessagesInv, MessagesTypeOK
<1>2. r.pc = "UpdateMessageContent" /\ Keyed(r) /\ r.op = "EditMessage"
      /\ UNCHANGED <<attached, reactions, edits, readState, view, faults, due, purged>>
  BY <1>1 DEF UpdateMessageContent, MessagesInv, KeyInv, Keyed, EditSteps
<1>3. PICK m \in Message : m = r.msg /\ m \in Stored
  BY <1>2 DEF Keyed, OnMessage, WithRow, Stored
<1>4. PICK t \in Content \cup {None} : t = r.text /\ t = t
  BY DEF Request
<1>5. PICK x \in Row : x = row[m] /\ x \in Row
  BY DEF MessagesInv, MessagesTypeOK
<1>6. [x EXCEPT !.content = t] \in Row
  BY DEF Row
<1>7. PICK y \in Row : y = [x EXCEPT !.content = t] /\ y \in Row
  BY <1>6
<1>8. y.author = x.author /\ y.stored = x.stored /\ y.content = t /\ y.deleted = x.deleted /\ y.pinned = x.pinned
  BY <1>7 DEF Row
<1>9. row' = [row EXCEPT ![m] = y] /\ written' = [written EXCEPT ![m] = @ \cup {t}]
  BY <1>1, <1>3, <1>4, <1>5, <1>7 DEF UpdateMessageContent
<1>10. /\ row' \in [Message -> Row] /\ row'[m] = y
       /\ \A n \in Message : n # m => row'[n] = row[n]
       /\ Stored' = Stored /\ Sent' = Sent
  BY <1>5, <1>8, <1>9, RowChange DEF MessagesInv
<1>11. /\ written' \in [Message -> SUBSET (Content \cup {None})]
       /\ written'[m] = written[m] \cup {t} /\ \A n \in Message : n # m => written'[n] = written[n]
  BY <1>9 DEF MessagesInv, MessagesTypeOK
<1>12. PICK v \in View : v = r.event /\ v \in View
  BY DEF Request
<1>13. [v EXCEPT !.content = t] \in View
  BY DEF View
<1>14. PICK e \in View : e = [v EXCEPT !.content = t] /\ e \in View
  BY <1>13
<1>15. e.shown = v.shown /\ e.content = t /\ e.pinned = v.pinned
  BY <1>14 DEF View
<1> DEFINE k == [r EXCEPT !.event = e]
           l == [k EXCEPT !.pc = "SaveEditHistory"]
<1> HIDE DEF k, l
<1>16. k \in Request
  BY DEF k, Request
<1>17. l \in Request
  BY <1>16 DEF l, Request, Calls
<1>18. PICK j \in Request : j = l /\ j \in Request
  BY <1>17
<1>19. rpc' = [rpc EXCEPT ![w] = j]
  BY <1>1, <1>4, <1>12, <1>14, <1>18 DEF UpdateMessageContent, k, l
<1>20. j.pc = "SaveEditHistory" /\ j.op = r.op /\ j.user = r.user /\ j.msg = r.msg /\ j.reply = r.reply
       /\ j.source = r.source /\ j.ids = r.ids /\ j.mention = r.mention /\ j.event = e /\ j.old = r.old
  BY <1>18 DEF k, l, Request
<1>21. TablesOK'
  BY <1>2, <1>10, <1>11 DEF TablesOK, MessagesInv, MessagesTypeOK
<1>22. Keyed(j)
  BY <1>2, <1>20 DEF Keyed, OnMessage, WithRow, BeforeSend, SendSteps, EditSteps, Cascade
<1>23. Keyed(j)'
  BY <1>10, <1>22, KeyedStays
<1>24. \A n \in Message : n # m => Untouched(n)
  BY <1>2, <1>10, <1>11 DEF Untouched
<1>25. ASSUME Settled(rpc[w])
       PROVE  /\ Acked' /\ Holds(j)'
              /\ m \notin purged => (Shows(m)' \/ Owes(j, m)') /\ (Tidy(m)' \/ Tidies(j, m)')
  <2>1. Acked' /\ Holds(r) /\ (m \notin purged => Tidy(m))
    BY <1>1, <1>2, <1>25 DEF Settled, Tidies, Cascade, Acked
  <2>2. Carries(r) /\ r.old = x.content
    BY <1>2, <1>3, <1>5, <2>1 DEF Holds, EditSteps
  <2>3. Carries(j)'
    BY <1>3, <1>5, <1>8, <1>10, <1>12, <1>15, <1>20, <2>2 DEF Carries, Live
  <2>4. m \notin purged => written'[m] \subseteq edits'[m] \cup {j.old, row'[m].content}
    BY <1>2, <1>3, <1>5, <1>8, <1>10, <1>11, <1>20, <2>1, <2>2 DEF Tidy, Carries
  <2>5. m \notin purged
    BY <1>3, <2>2, LivePurged DEF Carries
  <2>6. Holds(j)'
    BY <1>2, <1>3, <1>20, <2>3, <2>4, <2>5 DEF Holds, SendSteps, EditSteps, Cascade
  <2>7. Owes(j, m)' /\ Tidies(j, m)'
    BY <1>3, <1>20 DEF Owes, Tidies, SendSteps, Cascade
  <2> QED
    BY <2>1, <2>6, <2>7
<1>26. \A n \in Message : n # m => ~Owes(rpc[w], n) /\ ~Tidies(rpc[w], n)
  BY <1>1, <1>3, OwnMessage
<1>27. m \in Stored' /\ (row[m].deleted => row'[m].deleted) /\ rpc[w].pc # "idle"
  BY <1>1, <1>2, <1>3, <1>5, <1>8, <1>10
<1> QED
  BY <1>2, <1>10, <1>19, <1>21, <1>23, <1>24, <1>25, <1>26, <1>27, WriteStep

LEMMA SaveEditHistoryStep ==
  ASSUME MessagesInv, NEW w \in Worker, SaveEditHistory(w), serial' = (serial /\ OneAtATime')
  PROVE  MessagesInv' /\ Lasting
<1>1. rpc[w].pc = "SaveEditHistory" /\ Keyed(rpc[w])
      /\ UNCHANGED <<row, attached, reactions, readState, view, faults, written, due, purged>>
  BY DEF SaveEditHistory, MessagesInv, KeyInv, history
<1>2. PICK j \in Request : rpc' = [rpc EXCEPT ![w] = j] /\ Like(rpc[w], j) /\ j.pc = "GetReactions"
  BY Goes DEF MessagesInv, Calls, SaveEditHistory
<1>3. PICK m \in Message : m = rpc[w].msg /\ m \in Stored
  BY <1>1 DEF Keyed, OnMessage, WithRow, Stored
<1>4. edits' = [edits EXCEPT ![m] = @ \cup {rpc[w].old}]
  BY <1>3 DEF SaveEditHistory
<1>5. /\ edits' \in [Message -> SUBSET (Content \cup {None})]
      /\ edits'[m] = edits[m] \cup {rpc[w].old} /\ \A n \in Message : n # m => edits'[n] = edits[n]
  BY <1>4 DEF MessagesInv, MessagesTypeOK, Request
<1>6. TablesOK' /\ Stored' = Stored /\ Sent' = Sent
  BY <1>1, <1>3, <1>4, <1>5 DEF TablesOK, MessagesInv, MessagesTypeOK, Stored, Sent
<1>7. Keyed(j)
  BY <1>1, <1>2 DEF Keyed, Like, OnMessage, WithRow, BeforeSend, SendSteps, EditSteps, Cascade
<1>8. Keyed(j)'
  BY <1>6, <1>7, KeyedStays
<1>9. (\A n \in Message : n # m => Untouched(n)) /\ (row[m].deleted => row'[m].deleted)
  BY <1>1, <1>4, <1>5 DEF Untouched
<1>10. ASSUME Settled(rpc[w])
       PROVE  /\ Acked' /\ Holds(j)'
              /\ m \notin purged => (Shows(m)' \/ Owes(j, m)') /\ (Tidy(m)' \/ Tidies(j, m)')
  <2>1. Acked' /\ Holds(rpc[w])
    BY <1>1, <1>10 DEF Settled, Acked
  <2>2. Carries(rpc[w]) /\ rpc[w].op = "EditMessage" /\ written[m] \subseteq edits[m] \cup {rpc[w].old, row[m].content}
    BY <1>1, <1>3, <2>1 DEF Holds, Keyed, EditSteps
  <2>3. Carries(j)'
    BY <1>1, <1>2, <1>6, <2>2 DEF Carries, Like, Live
  <2>4. Holds(j)'
    BY <1>2, <2>2, <2>3 DEF Holds, Like, SendSteps, EditSteps, Cascade
  <2>5. Owes(j, m)'
    BY <1>2, <1>3 DEF Owes, Like, SendSteps
  <2>6. Tidy(m)'
    BY <1>1, <1>3, <1>5, <1>6, <2>2 DEF Tidy, Live, Carries
  <2> QED
    BY <2>1, <2>4, <2>5, <2>6
<1> QED
  BY <1>1, <1>2, <1>3, <1>6, <1>8, <1>9, <1>10, WriteStep, OwnMessage

LEMMA DeleteMessageStep ==
  ASSUME MessagesInv, NEW w \in Worker, DeleteMessage(w), serial' = (serial /\ OneAtATime')
  PROVE  MessagesInv' /\ Lasting
<1>1. rpc[w].pc = "DeleteMessage" /\ Keyed(rpc[w])
      /\ UNCHANGED <<attached, reactions, edits, readState, view, faults, written, due, purged>>
  BY DEF DeleteMessage, MessagesInv, KeyInv, history
<1>2. PICK j \in Request : rpc' = [rpc EXCEPT ![w] = j] /\ Like(rpc[w], j) /\ j.pc = "DeleteAttachments"
  BY Goes DEF MessagesInv, Calls, DeleteMessage
<1>3. PICK m \in Message : m = rpc[w].msg /\ m \in Stored
  BY <1>1 DEF Keyed, OnMessage, WithRow, Stored
<1>4. PICK x \in Row : x = row[m] /\ x \in Row
  BY DEF MessagesInv, MessagesTypeOK
<1>5. PICK y \in Row : y = [x EXCEPT !.deleted = TRUE] /\ y \in Row
  <2>1. (TRUE) \in BOOLEAN
    OBVIOUS
  <2>2. [x EXCEPT !.deleted = TRUE] \in Row
    BY <2>1 DEF Row
  <2> QED
    BY <2>2
<1>6. y.author = x.author /\ y.stored = x.stored /\ y.content = x.content /\ y.deleted = (TRUE) /\ y.pinned = x.pinned
  BY <1>5 DEF Row
<1>7. row' = [row EXCEPT ![m] = y]
  BY <1>3, <1>4, <1>5 DEF DeleteMessage
<1>8. /\ row' \in [Message -> Row] /\ row'[m] = y
      /\ \A n \in Message : n # m => row'[n] = row[n]
      /\ Stored' = Stored /\ Sent' = Sent
  BY <1>7, <1>4, <1>6, RowChange DEF MessagesInv
<1>9. TablesOK' /\ Stored' = Stored /\ Sent' = Sent
  BY <1>1, <1>3, <1>7, <1>8 DEF TablesOK, MessagesInv, MessagesTypeOK, Stored, Sent
<1>10. Keyed(j)
  BY <1>1, <1>2 DEF Keyed, Like, OnMessage, WithRow, BeforeSend, SendSteps, EditSteps, Cascade
<1>11. Keyed(j)'
  BY <1>9, <1>10, KeyedStays
<1>12. (\A n \in Message : n # m => Untouched(n)) /\ (row[m].deleted => row'[m].deleted)
  BY <1>1, <1>4, <1>6, <1>7, <1>8 DEF Untouched
<1>13. ASSUME Settled(rpc[w])
       PROVE  /\ Acked' /\ Holds(j)'
              /\ m \notin purged => (Shows(m)' \/ Owes(j, m)') /\ (Tidy(m)' \/ Tidies(j, m)')
  <2>1. Acked' /\ Holds(rpc[w])
    BY <1>1, <1>13 DEF Settled, Acked
  <2>2. rpc[w].op = "DeleteMessage" /\ ~rpc[w].event.shown
    BY <1>1, <2>1 DEF Holds, Keyed, Cascade
  <2>3. Holds(j)'
    BY <1>2, <1>3, <1>6, <1>8, <2>2 DEF Holds, Like, SendSteps, EditSteps, Cascade
  <2>4. Owes(j, m)' /\ Tidies(j, m)'
    BY <1>2, <1>3 DEF Owes, Tidies, Like, Cascade
  <2> QED
    BY <2>1, <2>3, <2>4
<1> QED
  BY <1>1, <1>2, <1>3, <1>9, <1>11, <1>12, <1>13, WriteStep, OwnMessage

LEMMA DeleteAttachmentsStep ==
  ASSUME MessagesInv, NEW w \in Worker, DeleteAttachments(w), serial' = (serial /\ OneAtATime')
  PROVE  MessagesInv' /\ Lasting
<1>1. rpc[w].pc = "DeleteAttachments" /\ Keyed(rpc[w])
      /\ UNCHANGED <<row, reactions, edits, readState, view, faults, written, due, purged>>
  BY DEF DeleteAttachments, MessagesInv, KeyInv, history
<1>2. PICK j \in Request : rpc' = [rpc EXCEPT ![w] = j] /\ Like(rpc[w], j) /\ j.pc = "DeleteReactions"
  BY Goes DEF MessagesInv, Calls, DeleteAttachments
<1>3. PICK m \in Message : m = rpc[w].msg /\ m \in Stored
  BY <1>1 DEF Keyed, OnMessage, WithRow, Stored
<1>4. attached' = attached \ {m}
  BY <1>3 DEF DeleteAttachments
<1>5. attached' \subseteq Message /\ m \notin attached'
  BY <1>4 DEF MessagesInv, MessagesTypeOK
<1>6. TablesOK' /\ Stored' = Stored /\ Sent' = Sent
  BY <1>1, <1>3, <1>4, <1>5 DEF TablesOK, MessagesInv, MessagesTypeOK, Stored, Sent
<1>7. Keyed(j)
  BY <1>1, <1>2 DEF Keyed, Like, OnMessage, WithRow, BeforeSend, SendSteps, EditSteps, Cascade
<1>8. Keyed(j)'
  BY <1>6, <1>7, KeyedStays
<1>9. (\A n \in Message : n # m => Untouched(n)) /\ (row[m].deleted => row'[m].deleted)
  BY <1>1, <1>4, <1>5 DEF Untouched
<1>10. ASSUME Settled(rpc[w])
       PROVE  /\ Acked' /\ Holds(j)'
              /\ m \notin purged => (Shows(m)' \/ Owes(j, m)') /\ (Tidy(m)' \/ Tidies(j, m)')
  <2>1. Acked' /\ Holds(rpc[w])
    BY <1>1, <1>10 DEF Settled, Acked
  <2>2. rpc[w].op = "DeleteMessage"
    BY <1>1 DEF Keyed, Cascade
  <2>3. Holds(j)'
    BY <1>1, <1>2, <1>3, <1>5, <2>1, <2>2 DEF Holds, Like, SendSteps, EditSteps, Cascade
  <2>4. Owes(j, m)' /\ Tidies(j, m)'
    BY <1>2, <1>3 DEF Owes, Tidies, Like, Cascade
  <2> QED
    BY <2>1, <2>3, <2>4
<1> QED
  BY <1>1, <1>2, <1>3, <1>6, <1>8, <1>9, <1>10, WriteStep, OwnMessage

LEMMA DeleteReactionsStep ==
  ASSUME MessagesInv, NEW w \in Worker, DeleteReactions(w), serial' = (serial /\ OneAtATime')
  PROVE  MessagesInv' /\ Lasting
<1>1. rpc[w].pc = "DeleteReactions" /\ Keyed(rpc[w])
      /\ UNCHANGED <<row, attached, edits, readState, view, faults, written, due, purged>>
  BY DEF DeleteReactions, MessagesInv, KeyInv, history
<1>2. PICK j \in Request : rpc' = [rpc EXCEPT ![w] = j] /\ Like(rpc[w], j) /\ j.pc = "DeleteEditHistory"
  BY Goes DEF MessagesInv, Calls, DeleteReactions
<1>3. PICK m \in Message : m = rpc[w].msg /\ m \in Stored
  BY <1>1 DEF Keyed, OnMessage, WithRow, Stored
<1>4. reactions' = [reactions EXCEPT ![m] = {}]
  BY <1>3 DEF DeleteReactions
<1>5. /\ reactions' \in [Message -> SUBSET User]
      /\ reactions'[m] = {} /\ \A n \in Message : n # m => reactions'[n] = reactions[n]
  BY <1>4 DEF MessagesInv, MessagesTypeOK, Request
<1>6. TablesOK' /\ Stored' = Stored /\ Sent' = Sent
  BY <1>1, <1>3, <1>4, <1>5 DEF TablesOK, MessagesInv, MessagesTypeOK, Stored, Sent
<1>7. Keyed(j)
  BY <1>1, <1>2 DEF Keyed, Like, OnMessage, WithRow, BeforeSend, SendSteps, EditSteps, Cascade
<1>8. Keyed(j)'
  BY <1>6, <1>7, KeyedStays
<1>9. (\A n \in Message : n # m => Untouched(n)) /\ (row[m].deleted => row'[m].deleted)
  BY <1>1, <1>4, <1>5 DEF Untouched
<1>10. ASSUME Settled(rpc[w])
       PROVE  /\ Acked' /\ Holds(j)'
              /\ m \notin purged => (Shows(m)' \/ Owes(j, m)') /\ (Tidy(m)' \/ Tidies(j, m)')
  <2>1. Acked' /\ Holds(rpc[w])
    BY <1>1, <1>10 DEF Settled, Acked
  <2>2. rpc[w].op = "DeleteMessage"
    BY <1>1 DEF Keyed, Cascade
  <2>3. Holds(j)'
    BY <1>1, <1>2, <1>3, <1>5, <2>1, <2>2 DEF Holds, Like, SendSteps, EditSteps, Cascade
  <2>4. Owes(j, m)' /\ Tidies(j, m)'
    BY <1>2, <1>3 DEF Owes, Tidies, Like, Cascade
  <2> QED
    BY <2>1, <2>3, <2>4
<1> QED
  BY <1>1, <1>2, <1>3, <1>6, <1>8, <1>9, <1>10, WriteStep, OwnMessage

LEMMA DeleteEditHistoryStep ==
  ASSUME MessagesInv, NEW w \in Worker, DeleteEditHistory(w), serial' = (serial /\ OneAtATime')
  PROVE  MessagesInv' /\ Lasting
<1>1. rpc[w].pc = "DeleteEditHistory" /\ Keyed(rpc[w])
      /\ UNCHANGED <<row, attached, reactions, readState, view, faults, written, due, purged>>
  BY DEF DeleteEditHistory, MessagesInv, KeyInv, history
<1>2. PICK j \in Request : rpc' = [rpc EXCEPT ![w] = j] /\ Like(rpc[w], j) /\ j.pc = "GetReactions"
  BY Goes DEF MessagesInv, Calls, DeleteEditHistory
<1>3. PICK m \in Message : m = rpc[w].msg /\ m \in Stored
  BY <1>1 DEF Keyed, OnMessage, WithRow, Stored
<1>4. edits' = [edits EXCEPT ![m] = {}]
  BY <1>3 DEF DeleteEditHistory
<1>5. /\ edits' \in [Message -> SUBSET (Content \cup {None})]
      /\ edits'[m] = {} /\ \A n \in Message : n # m => edits'[n] = edits[n]
  BY <1>4 DEF MessagesInv, MessagesTypeOK, Request
<1>6. TablesOK' /\ Stored' = Stored /\ Sent' = Sent
  BY <1>1, <1>3, <1>4, <1>5 DEF TablesOK, MessagesInv, MessagesTypeOK, Stored, Sent
<1>7. Keyed(j)
  BY <1>1, <1>2 DEF Keyed, Like, OnMessage, WithRow, BeforeSend, SendSteps, EditSteps, Cascade
<1>8. Keyed(j)'
  BY <1>6, <1>7, KeyedStays
<1>9. (\A n \in Message : n # m => Untouched(n)) /\ (row[m].deleted => row'[m].deleted)
  BY <1>1, <1>4, <1>5 DEF Untouched
<1>10. ASSUME Settled(rpc[w])
       PROVE  /\ Acked' /\ Holds(j)'
              /\ m \notin purged => (Shows(m)' \/ Owes(j, m)') /\ (Tidy(m)' \/ Tidies(j, m)')
  <2>1. Acked' /\ Holds(rpc[w])
    BY <1>1, <1>10 DEF Settled, Acked
  <2>2. rpc[w].op = "DeleteMessage" /\ row[m].deleted /\ m \notin attached /\ reactions[m] = {}
    BY <1>1, <1>3, <2>1 DEF Holds, Keyed, Cascade
  <2>3. Holds(j)'
    BY <1>1, <1>2, <1>3, <1>5, <2>1, <2>2 DEF Holds, Like, SendSteps, EditSteps, Cascade
  <2>4. Owes(j, m)' /\ Tidy(m)'
    BY <1>1, <1>2, <1>3, <1>5, <2>2 DEF Owes, Tidy, Live, Like, Cascade
  <2> QED
    BY <2>1, <2>3, <2>4
<1> QED
  BY <1>1, <1>2, <1>3, <1>6, <1>8, <1>9, <1>10, WriteStep, OwnMessage

LEMMA SetPinnedStep ==
  ASSUME MessagesInv, NEW w \in Worker, SetPinned(w), serial' = (serial /\ OneAtATime')
  PROVE  MessagesInv' /\ Lasting
<1>1. rpc[w].pc = "SetPinned" /\ Keyed(rpc[w])
      /\ UNCHANGED <<attached, reactions, edits, readState, view, faults, written, due, purged>>
  BY DEF SetPinned, MessagesInv, KeyInv, history
<1>2. PICK j \in Request : rpc' = [rpc EXCEPT ![w] = j] /\ Like(rpc[w], j) /\ j.pc = "GetMessage"
  BY Goes DEF MessagesInv, Calls, SetPinned
<1>3. PICK m \in Message : m = rpc[w].msg /\ m \in Message
  BY <1>1 DEF Keyed, OnMessage
<1>4. PICK x \in Row : x = row[m] /\ x \in Row
  BY DEF MessagesInv, MessagesTypeOK
<1>5. PICK y \in Row : y = [x EXCEPT !.pinned = rpc[w].op = "PinMessage", !.stored = TRUE] /\ y \in Row
  <2>1. (rpc[w].op = "PinMessage") \in BOOLEAN /\ TRUE \in BOOLEAN
    OBVIOUS
  <2>2. [x EXCEPT !.pinned = rpc[w].op = "PinMessage", !.stored = TRUE] \in Row
    BY <2>1 DEF Row
  <2> QED
    BY <2>2
<1>6. y.author = x.author /\ y.stored = TRUE /\ y.content = x.content /\ y.pinned = (rpc[w].op = "PinMessage") /\ y.deleted = x.deleted
  BY <1>5 DEF Row
<1>7. row' = [row EXCEPT ![m] = y]
  BY <1>3, <1>4, <1>5 DEF SetPinned
<1>8. /\ row' \in [Message -> Row] /\ row'[m] = y
      /\ \A n \in Message : n # m => row'[n] = row[n]
      /\ Stored' = Stored \cup {m} /\ Sent' = Sent
  BY <1>7, <1>4, <1>6, Upserted DEF MessagesInv
<1>9. TablesOK'
  BY <1>1, <1>3, <1>7, <1>8 DEF TablesOK, MessagesInv, MessagesTypeOK
<1>10. Keyed(j)
  BY <1>1, <1>2 DEF Keyed, Like, OnMessage, WithRow, BeforeSend, SendSteps, EditSteps, Cascade
<1>11. Keyed(j)'
  BY <1>8, <1>10, KeyedStays
<1>12. (\A n \in Message : n # m => Untouched(n)) /\ (row[m].deleted => row'[m].deleted)
  BY <1>1, <1>4, <1>6, <1>7, <1>8 DEF Untouched
<1>13. ASSUME Settled(rpc[w])
       PROVE  /\ Acked' /\ Holds(j)'
              /\ m \notin purged => (Shows(m)' \/ Owes(j, m)') /\ (Tidy(m)' \/ Tidies(j, m)')
  <2>1. Acked' /\ Holds(rpc[w])
    BY <1>1, <1>13 DEF Settled, Acked
  <2>2. Holds(j)'
    BY <1>2, <1>3, <1>6, <1>8, <2>1 DEF Holds, Like, SendSteps, EditSteps, Cascade
  <2>3. ASSUME m \notin purged  PROVE Shows(m) /\ Tidy(m)
    BY <1>1, <1>3, <1>13, <2>3 DEF Settled, Owes, Tidies, SendSteps, Cascade
  <2>4. RowFacts /\ Live(m)' = ~x.deleted /\ (m \in Stored => Live(m) = ~x.deleted)
    BY <1>4, <1>6, <1>8 DEF Live, MessagesInv, KeyInv, Row
  <2>5. m \notin purged => Tidy(m)'
    <3>1. CASE m \in Stored
      BY <1>1, <1>4, <1>6, <1>8, <2>3, <2>4, <3>1 DEF Tidy
    <3>2. CASE m \notin Stored
      <4>1. ~x.deleted /\ written'[m] = {}
        BY <1>1, <1>4, <2>4, <3>2 DEF RowFacts
      <4> QED
        BY <1>6, <1>8, <4>1 DEF Tidy
    <3> QED
      BY <3>1, <3>2
  <2>6. CASE Live(m)'
    <3>1. rpc[w].op \in {"PinMessage", "UnpinMessage"}
      BY <1>1 DEF Keyed
    <3>2. Owes(j, m)'
      BY <1>2, <1>3, <2>6, <3>1 DEF Owes, Like
    <3> QED
      BY <2>1, <2>2, <2>5, <3>2
  <2>7. CASE ~Live(m)'
    <3>1. ~Live(m)
      BY <1>4, <2>4, <2>7 DEF Live
    <3>2. m \notin purged => Shows(m)'
      BY <1>1, <2>3, <2>7, <3>1 DEF Shows
    <3> QED
      BY <2>1, <2>2, <2>5, <3>2
  <2> QED
    BY <2>6, <2>7
<1> QED
  BY <1>1, <1>2, <1>3, <1>8, <1>9, <1>11, <1>12, <1>13, WriteStep, OwnMessage

LEMMA WriteReactionStep ==
  ASSUME MessagesInv, NEW w \in Worker, WriteReaction(w), serial' = (serial /\ OneAtATime')
  PROVE  MessagesInv' /\ Lasting
<1>1. rpc[w].pc = "WriteReaction" /\ Keyed(rpc[w])
      /\ UNCHANGED <<row, attached, edits, readState, view, faults, written, due, purged>>
  BY DEF WriteReaction, MessagesInv, KeyInv, history
<1>2. PICK j \in Request : rpc' = [rpc EXCEPT ![w] = j] /\ Like(rpc[w], j) /\ j.pc = "GetReactions"
  BY Goes DEF MessagesInv, Calls, WriteReaction
<1>3. PICK m \in Message : m = rpc[w].msg /\ m \in Stored
  BY <1>1 DEF Keyed, OnMessage, WithRow, Stored
<1>4. PICK us \in SUBSET User : reactions' = [reactions EXCEPT ![m] = us] /\ us \subseteq User
  <2>1. PICK us : us = (IF rpc[w].op = "AddReaction" THEN reactions[m] \cup {rpc[w].user}
                        ELSE reactions[m] \ {rpc[w].user}) /\ us = us
    OBVIOUS
  <2>2. us \in SUBSET User
    BY <1>1, <2>1 DEF Keyed, MessagesInv, MessagesTypeOK
  <2>3. reactions' = [reactions EXCEPT ![m] = us]
    BY <1>3, <2>1 DEF WriteReaction
  <2> QED
    BY <2>2, <2>3
<1>5. /\ reactions' \in [Message -> SUBSET User]
      /\ reactions'[m] = us /\ \A n \in Message : n # m => reactions'[n] = reactions[n]
  BY <1>4 DEF MessagesInv, MessagesTypeOK
<1>6. TablesOK' /\ Stored' = Stored /\ Sent' = Sent
  BY <1>1, <1>3, <1>4, <1>5 DEF TablesOK, MessagesInv, MessagesTypeOK, Stored, Sent
<1>7. Keyed(j)
  BY <1>1, <1>2 DEF Keyed, Like, OnMessage, WithRow, BeforeSend, SendSteps, EditSteps, Cascade
<1>8. Keyed(j)'
  BY <1>6, <1>7, KeyedStays
<1>9. (\A n \in Message : n # m => Untouched(n)) /\ (row[m].deleted => row'[m].deleted)
  BY <1>1, <1>4, <1>5 DEF Untouched
<1>10. ASSUME Settled(rpc[w])
       PROVE  /\ Acked' /\ Holds(j)'
              /\ m \notin purged => (Shows(m)' \/ Owes(j, m)') /\ (Tidy(m)' \/ Tidies(j, m)')
  <2>1. Acked' /\ Holds(rpc[w])
    BY <1>1, <1>10 DEF Settled, Acked
  <2>2. Carries(rpc[w]) /\ rpc[w].op # "DeleteMessage" /\ rpc[w].op \notin {"PinMessage", "UnpinMessage"}
    BY <1>1, <2>1 DEF Holds, Keyed
  <2>3. Carries(j)'
    BY <1>1, <1>2, <1>6, <2>2 DEF Carries, Like, Live
  <2>4. Holds(j)'
    BY <1>2, <2>2, <2>3 DEF Holds, Like, SendSteps, EditSteps, Cascade
  <2>5. Owes(j, m)'
    BY <1>2, <1>3 DEF Owes, Like, SendSteps
  <2>6. m \notin purged => Tidy(m)
    BY <1>1, <1>3, <1>10 DEF Settled, Tidies, Cascade
  <2>7. m \notin purged => Tidy(m)'
    BY <1>1, <1>3, <1>6, <2>2, <2>6 DEF Tidy, Live, Carries
  <2> QED
    BY <2>1, <2>4, <2>5, <2>7
<1> QED
  BY <1>1, <1>2, <1>3, <1>6, <1>8, <1>9, <1>10, WriteStep, OwnMessage

LEMMA IdleMoves ==
  ASSUME NEW w \in Worker, Return(w)
  PROVE  /\ rpc' = [rpc EXCEPT ![w] = Idle] /\ Idle \in Request
         /\ Keyed(Idle)' /\ Holds(Idle)'
<1>1. Keyed(Idle)'
  BY IdleRequest DEF Keyed, OnMessage, WithRow, BeforeSend, SendSteps, EditSteps, Cascade
<1>2. Holds(Idle)'
  BY IdleRequest DEF Holds, SendSteps, EditSteps, Cascade
<1> QED
  BY <1>1, <1>2, IdleRequest DEF Return

LEMMA PublishStep ==
  ASSUME MessagesInv, NEW w \in Worker, Publish(w), serial' = (serial /\ OneAtATime')
  PROVE  MessagesInv' /\ Lasting
<1>1. PICK r \in Request : r = rpc[w] /\ r \in Request
  BY DEF MessagesInv, MessagesTypeOK
<1>2. r.pc = "Publish" /\ Keyed(r) /\ Return(w)
      /\ UNCHANGED <<row, attached, reactions, edits, readState, faults, written, due, purged>>
  BY <1>1 DEF Publish, MessagesInv, KeyInv, tables, history
<1>3. PICK m \in Message : m = r.msg /\ m \in Stored /\ m \in Sent
  BY <1>2 DEF Keyed, OnMessage, WithRow, Stored
<1>4. PICK e \in View : e = r.event /\ e \in View
  BY DEF Request
<1>5. PICK v \in View : v = (IF e.shown THEN e ELSE Hidden) /\ v \in View
  <2>1. Hidden \in View
    BY DEF Hidden, View
  <2> QED
    BY <2>1
<1>6. view' = [view EXCEPT ![m] = v]
  BY <1>1, <1>3, <1>4, <1>5 DEF Publish
<1>7. view' \in [Message -> View] /\ view'[m] = v /\ \A n \in Message : n # m => view'[n] = view[n]
  BY <1>6 DEF MessagesInv, MessagesTypeOK
<1>8. TablesOK' /\ Stored' = Stored /\ Sent' = Sent
  BY <1>2, <1>7 DEF TablesOK, MessagesInv, MessagesTypeOK, Stored, Sent
<1>9. (\A n \in Message : n # m => Untouched(n)) /\ (row[m].deleted => row'[m].deleted)
  BY <1>2, <1>7 DEF Untouched
<1>10. ASSUME Settled(rpc[w])
       PROVE  /\ Acked' /\ Holds(Idle)'
              /\ m \notin purged => (Shows(m)' \/ Owes(Idle, m)') /\ (Tidy(m)' \/ Tidies(Idle, m)')
  <2>1. Acked' /\ Holds(r) /\ (m \notin purged => Tidy(m))
    BY <1>1, <1>2, <1>10 DEF Settled, Tidies, Cascade, Acked
  <2>2. Holds(Idle)'
    BY <1>2, IdleMoves
  <2>3. m \notin purged => Tidy(m)'
    BY <1>2, <1>8, <2>1 DEF Tidy, Live
  <2>4. CASE r.op = "DeleteMessage"
    <3>1. ~e.shown /\ row[m].deleted
      BY <1>2, <1>3, <1>4, <2>1, <2>4 DEF Holds
    <3>2. Shows(m)'
      BY <1>2, <1>5, <1>7, <3>1 DEF Shows, Live
    <3> QED
      BY <2>1, <2>2, <2>3, <3>2
  <2>5. CASE r.op # "DeleteMessage"
    <3>1. Carries(r) /\ e.count = Cardinality(reactions[m]) /\ e.names = NamesOf(m)
      BY <1>2, <1>3, <1>4, <2>1, <2>5 DEF Holds
    <3>2. Live(m) /\ e.shown /\ e.content = row[m].content /\ e.pinned = row[m].pinned
      BY <1>3, <1>4, <3>1 DEF Carries
    <3>3. e = [shown |-> TRUE, content |-> row[m].content, pinned |-> row[m].pinned,
               count |-> Cardinality(reactions[m]), names |-> NamesOf(m)]
      BY <3>1, <3>2 DEF View
    <3>4. view'[m] = e /\ Live(m)'
      BY <1>2, <1>5, <1>7, <1>8, <3>2 DEF Live
    <3>5. Shows(m)'
      BY <1>2, <1>3, <1>8, <3>3, <3>4 DEF Shows, NamesOf
    <3> QED
      BY <2>1, <2>2, <2>3, <3>5
  <2> QED
    BY <2>4, <2>5
<1>11. \A n \in Message : n # m => ~Owes(rpc[w], n) /\ ~Tidies(rpc[w], n)
  BY <1>1, <1>3, OwnMessage
<1> QED
  BY <1>1, <1>2, <1>3, <1>8, <1>9, <1>10, <1>11, IdleMoves, WriteStep

LEMMA UpsertReadStateStep ==
  ASSUME MessagesInv, NEW w \in Worker, UpsertReadState(w), serial' = (serial /\ OneAtATime')
  PROVE  MessagesInv' /\ Lasting
<1>1. rpc[w].pc = "UpsertReadState" /\ Keyed(rpc[w]) /\ Return(w)
      /\ UNCHANGED <<row, attached, reactions, edits, view, faults, written, purged>>
  BY DEF UpsertReadState, MessagesInv, KeyInv
<1>2. PICK m \in Message : m = rpc[w].msg /\ m \in Message
  BY <1>1 DEF Keyed, OnMessage
<1>3. PICK u \in User : u = rpc[w].user /\ u \in User
  BY <1>1 DEF Keyed
<1>4. PICK s \in ReadState : s = [last |-> m, mentions |-> 0] /\ s \in ReadState
  <2>1. [last |-> m, mentions |-> 0] \in ReadState
    BY DEF ReadState
  <2> QED
    BY <2>1
<1>5. readState' = [readState EXCEPT ![u] = s] /\ due' = [due EXCEPT ![u] = s]
  BY <1>2, <1>3, <1>4 DEF UpsertReadState
<1>6. TablesOK' /\ Stored' = Stored /\ Sent' = Sent
  BY <1>1, <1>5 DEF TablesOK, MessagesInv, MessagesTypeOK, Stored, Sent
<1>7. (\A n \in Message : n # m => Untouched(n)) /\ (row[m].deleted => row'[m].deleted)
  BY <1>1 DEF Untouched
<1>8. ASSUME Settled(rpc[w])
      PROVE  /\ Acked' /\ Holds(Idle)'
             /\ m \notin purged => (Shows(m)' \/ Owes(Idle, m)') /\ (Tidy(m)' \/ Tidies(Idle, m)')
  <2>1. Acked'
    <3>1. /\ \A v \in User : v # u => readState'[v] = readState[v] /\ due'[v] = due[v]
          /\ readState'[u] = due'[u]
      BY <1>5 DEF MessagesInv, MessagesTypeOK
    <3> QED
      BY <1>8, <3>1 DEF Settled, Acked
  <2>2. m \notin purged => Shows(m) /\ Tidy(m)
    BY <1>1, <1>8, NothingOwed DEF Settled
  <2>3. m \notin purged => Shows(m)' /\ Tidy(m)'
    BY <1>1, <1>6, <2>2 DEF Shows, Tidy, Live, NamesOf
  <2> QED
    BY <1>1, <2>1, <2>3, IdleMoves
<1>9. \A n \in Message : n # m => ~Owes(rpc[w], n) /\ ~Tidies(rpc[w], n)
  BY <1>2, OwnMessage
<1> QED
  BY <1>1, <1>2, <1>6, <1>7, <1>8, <1>9, IdleMoves, WriteStep

LEMMA CreateMessageStep ==
  ASSUME MessagesInv, NEW w \in Worker, CreateMessage(w), serial' = (serial /\ OneAtATime')
  PROVE  MessagesInv' /\ Lasting
<1>1. PICK r \in Request : r = rpc[w] /\ r \in Request
  BY DEF MessagesInv, MessagesTypeOK
<1>2. r.pc = "CreateMessage" /\ Keyed(r) /\ r.op = "SendMessage" /\ r.user \in User
      /\ UNCHANGED <<attached, reactions, edits, readState, view, faults, due, purged>>
  BY <1>1 DEF CreateMessage, MessagesInv, KeyInv, Keyed, BeforeSend
<1>3. PICK m \in Message \ Stored :
        /\ row' = [row EXCEPT ![m] = [NoRow EXCEPT !.stored = TRUE, !.author = r.user, !.content = r.text,
                                        !.replyTo = r.reply, !.source = r.source]]
        /\ written' = [written EXCEPT ![m] = {r.text}]
        /\ rpc' = [rpc EXCEPT ![w].msg = m, ![w].pc = AfterCreate(r),
                              ![w].event = [Hidden EXCEPT !.shown = TRUE, !.content = r.text]]
  BY <1>1 DEF CreateMessage
<1>4. PICK t \in Content \cup {None} : t = r.text /\ t = t
  BY DEF Request
<1>5. PICK y \in Row : y = [NoRow EXCEPT !.stored = TRUE, !.author = r.user, !.content = r.text,
                                         !.replyTo = r.reply, !.source = r.source] /\ y \in Row
  <2>1. NoRow \in Row
    BY DEF NoRow, Row
  <2>2. r.reply \in Message \cup {None} /\ r.source \in Message \cup {None}
    BY DEF Request
  <2>3. [NoRow EXCEPT !.stored = TRUE, !.author = r.user, !.content = r.text, !.replyTo = r.reply,
                     !.source = r.source] \in Row
    BY <1>2, <1>4, <2>1, <2>2 DEF Row
  <2> QED
    BY <2>3
<1>6. y.stored /\ y.author = r.user /\ y.content = t /\ ~y.deleted /\ y.pinned = FALSE
  BY <1>4, <1>5 DEF NoRow
<1>7. /\ row' \in [Message -> Row] /\ row'[m] = y
      /\ \A n \in Message : n # m => row'[n] = row[n]
  BY <1>3, <1>5 DEF MessagesInv, MessagesTypeOK
<1>8. /\ written' \in [Message -> SUBSET (Content \cup {None})]
      /\ written'[m] = {t} /\ \A n \in Message : n # m => written'[n] = written[n]
  BY <1>3, <1>4 DEF MessagesInv, MessagesTypeOK
<1>9. Stored \subseteq Stored' /\ m \in Stored' /\ Sent \subseteq Sent' /\ m \in Sent'
  BY <1>2, <1>6, <1>7, MessagesConstants DEF Stored, Sent
<1>10. PICK e \in View : e = [Hidden EXCEPT !.shown = TRUE, !.content = t] /\ e \in View
  <2>1. Hidden \in View
    BY DEF Hidden, View
  <2>2. [Hidden EXCEPT !.shown = TRUE, !.content = t] \in View
    BY <2>1 DEF View
  <2> QED
    BY <2>2
<1>11. e.shown /\ e.content = t /\ e.pinned = FALSE
  BY <1>10 DEF Hidden
<1>12. PICK pc \in SendSteps \cup {"GetReactions"} :
         /\ pc = AfterCreate(r) /\ pc # "IncrementMentionCount"
         /\ pc = "GetReadState" => r.mention # None
  BY DEF AfterCreate, AfterAttachments, SendSteps
<1> DEFINE k == [r EXCEPT !.msg = m]
           l == [k EXCEPT !.pc = pc]
           n == [l EXCEPT !.event = e]
<1> HIDE DEF k, l, n
<1>13. k \in Request
  BY DEF k, Request
<1>14. l \in Request
  BY <1>13 DEF l, Request, Calls, SendSteps
<1>15. n \in Request
  BY <1>14 DEF n, Request
<1>16. PICK j \in Request : j = n /\ j \in Request
  BY <1>15
<1>17. rpc' = [rpc EXCEPT ![w] = j]
  BY <1>1, <1>3, <1>4, <1>10, <1>12, <1>16 DEF k, l, n
<1>18. j.pc = pc /\ j.op = r.op /\ j.user = r.user /\ j.msg = m /\ j.reply = r.reply
       /\ j.source = r.source /\ j.ids = r.ids /\ j.mention = r.mention /\ j.event = e
  BY <1>16 DEF k, l, n, Request
<1>19. TablesOK'
  BY <1>2, <1>7, <1>8 DEF TablesOK, MessagesInv, MessagesTypeOK
<1>20. Keyed(j)'
  <2>1. r.mention \in User \cup {None}
    BY DEF Request
  <2> QED
    BY <1>2, <1>9, <1>12, <1>18, <2>1 DEF Keyed, OnMessage, WithRow, BeforeSend, SendSteps, EditSteps, Cascade
<1>21. (\A i \in Message : i # m => Untouched(i)) /\ (row[m].deleted => row'[m].deleted)
  BY <1>2, <1>3, <1>7, <1>8 DEF Untouched, MessagesInv, KeyInv, RowFacts
<1>22. ASSUME Settled(rpc[w])
       PROVE  /\ Acked' /\ Holds(j)'
              /\ m \notin purged => (Shows(m)' \/ Owes(j, m)') /\ (Tidy(m)' \/ Tidies(j, m)')
  <2>1. Acked'
    BY <1>2, <1>22 DEF Settled, Acked
  <2>2. Carries(j)'
    BY <1>6, <1>7, <1>9, <1>11, <1>18 DEF Carries, Live
  <2>3. Holds(j)'
    BY <1>2, <1>12, <1>18, <2>2 DEF Holds, SendSteps, EditSteps, Cascade
  <2>4. Owes(j, m)' /\ Tidy(m)'
    BY <1>6, <1>7, <1>8, <1>12, <1>18 DEF Owes, Tidy, Live, SendSteps
  <2> QED
    BY <2>1, <2>3, <2>4
<1>23. \A i \in Message : i # m => ~Owes(rpc[w], i) /\ ~Tidies(rpc[w], i)
  BY <1>1, <1>2, NothingOwed
<1> QED
  BY <1>1, <1>2, <1>9, <1>17, <1>19, <1>20, <1>21, <1>22, <1>23, WriteStep

\* Every id but m is left of a bulk delete.
LEMMA OneIdLess ==
  ASSUME MessagesInv, NEW w \in Worker, rpc[w].pc = "BulkDelete", NEW m,
         rpc' = [rpc EXCEPT ![w].ids = @ \ {m}], Stored \subseteq Stored', Sent \subseteq Sent'
  PROVE  \E j \in Request : rpc' = [rpc EXCEPT ![w] = j] /\ j.pc = "BulkDelete" /\ Keyed(j)' /\ Holds(j)'
<1>1. PICK r \in Request : r = rpc[w] /\ r \in Request
  BY DEF MessagesInv, MessagesTypeOK
<1>2. Keyed(r)
  BY <1>1 DEF MessagesInv, KeyInv
<1>3. PICK ids \in SUBSET Message : ids = r.ids \ {m} /\ ids \subseteq r.ids
  BY DEF Request
<1>4. [r EXCEPT !.ids = ids] \in Request
  BY DEF Request
<1>5. PICK j \in Request : j = [r EXCEPT !.ids = ids] /\ j \in Request
  BY <1>4
<1>6. j.pc = r.pc /\ j.op = r.op /\ j.user = r.user /\ j.msg = r.msg /\ j.reply = r.reply
      /\ j.source = r.source /\ j.ids = ids
  BY <1>5 DEF Request
<1>7. Keyed(j)
  BY <1>1, <1>2, <1>3, <1>6 DEF Keyed, OnMessage, WithRow, BeforeSend, SendSteps, EditSteps, Cascade
<1>8. Keyed(j)'
  BY <1>7, KeyedStays
<1>9. Holds(j)'
  BY <1>1, <1>6 DEF Holds, SendSteps, EditSteps, Cascade
<1>10. rpc' = [rpc EXCEPT ![w] = j]
  BY <1>1, <1>3, <1>5
<1> QED
  BY <1>1, <1>6, <1>8, <1>9, <1>10

LEMMA BulkDeleteStep ==
  ASSUME MessagesInv, NEW w \in Worker, BulkDelete(w), serial' = (serial /\ OneAtATime')
  PROVE  MessagesInv' /\ Lasting
<1>1. rpc[w].pc = "BulkDelete" /\ Keyed(rpc[w])
      /\ UNCHANGED <<attached, reactions, edits, readState, view, faults, written, due>>
  BY DEF BulkDelete, MessagesInv, KeyInv
<1>2. PICK m \in rpc[w].ids :
        /\ row' = [row EXCEPT ![m].deleted = TRUE, ![m].stored = TRUE]
        /\ purged' = IF row[m].deleted THEN purged ELSE purged \cup {m}
        /\ IF rpc[w].ids = {m} THEN Return(w) ELSE rpc' = [rpc EXCEPT ![w].ids = @ \ {m}]
  BY DEF BulkDelete
<1>3. m \in Message
  BY <1>1 DEF MessagesInv, MessagesTypeOK, Request
<1>4. PICK x \in Row : x = row[m] /\ x \in Row
  BY <1>3 DEF MessagesInv, MessagesTypeOK
<1>5. PICK y \in Row : y = [x EXCEPT !.deleted = TRUE, !.stored = TRUE] /\ y \in Row
  <2>1. [x EXCEPT !.deleted = TRUE, !.stored = TRUE] \in Row
    BY DEF Row
  <2> QED
    BY <2>1
<1>6. y.author = x.author /\ y.stored = TRUE /\ y.content = x.content /\ y.deleted = TRUE /\ y.pinned = x.pinned
  BY <1>5 DEF Row
<1>7. row' = [row EXCEPT ![m] = y]
  BY <1>2, <1>4, <1>5
<1>8. /\ row' \in [Message -> Row] /\ row'[m] = y
      /\ \A n \in Message : n # m => row'[n] = row[n]
      /\ Stored' = Stored \cup {m} /\ Sent' = Sent
  BY <1>3, <1>4, <1>6, <1>7, Upserted DEF MessagesInv
<1>9. TablesOK'
  BY <1>1, <1>2, <1>3, <1>8 DEF TablesOK, MessagesInv, MessagesTypeOK
<1>10. /\ RowFacts' /\ Lasting
       /\ \A n \in purged' : n \in purged \/ row'[n].deleted
  <2>1. RowFacts'
    BY <1>1, <1>8 DEF MessagesInv, KeyInv, RowFacts
  <2> QED
    BY <2>1, <1>2, <1>3, <1>4, <1>6, <1>8 DEF MessagesInv, KeyInv, Lasting
<1>11. PICK j \in Request : rpc' = [rpc EXCEPT ![w] = j] /\ Keyed(j)' /\ Holds(j)'
  <2>1. CASE rpc[w].ids = {m}
    BY <1>2, <2>1, IdleMoves
  <2>2. CASE rpc[w].ids # {m}
    BY <1>1, <1>2, <1>8, <2>2, OneIdLess
  <2> QED
    BY <2>1, <2>2
<1>12. ASSUME Settled(rpc[w])  PROVE Settled(j)'
  <2>1. ASSUME NEW n \in Message, n \notin purged'  PROVE Shows(n)' /\ Tidy(n)'
    <3>1. n \notin purged
      BY <1>2, <2>1
    <3>2. Shows(n) /\ Tidy(n)
      BY <1>1, <1>12, <3>1, NothingOwed DEF Settled
    <3>3. CASE n # m
      BY <1>1, <1>8, <3>2, <3>3, Elsewhere DEF Untouched
    <3>4. CASE n = m
      <4>1. x.deleted
        BY <1>2, <1>4, <2>1, <3>4
      <4>2. ~Live(n) /\ ~Live(n)' /\ row[n].deleted
        BY <1>4, <1>6, <1>8, <3>4, <4>1 DEF Live
      <4>3. m \in Stored
        BY <1>3, <1>4, <4>1 DEF MessagesInv, KeyInv, RowFacts
      <4> QED
        BY <1>1, <1>3, <3>2, <3>4, <4>2, <4>3 DEF Shows, Tidy
    <3> QED
      BY <3>3, <3>4
  <2>2. Acked'
    BY <1>1, <1>12 DEF Settled, Acked
  <2> QED
    BY <1>11, <2>1, <2>2 DEF Settled
<1> QED
  BY <1>1, <1>8, <1>9, <1>10, <1>11, <1>12, RpcStep DEF Moves

\* Nothing is claimed of the tables once a call has failed.
LEMMA FailStep ==
  ASSUME MessagesInv, NEW w \in Worker, NEW j \in Request, rpc' = [rpc EXCEPT ![w] = j], rpc[w].pc # "idle",
         serial' = (serial /\ OneAtATime'), Keyed(j)', faults' = faults + 1, UNCHANGED <<tables, view, history>>
  PROVE  MessagesInv' /\ Lasting
<1>1. UNCHANGED <<row, attached, reactions, edits, readState, view, written, due, purged>>
  BY DEF tables, history
<1>2. faults \in Nat /\ faults' \in Nat /\ faults' # 0
  BY DEF MessagesInv, MessagesTypeOK
<1>3. TablesOK'
  BY <1>1, <1>2 DEF TablesOK, MessagesInv, MessagesTypeOK
<1>4. Stored' = Stored /\ Sent' = Sent /\ RowFacts' /\ Lasting /\ purged' = purged
  BY <1>1 DEF Stored, Sent, RowFacts, MessagesInv, KeyInv, Lasting
<1> QED
  BY <1>2, <1>3, <1>4, RpcStep DEF Moves

LEMMA CallFailsStep ==
  ASSUME MessagesInv, NEW w \in Worker, CallFails(w), serial' = (serial /\ OneAtATime')
  PROVE  MessagesInv' /\ Lasting
<1>1. PICK r \in Request : r = rpc[w] /\ r \in Request
  BY DEF MessagesInv, MessagesTypeOK
<1>2. r.pc # "idle" /\ ~Dereferences(r) /\ Keyed(r) /\ faults' = faults + 1 /\ UNCHANGED <<tables, view, history>>
  BY <1>1 DEF CallFails, MessagesInv, KeyInv
<1>3. Stored' = Stored /\ Sent' = Sent
  BY <1>2 DEF tables, Stored, Sent
<1>4. CASE r.pc = "BulkDelete" /\ Cardinality(r.ids) > 1
  <2>1. PICK m \in r.ids : rpc' = [rpc EXCEPT ![w].ids = @ \ {m}] /\ m = m
    BY <1>1, <1>4 DEF CallFails
  <2>2. PICK j \in Request : rpc' = [rpc EXCEPT ![w] = j] /\ Keyed(j)'
    BY <1>1, <1>3, <1>4, <2>1, OneIdLess
  <2> QED
    BY <1>1, <1>2, <2>2, FailStep
<1>5. CASE ~(r.pc = "BulkDelete" /\ Cardinality(r.ids) > 1) /\ OnError(r) = "idle"
  <2>1. Return(w)
    BY <1>1, <1>5 DEF CallFails, Proceed
  <2> QED
    BY <1>1, <1>2, <2>1, IdleMoves, FailStep
<1>6. CASE ~(r.pc = "BulkDelete" /\ Cardinality(r.ids) > 1) /\ OnError(r) # "idle"
  <2>1. Goto(w, OnError(r))
    BY <1>1, <1>6 DEF CallFails, Proceed
  <2>2. /\ OnError(r) \in {"GetParent", "CreateMessage", "GetReadState", "GetReactions", "DeleteReactions",
                           "DeleteEditHistory", "Publish"}
        /\ OnError(r) \in {"GetParent", "CreateMessage"} => r.pc = "GetSourceAttachments"
        /\ OnError(r) = "GetReadState" => r.pc = "AddMessageAttachment" /\ r.mention # None
        /\ OnError(r) \in {"GetReactions", "Publish"} => r.pc \in WithRow
        /\ OnError(r) = "Publish" => r.pc = "GetReactions"
        /\ OnError(r) \in {"DeleteReactions", "DeleteEditHistory"} => r.pc \in Cascade
    BY <1>6 DEF OnError, AfterSource, AfterAttachments, OnMessage, WithRow, Cascade
  <2>7. OnError(r) = "Publish" => r.msg \in Sent
    BY <1>2, <2>2 DEF Dereferences
  <2>3. PICK pc \in Calls : pc = OnError(r) /\ pc \in Calls
    BY <2>2 DEF Calls
  <2>4. PICK j \in Request : rpc' = [rpc EXCEPT ![w] = j] /\ Like(r, j) /\ j.pc = pc
    BY <1>1, <2>1, <2>3, Goes DEF MessagesInv
  <2>5. Keyed(j)
    <3>1. r.mention \in User \cup {None}
      BY DEF Request
    <3>2. pc \in OnMessage => r.pc \in WithRow /\ r.pc \in OnMessage
      BY <2>2, <2>3 DEF OnMessage, WithRow, Cascade
    <3> QED
      BY <1>2, <2>2, <2>3, <2>4, <2>7, <3>1, <3>2 DEF Keyed, Like, OnMessage, WithRow, BeforeSend, SendSteps, EditSteps, Cascade
  <2>6. Keyed(j)'
    BY <1>3, <2>5, KeyedStays
  <2> QED
    BY <1>1, <1>2, <2>4, <2>6, FailStep
<1> QED
  BY <1>4, <1>5, <1>6

\* The process ends: no RPC runs on, and nothing was owed of a row that was not sent.
LEMMA PanicStep ==
  ASSUME MessagesInv, NEW w \in Worker, Panic(w), serial' = (serial /\ OneAtATime')
  PROVE  MessagesInv' /\ Lasting
<1>1. Dereferences(rpc[w]) /\ rpc' = [v \in Worker |-> Idle]
      /\ UNCHANGED <<row, attached, reactions, edits, readState, view, faults, written, due, purged>>
  BY DEF Panic, Read, tables, history
<1>2. rpc' \in [Worker -> Request] /\ \A v \in Worker : rpc'[v] = Idle /\ rpc'[v].pc = "idle"
  BY <1>1, IdleRequest
<1>3. MessagesTypeOK' /\ Lasting
  BY <1>1, <1>2 DEF MessagesInv, MessagesTypeOK, Lasting
<1>4. KeyInv'
  <2>1. Stored' = Stored /\ Sent' = Sent /\ RowFacts' /\ (\A m \in purged : row[m].deleted)'
    BY <1>1 DEF MessagesInv, KeyInv, RowFacts, Stored, Sent
  <2>2. ASSUME NEW v \in Worker  PROVE Keyed(rpc[v])'
    BY <1>2 DEF Keyed, OnMessage, WithRow, BeforeSend, SendSteps, EditSteps, Cascade
  <2> QED
    BY <2>1, <2>2 DEF KeyInv
<1>5. MessagesSerial' /\ (serial' => serial)
  BY DEF MessagesInv, MessagesSerial, OneAtATime
<1>6. CalmInv'
  <2> SUFFICES ASSUME serial', faults' = 0  PROVE CalmFacts'
    BY DEF CalmInv
  <2>1. CalmFacts /\ \A v \in Worker : v # w => rpc[v].pc = "idle"
    <3>1. rpc[w].pc # "idle"
      BY <1>1 DEF Dereferences
    <3> QED
      BY <1>1, <1>5, <3>1 DEF MessagesInv, CalmInv, MessagesSerial, OneAtATime
  <2>2. ASSUME NEW v \in Worker  PROVE Holds(rpc[v])'
    BY <1>2 DEF Holds, SendSteps, EditSteps, Cascade
  <2>3. ASSUME NEW m \in Message, m \notin purged  PROVE Shows(m) /\ Tidy(m)
    <3>1. ASSUME NEW v \in Worker  PROVE ~Tidies(rpc[v], m)
      BY <1>1, <2>1 DEF Dereferences, Tidies, Cascade
    <3>2. ASSUME NEW v \in Worker, Owes(rpc[v], m)  PROVE Shows(m)
      <4>1. m \notin Sent
        BY <1>1, <2>1, <3>2 DEF Dereferences, Owes, SendSteps, Cascade
      <4> QED
        BY <4>1 DEF MessagesInv, KeyInv, RowFacts, Shows
    <3> QED
      BY <2>1, <2>3, <3>1, <3>2 DEF CalmFacts
  <2>4. ASSUME NEW m \in Message, m \notin purged'  PROVE Shows(m)' /\ Tidy(m)'
    BY <1>1, <2>3, <2>4 DEF Shows, Tidy, Live, Stored, Sent, NamesOf
  <2>5. Acked'
    BY <1>1, <2>1 DEF CalmFacts, Acked
  <2> QED
    BY <2>2, <2>4, <2>5 DEF CalmFacts
<1> QED
  BY <1>3, <1>4, <1>5, <1>6 DEF MessagesInv

-----------------------------------------------------------------------------

LEMMA MessagesStart ==
  Init => MessagesInv
<1> SUFFICES ASSUME Init  PROVE MessagesInv
  OBVIOUS
<1>1. NoRow \in Row /\ NoRow.author = None /\ ~NoRow.deleted /\ ~NoRow.stored
  BY DEF NoRow, Row
<1>2. Unread \in ReadState /\ Hidden \in View
  BY DEF Unread, ReadState, Hidden, View
<1>3. MessagesTypeOK
  BY <1>1, <1>2, IdleRequest DEF Init, MessagesTypeOK
<1>4. Stored = {} /\ Sent = {} /\ \A m \in Message : ~Live(m) /\ ~row[m].deleted
  BY <1>1 DEF Init, Stored, Sent, Live
<1>5. \A w \in Worker : rpc[w] = Idle
  BY DEF Init
<1>6. KeyInv
  BY <1>4, <1>5, IdleKeyed DEF KeyInv, RowFacts, Init
<1>7. MessagesSerial
  BY <1>5, IdleRequest DEF MessagesSerial, OneAtATime, Init
<1>8. CalmInv
  <2>1. \A m \in Message : Shows(m) /\ Tidy(m)
    BY <1>4 DEF Shows, Tidy, Init
  <2>2. \A w \in Worker : Holds(rpc[w])
    BY <1>5, IdleRequest, IdleHolds
  <2> QED
    BY <2>1, <2>2 DEF CalmInv, CalmFacts, Acked, Init
<1> QED
  BY <1>3, <1>6, <1>7, <1>8 DEF MessagesInv

LEMMA MessagesStay ==
  ASSUME MessagesInv, UNCHANGED vars
  PROVE  MessagesInv'
<1>1. UNCHANGED <<row, attached, reactions, edits, readState, view, rpc, faults, written, due, purged, serial>>
  BY DEF vars, tables, history
<1>2. MessagesTypeOK'
  BY <1>1 DEF MessagesInv, MessagesTypeOK
<1>3. KeyInv'
  BY <1>1 DEF MessagesInv, KeyInv, RowFacts, Keyed, Stored, Sent
<1>4. MessagesSerial'
  BY <1>1 DEF MessagesInv, MessagesSerial, OneAtATime
<1>5. CalmInv'
  BY <1>1 DEF MessagesInv, CalmInv, CalmFacts, Acked, Holds, Carries, Shows, Tidy, Owes, Tidies, Live, Stored, Sent,
     NamesOf
<1> QED
  BY <1>2, <1>3, <1>4, <1>5 DEF MessagesInv

LEMMA MessagesNext ==
  ASSUME MessagesInv, Next
  PROVE  MessagesInv' /\ Lasting
<1>1. PICK w \in Worker : Call(w) \/ Step(w) \/ CallFails(w) \/ Panic(w)
  BY DEF Next
<1>2. serial' = (serial /\ OneAtATime')
  BY DEF Next
<1>3. CASE Call(w)
  BY <1>2, <1>3, CallStep
<1>4. CASE Step(w)
  <2>1. \/ GetSource(w) \/ GetSourceAttachments(w) \/ GetParent(w) \/ CreateMessage(w) \/ Full(w)
        \/ AddMessageAttachment(w) \/ GetReadState(w) \/ IncrementMentionCount(w)
        \/ GetMessage(w) \/ UpdateMessageContent(w) \/ SaveEditHistory(w) \/ DeleteMessage(w)
        \/ DeleteAttachments(w) \/ DeleteReactions(w) \/ DeleteEditHistory(w) \/ SetPinned(w)
        \/ WriteReaction(w) \/ GetReactions(w) \/ Publish(w) \/ UpsertReadState(w)
        \/ BulkDelete(w)
    BY <1>4 DEF Step
  <2>2. ASSUME GetSource(w) \/ GetSourceAttachments(w) \/ GetParent(w) \/ CreateMessage(w) \/ Full(w)
               \/ AddMessageAttachment(w) \/ GetReadState(w) \/ IncrementMentionCount(w)
        PROVE  MessagesInv' /\ Lasting
    BY <1>2, <2>2, GetSourceStep, GetSourceAttachmentsStep, GetParentStep, CreateMessageStep, FullStep,
       AddMessageAttachmentStep, GetReadStateStep, IncrementMentionCountStep
  <2>3. ASSUME GetMessage(w) \/ UpdateMessageContent(w) \/ SaveEditHistory(w) \/ DeleteMessage(w)
               \/ DeleteAttachments(w) \/ DeleteReactions(w) \/ DeleteEditHistory(w)
        PROVE  MessagesInv' /\ Lasting
    BY <1>2, <2>3, GetMessageStep, UpdateMessageContentStep, SaveEditHistoryStep, DeleteMessageStep,
       DeleteAttachmentsStep, DeleteReactionsStep, DeleteEditHistoryStep
  <2>4. ASSUME SetPinned(w) \/ WriteReaction(w) \/ GetReactions(w) \/ Publish(w) \/ UpsertReadState(w)
               \/ BulkDelete(w)
        PROVE  MessagesInv' /\ Lasting
    BY <1>2, <2>4, SetPinnedStep, WriteReactionStep, GetReactionsStep, PublishStep, UpsertReadStateStep,
       BulkDeleteStep
  <2> QED
    BY <2>1, <2>2, <2>3, <2>4
<1>5. CASE CallFails(w)
  BY <1>2, <1>5, CallFailsStep
<1>6. CASE Panic(w)
  BY <1>2, <1>6, PanicStep
<1> QED
  BY <1>1, <1>3, <1>4, <1>5, <1>6

LEMMA MessagesAlways ==
  Spec => []MessagesInv
<1>1. MessagesInv /\ [Next]_vars => MessagesInv'
  BY MessagesNext, MessagesStay
<1> QED
  BY <1>1, MessagesStart, PTL DEF Spec

\* Whatever the interleaving of sends, edits, pins and deletes, and whichever store calls
\* fail, a message once deleted stays deleted.
THEOREM DeletedStaysDeleted ==
  Spec => NoResurrection
<1>1. MessagesInv /\ [Next]_vars => [\A m \in Message : row[m].deleted => row'[m].deleted]_vars
  BY MessagesNext DEF Lasting
<1> QED
  BY <1>1, MessagesAlways, PTL DEF Spec, NoResurrection

LEMMA AtRestFacts ==
  ASSUME MessagesInv, AtRest
  PROVE  \A m \in Message \ purged : Shows(m) /\ Tidy(m)
<1>1. \A w \in Worker, m \in Message : ~Owes(rpc[w], m) /\ ~Tidies(rpc[w], m)
  BY IdleHolds DEF AtRest
<1> QED
  BY <1>1 DEF MessagesInv, CalmInv, CalmFacts, AtRest

\* Between RPCs that did not overlap or fail, the attachments, reactions and edit history of
\* a message agree with its row.
THEOREM TablesAgree ==
  Spec => []ChildrenAgree
<1>1. MessagesInv => ChildrenAgree
  <2> SUFFICES ASSUME MessagesInv, AtRest, NEW m \in Stored, m \notin purged
               PROVE  /\ Live(m) => written[m] \subseteq edits[m] \cup {row[m].content}
                      /\ row[m].deleted => m \notin attached /\ reactions[m] = {} /\ edits[m] = {}
    BY DEF ChildrenAgree
  <2>1. Tidy(m)
    BY AtRestFacts DEF Stored
  <2> QED
    BY <2>1 DEF Tidy
<1> QED
  BY <1>1, MessagesAlways, PTL

\* Between RPCs that did not overlap or fail, a client that has been subscribed all along
\* shows every message that was sent as it is stored, but for those of a bulk delete, and
\* no row that an UPDATE made; and who has reacted, unless the author has.
THEOREM SubscriberSeesMessages ==
  Spec => []ViewAgrees
<1>1. MessagesInv => ViewAgrees
  <2> SUFFICES ASSUME MessagesInv, AtRest, NEW m \in Message, m \notin purged
               PROVE  IF m \in Sent /\ Live(m)
                      THEN /\ view[m].shown /\ view[m].content = row[m].content
                           /\ view[m].pinned = row[m].pinned
                           /\ view[m].count = Cardinality(reactions[m])
                           /\ row[m].author \notin reactions[m] => view[m].names \ {None} = reactions[m]
                      ELSE view[m] = Hidden
    BY DEF ViewAgrees
  <2>1. Shows(m)
    BY AtRestFacts
  <2>2. reactions[m] \subseteq User /\ None \notin User
    BY MessagesConstants DEF MessagesInv, MessagesTypeOK
  <2>3. row[m].author \notin reactions[m] => NamesOf(m) \ {None} = reactions[m]
    BY <2>2 DEF NamesOf, Names
  <2> QED
    BY <2>1, <2>3 DEF Shows
<1> QED
  BY <1>1, MessagesAlways, PTL

\* With RPCs that do not overlap or fail, the read state of a user who has acked a message
\* is the last ack and the mentions since.
THEOREM BadgeIsExact ==
  Spec => []BadgeExact
<1>1. MessagesInv => BadgeExact
  BY DEF MessagesInv, CalmInv, CalmFacts, Acked, BadgeExact
<1> QED
  BY <1>1, MessagesAlways, PTL

-----------------------------------------------------------------------------
(* Reading: what a LIMIT keeps.                                               *)

LEMMA IdSets ==
  ASSUME NEW ids, ids \subseteq Id
  PROVE  /\ IsFiniteSet(ids) /\ Cardinality(ids) \in Nat
         /\ \A part \in SUBSET ids : IsFiniteSet(part) /\ Cardinality(part) \in Nat
                                       /\ Cardinality(part) <= Cardinality(ids)
<1>1. MaxId \in Nat
  BY ReadingConstants
<1>2. IsFiniteSet(Id)
  BY <1>1, FS_Interval DEF Id
<1>3. IsFiniteSet(ids)
  BY <1>2, FS_Subset
<1>4. \A part \in SUBSET ids : IsFiniteSet(part) /\ Cardinality(part) <= Cardinality(ids)
  BY <1>3, FS_Subset
<1> QED BY <1>3, <1>4, FS_CardinalityType

LEMMA LeastOf ==
  ASSUME NEW ids, ids \subseteq Nat, ids # {}
  PROVE  \E i \in ids : \A j \in ids : i <= j
<1>1. PICK i \in ids : \A j \in ids : ~ (<<j, i>> \in OpToRel(<, Nat))
  BY NatLessThanWellFounded, WFMin
<1>2. \A x, y \in Nat : x < y => <<x, y>> \in OpToRel(<, Nat)
  BY DEF OpToRel
<1>3. ASSUME NEW j \in ids PROVE i <= j
  <2>1. i \in Nat /\ j \in Nat
    OBVIOUS
  <2>2. ~ (j < i)
    BY <1>1, <1>2, <2>1
  <2> QED BY <2>1, <2>2
<1> QED BY <1>3

LEMMA Extremes ==
  ASSUME NEW ids, ids \subseteq Id, ids # {}
  PROVE  /\ Max(ids) \in ids /\ \A i \in ids : i <= Max(ids)
         /\ Min(ids) \in ids /\ \A i \in ids : Min(ids) <= i
<1>1. MaxId \in Nat /\ \A i \in ids : i \in Nat /\ MaxId - i \in Nat
  BY ReadingConstants DEF Id
<1>2. \E i \in ids : \A j \in ids : i <= j
  BY <1>1, LeastOf
<1>3. \E i \in ids : \A j \in ids : i >= j
  <2> DEFINE mirror == {MaxId - i : i \in ids}
  <2>1. mirror \subseteq Nat /\ mirror # {}
    BY <1>1
  <2>2. PICK l \in mirror : \A m \in mirror : l <= m
    <3> HIDE DEF mirror
    <3> QED BY <2>1, LeastOf
  <2>3. PICK i \in ids : l = MaxId - i
    BY <2>2
  <2>4. \A j \in ids : i >= j
    BY <1>1, <2>2, <2>3
  <2> QED BY <2>4
<1>4. Max(ids) \in ids /\ \A i \in ids : Max(ids) >= i
  BY <1>3 DEF Max
<1>5. Min(ids) \in ids /\ \A i \in ids : Min(ids) <= i
  BY <1>2 DEF Min
<1> QED BY <1>1, <1>4, <1>5

\* With a row, the rows above it are kept too; of some rows, some are kept; and as many
\* rows as the limit are above one that is not kept.
LEMMA NewestKeeps ==
  ASSUME NEW ids, ids \subseteq Id, NEW n \in Nat \ {0}
  PROVE  /\ Newest(ids, n) \subseteq ids
         /\ \A i \in Newest(ids, n) : \A j \in ids : i <= j => j \in Newest(ids, n)
         /\ ids # {} => Newest(ids, n) # {}
         /\ \A i \in ids \ Newest(ids, n) : Cardinality({j \in ids : j > i}) >= n
<1>0. \A i \in ids : i \in Nat
  BY ReadingConstants DEF Id
<1>1. \A i \in ids : Cardinality({j \in ids : j > i}) \in Nat
  BY IdSets
<1>2. ASSUME NEW i \in Newest(ids, n), NEW j \in ids, i <= j
      PROVE  j \in Newest(ids, n)
  <2> DEFINE above(k) == {l \in ids : l > k}
  <2>1. i \in ids /\ Cardinality(above(i)) < n
    BY DEF Newest
  <2>2. above(j) \in SUBSET above(i) /\ above(i) \subseteq Id
    BY <1>0, <1>2, <2>1
  <2>3. Cardinality(above(j)) <= Cardinality(above(i))
    <3> HIDE DEF above
    <3> QED BY <2>2, IdSets
  <2>4. Cardinality(above(j)) < n
    BY <1>1, <2>1, <2>3
  <2> QED BY <2>4 DEF Newest
<1>3. ASSUME ids # {} PROVE Newest(ids, n) # {}
  <2>1. Max(ids) \in ids /\ \A i \in ids : i <= Max(ids)
    BY <1>3, Extremes
  <2>2. {j \in ids : j > Max(ids)} = {}
    BY <1>0, <2>1
  <2>3. Cardinality({j \in ids : j > Max(ids)}) = 0
    BY <2>2, FS_EmptySet
  <2> QED BY <2>1, <2>3 DEF Newest
<1>4. \A i \in ids \ Newest(ids, n) : Cardinality({j \in ids : j > i}) >= n
  BY <1>1 DEF Newest
<1>5. Newest(ids, n) \subseteq ids
  BY DEF Newest
<1> QED BY <1>2, <1>3, <1>4, <1>5

LEMMA OldestKeeps ==
  ASSUME NEW ids, ids \subseteq Id, NEW n \in Nat \ {0}
  PROVE  /\ Oldest(ids, n) \subseteq ids
         /\ \A i \in Oldest(ids, n) : \A j \in ids : j <= i => j \in Oldest(ids, n)
<1>0. \A i \in ids : i \in Nat
  BY ReadingConstants DEF Id
<1>1. \A i \in ids : Cardinality({j \in ids : j < i}) \in Nat
  BY IdSets
<1>2. ASSUME NEW i \in Oldest(ids, n), NEW j \in ids, j <= i
      PROVE  j \in Oldest(ids, n)
  <2> DEFINE below(k) == {l \in ids : l < k}
  <2>1. i \in ids /\ Cardinality(below(i)) < n
    BY DEF Oldest
  <2>2. below(j) \in SUBSET below(i) /\ below(i) \subseteq Id
    BY <1>0, <1>2, <2>1
  <2>3. Cardinality(below(j)) <= Cardinality(below(i))
    <3> HIDE DEF below
    <3> QED BY <2>2, IdSets
  <2>4. Cardinality(below(j)) < n
    BY <1>1, <2>1, <2>3
  <2> QED BY <2>4 DEF Oldest
<1>3. Oldest(ids, n) \subseteq ids
  BY DEF Oldest
<1> QED BY <1>2, <1>3

NewestLive(c, rows, limit) == Newest(Undeleted(c, Newest(rows, 2 * limit)), limit)

OldestLive(c, rows, limit) == Oldest(Undeleted(c, Oldest(rows, 2 * limit)), limit)

\* What such a page is cut from: live is the live ones of found.
LEMMA NewestCut ==
  ASSUME NEW c, NEW rows, rows \subseteq Id, NEW limit \in Nat \ {0}
  PROVE  LET found == Newest(rows, 2 * limit)
             live == Undeleted(c, found) IN
         /\ found \subseteq rows /\ live \subseteq found
         /\ \A i \in found : i \in live <=> log[c][i] = "live"
         /\ \A i \in found : \A j \in rows : i <= j => j \in found
         /\ \A i \in rows \ found : Cardinality({j \in rows : j > i}) >= 2 * limit
         /\ NewestLive(c, rows, limit) \subseteq live
         /\ \A i \in NewestLive(c, rows, limit) : \A j \in live :
              i <= j => j \in NewestLive(c, rows, limit)
         /\ live # {} => NewestLive(c, rows, limit) # {}
<1> DEFINE found == Newest(rows, 2 * limit)
           live == Undeleted(c, found)
<1>0. 2 * limit \in Nat \ {0}
  OBVIOUS
<1>1. /\ found \subseteq rows
      /\ \A i \in found : \A j \in rows : i <= j => j \in found
      /\ \A i \in rows \ found : Cardinality({j \in rows : j > i}) >= 2 * limit
  BY <1>0, NewestKeeps
<1>2. live \subseteq found /\ \A i \in found : i \in live <=> log[c][i] = "live"
  BY DEF Undeleted
<1>3. NewestLive(c, rows, limit) = Newest(live, limit)
  BY DEF NewestLive
<1> HIDE DEF found, live
<1>4. live \subseteq Id
  BY <1>1, <1>2
<1>5. /\ Newest(live, limit) \subseteq live
      /\ \A i \in Newest(live, limit) : \A j \in live : i <= j => j \in Newest(live, limit)
      /\ live # {} => Newest(live, limit) # {}
  BY <1>4, NewestKeeps
<1> QED BY <1>1, <1>2, <1>3, <1>5 DEF found, live

\* A page of the newest of rows: live rows, with each one all live rows above it.
LEMMA NewestPage ==
  ASSUME NEW c, NEW rows, rows \subseteq Id, NEW limit \in Nat \ {0}, NEW page,
         page = NewestLive(c, rows, limit)
  PROVE  /\ page \subseteq rows /\ \A i \in page : log[c][i] = "live"
         /\ \A i \in page : \A j \in rows : log[c][j] = "live" /\ i <= j => j \in page
<1> DEFINE found == Newest(rows, 2 * limit)
           live == Undeleted(c, found)
<1>1. /\ found \subseteq rows /\ live \subseteq found
      /\ \A i \in found : i \in live <=> log[c][i] = "live"
      /\ \A i \in found : \A j \in rows : i <= j => j \in found
      /\ page \subseteq live
      /\ \A i \in page : \A j \in live : i <= j => j \in page
  BY NewestCut
<1> HIDE DEF found, live
<1> QED BY <1>1

\* An empty page means that 2 * limit rows are above every live one.
LEMMA EmptyPage ==
  ASSUME NEW c, NEW rows, rows \subseteq Id, NEW limit \in Nat \ {0},
         NewestLive(c, rows, limit) = {}, NEW i \in rows, log[c][i] = "live"
  PROVE  Cardinality({j \in rows : j > i}) >= 2 * limit
<1> DEFINE found == Newest(rows, 2 * limit)
           live == Undeleted(c, found)
<1>1. /\ \A j \in found : j \in live <=> log[c][j] = "live"
      /\ \A k \in rows \ found : Cardinality({j \in rows : j > k}) >= 2 * limit
      /\ live # {} => NewestLive(c, rows, limit) # {}
  BY NewestCut
<1> HIDE DEF found, live
<1>2. i \in rows \ found
  BY <1>1
<1> QED BY <1>1, <1>2

LEMMA OldestPage ==
  ASSUME NEW c, NEW rows, rows \subseteq Id, NEW limit \in Nat \ {0}, NEW page,
         page = OldestLive(c, rows, limit)
  PROVE  /\ page \subseteq rows /\ \A i \in page : log[c][i] = "live"
         /\ \A i \in page : \A j \in rows : log[c][j] = "live" /\ j <= i => j \in page
<1> DEFINE found == Oldest(rows, 2 * limit)
           live == Undeleted(c, found)
<1>0. 2 * limit \in Nat \ {0}
  OBVIOUS
<1>1. found \subseteq rows /\ \A i \in found : \A j \in rows : j <= i => j \in found
  BY <1>0, OldestKeeps
<1>2. live \subseteq found /\ \A i \in found : i \in live <=> log[c][i] = "live"
  BY DEF Undeleted
<1> HIDE DEF found, live
<1>3. page = Oldest(live, limit)
  BY DEF live, found, OldestLive
<1>4. live \subseteq Id
  BY <1>1, <1>2
<1>5. page \subseteq live /\ \A i \in page : \A j \in live : j <= i => j \in page
  BY <1>3, <1>4, OldestKeeps
<1> QED BY <1>1, <1>2, <1>5

-----------------------------------------------------------------------------
(* Reading: the types.                                                        *)

MessageState == {"free", "taken", "live", "deleted"}

Pointers == [Channel -> {NoState, 0} \cup Id]

Walks == [dir : {"none", "before", "after"}, chan : Channel \cup {NoWalk.chan}, limit : Nat \ {0},
          low : Nat, high : Nat, shown : SUBSET Id, repeated : BOOLEAN, ended : BOOLEAN]

BadgePC == {"idle", "GetUserReadStates", "CountUnreadMessages", "ListMessagesAfter",
            "CountAllMessages", "ListRecentMessages", "done"}

Badges == [pc : BadgePC, todo : SUBSET Channel, pointers : Pointers, count : [Channel -> Nat],
           last : [Channel -> Nat], recent : [Channel -> SUBSET Id], clean : BOOLEAN]

ReadTypeInv ==
    /\ log \in [Channel -> [Id -> MessageState]]
    /\ pointer \in Pointers
    /\ walk \in Walks
    /\ badge \in Badges
    /\ readFaults \in Nat
    /\ late \in [Channel -> SUBSET Id]
    /\ fresh \in [Channel -> SUBSET Id]

LEMMA IdType == \A i \in Id : i \in Nat /\ i > 0
  BY ReadingConstants DEF Id

LEMMA NoWalkType == NoWalk \in Walks
  BY DEF NoWalk, Walks

LEMMA NoBadgeType ==
  /\ NoBadge \in Badges
  /\ [NoBadge EXCEPT !.pc = "GetUserReadStates"] \in Badges
  BY DEF NoBadge, Badges, BadgePC, Pointers

LEMMA DisturbedType == badge \in Badges => Disturbed \in Badges
  BY NoBadgeType DEF Disturbed, Badges

-----------------------------------------------------------------------------
(* Reading: a walk.                                                           *)

WalkInv ==
    walk.dir # "none" =>
        /\ walk.chan \in Channel
        /\ walk.low \in Rows(walk.chan) /\ walk.high \in Rows(walk.chan)
        /\ walk.low <= walk.high
        /\ walk.shown \subseteq walk.low .. walk.high
        /\ PagesLeaveNoGap

\* While rows are stored and deleted under a walk: a row stays, a deleted one stays
\* deleted, and a live one that is not late is as before or above all the others.
RowsLast ==
    \A c \in Channel :
        /\ Rows(c) \subseteq Rows(c)'
        /\ \A i \in Id : log[c][i] = "deleted" => log'[c][i] = "deleted"
        /\ \A i \in LiveIn(c)' \ late'[c] :
              i \in LiveIn(c) \ late[c] \/ \A j \in Rows(c) : j < i

LEMMA WalkLasts ==
  ASSUME ReadTypeInv, WalkInv, UNCHANGED walk, RowsLast
  PROVE  WalkInv'
<1> SUFFICES ASSUME walk.dir # "none" PROVE WalkInv'
  BY DEF WalkInv
<1> DEFINE c == walk.chan
<1>1. /\ c \in Channel /\ walk.low \in Rows(c) /\ walk.high \in Rows(c) /\ walk.low <= walk.high
      /\ walk.shown \subseteq walk.low .. walk.high
      /\ PagesLeaveNoGap
  BY DEF WalkInv
<1>2. Rows(c) \subseteq Rows(c)' /\ \A d : Rows(d) \subseteq Id
  BY <1>1 DEF RowsLast, Rows
<1>3. walk.low \in Id /\ walk.high \in Id /\ walk.limit \in Nat
  BY <1>1, <1>2 DEF ReadTypeInv, Walks
<1>4. ASSUME NEW i \in LiveIn(c)' \ late'[c]
      PROVE  /\ walk.low <= i /\ i <= walk.high => i \in walk.shown
             /\ walk.ended /\ walk.dir = "before" /\ i < walk.low =>
                  Cardinality({j \in i .. walk.low : log'[c][j] = "deleted"}) >= 2 * walk.limit
  <2>0. i \in Id
    BY <1>4 DEF LiveIn
  <2>1. CASE \A j \in Rows(c) : j < i
    <3>1. walk.low < i /\ walk.high < i
      BY <1>1, <2>1
    <3> QED BY <1>3, <2>0, <3>1, IdType
  <2>2. CASE i \in LiveIn(c) \ late[c]
    <3> DEFINE gone == {j \in i .. walk.low : log[c][j] = "deleted"}
               goneNow == {j \in i .. walk.low : log'[c][j] = "deleted"}
    <3>1. /\ walk.low <= i /\ i <= walk.high => i \in walk.shown
          /\ walk.ended /\ walk.dir = "before" /\ i < walk.low
               => Cardinality(gone) >= 2 * walk.limit
      BY <1>1, <2>2 DEF PagesLeaveNoGap
    <3>2. i .. walk.low \subseteq Id
      BY <1>3, <2>0, ReadingConstants DEF Id
    <3>3. gone \in SUBSET goneNow /\ goneNow \subseteq Id
      BY <1>1, <3>2 DEF RowsLast
    <3>4. /\ Cardinality(gone) \in Nat /\ Cardinality(goneNow) \in Nat
          /\ Cardinality(gone) <= Cardinality(goneNow)
      <4> HIDE DEF gone, goneNow
      <4> QED BY <3>3, IdSets
    <3> HIDE DEF gone
    <3> QED BY <1>3, <3>1, <3>4
  <2> QED BY <1>1, <1>4, <2>1, <2>2 DEF RowsLast
<1>5. PagesLeaveNoGap'
  <2>1. ~walk.repeated
    BY <1>1 DEF PagesLeaveNoGap
  <2> QED BY <1>4, <2>1 DEF PagesLeaveNoGap
<1> QED BY <1>1, <1>2, <1>5 DEF WalkInv

\* A walk has come to w.
LEMMA WalkMoves ==
  ASSUME ReadTypeInv, UNCHANGED <<log, late>>, NEW c \in Channel,
         walk' \in Walks, walk'.chan = c,
         walk'.low \in Rows(c), walk'.high \in Rows(c), walk'.low <= walk'.high,
         walk'.shown \subseteq walk'.low .. walk'.high, ~walk'.repeated,
         \A i \in LiveIn(c) \ late[c] : walk'.low <= i /\ i <= walk'.high => i \in walk'.shown,
         walk'.ended /\ walk'.dir = "before" =>
            \A i \in LiveIn(c) \ late[c] : i < walk'.low =>
                Cardinality({j \in i .. walk'.low : log[c][j] = "deleted"}) >= 2 * walk'.limit
  PROVE  WalkInv'
<1>1. Rows(c)' = Rows(c) /\ LiveIn(c)' = LiveIn(c)
  BY DEF Rows, LiveIn
<1>2. PagesLeaveNoGap'
  BY <1>1 DEF PagesLeaveNoGap
<1> QED BY <1>1, <1>2 DEF WalkInv

LEMMA OpenChannelWalk ==
  ASSUME ReadTypeInv, WalkInv, NEW c \in Channel, OpenChannel(c)
  PROVE  WalkInv' /\ walk' \in Walks
<1>0. UNCHANGED <<log, late>>
  BY DEF OpenChannel
<1>1. PICK dir \in {"before", "after"}, asked \in 0 .. (MaxLimit + 1) :
         LET limit == Clamp(asked)
             page == ListRecentMessages(c, limit) IN
         walk' = IF page = {} THEN walk
                 ELSE [dir |-> dir, chan |-> c, limit |-> limit, low |-> Min(page),
                       high |-> Max(page), shown |-> page, repeated |-> FALSE,
                       ended |-> FALSE]
  BY DEF OpenChannel
<1>2. PICK limit \in Nat \ {0} : limit = Clamp(asked)
  BY ReadingConstants DEF Clamp
<1> DEFINE page == ListRecentMessages(c, limit)
<1>3. Rows(c) \subseteq Id /\ \A i \in LiveIn(c) : i \in Rows(c) /\ log[c][i] = "live"
  BY DEF Rows, LiveIn
<1>4. page = NewestLive(c, Rows(c), limit)
  BY DEF ListRecentMessages, Listrecentmessages, NewestLive
<1>5. /\ page \subseteq Rows(c)
      /\ \A i \in page : \A j \in Rows(c) : log[c][j] = "live" /\ i <= j => j \in page
  <2> HIDE DEF page
  <2> QED BY <1>2, <1>3, <1>4, NewestPage
<1>6. CASE page = {}
  <2>1. walk' = walk
    BY <1>1, <1>2, <1>6
  <2>2. RowsLast
    BY <1>0 DEF RowsLast, Rows, LiveIn
  <2> QED BY <2>1, <2>2, WalkLasts DEF ReadTypeInv
<1>7. CASE page # {}
  <2>1. walk' = [dir |-> dir, chan |-> c, limit |-> limit, low |-> Min(page), high |-> Max(page),
                 shown |-> page, repeated |-> FALSE, ended |-> FALSE]
    BY <1>1, <1>2, <1>7
  <2> HIDE DEF page
  <2>2. /\ Max(page) \in page /\ \A i \in page : i <= Max(page)
        /\ Min(page) \in page /\ \A i \in page : Min(page) <= i
    BY <1>3, <1>5, <1>7, Extremes
  <2>3. Max(page) \in Id /\ Min(page) \in Id /\ page \subseteq Id
    BY <1>3, <1>5, <2>2
  <2>4. /\ walk'.chan = c /\ walk'.low = Min(page) /\ walk'.high = Max(page) /\ walk'.shown = page
        /\ ~walk'.repeated /\ ~walk'.ended
    BY <2>1
  <2>5. walk' \in Walks
    BY <1>2, <2>1, <2>3, IdType DEF Walks
  <2>6. page \subseteq Min(page) .. Max(page)
    BY <2>2, <2>3, IdType
  <2>7. \A i \in LiveIn(c) : Min(page) <= i => i \in page
    BY <1>3, <1>5, <2>2
  <2>8. /\ walk'.low \in Rows(c) /\ walk'.high \in Rows(c) /\ walk'.low <= walk'.high
        /\ walk'.shown \subseteq walk'.low .. walk'.high
        /\ \A i \in LiveIn(c) \ late[c] : walk'.low <= i /\ i <= walk'.high => i \in walk'.shown
    BY <1>5, <2>2, <2>4, <2>6, <2>7
  <2> QED BY <1>0, <2>4, <2>5, <2>8, WalkMoves
<1> QED BY <1>6, <1>7

\* The next page towards the older messages: it ends at the message shown as the oldest,
\* and leaves none out from its own oldest on.
LEMMA PageBeforeWalk ==
  ASSUME ReadTypeInv, WalkInv, NextPage, walk.dir = "before"
  PROVE  WalkInv' /\ walk' \in Walks
<1> DEFINE c == walk.chan
           page == PageBefore(c, walk.low, walk.limit)
           older == {i \in Rows(c) : i < walk.low}
<1>0. UNCHANGED <<log, late>> /\ c \in Channel /\ walk.limit \in Nat \ {0}
  BY DEF NextPage, WalkInv, ReadTypeInv, Walks
<1>1. /\ walk.low \in Rows(c) /\ walk.high \in Rows(c) /\ walk.low <= walk.high
      /\ walk.shown \subseteq walk.low .. walk.high
      /\ ~walk.repeated
      /\ \A i \in LiveIn(c) \ late[c] : walk.low <= i /\ i <= walk.high => i \in walk.shown
  BY DEF WalkInv, PagesLeaveNoGap
<1>2. /\ Rows(c) \subseteq Id /\ older \subseteq Id /\ walk.low \in Id /\ walk.high \in Id
      /\ \A i \in LiveIn(c) : i \in Rows(c) /\ log[c][i] = "live"
      /\ \A i \in Rows(c) : i \in LiveIn(c) \/ log[c][i] = "deleted"
  BY <1>1 DEF Rows, LiveIn
<1>3. page = NewestLive(c, older, walk.limit)
  BY DEF PageBefore, Listmessagesbefore, NewestLive
<1>4. /\ page \subseteq older
      /\ \A i \in page : \A j \in older : log[c][j] = "live" /\ i <= j => j \in page
      /\ page = {} => \A i \in older : log[c][i] = "live" =>
                         Cardinality({j \in older : j > i}) >= 2 * walk.limit
  <2>1. PICK limit \in Nat \ {0} : limit = walk.limit
    BY <1>0
  <2> HIDE DEF c, page, older
  <2>2. page = NewestLive(c, older, limit)
    BY <1>3, <2>1
  <2>3. older \subseteq Id
    BY <1>2
  <2>4. /\ page \subseteq older
        /\ \A i \in page : \A j \in older : log[c][j] = "live" /\ i <= j => j \in page
    BY <2>2, <2>3, NewestPage
  <2>5. ASSUME page = {}, NEW i \in older, log[c][i] = "live"
        PROVE  Cardinality({j \in older : j > i}) >= 2 * limit
    <3>1. NewestLive(c, older, limit) = {}
      BY <2>2, <2>5
    <3> QED BY <2>3, <2>5, <3>1, EmptyPage
  <2> QED BY <2>1, <2>4, <2>5
<1>5. CASE page = {}
  <2>1. walk' = [walk EXCEPT !.ended = TRUE]
    BY <1>5 DEF NextPage
  <2>2. /\ walk' \in Walks /\ walk'.chan = c /\ walk'.low = walk.low /\ walk'.high = walk.high
        /\ walk'.shown = walk.shown /\ walk'.repeated = walk.repeated
        /\ walk'.limit = walk.limit
    BY <2>1 DEF ReadTypeInv, Walks
  <2>3. ASSUME NEW i \in LiveIn(c) \ late[c], i < walk.low
        PROVE  Cardinality({j \in i .. walk.low : log[c][j] = "deleted"}) >= 2 * walk.limit
    <3> DEFINE live == {j \in LiveIn(c) : j < walk.low}
               gone == {j \in i .. walk.low : log[c][j] = "deleted"}
    <3>1. i \in live /\ live \subseteq Id /\ live \subseteq older
      BY <1>2, <2>3
    <3>2. PICK m \in live : \A j \in live : j <= m
      <4> HIDE DEF live
      <4> QED BY <3>1, Extremes
    <3>3. i <= m /\ m \in older /\ log[c][m] = "live" /\ m \in Id /\ i \in Id
      BY <1>2, <3>1, <3>2
    <3>4. Cardinality({j \in older : j > m}) >= 2 * walk.limit
      BY <1>4, <1>5, <3>3
    <3>5. {j \in older : j > m} \subseteq gone
      <4> SUFFICES ASSUME NEW j \in older, j > m PROVE j \in gone
        OBVIOUS
      <4>1. j \in Id /\ j < walk.low /\ j \in Rows(c)
        BY <1>2
      <4>2. j \notin LiveIn(c)
        BY <3>2, <3>3, <4>1, IdType
      <4>3. log[c][j] = "deleted"
        BY <1>2, <4>1, <4>2
      <4>4. j \in i .. walk.low
        BY <1>2, <3>3, <4>1, IdType
      <4> QED BY <4>3, <4>4
    <3>6. gone \subseteq Id
      BY <1>2, <3>3, ReadingConstants DEF Id
    <3>7. Cardinality({j \in older : j > m}) <= Cardinality(gone)
      <4> HIDE DEF gone
      <4> QED BY <3>5, <3>6, IdSets
    <3>8. Cardinality(gone) \in Nat /\ Cardinality({j \in older : j > m}) \in Nat
      <4>1. {j \in older : j > m} \subseteq Id
        BY <1>2
      <4> HIDE DEF gone
      <4> QED BY <3>6, <4>1, IdSets
    <3> HIDE DEF gone
    <3> QED BY <1>0, <3>4, <3>7, <3>8 DEF gone
  <2>4. \A i \in LiveIn(c) \ late[c] : walk'.low <= i /\ i <= walk'.high => i \in walk'.shown
    BY <1>1, <2>2
  <2> HIDE DEF page, older
  <2> QED BY <1>0, <1>1, <2>2, <2>3, <2>4, WalkMoves
<1>6. CASE page # {}
  <2> HIDE DEF page
  <2>1. /\ Min(page) \in page /\ \A i \in page : Min(page) <= i
        /\ Max(page) \in page /\ page \subseteq Id
    BY <1>2, <1>4, <1>6, Extremes
  <2>2. Min(page) \in Rows(c) /\ Min(page) < walk.low /\ Min(page) \in Id
    BY <1>2, <1>4, <2>1
  <2>3. page \cap walk.shown = {}
    BY <1>1, <1>2, <1>4, <2>1, IdType
  <2>4. walk' = [walk EXCEPT !.low = Min(page), !.high = walk.high,
                             !.repeated = walk.repeated \/ page \cap walk.shown # {},
                             !.shown = walk.shown \cup page, !.ended = FALSE]
    BY <1>6 DEF NextPage, page
  <2>5. /\ walk'.low = Min(page) /\ walk'.high = walk.high /\ walk'.chan = c
        /\ walk'.shown = walk.shown \cup page /\ ~walk'.ended
    BY <2>4 DEF ReadTypeInv, Walks
  <2>6. walk'.repeated = FALSE
    BY <1>1, <2>3, <2>4 DEF ReadTypeInv, Walks
  <2>7. walk' \in Walks
    <3>1. (walk.repeated \/ page \cap walk.shown # {}) = FALSE
      BY <1>1, <2>3
    <3>2. walk' = [walk EXCEPT !.low = Min(page), !.high = walk.high, !.repeated = FALSE,
                               !.shown = walk.shown \cup page, !.ended = FALSE]
      BY <2>4, <3>1
    <3> QED BY <2>1, <2>2, <3>2, IdType DEF ReadTypeInv, Walks
  <2>8. walk'.shown \subseteq walk'.low .. walk'.high
    BY <1>1, <1>2, <1>4, <2>1, <2>2, <2>5, IdType
  <2>9. ASSUME NEW i \in LiveIn(c) \ late[c], walk'.low <= i, i <= walk'.high
        PROVE  i \in walk'.shown
    <3>1. CASE walk.low <= i
      BY <1>1, <2>5, <2>9, <3>1
    <3>2. CASE i < walk.low
      <4>1. i \in older /\ log[c][i] = "live"
        BY <1>2, <2>9, <3>2
      <4>2. i \in page
        BY <1>4, <2>1, <2>5, <2>9, <4>1
      <4> QED BY <2>5, <4>2
    <3> QED BY <1>2, <2>9, <3>1, <3>2, IdType
  <2>10. walk'.low <= walk'.high /\ walk'.low \in Rows(c) /\ walk'.high \in Rows(c)
    BY <1>1, <1>2, <2>2, <2>5, IdType
  <2> QED BY <1>0, <2>5, <2>6, <2>7, <2>8, <2>9, <2>10, WalkMoves
<1> QED BY <1>5, <1>6

LEMMA PageAfterWalk ==
  ASSUME ReadTypeInv, WalkInv, NextPage, walk.dir = "after"
  PROVE  WalkInv' /\ walk' \in Walks
<1> DEFINE c == walk.chan
           page == ListMessagesAfter(c, walk.high, walk.limit)
           newer == {i \in Rows(c) : i > walk.high}
<1>0. UNCHANGED <<log, late>> /\ c \in Channel /\ walk.limit \in Nat \ {0}
  BY DEF NextPage, WalkInv, ReadTypeInv, Walks
<1>1. /\ walk.low \in Rows(c) /\ walk.high \in Rows(c) /\ walk.low <= walk.high
      /\ walk.shown \subseteq walk.low .. walk.high
      /\ ~walk.repeated
      /\ \A i \in LiveIn(c) \ late[c] : walk.low <= i /\ i <= walk.high => i \in walk.shown
  BY DEF WalkInv, PagesLeaveNoGap
<1>2. /\ Rows(c) \subseteq Id /\ newer \subseteq Id /\ walk.low \in Id /\ walk.high \in Id
      /\ \A i \in LiveIn(c) : i \in Rows(c) /\ log[c][i] = "live"
  BY <1>1 DEF Rows, LiveIn
<1>3. page = OldestLive(c, newer, walk.limit)
  BY DEF ListMessagesAfter, Listmessagesafter, OldestLive
<1>4. /\ page \subseteq newer
      /\ \A i \in page : \A j \in newer : log[c][j] = "live" /\ j <= i => j \in page
  <2>1. PICK limit \in Nat \ {0} : limit = walk.limit
    BY <1>0
  <2> HIDE DEF page, newer
  <2> QED BY <1>2, <1>3, <2>1, OldestPage
<1>5. CASE page = {}
  <2>1. walk' = [walk EXCEPT !.ended = TRUE]
    BY <1>5 DEF NextPage
  <2>2. /\ walk' \in Walks /\ walk'.chan = c /\ walk'.low = walk.low /\ walk'.high = walk.high
        /\ walk'.shown = walk.shown /\ walk'.repeated = walk.repeated
        /\ walk'.dir = "after"
    BY <2>1 DEF ReadTypeInv, Walks
  <2>3. \A i \in LiveIn(c) \ late[c] : walk'.low <= i /\ i <= walk'.high => i \in walk'.shown
    BY <1>1, <2>2
  <2> HIDE DEF page, newer
  <2> QED BY <1>0, <1>1, <2>2, <2>3, WalkMoves
<1>6. CASE page # {}
  <2> HIDE DEF page
  <2>1. /\ Max(page) \in page /\ \A i \in page : i <= Max(page)
        /\ page \subseteq Id
    BY <1>2, <1>4, <1>6, Extremes
  <2>2. Max(page) \in Rows(c) /\ Max(page) > walk.high /\ Max(page) \in Id
    BY <1>2, <1>4, <2>1
  <2>3. page \cap walk.shown = {}
    BY <1>1, <1>2, <1>4, <2>1, IdType
  <2>4. walk' = [walk EXCEPT !.low = walk.low, !.high = Max(page),
                             !.repeated = walk.repeated \/ page \cap walk.shown # {},
                             !.shown = walk.shown \cup page, !.ended = FALSE]
    BY <1>6 DEF NextPage, page
  <2>5. /\ walk'.low = walk.low /\ walk'.high = Max(page) /\ walk'.chan = c
        /\ walk'.shown = walk.shown \cup page /\ ~walk'.ended
    BY <2>4 DEF ReadTypeInv, Walks
  <2>6. walk'.repeated = FALSE
    BY <1>1, <2>3, <2>4 DEF ReadTypeInv, Walks
  <2>7. walk' \in Walks
    <3>1. (walk.repeated \/ page \cap walk.shown # {}) = FALSE
      BY <1>1, <2>3
    <3>2. walk' = [walk EXCEPT !.low = walk.low, !.high = Max(page), !.repeated = FALSE,
                               !.shown = walk.shown \cup page, !.ended = FALSE]
      BY <2>4, <3>1
    <3> QED BY <2>1, <2>2, <3>2, IdType DEF ReadTypeInv, Walks
  <2>8. walk'.shown \subseteq walk'.low .. walk'.high
    BY <1>1, <1>2, <1>4, <2>1, <2>2, <2>5, IdType
  <2>9. ASSUME NEW i \in LiveIn(c) \ late[c], walk'.low <= i, i <= walk'.high
        PROVE  i \in walk'.shown
    <3>1. CASE i <= walk.high
      BY <1>1, <2>5, <2>9, <3>1
    <3>2. CASE i > walk.high
      <4>1. i \in newer /\ log[c][i] = "live"
        BY <1>2, <2>9, <3>2
      <4>2. i \in page
        BY <1>4, <2>1, <2>5, <2>9, <4>1
      <4> QED BY <2>5, <4>2
    <3> QED BY <1>2, <2>9, <3>1, <3>2, IdType
  <2>10. walk'.low <= walk'.high /\ walk'.low \in Rows(c) /\ walk'.high \in Rows(c)
    BY <1>1, <1>2, <2>2, <2>5, IdType
  <2> QED BY <1>0, <2>5, <2>6, <2>7, <2>8, <2>9, <2>10, WalkMoves
<1> QED BY <1>5, <1>6

-----------------------------------------------------------------------------
(* Reading: what is unread.  A message above the pointer is fresh, and a fresh *)
(* one is above the pointer unless it came late.                               *)

UnreadIn(c) == {i \in LiveIn(c) : i > pointer[c]}

PointerInv ==
    \A c \in Channel :
        /\ pointer[c] \in {NoState, 0} \cup Rows(c)
        /\ \A i \in Rows(c) : i > pointer[c] => i \in fresh[c]
        /\ \A i \in fresh[c] \ late[c] : i > pointer[c]

CountsRight(c) == badge.count[c] = Cardinality(UnreadIn(c))

\* A GetUnreadCounts that nothing has overlapped: what it has counted is right, and it
\* has counted the channels it is through with.
BadgeInv ==
    badge.clean =>
        /\ badge.pc = "GetUserReadStates" => badge = [NoBadge EXCEPT !.pc = "GetUserReadStates"]
        /\ badge.pc \notin {"idle", "GetUserReadStates"} =>
              /\ badge.pointers = pointer
              /\ \A c \in Channel :
                    /\ badge.count[c] > 0 =>
                          CountsRight(c) /\ \A i \in UnreadIn(c) : i <= badge.last[c]
                    /\ badge.recent[c] \subseteq UnreadIn(c)
        /\ badge.pc \in {"CountUnreadMessages", "ListMessagesAfter"} =>
              /\ badge.todo \subseteq Opened(pointer)
              /\ \A c \in Opened(pointer) \ badge.todo : CountsRight(c)
        /\ badge.pc \in {"CountAllMessages", "ListRecentMessages"} =>
              /\ badge.todo \subseteq DMs \ Opened(pointer)
              /\ \A c \in (Opened(pointer) \cup DMs) \ badge.todo : CountsRight(c)
        /\ badge.pc = "done" => \A c \in Opened(pointer) \cup DMs : CountsRight(c)

ReadInv == ReadTypeInv /\ WalkInv /\ PointerInv /\ BadgeInv

LEMMA DisturbedBadge ==
  ASSUME badge \in Badges, badge' = Disturbed
  PROVE  BadgeInv' /\ badge' \in Badges
<1>1. CASE badge' = NoBadge
  BY <1>1, NoBadgeType DEF NoBadge, BadgeInv
<1>2. CASE badge' = [badge EXCEPT !.clean = FALSE]
  <2>1. badge' \in Badges /\ badge'.clean = FALSE
    BY <1>2 DEF Badges
  <2> QED BY <2>1 DEF BadgeInv
<1> QED BY <1>1, <1>2 DEF Disturbed

LEMMA BadgeStays ==
  ASSUME BadgeInv, UNCHANGED <<badge, pointer>>,
         \A c \in Channel : LiveIn(c)' = LiveIn(c)
  PROVE  BadgeInv'
<1>1. \A c \in Channel : UnreadIn(c)' = UnreadIn(c)
  BY DEF UnreadIn
<1>2. \A c \in Channel : CountsRight(c)' = CountsRight(c)
  BY <1>1 DEF CountsRight
<1>3. Opened(pointer) \subseteq Channel /\ DMs \subseteq Channel
  BY ReadingConstants DEF Opened
<1> QED BY <1>1, <1>2, <1>3 DEF BadgeInv, Opened

LEMMA TakeIdStep ==
  ASSUME ReadInv, NEW c \in Channel, TakeId(c)
  PROVE  ReadInv'
<1>1. PICK i \in Id : log[c][i] = "free" /\ log' = [log EXCEPT ![c][i] = "taken"]
  BY DEF TakeId
<1>2. UNCHANGED <<pointer, walk, badge, readFaults, late, fresh>>
  BY DEF TakeId
<1>3. log' \in [Channel -> [Id -> MessageState]]
  BY <1>1 DEF ReadInv, ReadTypeInv, MessageState
<1>4. \A d \in Channel : Rows(d)' = Rows(d) /\ LiveIn(d)' = LiveIn(d)
  BY <1>1 DEF ReadInv, ReadTypeInv, Rows, LiveIn
<1>5. ReadTypeInv'
  BY <1>2, <1>3 DEF ReadInv, ReadTypeInv
<1>6. RowsLast
  <2>1. \A d \in Channel, j \in Id : log[d][j] = "deleted" => log'[d][j] = "deleted"
    BY <1>1 DEF ReadInv, ReadTypeInv
  <2> QED BY <1>2, <1>4, <2>1 DEF RowsLast
<1>7. WalkInv'
  BY <1>2, <1>6, WalkLasts DEF ReadInv
<1>8. PointerInv'
  BY <1>2, <1>4 DEF ReadInv, PointerInv
<1>9. BadgeInv'
  BY <1>2, <1>4, BadgeStays DEF ReadInv
<1> QED BY <1>5, <1>7, <1>8, <1>9 DEF ReadInv

LEMMA StoreMessageStep ==
  ASSUME ReadInv, NEW c \in Channel, StoreMessage(c)
  PROVE  ReadInv'
<1>1. PICK i \in Id :
        /\ log[c][i] = "taken"
        /\ log' = [log EXCEPT ![c][i] = "live"]
        /\ late' = [late EXCEPT ![c] = IF \E j \in Rows(c) : j > i THEN @ \cup {i} ELSE @]
        /\ fresh' = [fresh EXCEPT ![c] = @ \cup {i}]
        /\ badge' = Disturbed
        /\ UNCHANGED <<pointer, walk, readFaults>>
  BY DEF StoreMessage
<1>2. BadgeInv' /\ badge' \in Badges
  BY <1>1, DisturbedBadge DEF ReadInv, ReadTypeInv
<1>3. /\ late' \in [Channel -> SUBSET Id] /\ fresh' \in [Channel -> SUBSET Id]
      /\ log' \in [Channel -> [Id -> MessageState]]
  BY <1>1 DEF ReadInv, ReadTypeInv, MessageState
<1>4. ReadTypeInv'
  BY <1>1, <1>2, <1>3 DEF ReadInv, ReadTypeInv
<1>5. /\ \A d \in Channel \ {c} : Rows(d)' = Rows(d) /\ LiveIn(d)' = LiveIn(d)
      /\ Rows(c)' = Rows(c) \cup {i} /\ LiveIn(c)' = LiveIn(c) \cup {i}
      /\ i \notin Rows(c) /\ Rows(c) \subseteq Id
  BY <1>1 DEF ReadInv, ReadTypeInv, Rows, LiveIn
<1>6. /\ \A d \in Channel \ {c} : late'[d] = late[d] /\ fresh'[d] = fresh[d]
      /\ fresh'[c] = fresh[c] \cup {i} /\ late[c] \subseteq late'[c]
      /\ (\E j \in Rows(c) : j > i) => late'[c] = late[c] \cup {i}
      /\ ~ (\E j \in Rows(c) : j > i) => late'[c] = late[c]
  BY <1>1 DEF ReadInv, ReadTypeInv
<1>7. i \notin late'[c] => \A j \in Rows(c) : j < i
  BY <1>5, <1>6, IdType
<1>8. RowsLast
  <2>1. \A d \in Channel, j \in Id : log[d][j] = "deleted" => log'[d][j] = "deleted"
    BY <1>1 DEF ReadInv, ReadTypeInv
  <2>2. \A d \in Channel : Rows(d) \subseteq Rows(d)'
    BY <1>5
  <2>3. \A d \in Channel : \A j \in LiveIn(d)' \ late'[d] :
          j \in LiveIn(d) \ late[d] \/ \A k \in Rows(d) : k < j
    BY <1>5, <1>6, <1>7
  <2> QED BY <2>1, <2>2, <2>3 DEF RowsLast
<1>9. WalkInv'
  BY <1>1, <1>8, WalkLasts DEF ReadInv
<1>10. PointerInv'
  <2> SUFFICES ASSUME NEW d \in Channel
               PROVE  /\ pointer[d] \in {NoState, 0} \cup Rows(d)'
                      /\ \A j \in Rows(d)' : j > pointer[d] => j \in fresh'[d]
                      /\ \A j \in fresh'[d] \ late'[d] : j > pointer[d]
    BY <1>1 DEF PointerInv
  <2>1. /\ pointer[d] \in {NoState, 0} \cup Rows(d)
        /\ \A j \in Rows(d) : j > pointer[d] => j \in fresh[d]
        /\ \A j \in fresh[d] \ late[d] : j > pointer[d]
    BY DEF ReadInv, PointerInv
  <2>2. CASE d # c
    BY <1>5, <1>6, <2>1, <2>2
  <2>3. CASE d = c
    <3>1. i \notin late'[c] => i > pointer[c]
      BY <1>7, <2>1, <2>3, IdType DEF NoState
    <3> QED BY <1>5, <1>6, <2>1, <2>3, <3>1
  <2> QED BY <2>2, <2>3
<1> QED BY <1>2, <1>4, <1>9, <1>10 DEF ReadInv

LEMMA DeleteStep ==
  ASSUME ReadInv, NEW c \in Channel, Delete(c)
  PROVE  ReadInv'
<1>1. PICK i \in Id : /\ log[c][i] = "live"
                      /\ log' = [log EXCEPT ![c][i] = "deleted"]
                      /\ badge' = Disturbed
                      /\ UNCHANGED <<pointer, walk, readFaults, late, fresh>>
  BY DEF Delete
<1>2. BadgeInv' /\ badge' \in Badges
  BY <1>1, DisturbedBadge DEF ReadInv, ReadTypeInv
<1>3. log' \in [Channel -> [Id -> MessageState]]
  BY <1>1 DEF ReadInv, ReadTypeInv, MessageState
<1>4. ReadTypeInv'
  BY <1>1, <1>2, <1>3 DEF ReadInv, ReadTypeInv
<1>5. \A d \in Channel : Rows(d)' = Rows(d) /\ LiveIn(d)' \subseteq LiveIn(d)
  BY <1>1 DEF ReadInv, ReadTypeInv, Rows, LiveIn
<1>6. RowsLast
  <2>1. \A d \in Channel, j \in Id : log[d][j] = "deleted" => log'[d][j] = "deleted"
    BY <1>1 DEF ReadInv, ReadTypeInv
  <2> QED BY <1>1, <1>5, <2>1 DEF RowsLast
<1>7. WalkInv'
  BY <1>1, <1>6, WalkLasts DEF ReadInv
<1>8. PointerInv'
  BY <1>1, <1>5 DEF ReadInv, PointerInv
<1> QED BY <1>2, <1>4, <1>7, <1>8 DEF ReadInv

LEMMA AckMessageStep ==
  ASSUME ReadInv, NEW c \in Channel, AckMessage(c)
  PROVE  ReadInv'
<1>1. PICK i \in Id : /\ log[c][i] = "live"
                      /\ pointer' = [pointer EXCEPT ![c] = i]
                      /\ fresh' = [fresh EXCEPT ![c] = {j \in Rows(c) : j > i}]
                      /\ badge' = Disturbed
                      /\ UNCHANGED <<log, walk, readFaults, late>>
  BY DEF AckMessage
<1>2. BadgeInv' /\ badge' \in Badges
  BY <1>1, DisturbedBadge DEF ReadInv, ReadTypeInv
<1>3. \A d \in Channel : Rows(d)' = Rows(d) /\ LiveIn(d)' = LiveIn(d) /\ Rows(d) \subseteq Id
  BY <1>1 DEF Rows, LiveIn
<1>4. pointer' \in Pointers /\ fresh' \in [Channel -> SUBSET Id]
  BY <1>1, <1>3 DEF ReadInv, ReadTypeInv, Pointers
<1>5. ReadTypeInv'
  BY <1>1, <1>2, <1>4 DEF ReadInv, ReadTypeInv
<1>6. RowsLast
  BY <1>1, <1>3 DEF RowsLast
<1>7. WalkInv'
  BY <1>1, <1>6, WalkLasts DEF ReadInv
<1>8. PointerInv'
  <2>1. i \in Rows(c)
    BY <1>1 DEF Rows
  <2>2. /\ \A d \in Channel \ {c} : pointer'[d] = pointer[d] /\ fresh'[d] = fresh[d]
        /\ pointer'[c] = i /\ fresh'[c] = {j \in Rows(c) : j > i}
    BY <1>1 DEF ReadInv, ReadTypeInv, Pointers
  <2> QED BY <1>1, <1>3, <2>1, <2>2 DEF ReadInv, PointerInv
<1> QED BY <1>2, <1>5, <1>7, <1>8 DEF ReadInv

\* A page is read: nothing but the walk changes.
LEMMA PageStep ==
  ASSUME ReadInv, NextPage \/ \E c \in Channel : OpenChannel(c)
  PROVE  ReadInv'
<1>1. UNCHANGED <<log, pointer, badge, readFaults, late, fresh>>
  BY DEF NextPage, OpenChannel
<1>2. WalkInv' /\ walk' \in Walks
  <2>1. CASE NextPage
    <3>1. walk.dir \in {"before", "after"}
      BY <2>1 DEF ReadInv, ReadTypeInv, Walks, NextPage
    <3> QED BY <2>1, <3>1, PageBeforeWalk, PageAfterWalk DEF ReadInv
  <2>2. CASE \E c \in Channel : OpenChannel(c)
    BY <2>2, OpenChannelWalk DEF ReadInv
  <2> QED BY <2>1, <2>2
<1>3. ReadTypeInv'
  BY <1>1, <1>2 DEF ReadInv, ReadTypeInv
<1>4. PointerInv'
  BY <1>1 DEF ReadInv, PointerInv, Rows
<1>5. BadgeInv'
  BY <1>1, BadgeStays DEF ReadInv, LiveIn
<1> QED BY <1>2, <1>3, <1>4, <1>5 DEF ReadInv

-----------------------------------------------------------------------------
(* Reading: the steps of GetUnreadCounts.                                     *)

\* Only the badge changes.
LEMMA OnlyBadge ==
  ASSUME ReadInv, UNCHANGED <<log, pointer, walk, late, fresh>>, readFaults' \in Nat,
         badge' \in Badges, BadgeInv'
  PROVE  ReadInv'
<1>1. ReadTypeInv'
  BY DEF ReadInv, ReadTypeInv
<1>2. RowsLast
  BY DEF RowsLast, Rows, LiveIn
<1>3. WalkInv'
  BY <1>2, WalkLasts DEF ReadInv
<1>4. PointerInv'
  BY DEF ReadInv, PointerInv, Rows
<1> QED BY <1>1, <1>3, <1>4 DEF ReadInv

\* While the messages and the pointers stay, so does what is unread.
LEMMA SameUnread ==
  ASSUME UNCHANGED <<log, pointer>>, NEW c
  PROVE  UnreadIn(c)' = UnreadIn(c) /\ (CountsRight(c)' <=> badge'.count[c] = Cardinality(UnreadIn(c)))
  BY DEF UnreadIn, LiveIn, CountsRight

LEMMA GetUnreadCountsStep ==
  ASSUME ReadInv, GetUnreadCounts
  PROVE  ReadInv'
<1>1. /\ badge' = [NoBadge EXCEPT !.pc = "GetUserReadStates"]
      /\ UNCHANGED <<log, pointer, walk, readFaults, late, fresh>>
  BY DEF GetUnreadCounts, Badge
<1>2. badge'.pc = "GetUserReadStates" /\ badge' \in Badges
  BY <1>1, NoBadgeType DEF NoBadge
<1>3. BadgeInv'
  BY <1>1, <1>2 DEF BadgeInv, NoBadge
<1> QED BY <1>1, <1>2, <1>3, OnlyBadge DEF ReadInv, ReadTypeInv

LEMMA GetUserReadStatesStep ==
  ASSUME ReadInv, GetUserReadStates
  PROVE  ReadInv'
<1>1. /\ badge.pc = "GetUserReadStates"
      /\ badge' = [badge EXCEPT !.pc = "CountUnreadMessages", !.pointers = pointer,
                                !.todo = Opened(pointer)]
      /\ UNCHANGED <<log, pointer, walk, readFaults, late, fresh>>
  BY DEF GetUserReadStates, Badge
<1>2. Opened(pointer) \subseteq Channel /\ Opened(pointer)' = Opened(pointer)
  BY <1>1 DEF Opened
<1>3. /\ badge' \in Badges /\ badge'.pc = "CountUnreadMessages" /\ badge'.pointers = pointer
      /\ badge'.todo = Opened(pointer) /\ badge'.clean = badge.clean
      /\ badge'.count = badge.count /\ badge'.recent = badge.recent
  BY <1>1, <1>2 DEF ReadInv, ReadTypeInv, Badges, BadgePC
<1>4. ASSUME badge.clean
      PROVE  BadgeInv'
  <2>1. badge = [NoBadge EXCEPT !.pc = "GetUserReadStates"]
    BY <1>1, <1>4 DEF ReadInv, BadgeInv
  <2>2. \A c \in Channel : badge.count[c] = 0 /\ badge.recent[c] = {}
    BY <2>1 DEF NoBadge
  <2> QED BY <1>1, <1>2, <1>3, <2>2 DEF BadgeInv
<1>5. ASSUME ~badge.clean
      PROVE  BadgeInv'
  BY <1>3, <1>5 DEF BadgeInv
<1> QED BY <1>1, <1>3, <1>4, <1>5, OnlyBadge DEF ReadInv, ReadTypeInv

\* Channel c is counted, in either half of GetUnreadCounts.
LEMMA CountedStep ==
  ASSUME ReadInv, NEW c \in badge.todo, NEW rows, rows \subseteq Id, NEW next,
         \/ badge.pc = "CountUnreadMessages" /\ next = "ListMessagesAfter"
         \/ badge.pc = "CountAllMessages" /\ next = "ListRecentMessages",
         badge.clean => Undeleted(c, rows) = UnreadIn(c),
         Badge(Counted(c, rows, next))
  PROVE  ReadInv'
<1> DEFINE unread == Undeleted(c, rows)
<1>0. UNCHANGED <<log, pointer, walk, readFaults, late, fresh>>
  BY DEF Badge
<1>1. unread \subseteq Id
  BY DEF Undeleted
<1>2. badge \in Badges /\ c \in Channel /\ BadgeInv
  BY DEF ReadInv, ReadTypeInv, Badges
<1>3. Opened(pointer)' = Opened(pointer) /\ Opened(pointer) \cup DMs \subseteq Channel
  BY <1>0, ReadingConstants DEF Opened
<1>4. \A d : /\ UnreadIn(d)' = UnreadIn(d)
             /\ CountsRight(d)' <=> badge'.count[d] = Cardinality(UnreadIn(d))
  BY <1>0, SameUnread
<1>5. CASE unread = {}
  <2>1. badge' = [badge EXCEPT !.todo = @ \ {c}]
    BY <1>5 DEF Badge, Counted
  <2>2. /\ badge' \in Badges /\ badge'.todo = badge.todo \ {c} /\ badge'.pc = badge.pc
        /\ badge'.pointers = badge.pointers /\ badge'.count = badge.count
        /\ badge'.last = badge.last /\ badge'.recent = badge.recent
        /\ badge'.clean = badge.clean
    BY <1>2, <2>1 DEF Badges
  <2>3. ASSUME badge.clean PROVE BadgeInv'
    <3>1. UnreadIn(c) = {} /\ Cardinality(UnreadIn(c)) = 0
      BY <1>5, <2>3, FS_EmptySet
    <3>2. badge.count[c] > 0 => badge.count[c] = 0
      BY <1>2, <2>3, <3>1 DEF BadgeInv, CountsRight
    <3>3. badge.count[c] = 0
      BY <1>2, <3>2 DEF Badges
    <3>4. CountsRight(c)'
      BY <1>4, <2>2, <3>1, <3>3
    <3>5. \A d \in Channel : CountsRight(d) => CountsRight(d)'
      BY <1>4, <2>2 DEF CountsRight
    <3> QED BY <1>0, <1>2, <1>3, <1>4, <2>2, <2>3, <3>4, <3>5 DEF BadgeInv
  <2>4. ASSUME ~badge.clean PROVE BadgeInv'
    BY <2>2, <2>4 DEF BadgeInv
  <2> QED BY <1>0, <2>2, <2>3, <2>4, OnlyBadge DEF ReadInv, ReadTypeInv
<1>6. CASE unread # {}
  <2>1. badge' = [badge EXCEPT !.pc = next, !.count[c] = Cardinality(unread), !.last[c] = Max(unread)]
    BY <1>6 DEF Badge, Counted
  <2> HIDE DEF unread
  <2>2. Cardinality(unread) \in Nat /\ Max(unread) \in Nat /\ \A i \in unread : i <= Max(unread)
    BY <1>1, <1>6, IdSets, Extremes, IdType
  <2>3. /\ badge' \in Badges /\ badge'.todo = badge.todo /\ badge'.pc = next
        /\ badge'.pointers = badge.pointers /\ badge'.recent = badge.recent
        /\ badge'.clean = badge.clean
        /\ badge'.count = [badge.count EXCEPT ![c] = Cardinality(unread)]
        /\ badge'.last = [badge.last EXCEPT ![c] = Max(unread)]
    BY <1>2, <2>1, <2>2 DEF Badges, BadgePC
  <2>4. /\ badge'.count[c] = Cardinality(unread) /\ badge'.last[c] = Max(unread)
        /\ \A d \in Channel \ {c} : badge'.count[d] = badge.count[d] /\ badge'.last[d] = badge.last[d]
    BY <1>2, <2>3 DEF Badges
  <2>5. ASSUME badge.clean PROVE BadgeInv'
    <3>1. UnreadIn(c) = unread
      BY <2>5 DEF unread
    <3>2. CountsRight(c)' /\ \A i \in UnreadIn(c) : i <= badge'.last[c]
      BY <1>4, <2>2, <2>4, <3>1
    <3>3. \A d \in Channel \ {c} : CountsRight(d) <=> CountsRight(d)'
      BY <1>4, <2>4 DEF CountsRight
    <3>4. \A d \in Channel :
             /\ badge'.count[d] > 0 =>
                   CountsRight(d)' /\ \A i \in UnreadIn(d)' : i <= badge'.last[d]
             /\ badge'.recent[d] \subseteq UnreadIn(d)'
      BY <1>2, <1>4, <2>3, <2>4, <2>5, <3>2, <3>3 DEF BadgeInv
    <3>5. badge'.pointers = pointer'
      BY <1>0, <1>2, <2>3, <2>5 DEF BadgeInv
    <3>6. CASE badge.pc = "CountUnreadMessages" /\ next = "ListMessagesAfter"
      <4>1. /\ badge.todo \subseteq Opened(pointer)
            /\ \A d \in Opened(pointer) \ badge.todo : CountsRight(d)'
        BY <1>2, <1>3, <2>5, <3>3, <3>6 DEF BadgeInv
      <4> QED BY <1>3, <2>3, <3>4, <3>5, <3>6, <4>1 DEF BadgeInv
    <3>7. CASE badge.pc = "CountAllMessages" /\ next = "ListRecentMessages"
      <4>1. /\ badge.todo \subseteq DMs \ Opened(pointer)
            /\ \A d \in (Opened(pointer) \cup DMs) \ badge.todo : CountsRight(d)'
        BY <1>2, <1>3, <2>5, <3>3, <3>7 DEF BadgeInv
      <4> QED BY <1>3, <2>3, <3>4, <3>5, <3>7, <4>1 DEF BadgeInv
    <3> QED BY <3>6, <3>7
  <2>6. ASSUME ~badge.clean PROVE BadgeInv'
    BY <2>3, <2>6 DEF BadgeInv
  <2> QED BY <1>0, <2>3, <2>5, <2>6, OnlyBadge DEF ReadInv, ReadTypeInv
<1> QED BY <1>5, <1>6

LEMMA CountStep ==
  ASSUME ReadInv, CountUnreadMessages \/ CountAllMessages
  PROVE  ReadInv'
<1>0. ReadTypeInv /\ BadgeInv
  BY DEF ReadInv
<1>1. CASE CountUnreadMessages
  <2>1. PICK c \in badge.todo :
          Badge(Counted(c, Countunreadmessages(c, badge.pointers[c]), "ListMessagesAfter"))
    BY <1>1 DEF CountUnreadMessages
  <2> DEFINE rows == Countunreadmessages(c, badge.pointers[c])
  <2>2. badge.pc = "CountUnreadMessages"
    BY <1>1 DEF CountUnreadMessages
  <2>3. rows \subseteq Id
    BY DEF Countunreadmessages, Rows
  <2>4. badge.clean => Undeleted(c, rows) = UnreadIn(c)
    BY <1>0, <2>2 DEF BadgeInv, Undeleted, Countunreadmessages, Rows, UnreadIn, LiveIn
  <2> HIDE DEF rows
  <2> QED BY <2>1, <2>2, <2>3, <2>4, CountedStep DEF rows
<1>2. CASE CountAllMessages
  <2>1. PICK c \in badge.todo : Badge(Counted(c, Countallmessages(c), "ListRecentMessages"))
    BY <1>2 DEF CountAllMessages
  <2> DEFINE rows == Countallmessages(c)
  <2>2. badge.pc = "CountAllMessages"
    BY <1>2 DEF CountAllMessages
  <2>3. rows \subseteq Id
    BY DEF Countallmessages, Rows
  <2>4. ASSUME badge.clean PROVE Undeleted(c, rows) = UnreadIn(c)
    <3>1. c \in Channel /\ c \notin Opened(pointer)
      BY <1>0, <2>2, <2>4, ReadingConstants DEF BadgeInv
    <3>2. pointer[c] = -1
      BY <3>1 DEF Opened, NoState
    <3>3. \A i \in Id : i > pointer[c]
      BY <3>2, IdType
    <3> QED BY <3>3 DEF Undeleted, Countallmessages, Rows, UnreadIn, LiveIn
  <2> HIDE DEF rows
  <2> QED BY <2>1, <2>2, <2>3, <2>4, CountedStep DEF rows
<1> QED BY <1>1, <1>2

\* The previews of channel c are read, or cannot be read, in either half.
LEMMA PreviewedStep ==
  ASSUME ReadInv, NEW c \in badge.todo, badge.count[c] > 0, NEW rows, rows \subseteq Id, NEW next,
         \/ badge.pc = "ListMessagesAfter" /\ next = "CountUnreadMessages"
         \/ badge.pc = "ListRecentMessages" /\ next = "CountAllMessages",
         badge.clean => rows \subseteq UnreadIn(c),
         badge' = Previewed(c, rows, next),
         UNCHANGED <<log, pointer, walk, late, fresh>>, readFaults' \in Nat
  PROVE  ReadInv'
<1>1. badge \in Badges /\ c \in Channel /\ BadgeInv
  BY DEF ReadInv, ReadTypeInv, Badges
<1>2. Opened(pointer)' = Opened(pointer) /\ Opened(pointer) \cup DMs \subseteq Channel
  BY ReadingConstants DEF Opened
<1>3. /\ badge' \in Badges /\ badge'.todo = badge.todo \ {c} /\ badge'.pc = next
      /\ badge'.pointers = badge.pointers /\ badge'.count = badge.count
      /\ badge'.last = badge.last /\ badge'.clean = badge.clean
      /\ badge'.recent = [badge.recent EXCEPT ![c] = rows]
  BY <1>1 DEF Previewed, Badges, BadgePC
<1>4. badge'.recent[c] = rows /\ \A d \in Channel \ {c} : badge'.recent[d] = badge.recent[d]
  BY <1>1, <1>3 DEF Badges
<1>5. \A d : /\ UnreadIn(d)' = UnreadIn(d)
             /\ CountsRight(d)' <=> CountsRight(d)
  BY <1>3, SameUnread DEF CountsRight
<1>6. ASSUME badge.clean PROVE BadgeInv'
  <2>1. badge.pc \notin {"idle", "GetUserReadStates"}
    OBVIOUS
  <2>2. /\ badge.pointers = pointer
        /\ \A d \in Channel :
              /\ badge.count[d] > 0 => CountsRight(d) /\ \A i \in UnreadIn(d) : i <= badge.last[d]
              /\ badge.recent[d] \subseteq UnreadIn(d)
    BY <1>1, <1>6, <2>1 DEF BadgeInv
  <2>3. CountsRight(c)
    BY <1>1, <2>2
  <2>4. \A d \in Channel :
           /\ badge'.count[d] > 0 =>
                 CountsRight(d)' /\ \A i \in UnreadIn(d)' : i <= badge'.last[d]
           /\ badge'.recent[d] \subseteq UnreadIn(d)'
    BY <1>3, <1>4, <1>5, <1>6, <2>2
  <2>5. CASE badge.pc = "ListMessagesAfter" /\ next = "CountUnreadMessages"
    <3>1. /\ badge'.todo \subseteq Opened(pointer)
          /\ \A d \in Opened(pointer) \ badge'.todo : CountsRight(d)'
      BY <1>1, <1>3, <1>5, <1>6, <2>3, <2>5 DEF BadgeInv
    <3> QED BY <1>2, <1>3, <2>2, <2>4, <2>5, <3>1 DEF BadgeInv
  <2>6. CASE badge.pc = "ListRecentMessages" /\ next = "CountAllMessages"
    <3>1. /\ badge'.todo \subseteq DMs \ Opened(pointer)
          /\ \A d \in (Opened(pointer) \cup DMs) \ badge'.todo : CountsRight(d)'
      BY <1>1, <1>3, <1>5, <1>6, <2>3, <2>6 DEF BadgeInv
    <3> QED BY <1>2, <1>3, <2>2, <2>4, <2>6, <3>1 DEF BadgeInv
  <2> QED BY <2>5, <2>6
<1>7. ASSUME ~badge.clean PROVE BadgeInv'
  BY <1>3, <1>7 DEF BadgeInv
<1> QED BY <1>3, <1>6, <1>7, OnlyBadge

LEMMA PreviewStep ==
  ASSUME ReadInv, ListAfter \/ ListRecent
  PROVE  ReadInv'
<1>0. ReadTypeInv /\ BadgeInv /\ readFaults \in Nat
  BY DEF ReadInv, ReadTypeInv
<1>1. CASE ListAfter
  <2>1. PICK c \in badge.todo :
          /\ badge.count[c] > 0
          /\ badge' = Previewed(c, ListMessagesAfter(c, badge.pointers[c], Preview),
                                "CountUnreadMessages")
          /\ UNCHANGED <<log, pointer, walk, readFaults, late, fresh>>
    BY <1>1 DEF ListAfter, Badge
  <2>2. badge.pc = "ListMessagesAfter"
    BY <1>1 DEF ListAfter
  <2> DEFINE rows == {i \in Rows(c) : i > badge.pointers[c]}
             page == ListMessagesAfter(c, badge.pointers[c], Preview)
  <2>3. page = OldestLive(c, rows, Preview)
    BY DEF ListMessagesAfter, Listmessagesafter, OldestLive
  <2>4. rows \subseteq Id
    BY DEF Rows
  <2>5. page \subseteq rows /\ \A i \in page : log[c][i] = "live"
    <3>1. PICK limit \in Nat \ {0} : limit = Preview
      BY ReadingConstants
    <3> HIDE DEF rows, page
    <3> QED BY <2>3, <2>4, <3>1, OldestPage
  <2>6. page \subseteq Id
    BY <2>4, <2>5
  <2>7. ASSUME badge.clean PROVE page \subseteq UnreadIn(c)
    <3>1. badge.pointers = pointer
      BY <1>0, <2>2, <2>7 DEF BadgeInv
    <3> HIDE DEF page
    <3> QED BY <2>5, <3>1 DEF UnreadIn, LiveIn, Rows
  <2> HIDE DEF page
  <2> QED BY <1>0, <2>1, <2>2, <2>6, <2>7, PreviewedStep DEF page
<1>2. CASE ListRecent
  <2>1. PICK c \in badge.todo :
          /\ badge.count[c] > 0
          /\ badge' = Previewed(c, ListRecentMessages(c, Preview), "CountAllMessages")
          /\ UNCHANGED <<log, pointer, walk, readFaults, late, fresh>>
    BY <1>2 DEF ListRecent, Badge
  <2>2. badge.pc = "ListRecentMessages"
    BY <1>2 DEF ListRecent
  <2> DEFINE page == ListRecentMessages(c, Preview)
  <2>3. page = NewestLive(c, Rows(c), Preview)
    BY DEF ListRecentMessages, Listrecentmessages, NewestLive
  <2>4. Rows(c) \subseteq Id
    BY DEF Rows
  <2>5. page \subseteq Rows(c) /\ \A i \in page : log[c][i] = "live"
    <3>1. PICK limit \in Nat \ {0} : limit = Preview
      BY ReadingConstants
    <3> HIDE DEF page
    <3> QED BY <2>3, <2>4, <3>1, NewestPage
  <2>6. page \subseteq Id
    BY <2>4, <2>5
  <2>7. ASSUME badge.clean PROVE page \subseteq UnreadIn(c)
    <3>1. c \in Channel /\ c \notin Opened(pointer)
      BY <1>0, <2>2, <2>7, ReadingConstants DEF BadgeInv
    <3>2. pointer[c] = -1
      BY <3>1 DEF Opened, NoState
    <3>3. \A i \in Id : i > pointer[c]
      BY <3>2, IdType
    <3> HIDE DEF page
    <3> QED BY <2>5, <2>6, <3>3 DEF UnreadIn, LiveIn
  <2> HIDE DEF page
  <2> QED BY <1>0, <2>1, <2>2, <2>6, <2>7, PreviewedStep DEF page
<1> QED BY <1>1, <1>2

\* From the read states to the DMs without one, and to the answer.
LEMMA HalfDoneStep ==
  ASSUME ReadInv, GetUserDMChannelIDs \/ ReturnUnread
  PROVE  ReadInv'
<1>0. UNCHANGED <<log, pointer, walk, readFaults, late, fresh>> /\ badge.todo = {}
  BY DEF GetUserDMChannelIDs, ReturnUnread, Badge
<1>1. badge \in Badges /\ BadgeInv /\ readFaults \in Nat
  BY DEF ReadInv, ReadTypeInv
<1>2. Opened(pointer)' = Opened(pointer) /\ Opened(pointer) \cup DMs \subseteq Channel
  BY <1>0, ReadingConstants DEF Opened
<1>3. CASE GetUserDMChannelIDs
  <2>1. badge.pc = "CountUnreadMessages"
        /\ badge' = [badge EXCEPT !.pc = "CountAllMessages", !.todo = DMs \ Opened(badge.pointers)]
    BY <1>3 DEF GetUserDMChannelIDs, Badge
  <2>2. /\ badge' \in Badges /\ badge'.pc = "CountAllMessages"
        /\ badge'.todo = DMs \ Opened(badge.pointers)
        /\ badge'.pointers = badge.pointers /\ badge'.count = badge.count
        /\ badge'.last = badge.last /\ badge'.clean = badge.clean /\ badge'.recent = badge.recent
    BY <1>1, <2>1, ReadingConstants DEF Badges, BadgePC
  <2>3. \A d : UnreadIn(d)' = UnreadIn(d) /\ (CountsRight(d)' <=> CountsRight(d))
    BY <1>0, <2>2, SameUnread DEF CountsRight
  <2>4. ASSUME badge.clean PROVE BadgeInv'
    <3>1. badge.pointers = pointer /\ \A d \in Opened(pointer) : CountsRight(d)
      BY <1>0, <1>1, <2>1, <2>4 DEF BadgeInv
    <3> QED BY <1>0, <1>1, <1>2, <2>1, <2>2, <2>3, <2>4, <3>1 DEF BadgeInv
  <2>5. ASSUME ~badge.clean PROVE BadgeInv'
    BY <2>2, <2>5 DEF BadgeInv
  <2> QED BY <1>0, <1>1, <2>2, <2>4, <2>5, OnlyBadge
<1>4. CASE ReturnUnread
  <2>1. badge.pc = "CountAllMessages" /\ badge' = [badge EXCEPT !.pc = "done"]
    BY <1>4 DEF ReturnUnread, Badge
  <2>2. /\ badge' \in Badges /\ badge'.pc = "done" /\ badge'.todo = badge.todo
        /\ badge'.pointers = badge.pointers /\ badge'.count = badge.count
        /\ badge'.last = badge.last /\ badge'.clean = badge.clean /\ badge'.recent = badge.recent
    BY <1>1, <2>1 DEF Badges, BadgePC
  <2>3. \A d : UnreadIn(d)' = UnreadIn(d) /\ (CountsRight(d)' <=> CountsRight(d))
    BY <1>0, <2>2, SameUnread DEF CountsRight
  <2>4. ASSUME badge.clean PROVE BadgeInv'
    <3>1. \A d \in Opened(pointer) \cup DMs : CountsRight(d)
      BY <1>0, <1>1, <2>1, <2>4 DEF BadgeInv
    <3> QED BY <1>0, <1>1, <1>2, <2>1, <2>2, <2>3, <2>4, <3>1 DEF BadgeInv
  <2>5. ASSUME ~badge.clean PROVE BadgeInv'
    BY <2>2, <2>5 DEF BadgeInv
  <2> QED BY <1>0, <1>1, <2>2, <2>4, <2>5, OnlyBadge
<1> QED BY <1>3, <1>4

LEMMA QueryFailsStep ==
  ASSUME ReadInv, QueryFails
  PROVE  ReadInv'
<1>0. /\ UNCHANGED <<log, pointer, walk, late, fresh>>
      /\ readFaults' \in Nat
      /\ badge \in Badges
  <2>1. readFaults \in Nat /\ badge \in Badges
    BY DEF ReadInv, ReadTypeInv
  <2>2. readFaults' = readFaults + 1 /\ UNCHANGED <<log, pointer, walk, late, fresh>>
    BY DEF QueryFails
  <2> QED BY <2>1, <2>2
<1>1. ASSUME NEW c \in badge.todo, badge.count[c] > 0,
             \/ badge.pc = "ListMessagesAfter" /\ badge' = Previewed(c, {}, "CountUnreadMessages")
             \/ badge.pc = "ListRecentMessages" /\ badge' = Previewed(c, {}, "CountAllMessages")
      PROVE  ReadInv'
  BY <1>0, <1>1, PreviewedStep
<1>2. ASSUME badge' \in Badges, badge'.clean = FALSE
      PROVE  ReadInv'
  <2>1. BadgeInv'
    BY <1>2 DEF BadgeInv
  <2> QED BY <1>0, <1>2, <2>1, OnlyBadge
<1>3. CASE badge' = [badge EXCEPT !.pc = "CountUnreadMessages", !.clean = FALSE]
  BY <1>0, <1>2, <1>3 DEF Badges, BadgePC
<1>4. CASE \E c \in badge.todo : badge' = [badge EXCEPT !.todo = @ \ {c}, !.clean = FALSE]
  BY <1>0, <1>2, <1>4 DEF Badges
<1>5. CASE badge' = [badge EXCEPT !.pc = "done", !.clean = FALSE]
  BY <1>0, <1>2, <1>5 DEF Badges, BadgePC
<1> QED BY <1>1, <1>3, <1>4, <1>5 DEF QueryFails

-----------------------------------------------------------------------------

LEMMA ReadingStart == ReadInit => ReadInv
<1> SUFFICES ASSUME ReadInit PROVE ReadInv
  OBVIOUS
<1>1. ReadTypeInv
  BY NoWalkType, NoBadgeType DEF ReadInit, ReadTypeInv, MessageState, Pointers
<1>2. WalkInv
  BY DEF ReadInit, NoWalk, WalkInv
<1>3. PointerInv
  BY DEF ReadInit, PointerInv, Rows
<1>4. BadgeInv
  BY DEF ReadInit, NoBadge, BadgeInv
<1> QED BY <1>1, <1>2, <1>3, <1>4 DEF ReadInv

LEMMA ReadingStep == ReadInv /\ [ReadNext]_readVars => ReadInv'
<1> SUFFICES ASSUME ReadInv, [ReadNext]_readVars PROVE ReadInv'
  OBVIOUS
<1>1. CASE \E c \in Channel : TakeId(c) \/ StoreMessage(c) \/ Delete(c) \/ AckMessage(c)
  BY <1>1, TakeIdStep, StoreMessageStep, DeleteStep, AckMessageStep
<1>2. CASE NextPage \/ \E c \in Channel : OpenChannel(c)
  BY <1>2, PageStep
<1>3. CASE GetUnreadCounts \/ GetUserReadStates
  BY <1>3, GetUnreadCountsStep, GetUserReadStatesStep
<1>4. CASE CountUnreadMessages \/ CountAllMessages
  BY <1>4, CountStep
<1>5. CASE ListAfter \/ ListRecent
  BY <1>5, PreviewStep
<1>6. CASE GetUserDMChannelIDs \/ ReturnUnread
  BY <1>6, HalfDoneStep
<1>7. CASE QueryFails
  BY <1>7, QueryFailsStep
<1>8. CASE UNCHANGED readVars
  <2>1. BadgeInv'
    BY <1>8, BadgeStays DEF readVars, ReadInv, LiveIn
  <2> QED BY <1>8, <2>1, OnlyBadge DEF readVars, ReadInv, ReadTypeInv
<1> QED BY <1>1, <1>2, <1>3, <1>4, <1>5, <1>6, <1>7, <1>8 DEF ReadNext

LEMMA ReadingAlways == ReadSpec => []ReadInv
  BY ReadingStart, ReadingStep, PTL DEF ReadSpec

\* Whatever is sent and deleted meanwhile, ListMessages shows a client that pages through
\* a channel no message twice and leaves no gap, for any limits and any number of
\* messages: the rows a LIMIT keeps are those nearest to the cursor, deleted ones are cut
\* afterwards, and a message stored later than a newer one is the only one to slip by.
THEOREM PagesAreContiguous == ReadSpec => []PagesLeaveNoGap
<1>1. ReadInv => PagesLeaveNoGap
  BY DEF ReadInv, WalkInv, PagesLeaveNoGap
<1> QED BY <1>1, ReadingAlways, PTL

\* What GetUnreadCounts counts above the pointers is what came since the last ack.
LEMMA UnreadIsFresh ==
  ASSUME ReadInv, NEW c \in Channel
  PROVE  LET unread == fresh[c] \cap LiveIn(c)
         IN  UnreadIn(c) \subseteq unread /\ unread \ late[c] \subseteq UnreadIn(c)
  BY DEF ReadInv, PointerInv, UnreadIn, LiveIn, Rows

\* A GetUnreadCounts that no other change overlaps is exact in every channel with a read
\* state and every DM, in however many query steps it is made and whichever previews fail.
THEOREM UnreadCountsAreExact == ReadSpec => []UnreadExact
<1>1. ReadInv => UnreadExact
  <2> SUFFICES ASSUME ReadInv, badge.pc = "done", badge.clean,
                      NEW c \in Opened(badge.pointers) \cup DMs
               PROVE  LET unread == fresh[c] \cap LiveIn(c) IN
                      /\ badge.count[c] \in Cardinality(unread \ late[c]) .. Cardinality(unread)
                      /\ \A i \in unread \ late[c] : i <= badge.last[c]
                      /\ badge.recent[c] \subseteq unread
    BY DEF UnreadExact
  <2> DEFINE unread == fresh[c] \cap LiveIn(c)
  <2>1. badge \in Badges /\ badge.pointers = pointer
    BY DEF ReadInv, ReadTypeInv, BadgeInv
  <2>2. c \in Channel
    BY ReadingConstants DEF Opened
  <2>3. /\ badge.count[c] = Cardinality(UnreadIn(c)) /\ badge.count[c] \in Nat
        /\ badge.count[c] > 0 => \A i \in UnreadIn(c) : i <= badge.last[c]
        /\ badge.recent[c] \subseteq UnreadIn(c)
    BY <2>1, <2>2 DEF ReadInv, BadgeInv, CountsRight, Badges
  <2>4. UnreadIn(c) \subseteq unread /\ unread \ late[c] \subseteq UnreadIn(c) /\ unread \subseteq Id
    BY <2>2, UnreadIsFresh DEF LiveIn
  <2> HIDE DEF unread
  <2>5. /\ Cardinality(unread \ late[c]) \in Nat /\ Cardinality(unread) \in Nat
        /\ Cardinality(unread \ late[c]) <= Cardinality(UnreadIn(c))
        /\ Cardinality(UnreadIn(c)) <= Cardinality(unread)
    <3>1. UnreadIn(c) \subseteq Id /\ unread \ late[c] \subseteq Id
      BY <2>4
    <3> QED BY <2>4, <3>1, IdSets
  <2>6. UnreadIn(c) # {} => badge.count[c] > 0
    <3>1. IsFiniteSet(UnreadIn(c))
      BY <2>4, IdSets
    <3> QED BY <2>3, <3>1, FS_EmptySet
  <2>7. badge.count[c] \in Cardinality(unread \ late[c]) .. Cardinality(unread)
    BY <2>3, <2>5
  <2> QED BY <2>3, <2>4, <2>6, <2>7 DEF unread
<1> QED BY <1>1, ReadingAlways, PTL
=============================================================================
