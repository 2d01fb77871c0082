---------------------------- MODULE AccessProofs ----------------------------
(***************************************************************************)
(* Theorems about ChannelPerms, for any guild, any number of checks and RPCs *)
(* at once, any changes and any failing statements, and about Gateway, for   *)
(* any clients, limits and window and any failures of Redis.                 *)
(***************************************************************************)
EXTENDS ChannelPerms, Gateway, FiniteSetTheorems, TLAPS

(* ChannelPerms: types, and which RPC gets where.                            *)

InGuild == {"isOwnerOrAdmin", "Check", "applyChannelOverride"}

Checking == {"resolveChannelGuild", "cacheChannelGuild", "isDMMember", "answered"} \cup InGuild

Writing == {"GetChannelByID", "CanManageChannels", "Exec"}

Fits(r) ==
    /\ r.pc = "idle" <=> r.op = "none"
    /\ r.pc \in Checking <=> r.op = "checkChannel"
    /\ r.pc # "idle" => r.user \in User /\ r.chan \in Channel
    /\ r.op \in {"SetChannelOverride", "DeleteChannelOverride"} => r.target \in Target
    /\ r.pc = "isDMMember" => r.chan \in DM
    /\ r.pc \in InGuild => r.chan \notin DM

PermsTypeInv == ChannelPermsTypeOK /\ \A w \in Worker : Fits(rpc[w])

\* Worker w goes on with r, the others with what they were at.
Becomes(w, r) ==
    /\ rpc'[w] = r
    /\ \A v \in Worker \ {w} : rpc'[v] = rpc[v]
    /\ rpc' \in [Worker -> Request]
    /\ \A v \in Worker : Fits(rpc'[v])

\* r goes on at pc, having found out granted and answer.
Went(r, pc, granted, answer) ==
    [op |-> r.op, pc |-> pc, user |-> r.user, chan |-> r.chan, target |-> r.target,
     effect |-> r.effect, granted |-> granted, answer |-> answer]

LEMMA RequestFields ==
  ASSUME NEW r \in Request
  PROVE  r = Went(r, r.pc, r.granted, r.answer)
  BY DEF Request, Went

LEMMA IdleFits == Idle \in Request /\ Fits(Idle) /\ Idle.op = "none" /\ Idle.pc = "idle"
<1>1. Idle \in Request
  BY DEF Idle, Request
<1>2. Idle.op = "none" /\ Idle.pc = "idle"
  BY DEF Idle
<1> QED BY <1>1, <1>2 DEF Idle, Fits, Checking, InGuild

LEMMA Replaced ==
  ASSUME PermsTypeInv, NEW w \in Worker, NEW r \in Request, Fits(r),
         rpc' = [rpc EXCEPT ![w] = r]
  PROVE  Becomes(w, r)
<1>1. rpc \in [Worker -> Request]
  BY DEF PermsTypeInv, ChannelPermsTypeOK
<1>2. rpc'[w] = r /\ rpc' \in [Worker -> Request] /\ \A v \in Worker \ {w} : rpc'[v] = rpc[v]
  BY <1>1
<1> QED BY <1>2 DEF Becomes, PermsTypeInv

LEMMA ReturnMove ==
  ASSUME PermsTypeInv, NEW w \in Worker, Return(w)
  PROVE  Becomes(w, Idle)
  BY Replaced, IdleFits DEF Return

LEMMA GotoMove ==
  ASSUME PermsTypeInv, NEW w \in Worker, NEW pc \in Checking \cup Writing, Goto(w, pc),
         rpc[w].pc # "idle", pc \in Checking <=> rpc[w].pc \in Checking,
         pc = "isDMMember" => rpc[w].chan \in DM, pc \in InGuild => rpc[w].chan \notin DM
  PROVE  Becomes(w, Went(rpc[w], pc, rpc[w].granted, rpc[w].answer))
<1> DEFINE r == Went(rpc[w], pc, rpc[w].granted, rpc[w].answer)
<1>0. rpc \in [Worker -> Request] /\ rpc[w] \in Request /\ Fits(rpc[w])
  BY DEF PermsTypeInv, ChannelPermsTypeOK
<1>1. [rpc[w] EXCEPT !.pc = pc] = r
  BY <1>0, RequestFields DEF Went
<1>2. rpc' = [rpc EXCEPT ![w] = r]
  BY <1>0, <1>1 DEF Goto
<1>3. r \in Request
  BY <1>0 DEF Request, Went, Checking, Writing, InGuild
<1>4. Fits(r)
  BY <1>0 DEF Fits, Went, Checking, Writing, InGuild
<1> QED BY <1>2, <1>3, <1>4, Replaced

LEMMA AnswerMove ==
  ASSUME PermsTypeInv, NEW w \in Worker, NEW yes \in BOOLEAN, Answer(w, yes),
         rpc[w].pc \in Checking
  PROVE  Becomes(w, Went(rpc[w], "answered", rpc[w].granted, yes))
<1> DEFINE r == Went(rpc[w], "answered", rpc[w].granted, yes)
<1>0. rpc \in [Worker -> Request] /\ rpc[w] \in Request /\ Fits(rpc[w])
  BY DEF PermsTypeInv, ChannelPermsTypeOK
<1>1. [[rpc[w] EXCEPT !.pc = "answered"] EXCEPT !.answer = yes] = r
  <2>1. [rpc[w] EXCEPT !.pc = "answered"] = Went(rpc[w], "answered", rpc[w].granted, rpc[w].answer)
    BY <1>0, RequestFields DEF Went
  <2>2. [Went(rpc[w], "answered", rpc[w].granted, rpc[w].answer) EXCEPT !.answer = yes] = r
    BY DEF Went
  <2> QED BY <2>1, <2>2
<1>2. rpc' = [rpc EXCEPT ![w] = r]
  BY <1>0, <1>1 DEF Answer
<1>3. r \in Request
  BY <1>0 DEF Request, Went
<1>4. Fits(r)
  BY <1>0 DEF Fits, Went, Checking, InGuild
<1> QED BY <1>2, <1>3, <1>4, Replaced

LEMMA GrantMove ==
  ASSUME PermsTypeInv, NEW w \in Worker, GuildCheck(w)
  PROVE  Becomes(w, Went(rpc[w], "applyChannelOverride", Check(rpc[w].user, Asked), rpc[w].answer))
<1> DEFINE yes == Check(rpc[w].user, Asked)
           r == Went(rpc[w], "applyChannelOverride", yes, rpc[w].answer)
<1>0. rpc \in [Worker -> Request] /\ rpc[w] \in Request /\ Fits(rpc[w])
  BY DEF PermsTypeInv, ChannelPermsTypeOK
<1>1. yes \in BOOLEAN
  BY DEF Check, IsOwner, HoldsThroughRole
<1> HIDE DEF yes
<1>2. [[rpc[w] EXCEPT !.granted = yes] EXCEPT !.pc = "applyChannelOverride"] = r
  <2>1. [rpc[w] EXCEPT !.granted = yes] = Went(rpc[w], rpc[w].pc, yes, rpc[w].answer)
    BY <1>0, RequestFields DEF Went
  <2>2. [Went(rpc[w], rpc[w].pc, yes, rpc[w].answer) EXCEPT !.pc = "applyChannelOverride"] = r
    BY DEF Went
  <2> QED BY <2>1, <2>2
<1>3. rpc' = [rpc EXCEPT ![w] = r]
  BY <1>0, <1>2 DEF GuildCheck, yes
<1>4. r \in Request
  BY <1>0, <1>1 DEF Request, Went
<1>5. Fits(r)
  BY <1>0 DEF Fits, Went, Checking, InGuild, GuildCheck
<1> QED BY <1>3, <1>4, <1>5, Replaced DEF yes

\* What a step of worker w makes of its request: it begins one, it goes on with an RPC
\* that writes, or it goes on with a check.
Begins(w, r) ==
    /\ rpc[w].pc = "idle"
    /\ ~r.granted
    /\ r.op = "checkChannel" => r.pc = "resolveChannelGuild"

Writes(w, r) == rpc[w].pc \in Writing /\ r.op # "checkChannel"

Denied(w, r) ==
    /\ rpc[w].pc = "resolveChannelGuild"
    /\ channel[rpc[w].chan] # "live" \/ faults' # 0
    /\ r = Went(rpc[w], "answered", rpc[w].granted, FALSE)

Resolved(w, r) ==
    /\ rpc[w].pc \in {"resolveChannelGuild", "cacheChannelGuild"}
    /\ \E pc \in {"cacheChannelGuild", AfterGuild(rpc[w].chan)} :
        r = Went(rpc[w], pc, rpc[w].granted, rpc[w].answer)

MemberRead(w, r) ==
    /\ rpc[w].pc = "isDMMember"
    /\ \E yes \in BOOLEAN :
        /\ yes = (<<rpc[w].chan, rpc[w].user>> \in dmMembers) \/ (faults' # 0 /\ ~yes)
        /\ r = Went(rpc[w], "answered", rpc[w].granted, yes)

Bypassed(w, r) ==
    /\ rpc[w].pc = "isOwnerOrAdmin"
    /\ OwnerOrAdmin(rpc[w].user)
    /\ r = Went(rpc[w], "answered", rpc[w].granted, TRUE)

NotBypassed(w, r) ==
    /\ rpc[w].pc = "isOwnerOrAdmin"
    /\ ~OwnerOrAdmin(rpc[w].user) \/ faults' # 0
    /\ r = Went(rpc[w], "Check", rpc[w].granted, rpc[w].answer)

GrantRead(w, r) ==
    /\ rpc[w].pc = "Check"
    /\ \E yes \in BOOLEAN :
        /\ yes = Check(rpc[w].user, Asked) \/ (faults' # 0 /\ yes = rpc[w].granted)
        /\ r = Went(rpc[w], "applyChannelOverride", yes, rpc[w].answer)

Decided(w, r) ==
    /\ rpc[w].pc = "applyChannelOverride"
    /\ \E byUser \in Kept("deny", Effects(rpc[w].chan, {rpc[w].user})),
          byRole \in Kept("allow", Effects(rpc[w].chan, RolesOf(rpc[w].user))) :
        r = Went(rpc[w], "answered", rpc[w].granted, Applied(byUser, byRole, rpc[w].granted))

\* The rows stop coming.
PartlyDecided(w, r) ==
    /\ rpc[w].pc = "applyChannelOverride"
    /\ faults' # 0
    /\ \E some \in SUBSET RolesOf(rpc[w].user) :
       \E byUser \in Kept("deny", Effects(rpc[w].chan, {rpc[w].user})),
          byRole \in Kept("allow", Effects(rpc[w].chan, some)) :
        r = Went(rpc[w], "answered", rpc[w].granted, Applied(byUser, byRole, rpc[w].granted))

PassedOver(w, r) ==
    /\ rpc[w].pc = "applyChannelOverride"
    /\ faults' # 0
    /\ r = Went(rpc[w], "answered", rpc[w].granted, rpc[w].granted)

Checks(w, r) ==
    \/ rpc[w].pc = "answered" /\ r = Idle
    \/ Denied(w, r) \/ Resolved(w, r) \/ MemberRead(w, r)
    \/ Bypassed(w, r) \/ NotBypassed(w, r) \/ GrantRead(w, r)
    \/ Decided(w, r) \/ PartlyDecided(w, r) \/ PassedOver(w, r)

Moves(w, r) == Begins(w, r) \/ Writes(w, r) \/ Checks(w, r)

LEMMA CallMove ==
  ASSUME PermsTypeInv, NEW w \in Worker, Call(w)
  PROVE  \E r \in Request : Becomes(w, r) /\ Begins(w, r)
<1>1. PICK op \in Ops, u \in User, c \in Channel : \E r \in Inputs(op, u, c) :
        rpc' = [rpc EXCEPT ![w] = r]
  BY DEF Call
<1>2. PICK r \in Inputs(op, u, c) : rpc' = [rpc EXCEPT ![w] = r]
  BY <1>1
<1>4. op \in ChannelOps /\ Entry(op) \in {"resolveChannelGuild", "CanManageChannels", "GetChannelByID"}
        /\ (Entry(op) = "resolveChannelGuild" <=> op = "checkChannel")
  BY ChannelPermsConstants DEF Entry
<1>5. PICK t \in Target \cup {Nobody}, e \in {"allow", "deny", "none"} :
        /\ r = [op |-> op, pc |-> Entry(op), user |-> u, chan |-> c, target |-> t,
                effect |-> e, granted |-> FALSE, answer |-> FALSE]
        /\ op \in {"SetChannelOverride", "DeleteChannelOverride"} => t \in Target
  BY DEF Inputs
<1>6. r \in Request
  BY <1>4, <1>5 DEF Request
<1>7. Fits(r)
  BY <1>4, <1>5 DEF Fits, Checking, InGuild, ChannelOps
<1>8. Becomes(w, r)
  BY <1>2, <1>6, <1>7, Replaced
<1>9. Begins(w, r)
  BY <1>4, <1>5 DEF Begins, Call
<1> QED BY <1>6, <1>8, <1>9

LEMMA WriteMove ==
  ASSUME PermsTypeInv, NEW w \in Worker, rpc[w].pc \in Writing,
         \/ Return(w)
         \/ \E ok \in BOOLEAN, pc \in Writing : Proceed(w, ok, pc)
  PROVE  \E r \in Request : Becomes(w, r) /\ Writes(w, r)
<1>1. rpc[w] \in Request /\ Fits(rpc[w])
  BY DEF PermsTypeInv, ChannelPermsTypeOK
<1>2. CASE Return(w)
  BY <1>2, ReturnMove, IdleFits DEF Writes
<1>3. CASE \E pc \in Writing : Goto(w, pc)
  <2>1. PICK pc \in Writing : Goto(w, pc)
    BY <1>3
  <2> DEFINE r == Went(rpc[w], pc, rpc[w].granted, rpc[w].answer)
  <2>2. Becomes(w, r)
    BY <2>1, GotoMove DEF Writing, Checking, InGuild
  <2>3. r \in Request
    BY <2>2 DEF Becomes
  <2>4. r.op = rpc[w].op
    BY DEF Went
  <2>5. rpc[w].op # "checkChannel"
    BY <1>1 DEF Fits, Writing, Checking, InGuild
  <2> QED BY <2>2, <2>3, <2>4, <2>5 DEF Writes
<1> QED BY <1>2, <1>3 DEF Proceed

LEMMA CheckMove ==
  ASSUME PermsTypeInv, NEW w \in Worker,
         \/ resolveChannelGuild(w) \/ cacheChannelGuild(w) \/ isDMMember(w) \/ isOwnerOrAdmin(w)
         \/ GuildCheck(w) \/ applyChannelOverride(w) \/ Answered(w)
  PROVE  \E r \in Request : Becomes(w, r) /\ Checks(w, r)
<1> DEFINE o == rpc[w]
<1>0. o \in Request /\ Fits(o) /\ o.granted \in BOOLEAN
  BY DEF PermsTypeInv, ChannelPermsTypeOK, Request
<1>a. \A r : Becomes(w, r) => r \in Request
  BY DEF Becomes
<1>b. /\ AfterGuild(o.chan) \in {"isDMMember", "isOwnerOrAdmin"}
      /\ AfterGuild(o.chan) = "isDMMember" <=> o.chan \in DM
  BY DEF AfterGuild
<1>1. CASE resolveChannelGuild(w)
  <2>1. CASE \E pc \in {"cacheChannelGuild", AfterGuild(o.chan)} : Goto(w, pc)
    <3>1. PICK pc \in {"cacheChannelGuild", AfterGuild(o.chan)} : Goto(w, pc)
      BY <2>1
    <3>2. Becomes(w, Went(o, pc, o.granted, o.answer))
      BY <1>1, <1>b, <3>1, GotoMove DEF resolveChannelGuild, Checking, InGuild
    <3>3. Resolved(w, Went(o, pc, o.granted, o.answer))
      BY <1>1 DEF resolveChannelGuild, Resolved
    <3> QED BY <1>a, <3>2, <3>3 DEF Checks
  <2>2. CASE channel[o.chan] # "live" /\ Answer(w, FALSE)
    <3>1. Becomes(w, Went(o, "answered", o.granted, FALSE))
      BY <1>1, <2>2, AnswerMove DEF resolveChannelGuild, Checking
    <3>2. Denied(w, Went(o, "answered", o.granted, FALSE))
      BY <1>1, <2>2 DEF resolveChannelGuild, Denied
    <3> QED BY <1>a, <3>1, <3>2 DEF Checks
  <2> QED BY <1>1, <2>1, <2>2 DEF resolveChannelGuild
<1>2. CASE cacheChannelGuild(w)
  <2>1. Becomes(w, Went(o, AfterGuild(o.chan), o.granted, o.answer))
    BY <1>2, <1>b, GotoMove DEF cacheChannelGuild, Checking, InGuild
  <2>2. Resolved(w, Went(o, AfterGuild(o.chan), o.granted, o.answer))
    BY <1>2 DEF cacheChannelGuild, Resolved
  <2> QED BY <1>a, <2>1, <2>2 DEF Checks
<1>3. CASE isOwnerOrAdmin(w)
  <2>1. CASE OwnerOrAdmin(o.user)
    <3>1. Becomes(w, Went(o, "answered", o.granted, TRUE))
      BY <1>3, <2>1, AnswerMove DEF isOwnerOrAdmin, Checking, InGuild
    <3>2. Bypassed(w, Went(o, "answered", o.granted, TRUE))
      BY <1>3, <2>1 DEF isOwnerOrAdmin, Bypassed
    <3> QED BY <1>a, <3>1, <3>2 DEF Checks
  <2>2. CASE ~OwnerOrAdmin(o.user)
    <3>1. Becomes(w, Went(o, "Check", o.granted, o.answer))
      BY <1>0, <1>3, <2>2, GotoMove DEF isOwnerOrAdmin, Checking, InGuild, Fits
    <3>2. NotBypassed(w, Went(o, "Check", o.granted, o.answer))
      BY <1>3, <2>2 DEF isOwnerOrAdmin, NotBypassed
    <3> QED BY <1>a, <3>1, <3>2 DEF Checks
  <2> QED BY <2>1, <2>2
<1>4. CASE GuildCheck(w)
  <2> DEFINE yes == Check(o.user, Asked)
             r == Went(o, "applyChannelOverride", yes, o.answer)
  <2>1. Becomes(w, r)
    BY <1>4, GrantMove
  <2>2. yes \in BOOLEAN
    BY DEF Check, IsOwner, HoldsThroughRole
  <2>3. GrantRead(w, r)
    BY <1>4, <2>2 DEF GuildCheck, GrantRead
  <2> QED BY <1>a, <2>1, <2>3 DEF Checks
<1>5. CASE applyChannelOverride(w)
  <2>1. PICK byUser \in Kept("deny", Effects(o.chan, {o.user})),
             byRole \in Kept("allow", Effects(o.chan, RolesOf(o.user))) :
                Answer(w, Applied(byUser, byRole, o.granted))
    BY <1>5 DEF applyChannelOverride, Decide
  <2> DEFINE yes == Applied(byUser, byRole, o.granted)
  <2>2. yes \in BOOLEAN
    BY <1>0 DEF Applied
  <2>3. Becomes(w, Went(o, "answered", o.granted, yes))
    BY <1>5, <2>1, <2>2, AnswerMove DEF applyChannelOverride, Checking, InGuild
  <2>4. Decided(w, Went(o, "answered", o.granted, yes))
    BY <1>5 DEF applyChannelOverride, Decided
  <2> QED BY <1>a, <2>3, <2>4 DEF Checks
<1>6. CASE Answered(w)
  BY <1>6, ReturnMove, IdleFits DEF Answered, Checks
<1>7. CASE isDMMember(w)
  <2> DEFINE yes == <<o.chan, o.user>> \in dmMembers
             r == Went(o, "answered", o.granted, yes)
  <2>1. yes \in BOOLEAN
    OBVIOUS
  <2>2. Answer(w, yes) /\ o.pc = "isDMMember"
    BY <1>7 DEF isDMMember
  <2>3. MemberRead(w, r)
    BY <2>1, <2>2 DEF MemberRead
  <2> HIDE DEF yes
  <2>4. Becomes(w, r)
    BY <2>1, <2>2, AnswerMove DEF Checking
  <2> QED BY <1>a, <2>3, <2>4 DEF Checks
<1> QED BY <1>1, <1>2, <1>3, <1>4, <1>5, <1>6, <1>7

LEMMA FailMove ==
  ASSUME PermsTypeInv, NEW w \in Worker, StatementFails(w)
  PROVE  \E r \in Request : Becomes(w, r) /\ Moves(w, r)
<1> DEFINE o == rpc[w]
<1>0. o \in Request /\ Fits(o) /\ o.granted \in BOOLEAN
  BY DEF PermsTypeInv, ChannelPermsTypeOK, Request
<1>a. \A r : Becomes(w, r) => r \in Request
  BY DEF Becomes
<1>b. faults' # 0
  BY DEF StatementFails, PermsTypeInv, ChannelPermsTypeOK
<1>1. CASE o.pc = "resolveChannelGuild"
  <2>1. Becomes(w, Went(o, "answered", o.granted, FALSE))
    BY <1>1, AnswerMove DEF StatementFails, Checking
  <2>2. Denied(w, Went(o, "answered", o.granted, FALSE))
    BY <1>1, <1>b DEF Denied
  <2> QED BY <1>a, <2>1, <2>2 DEF Checks, Moves
<1>2. CASE o.pc = "isOwnerOrAdmin"
  <2>1. Becomes(w, Went(o, "Check", o.granted, o.answer))
    BY <1>0, <1>2, GotoMove DEF StatementFails, Checking, InGuild, Fits
  <2>2. NotBypassed(w, Went(o, "Check", o.granted, o.answer))
    BY <1>2, <1>b DEF NotBypassed
  <2> QED BY <1>a, <2>1, <2>2 DEF Checks, Moves
<1>3. CASE o.pc = "Check"
  <2>1. Becomes(w, Went(o, "applyChannelOverride", o.granted, o.answer))
    BY <1>0, <1>3, GotoMove DEF StatementFails, Checking, InGuild, Fits
  <2>2. GrantRead(w, Went(o, "applyChannelOverride", o.granted, o.answer))
    BY <1>0, <1>3, <1>b DEF GrantRead
  <2> QED BY <1>a, <2>1, <2>2 DEF Checks, Moves
<1>4. CASE o.pc = "applyChannelOverride" /\ Answer(w, o.granted)
  <2>1. Becomes(w, Went(o, "answered", o.granted, o.granted))
    BY <1>0, <1>4, AnswerMove DEF Checking, InGuild
  <2>2. PassedOver(w, Went(o, "answered", o.granted, o.granted))
    BY <1>4, <1>b DEF PassedOver
  <2> QED BY <1>a, <2>1, <2>2 DEF Checks, Moves
<1>7. ASSUME o.pc = "applyChannelOverride", NEW some \in SUBSET RolesOf(o.user), Decide(w, some)
      PROVE  \E r \in Request : Becomes(w, r) /\ Moves(w, r)
  <2>1. PICK byUser \in Kept("deny", Effects(o.chan, {o.user})),
             byRole \in Kept("allow", Effects(o.chan, some)) :
                Answer(w, Applied(byUser, byRole, o.granted))
    BY <1>7 DEF Decide
  <2> DEFINE yes == Applied(byUser, byRole, o.granted)
  <2>2. yes \in BOOLEAN
    BY <1>0 DEF Applied
  <2>3. Becomes(w, Went(o, "answered", o.granted, yes))
    BY <1>7, <2>1, <2>2, AnswerMove DEF Checking, InGuild
  <2>4. PartlyDecided(w, Went(o, "answered", o.granted, yes))
    BY <1>7, <1>b DEF PartlyDecided
  <2> QED BY <1>a, <2>3, <2>4 DEF Checks, Moves
<1>8. CASE o.pc = "isDMMember"
  <2>1. Becomes(w, Went(o, "answered", o.granted, FALSE))
    BY <1>8, AnswerMove DEF StatementFails, Checking
  <2>2. MemberRead(w, Went(o, "answered", o.granted, FALSE))
    BY <1>8, <1>b DEF MemberRead
  <2> QED BY <1>a, <2>1, <2>2 DEF Checks, Moves
<1>5. CASE o.pc \in Writing
  <2>1. Return(w)
    BY <1>5 DEF StatementFails, Writing
  <2> QED BY <1>5, <2>1, WriteMove DEF Moves
<1>6. \/ o.pc \in {"resolveChannelGuild", "isDMMember", "isOwnerOrAdmin", "Check"} \cup Writing
      \/ /\ o.pc = "applyChannelOverride"
         /\ Answer(w, o.granted) \/ \E some \in SUBSET RolesOf(o.user) : Decide(w, some)
  BY <1>0 DEF StatementFails, Request, Writing
<1> QED BY <1>1, <1>2, <1>3, <1>4, <1>5, <1>6, <1>7, <1>8

LEMMA StepMove ==
  ASSUME PermsTypeInv, NEW w \in Worker, Step(w)
  PROVE  \E r \in Request : Becomes(w, r) /\ Moves(w, r)
<1>1. CASE Call(w)
  BY <1>1, CallMove DEF Moves
<1>2. CASE GetChannelByID(w) \/ CanManageChannels(w)
  <2>1. \E ok \in BOOLEAN, pc \in Writing : Proceed(w, ok, pc)
    BY <1>2 DEF GetChannelByID, CanManageChannels, Writing, Check, IsOwner, HoldsThroughRole
  <2> QED BY <1>2, <2>1, WriteMove DEF Moves, GetChannelByID, CanManageChannels, Writing
<1>3. CASE Exec(w) \/ Exhausted(w)
  BY <1>3, WriteMove DEF Moves, Exec, Exhausted, Writing
<1>4. CASE \/ resolveChannelGuild(w) \/ cacheChannelGuild(w) \/ isDMMember(w) \/ isOwnerOrAdmin(w)
           \/ GuildCheck(w) \/ applyChannelOverride(w) \/ Answered(w)
  BY <1>4, CheckMove DEF Moves
<1>5. CASE StatementFails(w)
  BY <1>5, FailMove
<1> QED BY <1>1, <1>2, <1>3, <1>4, <1>5 DEF Step

-----------------------------------------------------------------------------
(* Type correctness.                                                         *)

Noting == [reason : Reason, grounds : BOOLEAN]

\* In every state, so in the next one too.
LEMMA NotedType ==
  ASSUME NEW w \in Worker
  PROVE  Noted(w) \in Noting /\ Noted(w)' \in Noting
<1>1. \A u, c : ReasonFor(u, c) \in Reason /\ ReasonFor(u, c)' \in Reason
  BY DEF ReasonFor, Reason
<1>2. \A u, c : Grounds(u, c) \in BOOLEAN /\ Grounds(u, c)' \in BOOLEAN
  <2>1. \A u : Check(u, Asked) \in BOOLEAN /\ Check(u, Asked)' \in BOOLEAN
    BY DEF Check, IsOwner, HoldsThroughRole
  <2> SUFFICES ASSUME NEW u, NEW c PROVE Grounds(u, c) \in BOOLEAN /\ Grounds(u, c)' \in BOOLEAN
    OBVIOUS
  <2>2. CASE c \in DM
    BY <2>2 DEF Grounds
  <2>3. CASE c \notin DM
    BY <2>1, <2>3 DEF Grounds
  <2> QED BY <2>2, <2>3
<1> QED BY <1>1, <1>2 DEF Noted, Noting

LEMMA SeenType ==
  ASSUME PermsTypeInv, Note
  PROVE  seen' \in [Worker -> SUBSET Noting]
  BY NotedType DEF Note, PermsTypeInv, ChannelPermsTypeOK, Noting

LEMMA PermsTypeInit == Init => PermsTypeInv
<1> SUFFICES ASSUME Init PROVE PermsTypeInv
  OBVIOUS
<1>1. AuthzTypeOK
  <2>1. roles \in [Role -> RoleRow]
    BY DEF Init, RoleRow
  <2> QED BY <2>1 DEF Init, AuthzTypeOK
<1>2. overrides \in [Channel -> [Target -> {"allow", "deny", "none"}]]
  BY DEF Init
<1>3. rpc \in [Worker -> Request] /\ \A w \in Worker : Fits(rpc[w])
  BY IdleFits DEF Init
<1> QED BY <1>1, <1>2, <1>3 DEF Init, PermsTypeInv, ChannelPermsTypeOK

LEMMA RowsType ==
  ASSUME PermsTypeInv,
         (\E w \in Worker : Step(w)) \/ RoleChange \/ GuildChange \/ MemberChange \/ Expire
  PROVE  /\ AuthzTypeOK'
         /\ channel' \in [Channel -> {"none", "live", "deleted"}]
         /\ overrides' \in [Channel -> [Target -> {"allow", "deny", "none"}]]
         /\ dmMembers' \subseteq DM \X User
         /\ cached' \subseteq Channel
         /\ changes' \in Nat /\ faults' \in Nat
         /\ faults' = 0 => faults = 0
<1> USE DEF PermsTypeInv, ChannelPermsTypeOK
<1>1. CASE RoleChange
  <2>1. roleMembers' \subseteq Role \X User /\ rolePerms' \subseteq Role \X Perm
    BY <1>1 DEF RoleChange, AuthzTypeOK, SymDiff
  <2>2. roles' \in [Role -> RoleRow]
    BY <1>1 DEF RoleChange, AuthzTypeOK, RoleRow, LiveRoles
  <2> QED BY <1>1, <2>1, <2>2 DEF RoleChange, AuthzTypeOK
<1>7. CASE GuildChange
  <2>1. owner' \in User \cup {NoUser} /\ guildDeleted' \in BOOLEAN
    BY <1>7 DEF GuildChange, AuthzTypeOK
  <2>2. changes' \in Nat /\ faults' = faults
    BY <1>7 DEF GuildChange
  <2>3. UNCHANGED <<roles, roleMembers, rolePerms, channel, overrides, dmMembers, cached>>
    BY <1>7 DEF GuildChange
  <2> QED BY <2>1, <2>2, <2>3 DEF AuthzTypeOK
<1>8. CASE MemberChange
  <2>1. dmMembers' \subseteq DM \X User
    BY <1>8 DEF MemberChange, SymDiff
  <2>2. changes' \in Nat /\ faults' = faults
    BY <1>8 DEF MemberChange
  <2>3. UNCHANGED <<authzVars, channel, overrides, cached>>
    BY <1>8 DEF MemberChange
  <2> QED BY <2>1, <2>2, <2>3 DEF authzVars, AuthzTypeOK
<1>2. CASE Expire
  BY <1>2 DEF Expire, rows, authzVars, AuthzTypeOK
<1>3. ASSUME NEW w \in Worker, Exec(w)
      PROVE  /\ UNCHANGED <<authzVars, dmMembers, cached, faults>>
             /\ changes' \in Nat
             /\ channel' \in [Channel -> {"none", "live", "deleted"}]
             /\ overrides' \in [Channel -> [Target -> {"allow", "deny", "none"}]]
  <2>1. rpc[w] \in Request /\ Fits(rpc[w]) /\ rpc[w].pc = "Exec"
    BY <1>3 DEF Exec
  <2>2. rpc[w].chan \in Channel /\ rpc[w].effect \in {"allow", "deny", "none"}
    BY <2>1 DEF Fits, Request
  <2>3. rpc[w].op \in {"SetChannelOverride", "DeleteChannelOverride"} => rpc[w].target \in Target
    BY <2>1 DEF Fits
  <2>4. channel' \in [Channel -> {"none", "live", "deleted"}]
    BY <1>3, <2>2 DEF Exec
  <2>5. overrides' \in [Channel -> [Target -> {"allow", "deny", "none"}]]
    BY <1>3, <2>2, <2>3 DEF Exec
  <2> QED BY <1>3, <2>4, <2>5 DEF Exec
<1>4. ASSUME NEW w \in Worker, cacheChannelGuild(w)
      PROVE  UNCHANGED <<rows, changes, faults>> /\ cached' \subseteq Channel
  <2>1. rpc[w].chan \in Channel
    BY <1>4 DEF cacheChannelGuild, Fits
  <2> QED BY <1>4, <2>1 DEF cacheChannelGuild
<1>5. ASSUME NEW w \in Worker, Step(w), ~Exec(w), ~cacheChannelGuild(w)
      PROVE  UNCHANGED <<rows, cached, changes>> /\ faults' \in {faults, faults + 1}
  BY <1>5 DEF Step, Call, GetChannelByID, CanManageChannels, Exhausted, resolveChannelGuild,
              isDMMember, isOwnerOrAdmin, GuildCheck, applyChannelOverride, Answered,
              StatementFails, Read
<1>6. CASE \E w \in Worker : Step(w)
  BY <1>3, <1>4, <1>5, <1>6 DEF rows, authzVars, AuthzTypeOK
<1> QED BY <1>1, <1>2, <1>6, <1>7, <1>8

LEMMA WorkersType ==
  ASSUME PermsTypeInv,
         (\E w \in Worker : Step(w)) \/ RoleChange \/ GuildChange \/ MemberChange \/ Expire
  PROVE  rpc' \in [Worker -> Request] /\ \A w \in Worker : Fits(rpc'[w])
<1>1. CASE \E w \in Worker : Step(w)
  BY <1>1, StepMove DEF Becomes
<1>2. CASE UNCHANGED rpc
  BY <1>2 DEF PermsTypeInv, ChannelPermsTypeOK
<1> QED BY <1>1, <1>2 DEF RoleChange, GuildChange, MemberChange, Expire

LEMMA PermsTypeStep == PermsTypeInv /\ [Next]_vars => PermsTypeInv'
<1> SUFFICES ASSUME PermsTypeInv, [Next]_vars PROVE PermsTypeInv'
  OBVIOUS
<1>1. CASE Next
  <2>1. seen' \in [Worker -> SUBSET [reason : Reason, grounds : BOOLEAN]]
    BY <1>1, SeenType DEF Next, Noting
  <2> QED BY <1>1, <2>1, RowsType, WorkersType DEF Next, PermsTypeInv, ChannelPermsTypeOK
<1>2. CASE UNCHANGED vars
  BY <1>2 DEF vars, rows, authzVars, PermsTypeInv, ChannelPermsTypeOK, AuthzTypeOK
<1> QED BY <1>1, <1>2

\* The rows, the cache and the requests under way keep their types, whatever is called,
\* changed and failing: checkChannel and the override RPCs work on stored rows only.
THEOREM PermsTypeCorrect == Spec => []ChannelPermsTypeOK
<1>1. Spec => []PermsTypeInv
  BY PermsTypeInit, PermsTypeStep, PTL DEF Spec
<1>2. PermsTypeInv => ChannelPermsTypeOK
  BY DEF PermsTypeInv
<1> QED BY <1>1, <1>2, PTL

-----------------------------------------------------------------------------
(* A check sees what applies to the asker in every state it passes through.  *)

LEMMA SeenGrows ==
  ASSUME PermsTypeInv, Note, NEW w \in Worker
  PROVE  IF rpc'[w].op = "checkChannel"
         THEN seen[w] \subseteq seen'[w] /\ Noted(w)' \in seen'[w]
         ELSE seen'[w] = {}
  BY DEF Note

LEMMA WorkerCases ==
  ASSUME PermsTypeInv, Next, NEW v \in Worker
  PROVE  rpc'[v] = rpc[v] \/ Moves(v, rpc'[v])
<1>1. ASSUME NEW w \in Worker, Step(w)
      PROVE  rpc'[v] = rpc[v] \/ Moves(v, rpc'[v])
  <2>1. PICK r \in Request : Becomes(w, r) /\ Moves(w, r)
    BY <1>1, StepMove
  <2> QED BY <2>1 DEF Becomes
<1> QED BY <1>1 DEF Next, RoleChange, GuildChange, MemberChange, Expire

\* What each kind of move makes of the fields.
LEMMA WentFields ==
  ASSUME NEW r, NEW pc, NEW granted, NEW answer
  PROVE  LET s == Went(r, pc, granted, answer)
         IN  /\ s.op = r.op /\ s.pc = pc /\ s.user = r.user /\ s.chan = r.chan
             /\ s.granted = granted /\ s.answer = answer
  BY DEF Went

Grounded(w) == \E n \in seen[w] : n.grounds

\* What speaks for the asker now is seen, and so is what a grant or an answer rests on.
GroundsInv ==
    \A w \in Worker : rpc[w].op = "checkChannel" =>
        /\ Noted(w) \in seen[w]
        /\ rpc[w].granted => Grounded(w)
        /\ rpc[w].pc = "answered" /\ rpc[w].answer => Grounded(w)

\* A decision for the asker has grounds at the moment it is made.
LEMMA NowGrounded ==
  ASSUME NEW w \in Worker, Noted(w) \in seen[w], Grounds(rpc[w].user, rpc[w].chan)
  PROVE  Grounded(w)
  BY DEF Noted, Grounded

LEMMA BypassIsGrounds ==
  ASSUME NEW u, NEW c, c \notin DM, OwnerOrAdmin(u) \/ Check(u, Asked)
  PROVE  Grounds(u, c)
  BY DEF OwnerOrAdmin, Check, Grounds

LEMMA KeptIsThere ==
  ASSUME NEW sticky, NEW effects, NEW e \in Kept(sticky, effects), e # "none"
  PROVE  e \in effects
  BY DEF Kept

LEMMA OverrideIsGrounds ==
  ASSUME NEW u, NEW c, c \notin DM, NEW some \in SUBSET RolesOf(u),
         \/ "allow" \in Kept("deny", Effects(c, {u}))
         \/ "allow" \in Kept("allow", Effects(c, some))
  PROVE  Grounds(u, c)
<1>1. "allow" \in Effects(c, {u}) \/ "allow" \in Effects(c, some)
  BY KeptIsThere
<1> QED BY <1>1 DEF Grounds, Effects

LEMMA GroundsMove ==
  ASSUME PermsTypeInv, GroundsInv, Note, NEW w \in Worker, Moves(w, rpc'[w]),
         rpc'[w].op = "checkChannel"
  PROVE  /\ rpc'[w].granted => Grounded(w)'
         /\ rpc'[w].pc = "answered" /\ rpc'[w].answer => Grounded(w)'
<1> DEFINE r == rpc'[w]
           o == rpc[w]
<1>0. o \in Request /\ Fits(o)
  BY DEF PermsTypeInv, ChannelPermsTypeOK
<1>1. Grounded(w) => Grounded(w)'
  BY SeenGrows DEF Grounded
<1>2. CASE Begins(w, r)
  BY <1>2 DEF Begins
<1>3. CASE Writes(w, r)
  BY <1>3 DEF Writes
<1>4. CASE Checks(w, r)
  <2>0. r # Idle
    BY IdleFits
  <2>1. o.pc \in Checking
    BY <1>4, <2>0 DEF Checks, Denied, Resolved, MemberRead, Bypassed, NotBypassed, GrantRead,
                      Decided, PartlyDecided, PassedOver, Checking, InGuild
  <2>2. o.op = "checkChannel"
    BY <1>0, <2>1 DEF Fits
  <2>3. Noted(w) \in seen[w] /\ (o.granted => Grounded(w))
    BY <2>2 DEF GroundsInv
  <2>4. Grounds(o.user, o.chan) => Grounded(w)
    BY <2>3, NowGrounded
  <2>5. CASE Denied(w, r) \/ Resolved(w, r) \/ NotBypassed(w, r)
    <3>1. CASE Denied(w, r)
      <4>0. r = Went(o, "answered", o.granted, FALSE)
        BY <3>1 DEF Denied
      <4>1. r.granted = o.granted /\ ~r.answer
        BY <4>0 DEF Went
      <4> QED BY <1>1, <2>3, <4>1
    <3>2. CASE Resolved(w, r)
      <4>1. PICK pc \in {"cacheChannelGuild", AfterGuild(o.chan)} :
                r = Went(o, pc, o.granted, o.answer)
        BY <3>2 DEF Resolved
      <4>2. r.granted = o.granted /\ r.pc # "answered"
        BY <4>1, WentFields DEF AfterGuild
      <4> QED BY <1>1, <2>3, <4>2
    <3>3. CASE NotBypassed(w, r)
      <4>1. r.granted = o.granted /\ r.pc # "answered"
        BY <3>3, WentFields DEF NotBypassed
      <4> QED BY <1>1, <2>3, <4>1
    <3> QED BY <2>5, <3>1, <3>2, <3>3
  <2>6. CASE Bypassed(w, r)
    <3>1. Grounds(o.user, o.chan)
      BY <1>0, <2>6, BypassIsGrounds DEF Bypassed, Fits, InGuild
    <3> QED BY <1>1, <2>4, <3>1
  <2>7. CASE GrantRead(w, r)
    <3>1. PICK yes \in BOOLEAN :
            /\ yes = Check(o.user, Asked) \/ (faults' # 0 /\ yes = o.granted)
            /\ r = Went(o, "applyChannelOverride", yes, o.answer)
      BY <2>7 DEF GrantRead
    <3>2. r.granted = yes /\ r.pc # "answered"
      BY <3>1, WentFields
    <3>3. yes => Grounded(w)
      BY <1>0, <2>3, <2>4, <2>7, <3>1, BypassIsGrounds DEF GrantRead, Fits, InGuild
    <3> QED BY <1>1, <3>2, <3>3
  <2>8. CASE Decided(w, r) \/ PartlyDecided(w, r)
    <3>0. PICK some \in SUBSET RolesOf(o.user) :
            \E byUser \in Kept("deny", Effects(o.chan, {o.user})),
               byRole \in Kept("allow", Effects(o.chan, some)) :
            r = Went(o, "answered", o.granted, Applied(byUser, byRole, o.granted))
      BY <2>8 DEF Decided, PartlyDecided
    <3>1. PICK byUser \in Kept("deny", Effects(o.chan, {o.user})),
               byRole \in Kept("allow", Effects(o.chan, some)) :
            r = Went(o, "answered", o.granted, Applied(byUser, byRole, o.granted))
      BY <3>0
    <3>5. o.chan \notin DM
      BY <1>0, <2>8 DEF Decided, PartlyDecided, Fits, InGuild
    <3>2. r.granted = o.granted /\ r.answer = Applied(byUser, byRole, o.granted)
      BY <3>1, WentFields
    <3>3. r.answer => byUser = "allow" \/ byRole = "allow" \/ o.granted
      BY <3>2 DEF Applied
    <3>4. byUser = "allow" \/ byRole = "allow" => Grounds(o.user, o.chan)
      BY <3>5, OverrideIsGrounds
    <3> QED BY <1>1, <2>3, <2>4, <3>2, <3>3, <3>4
  <2>9. CASE PassedOver(w, r)
    <3>1. r.granted = o.granted /\ r.answer = o.granted
      BY <2>9, WentFields DEF PassedOver
    <3> QED BY <1>1, <2>3, <3>1
  <2>10. CASE MemberRead(w, r)
    <3>1. PICK yes \in BOOLEAN :
            /\ yes = (<<o.chan, o.user>> \in dmMembers) \/ (faults' # 0 /\ ~yes)
            /\ r = Went(o, "answered", o.granted, yes)
      BY <2>10 DEF MemberRead
    <3>2. r.granted = o.granted /\ r.answer = yes
      BY <3>1, WentFields
    <3>3. o.chan \in DM
      BY <1>0, <2>10 DEF MemberRead, Fits
    <3>4. yes => Grounds(o.user, o.chan)
      BY <3>1, <3>3 DEF Grounds
    <3> QED BY <1>1, <2>3, <2>4, <3>2, <3>4
  <2> QED BY <1>4, <2>0, <2>5, <2>6, <2>7, <2>8, <2>9, <2>10 DEF Checks
<1> QED BY <1>2, <1>3, <1>4 DEF Moves

LEMMA SameNoted ==
  ASSUME UNCHANGED vars, NEW w \in Worker
  PROVE  Noted(w)' = Noted(w)
<1>1. \A u : RolesOf(u)' = RolesOf(u)
  BY DEF vars, rows, authzVars, RolesOf, LiveRoles
<1>2. \A u, p : HoldsThroughRole(u, p)' = HoldsThroughRole(u, p)
  BY <1>1 DEF vars, rows, authzVars, HoldsThroughRole
<1>3. \A u : IsOwner(u)' = IsOwner(u)
  BY DEF vars, rows, authzVars, IsOwner
<1>4. \A u, p : Check(u, p)' = Check(u, p) /\ OwnerOrAdmin(u)' = OwnerOrAdmin(u)
  BY <1>2, <1>3 DEF Check, OwnerOrAdmin
<1>5. \A c, ts : Effects(c, ts)' = Effects(c, ts)
  BY DEF vars, rows, Effects
<1>6. \A u, c : ReasonFor(u, c)' = ReasonFor(u, c)
  BY <1>1, <1>4, <1>5 DEF vars, rows, ReasonFor
<1>7. \A u, c : Grounds(u, c)' = Grounds(u, c)
  BY <1>1, <1>4, <1>5 DEF vars, rows, Grounds
<1> QED BY <1>6, <1>7 DEF vars, Noted

LEMMA GroundsStep == PermsTypeInv /\ GroundsInv /\ [Next]_vars => GroundsInv'
<1> SUFFICES ASSUME PermsTypeInv, GroundsInv, [Next]_vars PROVE GroundsInv'
  OBVIOUS
<1>1. CASE Next
  <2> SUFFICES ASSUME NEW w \in Worker, rpc'[w].op = "checkChannel"
               PROVE  /\ Noted(w)' \in seen'[w]
                      /\ rpc'[w].granted => Grounded(w)'
                      /\ rpc'[w].pc = "answered" /\ rpc'[w].answer => Grounded(w)'
    BY DEF GroundsInv
  <2>1. Noted(w)' \in seen'[w] /\ seen[w] \subseteq seen'[w]
    BY <1>1, SeenGrows DEF Next
  <2>2. CASE rpc'[w] = rpc[w]
    BY <2>1, <2>2 DEF GroundsInv, Grounded
  <2>3. CASE Moves(w, rpc'[w])
    BY <1>1, <2>1, <2>3, GroundsMove DEF Next
  <2> QED BY <1>1, <2>2, <2>3, WorkerCases
<1>2. CASE UNCHANGED vars
  BY <1>2, SameNoted DEF vars, GroundsInv, Grounded
<1> QED BY <1>1, <1>2

\* checkChannel never lets anybody in for whom no bypass, grant or allow spoke at any
\* moment of the check, whatever rows change between its statements, whichever of them
\* fail, and whether or not the cache still knows a deleted channel.
THEOREM NobodyEntersWithoutGrounds == Spec => []AdmittedOnGrounds
<1>1. Init => GroundsInv
  BY IdleFits DEF Init, GroundsInv
<1>2. PermsTypeInv /\ GroundsInv => AdmittedOnGrounds
  BY DEF PermsTypeInv, GroundsInv, AdmittedOnGrounds, Fits, Checking, InGuild, Grounded
<1> QED BY <1>1, <1>2, PermsTypeInit, PermsTypeStep, GroundsStep, PTL DEF Spec

-----------------------------------------------------------------------------
(* A steady reason decides.                                                  *)

\* The one reason seen so far.
Steady(w, x) ==
    x \in Reason \ {"no channel", "roles disagree"} /\ {n.reason : n \in seen[w]} = {x}

\* What a check that has seen only x has found out.
SteadyInv ==
    faults = 0 => \A w \in Worker, x \in Reason : Steady(w, x) =>
        /\ rpc[w].pc \in {"Check", "applyChannelOverride"} => x # "bypass"
        /\ rpc[w].pc = "applyChannelOverride" =>
            (x = "granted" => rpc[w].granted) /\ (x = "not granted" => ~rpc[w].granted)
        /\ rpc[w].pc = "answered" => rpc[w].answer = Allows(x)

\* A reason that is still steady after a step was so before, and is the one that applied.
LEMMA SteadyBefore ==
  ASSUME PermsTypeInv, GroundsInv, Note, NEW w \in Worker, NEW x, Steady(w, x)',
         rpc[w].op = "checkChannel", rpc'[w].op = "checkChannel"
  PROVE  Steady(w, x) /\ ReasonFor(rpc[w].user, rpc[w].chan) = x
<1>1. Noted(w) \in seen[w] /\ seen[w] \subseteq seen'[w]
  BY SeenGrows DEF GroundsInv
<1>2. \A n \in seen[w] : n.reason = x
  BY <1>1 DEF Steady
<1>3. Noted(w).reason = x
  BY <1>1, <1>2
<1>4. {n.reason : n \in seen[w]} = {x}
  BY <1>1, <1>2
<1> QED BY <1>3, <1>4 DEF Steady, Noted

\* The user's own row, if any, is what the loop leaves of the user layer.
LEMMA UserRowKept ==
  ASSUME NEW c, NEW u, NEW byUser \in Kept("deny", Effects(c, {u}))
  PROVE  byUser = overrides[c][u]
<1>1. Effects(c, {u}) = {overrides[c][u]} \ {"none"}
  BY DEF Effects
<1>2. CASE overrides[c][u] = "none"
  BY <1>1, <1>2 DEF Kept
<1>3. CASE overrides[c][u] # "none"
  BY <1>1, <1>3 DEF Kept
<1> QED BY <1>2, <1>3

\* An allow among the role rows is what the loop leaves of the role layer, whatever the
\* order of the rows.
LEMMA RoleRowsKept ==
  ASSUME PermsTypeInv, NEW c \in Channel, NEW u, NEW byRole \in Kept("allow", Effects(c, RolesOf(u)))
  PROVE  LET rowEffects == Effects(c, RolesOf(u)) IN
         /\ byRole = "none" <=> rowEffects = {}
         /\ byRole = "allow" <=> "allow" \in rowEffects
<1> DEFINE rowEffects == Effects(c, RolesOf(u))
<1>1. "none" \notin rowEffects
  BY DEF Effects
<1> HIDE DEF rowEffects
<1>2. byRole \in Kept("allow", rowEffects)
  BY DEF rowEffects
<1>3. (byRole = "none" <=> rowEffects = {}) /\ (byRole = "allow" <=> "allow" \in rowEffects)
  <2>1. CASE rowEffects = {}
    BY <1>2, <2>1 DEF Kept
  <2>2. CASE "allow" \in rowEffects
    BY <1>2, <2>2 DEF Kept
  <2>3. CASE rowEffects # {} /\ "allow" \notin rowEffects
    BY <1>1, <1>2, <2>3 DEF Kept
  <2> QED BY <2>1, <2>2, <2>3
<1> QED BY <1>3 DEF rowEffects

LEMMA AllowsType == \A x : Allows(x) \in BOOLEAN
  BY SMT DEF Allows

LEMMA DecidedByReason ==
  ASSUME PermsTypeInv, NEW w \in Worker, rpc[w].user \in User, rpc[w].chan \in Channel,
         NEW byUser \in Kept("deny", Effects(rpc[w].chan, {rpc[w].user})),
         NEW byRole \in Kept("allow", Effects(rpc[w].chan, RolesOf(rpc[w].user))),
         NEW x, x = ReasonFor(rpc[w].user, rpc[w].chan), rpc[w].chan \notin DM,
         x \notin {"no channel", "bypass", "roles disagree"},
         x = "granted" => rpc[w].granted, x = "not granted" => ~rpc[w].granted
  PROVE  Applied(byUser, byRole, rpc[w].granted) = Allows(x)
<1> DEFINE u == rpc[w].user
           c == rpc[w].chan
           granted == rpc[w].granted
<1>0. granted \in BOOLEAN
  BY DEF PermsTypeInv, ChannelPermsTypeOK, Request
<1>1. overrides[c][u] \in {"allow", "deny", "none"}
  BY DEF PermsTypeInv, ChannelPermsTypeOK, Target
<1>2. byUser = overrides[c][u]
  BY UserRowKept
<1> DEFINE rowEffects == Effects(c, RolesOf(u))
<1>3. (byRole = "none" <=> rowEffects = {}) /\ (byRole = "allow" <=> "allow" \in rowEffects)
  BY RoleRowsKept
<1>4. x = IF overrides[c][u] # "none"
          THEN IF overrides[c][u] = "deny" THEN "user deny" ELSE "user allow"
          ELSE IF rowEffects # {}
               THEN IF rowEffects = {"allow"} THEN "role allow"
                    ELSE IF rowEffects = {"deny"} THEN "role deny" ELSE "roles disagree"
          ELSE IF Check(u, Asked) THEN "granted" ELSE "not granted"
  BY DEF ReasonFor
<1> HIDE DEF rowEffects
<1>5. CASE overrides[c][u] # "none"
  <2>1. Applied(byUser, byRole, granted) <=> byUser = "allow"
    BY <1>2, <1>5 DEF Applied
  <2>2. Allows(x) <=> overrides[c][u] = "allow"
    BY <1>1, <1>4, <1>5 DEF Allows
  <2>3. Applied(byUser, byRole, granted) \in BOOLEAN /\ Allows(x) \in BOOLEAN
    BY <1>0, AllowsType DEF Applied
  <2> QED BY <1>2, <2>1, <2>2, <2>3
<1>6. CASE overrides[c][u] = "none" /\ rowEffects # {}
  <2>1. Applied(byUser, byRole, granted) <=> byRole = "allow"
    BY <1>2, <1>3, <1>6 DEF Applied
  <2>2. Allows(x) <=> "allow" \in rowEffects
    BY <1>4, <1>6 DEF Allows
  <2>3. Applied(byUser, byRole, granted) \in BOOLEAN /\ Allows(x) \in BOOLEAN
    BY <1>0, AllowsType DEF Applied
  <2> QED BY <1>3, <2>1, <2>2, <2>3
<1>7. CASE overrides[c][u] = "none" /\ rowEffects = {}
  <2>1. Applied(byUser, byRole, granted) = granted
    BY <1>2, <1>3, <1>7 DEF Applied
  <2>2. Allows(x) <=> x = "granted"
    BY <1>4, <1>7 DEF Allows
  <2>3. x \in {"granted", "not granted"}
    BY <1>4, <1>7
  <2>4. Allows(x) \in BOOLEAN
    BY AllowsType
  <2> QED BY <1>0, <2>1, <2>2, <2>3, <2>4
<1> QED BY <1>5, <1>6, <1>7

LEMMA SteadyMove ==
  ASSUME PermsTypeInv, GroundsInv, SteadyInv, Note, faults = 0, faults' = 0,
         NEW w \in Worker, NEW x \in Reason, Steady(w, x)', Moves(w, rpc'[w]),
         rpc'[w].op = "checkChannel"
  PROVE  /\ rpc'[w].pc \in {"Check", "applyChannelOverride"} => x # "bypass"
         /\ rpc'[w].pc = "applyChannelOverride" =>
                (x = "granted" => rpc'[w].granted) /\ (x = "not granted" => ~rpc'[w].granted)
         /\ rpc'[w].pc = "answered" => rpc'[w].answer = Allows(x)
<1> DEFINE r == rpc'[w]
           o == rpc[w]
<1>0. o \in Request /\ Fits(o) /\ o.granted \in BOOLEAN
  BY DEF PermsTypeInv, ChannelPermsTypeOK, Request
<1>1. CASE Begins(w, r)
  BY <1>1 DEF Begins
<1>2. CASE Writes(w, r)
  BY <1>2 DEF Writes
<1>3. CASE Checks(w, r)
  <2>0. r # Idle
    BY IdleFits
  <2>1. o.pc \in Checking
    BY <1>3, <2>0 DEF Checks, Denied, Resolved, MemberRead, Bypassed, NotBypassed, GrantRead,
                      Decided, PartlyDecided, PassedOver, Checking, InGuild
  <2>2. o.op = "checkChannel" /\ o.user \in User /\ o.chan \in Channel
    BY <1>0, <2>1 DEF Fits, Checking
  <2>3. /\ Steady(w, x) /\ ReasonFor(o.user, o.chan) = x
        /\ x \notin {"no channel", "roles disagree"}
    BY <2>2, SteadyBefore DEF Steady
  <2>4. /\ o.pc \in {"Check", "applyChannelOverride"} => x # "bypass"
        /\ o.pc = "applyChannelOverride" =>
            (x = "granted" => o.granted) /\ (x = "not granted" => ~o.granted)
    BY <2>3 DEF SteadyInv
  <2>5. CASE Denied(w, r)
    BY <2>3, <2>5 DEF Denied, ReasonFor
  <2>6. CASE Resolved(w, r)
    <3>1. PICK pc \in {"cacheChannelGuild", AfterGuild(o.chan)} :
              r = Went(o, pc, o.granted, o.answer)
      BY <2>6 DEF Resolved
    <3>2. r.pc \in {"cacheChannelGuild", "isDMMember", "isOwnerOrAdmin"}
      BY <3>1, WentFields DEF AfterGuild
    <3> QED BY <3>2
  <2>7. CASE Bypassed(w, r)
    <3>1. x = "bypass"
      BY <1>0, <2>3, <2>7 DEF Bypassed, ReasonFor, Fits, InGuild
    <3>2. r.pc = "answered" /\ r.answer
      BY <2>7 DEF Bypassed, Went
    <3> QED BY <3>1, <3>2 DEF Allows
  <2>8. CASE NotBypassed(w, r)
    <3>1. x # "bypass"
      BY <1>0, <2>3, <2>8 DEF NotBypassed, ReasonFor, Fits, InGuild
    <3>2. r.pc = "Check"
      BY <2>8, WentFields DEF NotBypassed
    <3> QED BY <3>1, <3>2
  <2>9. CASE GrantRead(w, r)
    <3>1. r = Went(o, "applyChannelOverride", Check(o.user, Asked), o.answer)
      BY <2>9 DEF GrantRead
    <3>2. r.pc = "applyChannelOverride" /\ r.granted = Check(o.user, Asked)
      BY <3>1, WentFields
    <3>3. x # "bypass"
      BY <2>4, <2>9 DEF GrantRead
    <3>4. (x = "granted" => Check(o.user, Asked)) /\ (x = "not granted" => ~Check(o.user, Asked))
      BY <2>3 DEF ReasonFor
    <3> QED BY <3>2, <3>3, <3>4
  <2>10. CASE Decided(w, r)
    <3>1. PICK byUser \in Kept("deny", Effects(o.chan, {o.user})),
               byRole \in Kept("allow", Effects(o.chan, RolesOf(o.user))) :
            r = Went(o, "answered", o.granted, Applied(byUser, byRole, o.granted))
      BY <2>10 DEF Decided
    <3>2. r.pc = "answered" /\ r.answer = Applied(byUser, byRole, o.granted)
      BY <3>1, WentFields
    <3>3. /\ x \notin {"no channel", "bypass", "roles disagree"} /\ o.chan \notin DM
          /\ (x = "granted" => o.granted) /\ (x = "not granted" => ~o.granted)
      BY <1>0, <2>3, <2>4, <2>10 DEF Decided, Fits, InGuild
    <3>4. x = ReasonFor(o.user, o.chan)
      BY <2>3
    <3>5. Applied(byUser, byRole, o.granted) = Allows(x)
      BY <2>2, <3>3, <3>4, DecidedByReason
    <3> QED BY <3>2, <3>5
  <2>11. CASE PassedOver(w, r) \/ PartlyDecided(w, r)
    BY <2>11 DEF PassedOver, PartlyDecided
  <2>12. CASE MemberRead(w, r)
    <3>1. PICK yes \in BOOLEAN :
            /\ yes = (<<o.chan, o.user>> \in dmMembers)
            /\ r = Went(o, "answered", o.granted, yes)
      BY <2>12 DEF MemberRead
    <3>2. r.pc = "answered" /\ r.answer = yes
      BY <3>1, WentFields
    <3>3. o.chan \in DM
      BY <1>0, <2>12 DEF MemberRead, Fits
    <3>4. x = IF <<o.chan, o.user>> \in dmMembers THEN "member" ELSE "not member"
      BY <2>3, <3>3 DEF ReasonFor
    <3>5. yes <=> Allows(x)
      <4>1. CASE yes
        BY <3>1, <3>4, <4>1 DEF Allows
      <4>2. CASE ~yes
        BY <3>1, <3>4, <4>2 DEF Allows
      <4> QED BY <4>1, <4>2
    <3>6. yes = Allows(x)
      BY <3>5, AllowsType
    <3> QED BY <3>2, <3>6
  <2> QED BY <1>3, <2>0, <2>5, <2>6, <2>7, <2>8, <2>9, <2>10, <2>11, <2>12 DEF Checks
<1> QED BY <1>1, <1>2, <1>3 DEF Moves

LEMMA SteadyStep == PermsTypeInv /\ GroundsInv /\ SteadyInv /\ [Next]_vars => SteadyInv'
<1> SUFFICES ASSUME PermsTypeInv, GroundsInv, SteadyInv, [Next]_vars PROVE SteadyInv'
  OBVIOUS
<1>1. CASE Next
  <2> SUFFICES ASSUME faults' = 0, NEW w \in Worker, NEW x \in Reason, Steady(w, x)'
               PROVE  /\ rpc'[w].pc \in {"Check", "applyChannelOverride"} => x # "bypass"
                      /\ rpc'[w].pc = "applyChannelOverride" =>
                            /\ x = "granted" => rpc'[w].granted
                            /\ x = "not granted" => ~rpc'[w].granted
                      /\ rpc'[w].pc = "answered" => rpc'[w].answer = Allows(x)
    BY DEF SteadyInv, Allows
  <2>1. faults = 0
    BY <1>1, RowsType DEF Next
  <2>2. rpc'[w].op = "checkChannel"
    BY <1>1, SeenGrows DEF Next, Steady
  <2>3. CASE rpc'[w] = rpc[w]
    <3>1. Steady(w, x)
      BY <1>1, <2>2, <2>3, SteadyBefore DEF Next
    <3> QED BY <2>1, <2>3, <3>1 DEF SteadyInv
  <2>4. CASE Moves(w, rpc'[w])
    BY <1>1, <2>1, <2>2, <2>4, SteadyMove DEF Next
  <2> QED BY <1>1, <2>3, <2>4, WorkerCases
<1>2. CASE UNCHANGED vars
  BY <1>2 DEF vars, SteadyInv, Steady, Allows
<1> QED BY <1>1, <1>2

\* However overrides, roles and grants change around it, a check that has seen one
\* reason only answers by it: in a DM the membership, in a guild the user's deny or allow,
\* what the roles agree on and the guild's grant in this order, the bypass before all of
\* them, in whatever order the query returns the rows and whatever the cache holds.  Of
\* roles that disagree it says nothing.
THEOREM SteadyReasonIsObeyed == Spec => []SteadyReasonDecides
<1>1. Init => GroundsInv
  BY IdleFits DEF Init, GroundsInv
<1>2. Init => SteadyInv
  BY IdleFits DEF Init, SteadyInv
<1>3. SteadyInv => SteadyReasonDecides
  BY DEF SteadyInv, SteadyReasonDecides, Steady
<1> QED BY <1>1, <1>2, <1>3, PermsTypeInit, PermsTypeStep, GroundsStep, SteadyStep, PTL DEF Spec

-----------------------------------------------------------------------------
(* Gateway: counting the requests of a window.  InWindow is a cardinality,    *)
(* so that one request more is one pair more, and a tick maps the pairs of   *)
(* the ages below b onto those of the ages below b + 1.                       *)

Counts == [Age -> Nat]

Pairs(n, b) == UNION {{a} \X (1 .. n[a]) : a \in 0 .. b - 1}

Total(n, b) == Cardinality(Pairs(n, b))

LEMMA PairsIn ==
  ASSUME NEW n, NEW b, NEW p
  PROVE  p \in Pairs(n, b) <=> \E a \in 0 .. b - 1 : \E i \in 1 .. n[a] : p = <<a, i>>
<1>1. p \in Pairs(n, b) <=> \E a \in 0 .. b - 1 : p \in {a} \X (1 .. n[a])
  BY DEF Pairs
<1>2. \A a : p \in {a} \X (1 .. n[a]) <=> \E i \in 1 .. n[a] : p = <<a, i>>
  OBVIOUS
<1> QED BY <1>1, <1>2

LEMMA PairsFinite ==
  ASSUME NEW n \in Counts, NEW b \in 0 .. Window
  PROVE  IsFiniteSet(Pairs(n, b)) /\ Total(n, b) \in Nat
<1>0. Window \in Nat
  BY GatewayConstants
<1> DEFINE slice == [a \in 0 .. b - 1 |-> {a} \X (1 .. n[a])]
           slices == {{a} \X (1 .. n[a]) : a \in 0 .. b - 1}
<1>1. slice \in Surjection(0 .. b - 1, slices)
  BY DEF Surjection
<1>2. IsFiniteSet(0 .. b - 1)
  BY <1>0, FS_Interval
<1>3. IsFiniteSet(slices)
  BY <1>1, <1>2, FS_Surjection
<1>4. \A s \in slices : IsFiniteSet(s)
  <2> SUFFICES ASSUME NEW a \in 0 .. b - 1 PROVE IsFiniteSet({a} \X (1 .. n[a]))
    OBVIOUS
  <2>1. n[a] \in Nat
    BY <1>0 DEF Counts, Age
  <2>2. IsFiniteSet(1 .. n[a])
    <3>1. \A m \in Nat : IsFiniteSet(1 .. m)
      BY FS_Interval
    <3> QED BY <2>1, <3>1
  <2>3. IsFiniteSet({a})
    BY FS_Singleton
  <2> QED BY <2>2, <2>3, FS_Product
<1>5. IsFiniteSet(UNION slices)
  BY <1>3, <1>4, FS_UNION
<1> QED BY <1>5, FS_CardinalityType DEF Pairs, Total

LEMMA TotalNone ==
  ASSUME NEW b \in 0 .. Window
  PROVE  Total(Zero, b) = 0
<1>0. Window \in Nat
  BY GatewayConstants
<1>1. \A a \in 0 .. b - 1 : Zero[a] = 0
  BY <1>0 DEF Zero, Age
<1>2. \A p : p \notin Pairs(Zero, b)
  BY <1>1, PairsIn
<1>3. Pairs(Zero, b) = {}
  BY <1>2
<1> QED BY <1>3, FS_EmptySet DEF Total

LEMMA TotalBelowZero ==
  ASSUME NEW n
  PROVE  Total(n, 0) = 0
<1>1. \A p : p \notin Pairs(n, 0)
  BY PairsIn
<1>2. Pairs(n, 0) = {}
  BY <1>1
<1> QED BY <1>2, FS_EmptySet DEF Total

LEMMA TotalGrows ==
  ASSUME NEW n \in Counts, NEW b \in 0 .. Window, NEW c \in b .. Window
  PROVE  Total(n, b) <= Total(n, c)
<1>0. Window \in Nat
  BY GatewayConstants
<1>1. \A p : p \in Pairs(n, b) => p \in Pairs(n, c)
  BY PairsIn
<1>2. Pairs(n, b) \in SUBSET Pairs(n, c)
  BY <1>1
<1>3. c \in 0 .. Window
  BY <1>0
<1> QED BY <1>2, <1>3, PairsFinite, FS_Subset DEF Total

LEMMA TotalPositive ==
  ASSUME NEW n \in Counts, NEW a \in Age, n[a] > 0
  PROVE  Total(n, Window) > 0
<1>0. Window \in Nat
  BY GatewayConstants
<1>1. <<a, 1>> \in Pairs(n, Window)
  BY <1>0, PairsIn DEF Age, Counts
<1> QED BY <1>0, <1>1, PairsFinite, FS_EmptySet DEF Total

LEMMA MoreCounts ==
  ASSUME NEW n \in Counts
  PROVE  /\ More(n) \in Counts
         /\ More(n)[0] = n[0] + 1
         /\ \A a \in Age \ {0} : More(n)[a] = n[a]
<1>1. 0 \in Age
  BY GatewayConstants DEF Age
<1> QED BY <1>1 DEF More, Counts

LEMMA TotalMore ==
  ASSUME NEW n \in Counts, NEW b \in 1 .. Window
  PROVE  Total(More(n), b) = Total(n, b) + 1
<1>0. Window \in Nat /\ 0 \in Age /\ b \in 0 .. Window /\ 0 .. b - 1 \subseteq Age
  BY GatewayConstants DEF Age
<1> DEFINE x == <<0, n[0] + 1>>
<1>1. n[0] \in Nat
  BY <1>0 DEF Counts
<1>2. x \notin Pairs(n, b)
  BY <1>1, PairsIn
<1>3. \A p : p \in Pairs(More(n), b) <=> p \in Pairs(n, b) \/ p = x
  <2> TAKE p
  <2>1. p \in Pairs(More(n), b) <=> \E a \in 0 .. b - 1 : \E i \in 1 .. More(n)[a] : p = <<a, i>>
    BY PairsIn
  <2>2. p \in Pairs(n, b) <=> \E a \in 0 .. b - 1 : \E i \in 1 .. n[a] : p = <<a, i>>
    BY PairsIn
  <2>3. (\E i \in 1 .. More(n)[0] : p = <<0, i>>) <=> (\E i \in 1 .. n[0] : p = <<0, i>>) \/ p = x
    BY <1>1, MoreCounts
  <2>4. \A a \in (0 .. b - 1) \ {0} : More(n)[a] = n[a]
    BY <1>0, MoreCounts
  <2>5. 0 \in 0 .. b - 1
    OBVIOUS
  <2> QED BY <2>1, <2>2, <2>3, <2>4, <2>5
<1>4. Pairs(More(n), b) = Pairs(n, b) \cup {x}
  BY <1>3
<1> HIDE DEF x
<1> QED BY <1>0, <1>2, <1>4, PairsFinite, FS_AddElement DEF Total

LEMMA OlderCounts ==
  ASSUME NEW n \in Counts
  PROVE  /\ Older(n) \in Counts
         /\ Older(n)[0] = 0
         /\ \A a \in Age \ {0} : a - 1 \in Age /\ Older(n)[a] = n[a - 1]
<1>1. Window \in Nat /\ 0 \in Age /\ \A a \in Age \ {0} : a - 1 \in Age
  BY GatewayConstants DEF Age
<1> QED BY <1>1 DEF Older, Counts

LEMMA TotalOlder ==
  ASSUME NEW n \in Counts, NEW b \in 0 .. Window - 1
  PROVE  Total(Older(n), b + 1) <= Total(n, b)
<1>0. Window \in Nat /\ b \in 0 .. Window /\ 0 .. b \subseteq Age
  BY GatewayConstants DEF Age
<1> DEFINE f == [p \in Pairs(n, b) |-> <<p[1] + 1, p[2]>>]
<1>1. \A p \in Pairs(n, b) : f[p] \in Pairs(Older(n), b + 1)
  <2> SUFFICES ASSUME NEW p \in Pairs(n, b) PROVE <<p[1] + 1, p[2]>> \in Pairs(Older(n), b + 1)
    OBVIOUS
  <2>0. PICK a \in 0 .. b - 1 : \E i \in 1 .. n[a] : p = <<a, i>>
    BY PairsIn
  <2>1. PICK i \in 1 .. n[a] : p = <<a, i>>
    BY <2>0
  <2>2. a + 1 \in 0 .. (b + 1) - 1 /\ a + 1 \in Age \ {0} /\ (a + 1) - 1 = a
    BY <1>0 DEF Age
  <2>3. Older(n)[a + 1] = n[a]
    BY <2>2, OlderCounts
  <2>4. <<a + 1, i>> \in Pairs(Older(n), b + 1)
    BY <2>2, <2>3, PairsIn
  <2> QED BY <2>1, <2>4
<1>2. \A q \in Pairs(Older(n), b + 1) : \E p \in Pairs(n, b) : f[p] = q
  <2> SUFFICES ASSUME NEW q \in Pairs(Older(n), b + 1) PROVE \E p \in Pairs(n, b) : f[p] = q
    OBVIOUS
  <2>0. PICK a \in 0 .. (b + 1) - 1 : \E i \in 1 .. Older(n)[a] : q = <<a, i>>
    BY PairsIn
  <2>1. PICK i \in 1 .. Older(n)[a] : q = <<a, i>>
    BY <2>0
  <2>2. a # 0
    BY <2>1, OlderCounts
  <2>3. a \in Age \ {0} /\ a - 1 \in 0 .. b - 1 /\ (a - 1) + 1 = a
    BY <1>0, <2>2
  <2>4. Older(n)[a] = n[a - 1]
    BY <2>3, OlderCounts
  <2>5. <<a - 1, i>> \in Pairs(n, b)
    BY <2>3, <2>4, PairsIn
  <2>6. f[<<a - 1, i>>] = q
    BY <2>1, <2>3, <2>5
  <2> QED BY <2>5, <2>6
<1>3. f \in Surjection(Pairs(n, b), Pairs(Older(n), b + 1))
  BY <1>1, <1>2 DEF Surjection
<1> QED BY <1>0, <1>3, PairsFinite, FS_Surjection DEF Total

-----------------------------------------------------------------------------
(* One counter.  While it has a TTL, what was let through since the EXPIRE    *)
(* that set it was let through by failing pipelines; without a TTL it holds   *)
(* nothing but failures.                                                      *)

LogOf(k) == At(log, k, NoLog)

Entries == [arrived : Counts, admitted : Counts, faults : Nat]

KeyInv(k) ==
    /\ LogOf(k) \in Entries
    /\ Total(LogOf(k).admitted, Window) <= CountOf(k) + LogOf(k).faults
    /\ k \in DOMAIN bucket =>
        /\ bucket[k].count \in Nat
        /\ bucket[k].ttl \in 1 .. NoTTL
        /\ bucket[k].ttl = NoTTL => bucket[k].count <= LogOf(k).faults
        /\ bucket[k].ttl # NoTTL =>
            /\ Total(LogOf(k).admitted, Window - bucket[k].ttl) <= LogOf(k).faults
            /\ LogOf(k).arrived[Window - bucket[k].ttl] > 0

QuotaInv == \A k \in Key : KeyInv(k)

LEMMA LimitPositive == \A k : Limit(k) \in Nat \ {0}
  BY GatewayConstants DEF Limit, LimitOf

LEMMA NoLogEntries == NoLog \in Entries /\ Zero \in Counts /\ Older(Zero) = Zero
<1>1. Zero \in Counts
  BY DEF Zero, Counts
<1>2. Older(Zero) = Zero
  BY GatewayConstants DEF Older, Zero, Age
<1> QED BY <1>1, <1>2 DEF NoLog, Entries

LEMMA AtSet ==
  ASSUME NEW f, NEW x, NEW v, NEW y, NEW d
  PROVE  At(Set(f, x, v), y, d) = IF y = x THEN v ELSE At(f, y, d)
  BY DEF At, Set

\* A request of another counter leaves k alone.
LEMMA OtherKey ==
  ASSUME NEW k, NEW j, j # k, KeyInv(k), NEW v, NEW u,
         log' = Set(log, j, v), UNCHANGED bucket \/ bucket' = Set(bucket, j, u)
  PROVE  KeyInv(k)' /\ LogOf(k)' = LogOf(k)
<1>1. LogOf(k)' = LogOf(k)
  BY AtSet DEF LogOf
<1>2. CountOf(k)' = CountOf(k)
  BY AtSet DEF CountOf
<1>3. /\ (k \in DOMAIN bucket)' <=> k \in DOMAIN bucket
      /\ k \in DOMAIN bucket => bucket'[k] = bucket[k]
  BY DEF Set
<1> QED BY <1>1, <1>2, <1>3 DEF KeyInv

LEMMA CountType ==
  ASSUME NEW k, KeyInv(k)
  PROVE  /\ CountOf(k) \in Nat /\ Incr(k) \in Nat
         /\ Incr(k) <= Limit(k) => CountOf(k) < Limit(k) /\ Incr(k) = CountOf(k) + 1
         /\ Incr(k) > Limit(k) => CountOf(k) >= Limit(k)
         /\ Incr(k) >= CountOf(k) /\ Incr(k) <= CountOf(k) + 1
<1>1. CountOf(k) \in Nat
  BY DEF KeyInv, CountOf, At
<1>2. Limit(k) \in Nat
  BY LimitPositive
<1>3. Incr(k) = IF CountOf(k) > Limit(k) THEN CountOf(k) ELSE CountOf(k) + 1
  BY DEF Incr, Limit
<1> QED BY <1>1, <1>2, <1>3

Logged(arrived, admitted, n) == [arrived |-> arrived, admitted |-> admitted, faults |-> n]

\* A request that is counted: let through while the counter is within its limit.
LEMMA Counted ==
  ASSUME NEW k, KeyInv(k), bucket' = Set(bucket, k, [count |-> Incr(k), ttl |-> Window]),
         log' = Set(log, k, Logged(More(LogOf(k).arrived),
                                   IF Incr(k) <= Limit(k) THEN More(LogOf(k).admitted)
                                   ELSE LogOf(k).admitted,
                                   LogOf(k).faults))
  PROVE  /\ KeyInv(k)'
         /\ Incr(k) <= Limit(k) => Total(LogOf(k).admitted, Window) < Limit(k) + LogOf(k).faults
         /\ Incr(k) > Limit(k) => Total(LogOf(k).arrived, Window) > 0 \/ LogOf(k).faults >= Limit(k)
<1> DEFINE old == LogOf(k)
           new == LogOf(k)'
<1>0. Window \in Nat \ {0} /\ Limit(k) \in Nat \ {0} /\ 0 \in Age
  BY GatewayConstants, LimitPositive DEF Age
<1>1. old \in Entries /\ old.arrived \in Counts /\ old.admitted \in Counts /\ old.faults \in Nat
  BY DEF KeyInv, Entries
<1>2. CountOf(k) \in Nat /\ Incr(k) \in Nat
  BY CountType
<1>3. /\ Incr(k) <= Limit(k) => CountOf(k) < Limit(k) /\ Incr(k) = CountOf(k) + 1
      /\ Incr(k) > Limit(k) => CountOf(k) >= Limit(k)
      /\ Incr(k) >= CountOf(k)
  BY CountType
<1>4. Total(old.admitted, Window) \in Nat /\ Total(old.admitted, Window) <= CountOf(k) + old.faults
  BY <1>0, <1>1, PairsFinite DEF KeyInv
<1>5. Incr(k) <= Limit(k) => Total(old.admitted, Window) < Limit(k) + old.faults
  BY <1>0, <1>1, <1>2, <1>3, <1>4
<1>6. Incr(k) > Limit(k) => Total(old.arrived, Window) > 0 \/ old.faults >= Limit(k)
  <2> SUFFICES ASSUME Incr(k) > Limit(k)
               PROVE  Total(old.arrived, Window) > 0 \/ old.faults >= Limit(k)
    OBVIOUS
  <2>1. CountOf(k) >= Limit(k)
    BY <1>3
  <2>2. k \in DOMAIN bucket /\ CountOf(k) = bucket[k].count
    BY <1>0, <2>1 DEF CountOf, At
  <2>3. CASE bucket[k].ttl = NoTTL
    BY <1>0, <1>1, <1>2, <2>1, <2>2, <2>3 DEF KeyInv
  <2>4. CASE bucket[k].ttl # NoTTL
    <3>1. bucket[k].ttl \in 1 .. Window
      BY <1>0, <2>2, <2>4 DEF KeyInv, NoTTL
    <3>2. Window - bucket[k].ttl \in Age /\ old.arrived[Window - bucket[k].ttl] > 0
      BY <1>0, <2>2, <2>4, <3>1 DEF KeyInv, Age
    <3> QED BY <1>1, <3>2, TotalPositive
  <2> QED BY <2>3, <2>4
<1>7. new = Logged(More(old.arrived),
                   IF Incr(k) <= Limit(k) THEN More(old.admitted) ELSE old.admitted, old.faults)
  BY AtSet DEF LogOf
<1>8. /\ new.arrived = More(old.arrived)
      /\ new.admitted = IF Incr(k) <= Limit(k) THEN More(old.admitted) ELSE old.admitted
      /\ new.faults = old.faults
  BY <1>7 DEF Logged
<1>9. new \in Entries
  BY <1>1, <1>7, MoreCounts DEF Logged, Entries
<1>10. CountOf(k)' = Incr(k) /\ k \in DOMAIN bucket' /\ bucket'[k] = [count |-> Incr(k), ttl |-> Window]
  BY DEF CountOf, At, Set
<1>11. Total(new.admitted, Window) <= Incr(k) + new.faults
  <2>1. CASE Incr(k) <= Limit(k)
    <3>1. Total(More(old.admitted), Window) = Total(old.admitted, Window) + 1
      BY <1>0, <1>1, TotalMore
    <3> QED BY <1>1, <1>2, <1>3, <1>4, <1>8, <2>1, <3>1
  <2>2. CASE ~(Incr(k) <= Limit(k))
    BY <1>1, <1>2, <1>3, <1>4, <1>8, <2>2
  <2> QED BY <2>1, <2>2
<1>12. /\ bucket'[k].count \in Nat /\ bucket'[k].ttl \in 1 .. NoTTL /\ bucket'[k].ttl # NoTTL
       /\ Window - bucket'[k].ttl = 0
  BY <1>0, <1>2, <1>10 DEF NoTTL
<1>13. Total(new.admitted, 0) <= new.faults
  BY <1>1, <1>8, TotalBelowZero
<1>14. new.arrived[0] > 0
  BY <1>0, <1>1, <1>8, MoreCounts DEF Counts
<1>15. KeyInv(k)'
  BY <1>9, <1>10, <1>11, <1>12, <1>13, <1>14 DEF KeyInv, NoTTL
<1> QED BY <1>5, <1>6, <1>15

\* A request on which the pipeline failed, before its INCR or after it.
LEMMA Uncounted ==
  ASSUME NEW k, KeyInv(k), PipelineFails(k),
         log' = Set(log, k, Logged(More(LogOf(k).arrived), More(LogOf(k).admitted),
                                   LogOf(k).faults + 1))
  PROVE  KeyInv(k)'
<1> DEFINE old == LogOf(k)
           new == LogOf(k)'
<1>0. Window \in Nat \ {0} /\ 0 \in Age
  BY GatewayConstants DEF Age
<1>1. old \in Entries /\ old.arrived \in Counts /\ old.admitted \in Counts /\ old.faults \in Nat
  BY DEF KeyInv, Entries
<1>2. CountOf(k) \in Nat /\ Incr(k) \in Nat /\ Incr(k) >= CountOf(k) /\ Incr(k) <= CountOf(k) + 1
  BY CountType
<1>3. Total(old.admitted, Window) \in Nat /\ Total(old.admitted, Window) <= CountOf(k) + old.faults
  BY <1>0, <1>1, PairsFinite DEF KeyInv
<1>4. new = Logged(More(old.arrived), More(old.admitted), old.faults + 1)
  BY AtSet DEF LogOf
<1>5. /\ new.arrived = More(old.arrived) /\ new.admitted = More(old.admitted)
      /\ new.faults = old.faults + 1
  BY <1>4 DEF Logged
<1>6. new \in Entries
  BY <1>1, <1>4, MoreCounts DEF Logged, Entries
<1>7. Total(new.admitted, Window) = Total(old.admitted, Window) + 1
  BY <1>0, <1>1, <1>5, TotalMore
<1>8. CountOf(k)' \in Nat /\ CountOf(k)' >= CountOf(k)
  BY <1>2, AtSet DEF PipelineFails, CountOf
<1>9. Total(new.admitted, Window) <= CountOf(k)' + new.faults
  BY <1>1, <1>2, <1>3, <1>5, <1>7, <1>8
<1>10. ASSUME k \in DOMAIN bucket'
       PROVE  /\ bucket'[k].count \in Nat
              /\ bucket'[k].ttl \in 1 .. NoTTL
              /\ bucket'[k].ttl = NoTTL => bucket'[k].count <= new.faults
              /\ bucket'[k].ttl # NoTTL => k \in DOMAIN bucket /\ bucket'[k].ttl = bucket[k].ttl
  <2>1. CASE UNCHANGED bucket
    BY <1>1, <1>5, <1>10, <2>1 DEF KeyInv
  <2>2. CASE bucket' = Set(bucket, k, [count |-> Incr(k), ttl |-> At(bucket, k, [ttl |-> NoTTL]).ttl])
    <3>1. bucket'[k] = [count |-> Incr(k), ttl |-> At(bucket, k, [ttl |-> NoTTL]).ttl]
      BY <2>2 DEF Set
    <3>2. CASE k \in DOMAIN bucket
      <4>1. CountOf(k) = bucket[k].count /\ bucket'[k].ttl = bucket[k].ttl /\ bucket'[k].count = Incr(k)
        BY <3>1, <3>2 DEF CountOf, At
      <4> QED BY <1>1, <1>2, <1>5, <3>2, <4>1 DEF KeyInv
    <3>3. CASE k \notin DOMAIN bucket
      <4>1. CountOf(k) = 0 /\ bucket'[k].ttl = NoTTL /\ bucket'[k].count = Incr(k)
        BY <3>1, <3>3 DEF CountOf, At
      <4> QED BY <1>0, <1>1, <1>2, <1>5, <4>1 DEF NoTTL
    <3> QED BY <3>2, <3>3
  <2> QED BY <2>1, <2>2 DEF PipelineFails
<1>11. ASSUME k \in DOMAIN bucket', bucket'[k].ttl # NoTTL
       PROVE  /\ Total(new.admitted, Window - bucket'[k].ttl) <= new.faults
              /\ new.arrived[Window - bucket'[k].ttl] > 0
  <2> DEFINE b == Window - bucket[k].ttl
  <2>1. k \in DOMAIN bucket /\ bucket'[k].ttl = bucket[k].ttl /\ bucket[k].ttl # NoTTL
    BY <1>10, <1>11
  <2>2. bucket[k].ttl \in 1 .. Window
    BY <1>0, <2>1 DEF KeyInv, NoTTL
  <2>3. b \in 0 .. Window - 1 /\ b \in Age
    BY <1>0, <2>2 DEF Age
  <2>4. Total(old.admitted, b) <= old.faults /\ old.arrived[b] > 0
    BY <2>1 DEF KeyInv
  <2> HIDE DEF b
  <2>5. Total(new.admitted, b) <= new.faults
    <3>1. CASE b = 0
      BY <1>1, <1>5, <3>1, TotalBelowZero
    <3>2. CASE b # 0
      <4>1. b \in 1 .. Window /\ b \in 0 .. Window
        BY <1>0, <2>3, <3>2
      <4>2. Total(new.admitted, b) = Total(old.admitted, b) + 1 /\ Total(old.admitted, b) \in Nat
        BY <1>1, <1>5, <4>1, TotalMore, PairsFinite
      <4> QED BY <1>1, <1>5, <2>4, <4>2
    <3> QED BY <3>1, <3>2
  <2>6. new.arrived[b] > 0
    BY <1>0, <1>1, <1>5, <2>3, <2>4, MoreCounts DEF Counts
  <2> QED BY <2>1, <2>5, <2>6 DEF b
<1> QED BY <1>6, <1>9, <1>10, <1>11 DEF KeyInv

\* A tick: what was let through since the EXPIRE is all that is left in the window when
\* the counter expires.
LEMMA Ticked ==
  ASSUME NEW k, KeyInv(k), Tick
  PROVE  /\ KeyInv(k)'
         /\ LogOf(k)' = Logged(Older(LogOf(k).arrived), Older(LogOf(k).admitted), LogOf(k).faults)
<1> DEFINE old == LogOf(k)
           new == LogOf(k)'
<1>0. Window \in Nat \ {0} /\ 0 \in Age
  BY GatewayConstants DEF Age
<1>1. old \in Entries /\ old.arrived \in Counts /\ old.admitted \in Counts /\ old.faults \in Nat
  BY DEF KeyInv, Entries
<1>2. new = Logged(Older(old.arrived), Older(old.admitted), old.faults)
  <2>1. CASE k \in DOMAIN log
    <3>1. old = log[k] /\ Aged(log[k]) = Logged(Older(old.arrived), Older(old.admitted), old.faults)
      BY <2>1 DEF LogOf, At, Aged, Logged
    <3> QED BY <2>1, <3>1 DEF Tick, LogOf, At
  <2>2. CASE k \notin DOMAIN log
    <3>1. old = NoLog /\ k \notin DOMAIN log'
      BY <2>2 DEF Tick, LogOf, At
    <3>2. new = NoLog
      BY <3>1 DEF LogOf, At
    <3>3. Logged(Older(Zero), Older(Zero), 0) = NoLog
      BY NoLogEntries DEF Logged, NoLog
    <3>4. NoLog.arrived = Zero /\ NoLog.admitted = Zero /\ NoLog.faults = 0
      BY DEF NoLog
    <3> QED BY <3>1, <3>2, <3>3, <3>4
  <2> QED BY <2>1, <2>2
<1>3. /\ new.arrived = Older(old.arrived) /\ new.admitted = Older(old.admitted)
      /\ new.faults = old.faults
  BY <1>2 DEF Logged
<1>4. new \in Entries
  BY <1>1, <1>2, OlderCounts DEF Logged, Entries
<1> DEFINE last_ == Window - 1
<1>5. /\ Total(new.admitted, Window) <= Total(old.admitted, last_)
      /\ Total(new.admitted, Window) \in Nat /\ Total(old.admitted, last_) \in Nat
      /\ Total(old.admitted, last_) <= Total(old.admitted, Window)
  <2>1. last_ \in 0 .. Window - 1 /\ last_ \in 0 .. Window /\ last_ + 1 = Window
        /\ Window \in last_ .. Window /\ Window \in 0 .. Window
    BY <1>0
  <2> HIDE DEF last_
  <2>2. Total(Older(old.admitted), last_ + 1) <= Total(old.admitted, last_)
    BY <1>1, <2>1, TotalOlder
  <2>3. Total(old.admitted, last_) <= Total(old.admitted, Window)
    BY <1>1, <2>1, TotalGrows
  <2>4. Total(new.admitted, Window) \in Nat /\ Total(old.admitted, last_) \in Nat
    BY <1>1, <1>3, <2>1, PairsFinite, OlderCounts
  <2> QED BY <1>3, <2>1, <2>2, <2>3, <2>4
<1>6. CASE k \notin DOMAIN bucket
  <2>1. k \notin DOMAIN bucket' /\ CountOf(k) = 0 /\ CountOf(k)' = 0
    BY <1>6 DEF Tick, CountOf, At
  <2>2. Total(old.admitted, Window) <= old.faults
    BY <1>1, <2>1 DEF KeyInv
  <2>3. Total(new.admitted, Window) <= CountOf(k)' + new.faults
    <3>1. Total(old.admitted, Window) \in Nat
      BY <1>0, <1>1, PairsFinite
    <3> QED BY <1>1, <1>3, <1>5, <2>1, <2>2, <3>1
  <2> QED BY <1>2, <1>4, <2>1, <2>3 DEF KeyInv
<1>7. CASE k \in DOMAIN bucket /\ bucket[k].ttl = NoTTL
  <2>1. k \in DOMAIN bucket' /\ bucket'[k] = [count |-> bucket[k].count, ttl |-> NoTTL]
    BY <1>0, <1>7 DEF Tick, Left, NoTTL
  <2>2. /\ bucket'[k].ttl = NoTTL /\ bucket'[k].count = bucket[k].count
        /\ CountOf(k) = bucket[k].count /\ CountOf(k)' = bucket[k].count
    BY <1>7, <2>1 DEF CountOf, At
  <2>3. bucket[k].count \in Nat /\ bucket[k].count <= old.faults /\ NoTTL \in 1 .. NoTTL
    BY <1>0, <1>7 DEF KeyInv, NoTTL
  <2>4. Total(new.admitted, Window) <= CountOf(k)' + new.faults
    <3>1. Total(old.admitted, Window) \in Nat /\ Total(old.admitted, Window) <= CountOf(k) + old.faults
      BY <1>0, <1>1, PairsFinite DEF KeyInv
    <3> QED BY <1>1, <1>3, <1>5, <2>2, <2>3, <3>1
  <2> QED BY <1>2, <1>3, <1>4, <2>1, <2>2, <2>3, <2>4 DEF KeyInv
<1>8. CASE k \in DOMAIN bucket /\ bucket[k].ttl # NoTTL
  <2> DEFINE t == bucket[k].ttl
             b == Window - t
  <2>1. t \in 1 .. Window /\ Left(k) = t - 1 /\ bucket[k].count \in Nat
    BY <1>0, <1>8 DEF KeyInv, NoTTL, Left
  <2>2. b \in 0 .. Window - 1 /\ b \in Age /\ Total(old.admitted, b) <= old.faults /\ old.arrived[b] > 0
    BY <1>0, <1>8, <2>1 DEF KeyInv, Age
  <2>3. CountOf(k) = bucket[k].count
    BY <1>8 DEF CountOf, At
  <2>4. CASE t = 1
    <3>1. k \notin DOMAIN bucket' /\ CountOf(k)' = 0
      BY <2>1, <2>4 DEF Tick, CountOf, At
    <3>2. b = last_
      BY <2>4
    <3>3. Total(new.admitted, Window) <= CountOf(k)' + new.faults
      BY <1>1, <1>3, <1>5, <2>2, <3>1, <3>2
    <3> QED BY <1>2, <1>4, <3>1, <3>3 DEF KeyInv
  <2>5. CASE t # 1
    <3>1. Left(k) \in 1 .. Window - 1 /\ Left(k) > 0
      BY <1>0, <2>1, <2>5
    <3>2. k \in DOMAIN bucket' /\ bucket'[k] = [count |-> bucket[k].count, ttl |-> Left(k)]
      BY <1>8, <3>1 DEF Tick
    <3>3. /\ bucket'[k].ttl = t - 1 /\ bucket'[k].count = bucket[k].count
          /\ CountOf(k)' = bucket[k].count
      BY <2>1, <3>2 DEF CountOf, At
    <3>4. t - 1 \in 1 .. NoTTL /\ t - 1 # NoTTL /\ Window - (t - 1) = b + 1
      BY <1>0, <2>1, <2>5 DEF NoTTL
    <3>5. b + 1 \in Age \ {0} /\ (b + 1) - 1 = b
      BY <1>0, <2>1, <2>5 DEF Age
    <3> HIDE DEF b, t
    <3>6. Total(new.admitted, b + 1) <= new.faults
      <4>1. Total(Older(old.admitted), b + 1) <= Total(old.admitted, b)
        BY <1>1, <2>2, TotalOlder
      <4>2. b \in 0 .. Window /\ b + 1 \in 0 .. Window
        BY <1>0, <2>2
      <4>3. Total(old.admitted, b) \in Nat /\ Total(Older(old.admitted), b + 1) \in Nat
        BY <1>1, <4>2, PairsFinite, OlderCounts
      <4> QED BY <1>1, <1>3, <2>2, <4>1, <4>3
    <3>7. new.arrived[b + 1] > 0
      BY <1>1, <1>3, <2>2, <3>5, OlderCounts
    <3>8. Total(new.admitted, Window) <= CountOf(k)' + new.faults
      <4>1. Total(old.admitted, Window) \in Nat /\ Total(old.admitted, Window) <= CountOf(k) + old.faults
        BY <1>0, <1>1, PairsFinite DEF KeyInv
      <4> QED BY <1>1, <1>3, <1>5, <2>1, <2>3, <3>3, <4>1
    <3>9. bucket'[k].count \in Nat /\ bucket'[k].ttl \in 1 .. NoTTL /\ bucket'[k].ttl # NoTTL
          /\ Window - bucket'[k].ttl = b + 1
      BY <2>1, <3>3, <3>4
    <3> QED BY <1>2, <1>4, <3>2, <3>6, <3>7, <3>8, <3>9 DEF KeyInv, NoTTL
  <2> QED BY <2>4, <2>5
<1> QED BY <1>6, <1>7, <1>8

-----------------------------------------------------------------------------
(* The counters together implement Quota.                                     *)

\* A request over counter k, as checkRateLimit counts it or Redis fails on it.
CountsAt(k) ==
    /\ bucket' = Set(bucket, k, [count |-> Incr(k), ttl |-> Window])
    /\ log' = Set(log, k, Logged(More(LogOf(k).arrived),
                                 IF Incr(k) <= Limit(k) THEN More(LogOf(k).admitted)
                                 ELSE LogOf(k).admitted,
                                 LogOf(k).faults + 0))

FailsAt(k) ==
    /\ PipelineFails(k)
    /\ log' = Set(log, k, Logged(More(LogOf(k).arrived), More(LogOf(k).admitted),
                                 LogOf(k).faults + 1))

LEMMA UnaryCases ==
  ASSUME NEW req, Unary(req)
  PROVE  \E k : CountsAt(k) \/ FailsAt(k)
<1> DEFINE call == Called(req)
           k == KeyOf(req, call.method)
<1>1. LimitOf(call.method) = Limit(k)
  BY DEF KeyOf, resolveRateLimit, Limit
<1>2. CASE checkRateLimit(k) /\ Arrive(k, bucket'[k].count <= LimitOf(call.method), 0)
  <2>1. bucket' = Set(bucket, k, [count |-> Incr(k), ttl |-> Window])
    BY <1>2 DEF checkRateLimit, ExpireKey
  <2>2. bucket'[k].count = Incr(k)
    BY <2>1 DEF Set
  <2> QED BY <1>1, <1>2, <2>1, <2>2 DEF Arrive, CountsAt, Logged, LogOf
<1>3. CASE PipelineFails(k) /\ Arrive(k, TRUE, 1)
  BY <1>3 DEF Arrive, FailsAt, Logged, LogOf
<1> QED BY <1>2, <1>3 DEF Unary

\* The variables of Quota.
arrivedAt == [k \in Key |-> LogOf(k).arrived]
admittedAt == [k \in Key |-> LogOf(k).admitted]
faultsAt == [k \in Key |-> LogOf(k).faults]

LEMMA QuotaVariables ==
  /\ [k \in Key |-> At(log, k, NoLog).arrived] = arrivedAt
  /\ [k \in Key |-> At(log, k, NoLog).admitted] = admittedAt
  /\ [k \in Key |-> At(log, k, NoLog).faults] = faultsAt
  BY DEF arrivedAt, admittedAt, faultsAt, LogOf

LEMMA QuotaAge == Q!Age = Age /\ \A n : Q!InWindow(n) = Total(n, Window)
<1>1. Q!Age = Age
  BY DEF Q!Age, Age
<1>2. ASSUME NEW n PROVE Q!InWindow(n) = Total(n, Window)
  <2>1. UNION {{a} \X (1 .. n[a]) : a \in Q!Age} = Pairs(n, Window)
    BY <1>1 DEF Pairs, Age
  <2>2. Q!InWindow(n) = Cardinality(UNION {{a} \X (1 .. n[a]) : a \in Q!Age})
    BY DEF Q!InWindow, Q!Cardinality, Q!IsFiniteSet, Cardinality, IsFiniteSet
  <2> QED BY <2>1, <2>2 DEF Total
<1> QED BY <1>1, <1>2

\* One entry changes.
LEMMA OneMore ==
  ASSUME NEW k \in Key, NEW n, n \in [Key -> Counts], NEW m,
         m = [j \in Key |-> IF j = k THEN More(n[k]) ELSE n[j]]
  PROVE  m = [n EXCEPT ![k][0] = @ + 1]
  BY DEF More

LEMMA CountsImplements ==
  ASSUME QuotaInv, NEW k, CountsAt(k)
  PROVE  QuotaInv' /\ [Q!Next]_(Q!quota)
<1>1. \A j \in Key \ {k} : KeyInv(j)' /\ LogOf(j)' = LogOf(j)
  BY OtherKey DEF QuotaInv, CountsAt
<1>2. CASE k \notin Key
  <2>1. QuotaInv'
    BY <1>1, <1>2 DEF QuotaInv
  <2>2. arrivedAt' = arrivedAt /\ admittedAt' = admittedAt /\ faultsAt' = faultsAt
    BY <1>1, <1>2 DEF arrivedAt, admittedAt, faultsAt
  <2>3. UNCHANGED Q!quota
    BY <2>2 DEF Q!quota, arrivedAt, admittedAt, faultsAt, LogOf
  <2> QED BY <2>1, <2>3
<1>3. CASE k \in Key
  <2> DEFINE old == LogOf(k)
  <2>0. KeyInv(k) /\ old \in Entries /\ old.faults + 0 = old.faults
    BY <1>3 DEF QuotaInv, KeyInv, Entries
  <2>1. log' = Set(log, k, Logged(More(old.arrived),
                                  IF Incr(k) <= Limit(k) THEN More(old.admitted)
                                  ELSE old.admitted,
                                  old.faults))
    BY <2>0 DEF CountsAt
  <2>2. /\ KeyInv(k)'
        /\ Incr(k) <= Limit(k) => Total(old.admitted, Window) < Limit(k) + old.faults
        /\ Incr(k) > Limit(k) => Total(old.arrived, Window) > 0 \/ old.faults >= Limit(k)
    BY <2>0, <2>1, Counted DEF CountsAt
  <2>3. QuotaInv'
    BY <1>1, <2>2 DEF QuotaInv
  <2>4. LogOf(k)' = Logged(More(old.arrived),
                           IF Incr(k) <= Limit(k) THEN More(old.admitted) ELSE old.admitted,
                           old.faults)
    BY <2>1, AtSet DEF LogOf
  <2>5. /\ LogOf(k)'.arrived = More(old.arrived)
        /\ LogOf(k)'.admitted = IF Incr(k) <= Limit(k) THEN More(old.admitted) ELSE old.admitted
        /\ LogOf(k)'.faults = old.faults
    BY <2>4 DEF Logged
  <2>6. /\ arrivedAt \in [Key -> Counts] /\ admittedAt \in [Key -> Counts]
        /\ arrivedAt[k] = old.arrived /\ admittedAt[k] = old.admitted /\ faultsAt[k] = old.faults
    BY <1>3 DEF QuotaInv, KeyInv, Entries, arrivedAt, admittedAt, faultsAt
  <2>7. arrivedAt' = [arrivedAt EXCEPT ![k][0] = @ + 1] /\ faultsAt' = faultsAt
    <3>1. arrivedAt' = [j \in Key |-> IF j = k THEN More(arrivedAt[k]) ELSE arrivedAt[j]]
      BY <1>1, <1>3, <2>5, <2>6 DEF arrivedAt
    <3>2. faultsAt' = faultsAt
      BY <1>1, <1>3, <2>5, <2>6 DEF faultsAt
    <3> QED BY <1>3, <2>6, <3>1, <3>2, OneMore
  <2>8. CASE Incr(k) <= Limit(k)
    <3>1. admittedAt' = [admittedAt EXCEPT ![k][0] = @ + 1]
      <4>1. admittedAt' = [j \in Key |-> IF j = k THEN More(admittedAt[k]) ELSE admittedAt[j]]
        BY <1>1, <1>3, <2>5, <2>6, <2>8 DEF admittedAt
      <4> QED BY <1>3, <2>6, <4>1, OneMore
    <3>2. Q!InWindow(admittedAt[k]) < Limit(k) + faultsAt[k]
      BY <2>2, <2>6, <2>8, QuotaAge
    <3>3. Q!Admit(k)
      BY <2>7, <3>1, <3>2 DEF Q!Admit, Q!More, arrivedAt, admittedAt, faultsAt, LogOf
    <3> QED BY <1>3, <2>3, <3>3 DEF Q!Next
  <2>9. CASE ~(Incr(k) <= Limit(k))
    <3>1. admittedAt' = admittedAt
      BY <1>1, <1>3, <2>5, <2>6, <2>9 DEF admittedAt
    <3>2. Q!InWindow(arrivedAt[k]) > 0 \/ faultsAt[k] >= Limit(k)
      <4>1. Incr(k) > Limit(k)
        BY <2>0, <2>9, CountType, LimitPositive
      <4> QED BY <2>2, <2>6, <4>1, QuotaAge
    <3>3. Q!Refuse(k)
      BY <2>7, <3>1, <3>2 DEF Q!Refuse, Q!More, arrivedAt, admittedAt, faultsAt, LogOf
    <3> QED BY <1>3, <2>3, <3>3 DEF Q!Next
  <2> QED BY <2>8, <2>9
<1> QED BY <1>2, <1>3

LEMMA FailsImplements ==
  ASSUME QuotaInv, NEW k, FailsAt(k)
  PROVE  QuotaInv' /\ [Q!Next]_(Q!quota)
<1>1. \A j \in Key \ {k} : KeyInv(j)' /\ LogOf(j)' = LogOf(j)
  BY OtherKey DEF QuotaInv, FailsAt, PipelineFails
<1>2. CASE k \notin Key
  <2>1. QuotaInv'
    BY <1>1, <1>2 DEF QuotaInv
  <2>2. arrivedAt' = arrivedAt /\ admittedAt' = admittedAt /\ faultsAt' = faultsAt
    BY <1>1, <1>2 DEF arrivedAt, admittedAt, faultsAt
  <2>3. UNCHANGED Q!quota
    BY <2>2 DEF Q!quota, arrivedAt, admittedAt, faultsAt, LogOf
  <2> QED BY <2>1, <2>3
<1>3. CASE k \in Key
  <2> DEFINE old == LogOf(k)
  <2>0. KeyInv(k)
    BY <1>3 DEF QuotaInv
  <2>1. KeyInv(k)'
    BY <2>0, Uncounted DEF FailsAt
  <2>2. QuotaInv'
    BY <1>1, <2>1 DEF QuotaInv
  <2>3. LogOf(k)' = Logged(More(old.arrived), More(old.admitted), old.faults + 1)
    BY AtSet DEF LogOf, FailsAt
  <2>4. /\ LogOf(k)'.arrived = More(old.arrived) /\ LogOf(k)'.admitted = More(old.admitted)
        /\ LogOf(k)'.faults = old.faults + 1
    BY <2>3 DEF Logged
  <2>5. /\ arrivedAt \in [Key -> Counts] /\ admittedAt \in [Key -> Counts]
        /\ arrivedAt[k] = old.arrived /\ admittedAt[k] = old.admitted /\ faultsAt[k] = old.faults
    BY <1>3 DEF QuotaInv, KeyInv, Entries, arrivedAt, admittedAt, faultsAt
  <2>6. arrivedAt' = [arrivedAt EXCEPT ![k][0] = @ + 1]
    <3>1. arrivedAt' = [j \in Key |-> IF j = k THEN More(arrivedAt[k]) ELSE arrivedAt[j]]
      BY <1>1, <1>3, <2>4, <2>5 DEF arrivedAt
    <3> QED BY <1>3, <2>5, <3>1, OneMore
  <2>7. admittedAt' = [admittedAt EXCEPT ![k][0] = @ + 1]
    <3>1. admittedAt' = [j \in Key |-> IF j = k THEN More(admittedAt[k]) ELSE admittedAt[j]]
      BY <1>1, <1>3, <2>4, <2>5 DEF admittedAt
    <3> QED BY <1>3, <2>5, <3>1, OneMore
  <2>8. faultsAt' = [faultsAt EXCEPT ![k] = @ + 1]
    BY <1>1, <1>3, <2>4 DEF faultsAt
  <2>9. Q!FailOpen(k)
    BY <2>6, <2>7, <2>8 DEF Q!FailOpen, Q!More, arrivedAt, admittedAt, faultsAt, LogOf
  <2> QED BY <1>3, <2>2, <2>9 DEF Q!Next
<1> QED BY <1>2, <1>3

LEMMA TickImplements ==
  ASSUME QuotaInv, Tick
  PROVE  QuotaInv' /\ [Q!Next]_(Q!quota)
<1>1. \A k \in Key : /\ KeyInv(k)'
                     /\ LogOf(k)' = Logged(Older(LogOf(k).arrived), Older(LogOf(k).admitted),
                                           LogOf(k).faults)
  BY Ticked DEF QuotaInv
<1>2. \A k \in Key : /\ LogOf(k)'.arrived = Older(LogOf(k).arrived)
                     /\ LogOf(k)'.admitted = Older(LogOf(k).admitted)
                     /\ LogOf(k)'.faults = LogOf(k).faults
  BY <1>1 DEF Logged
<1>3. arrivedAt' = Q!Older(arrivedAt) /\ admittedAt' = Q!Older(admittedAt) /\ faultsAt' = faultsAt
  <2>1. \A n : Q!Older(n) = [k \in Key |-> Older(n[k])]
    BY QuotaAge DEF Q!Older, Older
  <2>2. arrivedAt' = [k \in Key |-> Older(arrivedAt[k])]
    BY <1>2 DEF arrivedAt
  <2>3. admittedAt' = [k \in Key |-> Older(admittedAt[k])]
    BY <1>2 DEF admittedAt
  <2>4. faultsAt' = faultsAt
    BY <1>2 DEF faultsAt
  <2> QED BY <2>1, <2>2, <2>3, <2>4
<1>4. Q!Tick
  BY <1>3 DEF Q!Tick, arrivedAt, admittedAt, faultsAt, LogOf
<1> QED BY <1>1, <1>4 DEF QuotaInv, Q!Next

LEMMA QuotaStep == QuotaInv /\ [GatewayNext]_gatewayVars => QuotaInv' /\ [Q!Next]_(Q!quota)
<1> SUFFICES ASSUME QuotaInv, [GatewayNext]_gatewayVars
             PROVE  QuotaInv' /\ [Q!Next]_(Q!quota)
  OBVIOUS
<1>1. CASE Tick
  BY <1>1, TickImplements
<1>2. CASE \E req \in Requests : Unary(req)
  BY <1>2, UnaryCases, CountsImplements, FailsImplements
<1>3. CASE UNCHANGED <<bucket, log>>
  <2>1. QuotaInv'
    BY <1>3 DEF QuotaInv, KeyInv, LogOf, CountOf
  <2>2. UNCHANGED Q!quota
    BY <1>3 DEF Q!quota
  <2> QED BY <2>1, <2>2
<1> QED BY <1>1, <1>2, <1>3 DEF GatewayNext, Stream, gatewayVars

\* Every counter of the rate limiter keeps the promise of Quota, for any limits, any
\* window, any clients over gRPC and REST and any failures of Redis.
THEOREM CountersKeepQuota == GatewaySpec => EachCounterKeepsQuota
<1>1. GatewayInit => QuotaInv /\ Q!Init
  <2> SUFFICES ASSUME GatewayInit PROVE QuotaInv /\ Q!Init
    OBVIOUS
  <2>1. \A k : LogOf(k) = NoLog /\ k \notin DOMAIN bucket /\ CountOf(k) = 0
    BY DEF GatewayInit, LogOf, At, CountOf
  <2>2. NoLog.admitted = Zero /\ NoLog.arrived = Zero /\ NoLog.faults = 0
    BY DEF NoLog
  <2>3. Total(Zero, Window) = 0
    BY TotalNone, GatewayConstants
  <2>4. QuotaInv
    BY <2>1, <2>2, <2>3, NoLogEntries DEF QuotaInv, KeyInv
  <2>5. Q!Init
    BY <2>1, <2>2, QuotaAge DEF Q!Init, LogOf, Zero
  <2> QED BY <2>4, <2>5
<1> QED BY <1>1, QuotaStep, PTL DEF GatewaySpec, EachCounterKeepsQuota, Q!Spec

-----------------------------------------------------------------------------
(* Gateway: who a handler runs for.  The tables of Routes and Services are    *)
(* read once: every RPC that a URL can reach has a client stub, a stub's full *)
(* name is the one its handler reports, and the RPCs of signing in are public *)
(* under that name.                                                           *)

IsSequence(s) == Len(s) \in Nat /\ s = [i \in 1 .. Len(s) |-> s[i]]

IsTable(routes) == IsSequence(routes) /\ \A i \in DOMAIN routes : IsSequence(routes[i].path)

RPCsOf(routes) == {routes[i].rpc : i \in DOMAIN routes}

LEMMA AuthRoutesTable == IsTable(S!AuthRoutes)
<1>1. /\ IsSequence(S!Register.path)
      /\ IsSequence(S!VerifyOTP.path)
      /\ IsSequence(S!ResendOTP.path)
      /\ IsSequence(S!Login.path)
      /\ IsSequence(S!RefreshToken.path)
      /\ IsSequence(S!Logout.path)
      /\ IsSequence(S!ValidateToken.path)
  BY DEF IsSequence, S!Route, S!Post, S!Register, S!VerifyOTP, S!ResendOTP, S!Login,
         S!RefreshToken, S!Logout, S!ValidateToken
<1>2. IsSequence(S!AuthRoutes)
  BY DEF S!AuthRoutes, IsSequence
<1> QED BY <1>1, <1>2 DEF S!AuthRoutes, IsTable

LEMMA ProfileRoutesTable == IsTable(S!ProfileRoutes)
<1>1. /\ IsSequence(S!GetUser.path)
      /\ IsSequence(S!UpdateUser.path)
      /\ IsSequence(S!UpdateUsername.path)
      /\ IsSequence(S!UpdateStatus.path)
      /\ IsSequence(S!UploadUserAvatar.path)
      /\ IsSequence(S!DeleteUser.path)
      /\ IsSequence(S!GetUserByUsername.path)
      /\ IsSequence(S!SearchUsers.path)
  BY DEF IsSequence, S!Route, S!DeleteQuery, S!Get, S!GetQuery, S!Patch, S!Post, S!GetUser,
         S!UpdateUser, S!UpdateUsername, S!UpdateStatus, S!UploadUserAvatar, S!DeleteUser,
         S!GetUserByUsername, S!SearchUsers
<1>2. IsSequence(S!ProfileRoutes)
  BY DEF S!ProfileRoutes, IsSequence
<1> QED BY <1>1, <1>2 DEF S!ProfileRoutes, IsTable

LEMMA FriendRoutesTable == IsTable(S!FriendRoutes)
<1>1. /\ IsSequence(S!SendFriendRequest.path)
      /\ IsSequence(S!AcceptFriendRequest.path)
      /\ IsSequence(S!DeclineFriendRequest.path)
      /\ IsSequence(S!CancelFriendRequest.path)
      /\ IsSequence(S!RemoveFriend.path)
      /\ IsSequence(S!BlockUser.path)
      /\ IsSequence(S!UnblockUser.path)
      /\ IsSequence(S!ListFriends.path)
      /\ IsSequence(S!ListPendingRequests.path)
      /\ IsSequence(S!ListBlocked.path)
  BY DEF IsSequence, S!Route, S!Delete, S!Get, S!Post, S!Put, S!SendFriendRequest,
         S!AcceptFriendRequest, S!DeclineFriendRequest, S!CancelFriendRequest,
         S!RemoveFriend, S!BlockUser, S!UnblockUser, S!ListFriends, S!ListPendingRequests,
         S!ListBlocked
<1>2. IsSequence(S!FriendRoutes)
  BY DEF S!FriendRoutes, IsSequence
<1> QED BY <1>1, <1>2 DEF S!FriendRoutes, IsTable

LEMMA GuildRoutesTable == IsTable(S!GuildRoutes)
<1>1. /\ IsSequence(S!CreateGuild.path)
      /\ IsSequence(S!GetGuild.path)
      /\ IsSequence(S!UpdateGuild.path)
      /\ IsSequence(S!UploadGuildIcon.path)
      /\ IsSequence(S!UploadGuildBanner.path)
      /\ IsSequence(S!DeleteGuild.path)
      /\ IsSequence(S!ListUserGuilds.path)
      /\ IsSequence(S!PreviewInvite.path)
  BY DEF IsSequence, S!Route, S!Delete, S!Get, S!Patch, S!Post, S!CreateGuild, S!GetGuild,
         S!UpdateGuild, S!UploadGuildIcon, S!UploadGuildBanner, S!DeleteGuild,
         S!ListUserGuilds, S!PreviewInvite
<1>2. IsSequence(S!GuildRoutes)
  BY DEF S!GuildRoutes, IsSequence
<1> QED BY <1>1, <1>2 DEF S!GuildRoutes, IsTable

LEMMA MemberRoutesTable == IsTable(S!MemberRoutes)
<1>1. /\ IsSequence(S!JoinGuild.path)
      /\ IsSequence(S!LeaveGuild.path)
      /\ IsSequence(S!ListMembers.path)
      /\ IsSequence(S!KickMember.path)
      /\ IsSequence(S!BanMember.path)
      /\ IsSequence(S!UnbanMember.path)
      /\ IsSequence(S!CreateInvite.path)
  BY DEF IsSequence, S!Route, S!Delete, S!GetQuery, S!Post, S!Put, S!JoinGuild,
         S!LeaveGuild, S!ListMembers, S!KickMember, S!BanMember, S!UnbanMember,
         S!CreateInvite
<1>2. IsSequence(S!MemberRoutes)
  BY DEF S!MemberRoutes, IsSequence
<1> QED BY <1>1, <1>2 DEF S!MemberRoutes, IsTable

LEMMA RoleRoutesTable == IsTable(S!RoleRoutes)
<1>1. /\ IsSequence(S!CreateRole.path)
      /\ IsSequence(S!UpdateRole.path)
      /\ IsSequence(S!DeleteRole.path)
      /\ IsSequence(S!AssignRole.path)
      /\ IsSequence(S!RemoveRole.path)
      /\ IsSequence(S!TransferOwnership.path)
      /\ IsSequence(S!GrantPermission.path)
      /\ IsSequence(S!RevokePermission.path)
      /\ IsSequence(S!GetUserPermissions.path)
      /\ IsSequence(S!GrantRolePermission.path)
      /\ IsSequence(S!RevokeRolePermission.path)
  BY DEF IsSequence, S!Route, S!Delete, S!Get, S!Patch, S!Post, S!Put, S!CreateRole,
         S!UpdateRole, S!DeleteRole, S!AssignRole, S!RemoveRole, S!TransferOwnership,
         S!GrantPermission, S!RevokePermission, S!GetUserPermissions, S!GrantRolePermission,
         S!RevokeRolePermission
<1>2. IsSequence(S!RoleRoutes)
  BY DEF S!RoleRoutes, IsSequence
<1> QED BY <1>1, <1>2 DEF S!RoleRoutes, IsTable

LEMMA ChannelRoutesTable == IsTable(S!ChannelRoutes)
<1>1. /\ IsSequence(S!CreateChannel.path)
      /\ IsSequence(S!GetChannel.path)
      /\ IsSequence(S!UpdateChannel.path)
      /\ IsSequence(S!DeleteChannel.path)
      /\ IsSequence(S!ListGuildChannels.path)
  BY DEF IsSequence, S!Route, S!Delete, S!Get, S!Patch, S!Post, S!CreateChannel,
         S!GetChannel, S!UpdateChannel, S!DeleteChannel, S!ListGuildChannels
<1>2. IsSequence(S!ChannelRoutes)
  BY DEF S!ChannelRoutes, IsSequence
<1> QED BY <1>1, <1>2 DEF S!ChannelRoutes, IsTable

LEMMA DMChannelRoutesTable == IsTable(S!DMChannelRoutes)
<1>1. /\ IsSequence(S!CreateDMChannel.path)
      /\ IsSequence(S!ListDMChannels.path)
      /\ IsSequence(S!ListDMChannelMembers.path)
      /\ IsSequence(S!ListDMChannelsWithMembers.path)
      /\ IsSequence(S!AddDMGroupMember.path)
      /\ IsSequence(S!RemoveDMGroupMember.path)
      /\ IsSequence(S!SetChannelOverride.path)
      /\ IsSequence(S!DeleteChannelOverride.path)
      /\ IsSequence(S!ListChannelOverrides.path)
  BY DEF IsSequence, S!Route, S!Delete, S!Get, S!GetVerb, S!Post, S!Put, S!CreateDMChannel,
         S!ListDMChannels, S!ListDMChannelMembers, S!ListDMChannelsWithMembers,
         S!AddDMGroupMember, S!RemoveDMGroupMember, S!SetChannelOverride,
         S!DeleteChannelOverride, S!ListChannelOverrides
<1>2. IsSequence(S!DMChannelRoutes)
  BY DEF S!DMChannelRoutes, IsSequence
<1> QED BY <1>1, <1>2 DEF S!DMChannelRoutes, IsTable

LEMMA MessageRoutesTable == IsTable(S!MessageRoutes)
<1>1. /\ IsSequence(S!SendMessage.path)
      /\ IsSequence(S!GetMessage.path)
      /\ IsSequence(S!EditMessage.path)
      /\ IsSequence(S!DeleteMessage.path)
      /\ IsSequence(S!ListMessages.path)
      /\ IsSequence(S!PinMessage.path)
      /\ IsSequence(S!UnpinMessage.path)
      /\ IsSequence(S!AddReaction.path)
      /\ IsSequence(S!RemoveReaction.path)
  BY DEF IsSequence, S!Route, S!Delete, S!Get, S!GetQuery, S!Patch, S!Post, S!Put,
         S!SendMessage, S!GetMessage, S!EditMessage, S!DeleteMessage, S!ListMessages,
         S!PinMessage, S!UnpinMessage, S!AddReaction, S!RemoveReaction
<1>2. IsSequence(S!MessageRoutes)
  BY DEF S!MessageRoutes, IsSequence
<1> QED BY <1>1, <1>2 DEF S!MessageRoutes, IsTable

LEMMA ReadingRoutesTable == IsTable(S!ReadingRoutes)
<1>1. /\ IsSequence(S!AckMessage.path)
      /\ IsSequence(S!StartTyping.path)
      /\ IsSequence(S!SendDirectMessage.path)
      /\ IsSequence(S!GetUnreadCounts.path)
      /\ IsSequence(S!SearchMessages.path)
      /\ IsSequence(S!GetThreadMessages.path)
      /\ IsSequence(S!BulkDeleteMessages.path)
      /\ IsSequence(S!GetEditHistory.path)
  BY DEF IsSequence, S!Route, S!Get, S!GetQuery, S!GetQueryVerb, S!Post, S!PostVerb, S!Put,
         S!AckMessage, S!StartTyping, S!SendDirectMessage, S!GetUnreadCounts,
         S!SearchMessages, S!GetThreadMessages, S!BulkDeleteMessages, S!GetEditHistory
<1>2. IsSequence(S!ReadingRoutes)
  BY DEF S!ReadingRoutes, IsSequence
<1> QED BY <1>1, <1>2 DEF S!ReadingRoutes, IsTable

LEMMA StreamRoutesTable == IsTable(S!StreamRoutes)
<1>1. /\ IsSequence(S!StreamDmChat.path)
      /\ IsSequence(S!StreamDmChannels.path)
      /\ IsSequence(S!StreamDmCalls.path)
      /\ IsSequence(S!StreamTextChannels.path)
      /\ IsSequence(S!StreamVoiceChat.path)
      /\ IsSequence(S!StreamGuildEvents.path)
      /\ IsSequence(S!StreamVoiceState.path)
      /\ IsSequence(S!StreamTyping.path)
      /\ IsSequence(S!StreamFriendActivity.path)
  BY DEF IsSequence, S!Route, S!Get, S!StreamDmChat, S!StreamDmChannels, S!StreamDmCalls,
         S!StreamTextChannels, S!StreamVoiceChat, S!StreamGuildEvents, S!StreamVoiceState,
         S!StreamTyping, S!StreamFriendActivity
<1>2. IsSequence(S!StreamRoutes)
  BY DEF S!StreamRoutes, IsSequence
<1> QED BY <1>1, <1>2 DEF S!StreamRoutes, IsTable

LEMMA SyncRoutesTable == IsTable(S!SyncRoutes)
<1>1. /\ IsSequence(S!Sync.path)
  BY DEF IsSequence, S!Route, S!Post, S!Sync
<1>2. IsSequence(S!SyncRoutes)
  BY DEF S!SyncRoutes, IsSequence
<1> QED BY <1>1, <1>2 DEF S!SyncRoutes, IsTable

LEMMA PresenceRoutesTable == IsTable(S!PresenceRoutes)
<1>1. /\ IsSequence(S!UpdatePresence.path)
      /\ IsSequence(S!GetPresence.path)
      /\ IsSequence(S!GetBulkPresence.path)
  BY DEF IsSequence, S!Route, S!Get, S!GetQuery, S!Patch, S!UpdatePresence, S!GetPresence,
         S!GetBulkPresence
<1>2. IsSequence(S!PresenceRoutes)
  BY DEF S!PresenceRoutes, IsSequence
<1> QED BY <1>1, <1>2 DEF S!PresenceRoutes, IsTable

LEMMA MediaRoutesTable == IsTable(S!MediaRoutes)
<1>1. /\ IsSequence(S!RequestUpload.path)
      /\ IsSequence(S!ConfirmUpload.path)
      /\ IsSequence(S!GetDownloadURL.path)
      /\ IsSequence(S!DeleteFile.path)
  BY DEF IsSequence, S!Route, S!Delete, S!Get, S!Post, S!RequestUpload, S!ConfirmUpload,
         S!GetDownloadURL, S!DeleteFile
<1>2. IsSequence(S!MediaRoutes)
  BY DEF S!MediaRoutes, IsSequence
<1> QED BY <1>1, <1>2 DEF S!MediaRoutes, IsTable

LEMMA CallRoutesTable == IsTable(S!CallRoutes)
<1>1. /\ IsSequence(S!JoinChannel.path)
      /\ IsSequence(S!LeaveChannel.path)
      /\ IsSequence(S!GetChannelParticipants.path)
      /\ IsSequence(S!StartDMCall.path)
      /\ IsSequence(S!JoinDMCall.path)
      /\ IsSequence(S!RejectDMCall.path)
      /\ IsSequence(S!LeaveDMCall.path)
  BY DEF IsSequence, S!Route, S!Delete, S!DeleteQuery, S!Get, S!Post, S!JoinChannel,
         S!LeaveChannel, S!GetChannelParticipants, S!StartDMCall, S!JoinDMCall,
         S!RejectDMCall, S!LeaveDMCall
<1>2. IsSequence(S!CallRoutes)
  BY DEF S!CallRoutes, IsSequence
<1> QED BY <1>1, <1>2 DEF S!CallRoutes, IsTable

LEMMA VoiceStateRoutesTable == IsTable(S!VoiceStateRoutes)
<1>1. /\ IsSequence(S!Mute.path)
      /\ IsSequence(S!Unmute.path)
      /\ IsSequence(S!Deafen.path)
      /\ IsSequence(S!Undeafen.path)
      /\ IsSequence(S!EnableVideo.path)
      /\ IsSequence(S!DisableVideo.path)
      /\ IsSequence(S!StartScreenShare.path)
      /\ IsSequence(S!StopScreenShare.path)
      /\ IsSequence(S!ServerMuteUser.path)
      /\ IsSequence(S!ServerDeafenUser.path)
      /\ IsSequence(S!DisconnectUser.path)
  BY DEF IsSequence, S!Route, S!Delete, S!Put, S!Mute, S!Unmute, S!Deafen, S!Undeafen,
         S!EnableVideo, S!DisableVideo, S!StartScreenShare, S!StopScreenShare,
         S!ServerMuteUser, S!ServerDeafenUser, S!DisconnectUser
<1>2. IsSequence(S!VoiceStateRoutes)
  BY DEF S!VoiceStateRoutes, IsSequence
<1> QED BY <1>1, <1>2 DEF S!VoiceStateRoutes, IsTable

LEMMA Concatenated ==
  ASSUME NEW s, IsTable(s), NEW t, IsTable(t)
  PROVE  IsTable(s \o t) /\ RPCsOf(s \o t) = RPCsOf(s) \cup RPCsOf(t)
<1> DEFINE T == {s[i] : i \in DOMAIN s} \cup {t[i] : i \in DOMAIN t}
<1>0. s \in Seq(T) /\ t \in Seq(T)
  BY DEF IsTable, IsSequence
<1>a. \A r \in T : IsSequence(r.path)
  BY DEF IsTable
<1> HIDE DEF T
<1>1. /\ s \o t \in Seq(T)
      /\ DOMAIN s = 1 .. Len(s) /\ DOMAIN t = 1 .. Len(t)
      /\ DOMAIN (s \o t) = 1 .. Len(s) + Len(t) /\ Len(s) \in Nat /\ Len(t) \in Nat
  BY <1>0
<1>2. \A i \in DOMAIN (s \o t) : (s \o t)[i] = IF i <= Len(s) THEN s[i] ELSE t[i - Len(s)]
  BY <1>0
<1>3. ASSUME NEW i \in DOMAIN (s \o t)
      PROVE  (s \o t)[i].rpc \in RPCsOf(s) \cup RPCsOf(t)
  <2>1. CASE i <= Len(s)
    BY <1>1, <1>2, <2>1 DEF RPCsOf
  <2>2. CASE i > Len(s)
    BY <1>1, <1>2, <2>2 DEF RPCsOf
  <2> QED BY <1>1, <2>1, <2>2
<1>4. ASSUME NEW i \in DOMAIN s PROVE s[i].rpc \in RPCsOf(s \o t)
  <2>1. i \in DOMAIN (s \o t) /\ (s \o t)[i] = s[i]
    BY <1>1, <1>2
  <2> QED BY <2>1 DEF RPCsOf
<1>5. ASSUME NEW i \in DOMAIN t PROVE t[i].rpc \in RPCsOf(s \o t)
  <2>1. i + Len(s) \in DOMAIN (s \o t) /\ (s \o t)[i + Len(s)] = t[i]
    BY <1>1, <1>2
  <2> QED BY <2>1 DEF RPCsOf
<1>6. IsTable(s \o t)
  <2>1. \A u \in Seq(T) : IsSequence(u)
    BY DEF IsSequence
  <2>2. \A i \in DOMAIN (s \o t) : (s \o t)[i] \in T
    BY <1>1
  <2> QED BY <1>a, <1>1, <2>1, <2>2 DEF IsTable
<1> QED BY <1>3, <1>4, <1>5, <1>6 DEF RPCsOf

LEMMA RegisteredRoutes ==
  /\ IsTable(S!Registered)
  /\ RPCsOf(S!Registered) =
       UNION {RPCsOf(S!AuthRoutes), RPCsOf(S!ProfileRoutes), RPCsOf(S!FriendRoutes),
              RPCsOf(S!GuildRoutes), RPCsOf(S!MemberRoutes), RPCsOf(S!RoleRoutes),
              RPCsOf(S!ChannelRoutes), RPCsOf(S!DMChannelRoutes),
              RPCsOf(S!MessageRoutes), RPCsOf(S!ReadingRoutes), RPCsOf(S!StreamRoutes),
              RPCsOf(S!SyncRoutes), RPCsOf(S!PresenceRoutes), RPCsOf(S!MediaRoutes),
              RPCsOf(S!CallRoutes), RPCsOf(S!VoiceStateRoutes)}
<1> DEFINE r1 == S!AuthRoutes
           r2 == r1 \o S!ProfileRoutes
           r3 == r2 \o S!FriendRoutes
           r4 == r3 \o S!GuildRoutes
           r5 == r4 \o S!MemberRoutes
           r6 == r5 \o S!RoleRoutes
           r7 == r6 \o S!ChannelRoutes
           r8 == r7 \o S!DMChannelRoutes
           r9 == r8 \o S!MessageRoutes
           r10 == r9 \o S!ReadingRoutes
           r11 == r10 \o S!StreamRoutes
           r12 == r11 \o S!SyncRoutes
           r13 == r12 \o S!PresenceRoutes
           r14 == r13 \o S!MediaRoutes
           r15 == r14 \o S!CallRoutes
           r16 == r15 \o S!VoiceStateRoutes
<1>1. IsTable(r1)
  BY AuthRoutesTable
<1>2. IsTable(r2) /\ RPCsOf(r2) = RPCsOf(r1) \cup RPCsOf(S!ProfileRoutes)
  BY <1>1, ProfileRoutesTable, Concatenated
<1>3. IsTable(r3) /\ RPCsOf(r3) = RPCsOf(r2) \cup RPCsOf(S!FriendRoutes)
  BY <1>2, FriendRoutesTable, Concatenated
<1>4. IsTable(r4) /\ RPCsOf(r4) = RPCsOf(r3) \cup RPCsOf(S!GuildRoutes)
  BY <1>3, GuildRoutesTable, Concatenated
<1>5. IsTable(r5) /\ RPCsOf(r5) = RPCsOf(r4) \cup RPCsOf(S!MemberRoutes)
  BY <1>4, MemberRoutesTable, Concatenated
<1>6. IsTable(r6) /\ RPCsOf(r6) = RPCsOf(r5) \cup RPCsOf(S!RoleRoutes)
  BY <1>5, RoleRoutesTable, Concatenated
<1>7. IsTable(r7) /\ RPCsOf(r7) = RPCsOf(r6) \cup RPCsOf(S!ChannelRoutes)
  BY <1>6, ChannelRoutesTable, Concatenated
<1>8. IsTable(r8) /\ RPCsOf(r8) = RPCsOf(r7) \cup RPCsOf(S!DMChannelRoutes)
  BY <1>7, DMChannelRoutesTable, Concatenated
<1>9. IsTable(r9) /\ RPCsOf(r9) = RPCsOf(r8) \cup RPCsOf(S!MessageRoutes)
  BY <1>8, MessageRoutesTable, Concatenated
<1>10. IsTable(r10) /\ RPCsOf(r10) = RPCsOf(r9) \cup RPCsOf(S!ReadingRoutes)
  BY <1>9, ReadingRoutesTable, Concatenated
<1>11. IsTable(r11) /\ RPCsOf(r11) = RPCsOf(r10) \cup RPCsOf(S!StreamRoutes)
  BY <1>10, StreamRoutesTable, Concatenated
<1>12. IsTable(r12) /\ RPCsOf(r12) = RPCsOf(r11) \cup RPCsOf(S!SyncRoutes)
  BY <1>11, SyncRoutesTable, Concatenated
<1>13. IsTable(r13) /\ RPCsOf(r13) = RPCsOf(r12) \cup RPCsOf(S!PresenceRoutes)
  BY <1>12, PresenceRoutesTable, Concatenated
<1>14. IsTable(r14) /\ RPCsOf(r14) = RPCsOf(r13) \cup RPCsOf(S!MediaRoutes)
  BY <1>13, MediaRoutesTable, Concatenated
<1>15. IsTable(r15) /\ RPCsOf(r15) = RPCsOf(r14) \cup RPCsOf(S!CallRoutes)
  BY <1>14, CallRoutesTable, Concatenated
<1>16. IsTable(r16) /\ RPCsOf(r16) = RPCsOf(r15) \cup RPCsOf(S!VoiceStateRoutes)
  BY <1>15, VoiceStateRoutesTable, Concatenated
<1>17. S!Registered = r16
  BY DEF S!Registered
<1> HIDE DEF r2, r3, r4, r5, r6, r7, r8, r9, r10, r11, r12, r13, r14, r15, r16
<1> QED
  BY <1>1, <1>2, <1>3, <1>4, <1>5, <1>6, <1>7, <1>8, <1>9, <1>10, <1>11, <1>12, <1>13, <1>14, <1>15, <1>16, <1>17

-----------------------------------------------------------------------------
(* Client stubs and handlers.                                                *)

ServiceNames == {s.name : s \in S!Services}

\* Every name of f stands for itself in one of the services.
NamesItself(f) == \A n \in DOMAIN f : \E service \in ServiceNames : f[n] = <<service, n>>

\* Every handler in f reports itself, in service.
ReportsItself(f, service) == \A n \in DOMAIN f : f[n] = <<service, n>>

LEMMA Named ==
  /\ ServiceNames = {"auth.v1.AuthService", "user.v1.UserService", "guild.v1.GuildService",
                     "channel.v1.ChannelService", "message.v1.MessageService",
                     "stream.v1.StreamService", "sync.v1.SyncService",
                     "presence.v1.PresenceService", "media.v1.MediaService",
                     "voice.v1.VoiceService"}
  /\ S!AuthService.name = "auth.v1.AuthService" /\ S!UserService.name = "user.v1.UserService"
  /\ S!GuildService.name = "guild.v1.GuildService"
  /\ S!ChannelService.name = "channel.v1.ChannelService"
  /\ S!MessageService.name = "message.v1.MessageService"
  /\ S!StreamService.name = "stream.v1.StreamService"
  /\ S!SyncService.name = "sync.v1.SyncService"
  /\ S!PresenceService.name = "presence.v1.PresenceService"
  /\ S!MediaService.name = "media.v1.MediaService" /\ S!VoiceService.name = "voice.v1.VoiceService"
<1>1. \A name, methods, streams : S!Described(name, methods, streams).name = name
  BY DEF S!Described
<1>2. /\ S!AuthService.name = "auth.v1.AuthService"
      /\ S!UserService.name = "user.v1.UserService"
      /\ S!GuildService.name = "guild.v1.GuildService"
      /\ S!ChannelService.name = "channel.v1.ChannelService"
      /\ S!MessageService.name = "message.v1.MessageService"
      /\ S!StreamService.name = "stream.v1.StreamService"
      /\ S!SyncService.name = "sync.v1.SyncService"
      /\ S!PresenceService.name = "presence.v1.PresenceService"
      /\ S!MediaService.name = "media.v1.MediaService"
      /\ S!VoiceService.name = "voice.v1.VoiceService"
  BY <1>1 DEF S!AuthService, S!UserService, S!GuildService, S!ChannelService, S!MessageService,
              S!StreamService, S!SyncService, S!PresenceService, S!MediaService, S!VoiceService
<1> QED BY <1>2 DEF ServiceNames, S!Services

LEMMA BothName ==
  ASSUME NEW f, NEW g, NamesItself(f), NamesItself(g)
  PROVE  NamesItself(S!++(f, g)) /\ DOMAIN S!++(f, g) = DOMAIN f \cup DOMAIN g
  BY DEF NamesItself, S!++

LEMMA BothReport ==
  ASSUME NEW f, NEW g, NEW service, ReportsItself(f, service), ReportsItself(g, service)
  PROVE  ReportsItself(S!++(f, g), service)
  BY DEF ReportsItself, S!++

LEMMA StubNames ==
  ASSUME NEW service \in ServiceNames, NEW routes
  PROVE  NamesItself(S!Stub(service, routes)) /\ DOMAIN S!Stub(service, routes) = RPCsOf(routes)
  BY DEF S!Stub, NamesItself, RPCsOf

LEMMA ReportingReports ==
  ASSUME NEW service, NEW methods
  PROVE  ReportsItself(S!Reporting(service, methods), service) /\ ReportsItself(S!None, service)
  BY DEF S!Reporting, S!None, ReportsItself

\* The gateway and gRPC clients have a stub for every registered route, which calls the
\* method of its name.
LEMMA ClientNames == NamesItself(S!Clients) /\ DOMAIN S!Clients = RPCsOf(S!Registered)
<1>1. /\ NamesItself(S!AuthClient) /\ DOMAIN S!AuthClient = RPCsOf(S!AuthRoutes)
      /\ NamesItself(S!StreamClient) /\ DOMAIN S!StreamClient = RPCsOf(S!StreamRoutes)
      /\ NamesItself(S!SyncClient) /\ DOMAIN S!SyncClient = RPCsOf(S!SyncRoutes)
      /\ NamesItself(S!PresenceClient) /\ DOMAIN S!PresenceClient = RPCsOf(S!PresenceRoutes)
      /\ NamesItself(S!MediaClient) /\ DOMAIN S!MediaClient = RPCsOf(S!MediaRoutes)
  BY Named, StubNames DEF S!AuthClient, S!StreamClient, S!SyncClient, S!PresenceClient, S!MediaClient
<1>2. /\ NamesItself(S!UserClient)
      /\ DOMAIN S!UserClient = RPCsOf(S!ProfileRoutes) \cup RPCsOf(S!FriendRoutes)
  <2> DEFINE routes == S!ProfileRoutes \o S!FriendRoutes
  <2>1. RPCsOf(routes) = RPCsOf(S!ProfileRoutes) \cup RPCsOf(S!FriendRoutes)
    BY Concatenated, ProfileRoutesTable, FriendRoutesTable
  <2>2. S!UserClient = S!Stub("user.v1.UserService", routes)
    BY DEF S!UserClient
  <2> HIDE DEF routes
  <2> QED BY <2>1, <2>2, Named, StubNames
<1>3. /\ NamesItself(S!GuildClient)
      /\ DOMAIN S!GuildClient = (RPCsOf(S!GuildRoutes) \cup RPCsOf(S!MemberRoutes))
                                  \cup RPCsOf(S!RoleRoutes)
  <2> DEFINE routes == (S!GuildRoutes \o S!MemberRoutes) \o S!RoleRoutes
  <2>1. RPCsOf(routes) = (RPCsOf(S!GuildRoutes) \cup RPCsOf(S!MemberRoutes)) \cup RPCsOf(S!RoleRoutes)
    BY Concatenated, GuildRoutesTable, MemberRoutesTable, RoleRoutesTable
  <2>2. S!GuildClient = S!Stub("guild.v1.GuildService", routes)
    BY DEF S!GuildClient
  <2> HIDE DEF routes
  <2> QED BY <2>1, <2>2, Named, StubNames
<1>4. /\ NamesItself(S!ChannelClient)
      /\ DOMAIN S!ChannelClient = RPCsOf(S!ChannelRoutes) \cup RPCsOf(S!DMChannelRoutes)
  <2> DEFINE routes == S!ChannelRoutes \o S!DMChannelRoutes
  <2>1. RPCsOf(routes) = RPCsOf(S!ChannelRoutes) \cup RPCsOf(S!DMChannelRoutes)
    BY Concatenated, ChannelRoutesTable, DMChannelRoutesTable
  <2>2. S!ChannelClient = S!Stub("channel.v1.ChannelService", routes)
    BY DEF S!ChannelClient
  <2> HIDE DEF routes
  <2> QED BY <2>1, <2>2, Named, StubNames
<1>5. /\ NamesItself(S!MessageClient)
      /\ DOMAIN S!MessageClient = RPCsOf(S!MessageRoutes) \cup RPCsOf(S!ReadingRoutes)
  <2> DEFINE routes == S!MessageRoutes \o S!ReadingRoutes
  <2>1. RPCsOf(routes) = RPCsOf(S!MessageRoutes) \cup RPCsOf(S!ReadingRoutes)
    BY Concatenated, MessageRoutesTable, ReadingRoutesTable
  <2>2. S!MessageClient = S!Stub("message.v1.MessageService", routes)
    BY DEF S!MessageClient
  <2> HIDE DEF routes
  <2> QED BY <2>1, <2>2, Named, StubNames
<1>6. /\ NamesItself(S!VoiceClient)
      /\ DOMAIN S!VoiceClient = RPCsOf(S!CallRoutes) \cup RPCsOf(S!VoiceStateRoutes)
  <2> DEFINE routes == S!CallRoutes \o S!VoiceStateRoutes
  <2>1. RPCsOf(routes) = RPCsOf(S!CallRoutes) \cup RPCsOf(S!VoiceStateRoutes)
    BY Concatenated, CallRoutesTable, VoiceStateRoutesTable
  <2>2. S!VoiceClient = S!Stub("voice.v1.VoiceService", routes)
    BY DEF S!VoiceClient
  <2> HIDE DEF routes
  <2> QED BY <2>1, <2>2, Named, StubNames
<1> DEFINE c1 == S!++(S!AuthClient, S!UserClient)
           c2 == S!++(c1, S!GuildClient)
           c3 == S!++(c2, S!ChannelClient)
           c4 == S!++(c3, S!MessageClient)
           c5 == S!++(c4, S!StreamClient)
           c6 == S!++(c5, S!SyncClient)
           c7 == S!++(c6, S!PresenceClient)
           c8 == S!++(c7, S!MediaClient)
           c9 == S!++(c8, S!VoiceClient)
<1>11. NamesItself(c1) /\ DOMAIN c1 = DOMAIN S!AuthClient \cup DOMAIN S!UserClient
  BY <1>1, <1>2, BothName
<1>12. NamesItself(c2) /\ DOMAIN c2 = DOMAIN c1 \cup DOMAIN S!GuildClient
  BY <1>11, <1>3, BothName
<1>13. NamesItself(c3) /\ DOMAIN c3 = DOMAIN c2 \cup DOMAIN S!ChannelClient
  BY <1>12, <1>4, BothName
<1>14. NamesItself(c4) /\ DOMAIN c4 = DOMAIN c3 \cup DOMAIN S!MessageClient
  BY <1>13, <1>5, BothName
<1>15. NamesItself(c5) /\ DOMAIN c5 = DOMAIN c4 \cup DOMAIN S!StreamClient
  BY <1>14, <1>1, BothName
<1>16. NamesItself(c6) /\ DOMAIN c6 = DOMAIN c5 \cup DOMAIN S!SyncClient
  BY <1>15, <1>1, BothName
<1>17. NamesItself(c7) /\ DOMAIN c7 = DOMAIN c6 \cup DOMAIN S!PresenceClient
  BY <1>16, <1>1, BothName
<1>18. NamesItself(c8) /\ DOMAIN c8 = DOMAIN c7 \cup DOMAIN S!MediaClient
  BY <1>17, <1>1, BothName
<1>19. NamesItself(c9) /\ DOMAIN c9 = DOMAIN c8 \cup DOMAIN S!VoiceClient
  BY <1>18, <1>6, BothName
<1>20. S!Clients = c9
  BY DEF S!Clients
<1> HIDE DEF c1, c2, c3, c4, c5, c6, c7, c8, c9
<1>21. DOMAIN S!Clients =
         UNION {DOMAIN S!AuthClient, DOMAIN S!UserClient, DOMAIN S!GuildClient,
                DOMAIN S!ChannelClient, DOMAIN S!MessageClient, DOMAIN S!StreamClient,
                DOMAIN S!SyncClient, DOMAIN S!PresenceClient, DOMAIN S!MediaClient,
                DOMAIN S!VoiceClient}
  BY <1>11, <1>12, <1>13, <1>14, <1>15, <1>16, <1>17, <1>18, <1>19, <1>20
<1>22. DOMAIN S!Clients = RPCsOf(S!Registered)
  BY <1>1, <1>2, <1>3, <1>4, <1>5, <1>6, <1>21, RegisteredRoutes
<1> QED BY <1>19, <1>20, <1>22

LEMMA AuthRPCs ==
  RPCsOf(S!AuthRoutes) =
      {"Register", "VerifyOTP", "ResendOTP", "Login", "RefreshToken", "Logout",
       "ValidateToken"}
<1>1. /\ S!Register.rpc = "Register"
      /\ S!VerifyOTP.rpc = "VerifyOTP"
      /\ S!ResendOTP.rpc = "ResendOTP"
      /\ S!Login.rpc = "Login"
      /\ S!RefreshToken.rpc = "RefreshToken"
      /\ S!Logout.rpc = "Logout"
      /\ S!ValidateToken.rpc = "ValidateToken"
  BY DEF S!Register, S!VerifyOTP, S!ResendOTP, S!Login, S!RefreshToken, S!Logout,
         S!ValidateToken, S!Post, S!Route
<1>2. DOMAIN S!AuthRoutes = 1 .. 7
  BY DEF S!AuthRoutes
<1>3. /\ S!AuthRoutes[1] = S!Register
      /\ S!AuthRoutes[2] = S!VerifyOTP
      /\ S!AuthRoutes[3] = S!ResendOTP
      /\ S!AuthRoutes[4] = S!Login
      /\ S!AuthRoutes[5] = S!RefreshToken
      /\ S!AuthRoutes[6] = S!Logout
      /\ S!AuthRoutes[7] = S!ValidateToken
  BY DEF S!AuthRoutes
<1>4. /\ S!AuthRoutes[1].rpc = "Register"
      /\ S!AuthRoutes[2].rpc = "VerifyOTP"
      /\ S!AuthRoutes[3].rpc = "ResendOTP"
      /\ S!AuthRoutes[4].rpc = "Login"
      /\ S!AuthRoutes[5].rpc = "RefreshToken"
      /\ S!AuthRoutes[6].rpc = "Logout"
      /\ S!AuthRoutes[7].rpc = "ValidateToken"
  BY <1>1, <1>3
<1>5. 1 .. 7 = {1, 2, 3, 4, 5, 6, 7}
  OBVIOUS
<1> QED BY <1>2, <1>4, <1>5 DEF RPCsOf

LEMMA ProfileRPCs ==
  RPCsOf(S!ProfileRoutes) =
      {"GetUser", "UpdateUser", "UpdateUsername", "UpdateStatus", "UploadUserAvatar",
       "DeleteUser", "GetUserByUsername", "SearchUsers"}
<1>1. /\ S!GetUser.rpc = "GetUser"
      /\ S!UpdateUser.rpc = "UpdateUser"
      /\ S!UpdateUsername.rpc = "UpdateUsername"
      /\ S!UpdateStatus.rpc = "UpdateStatus"
      /\ S!UploadUserAvatar.rpc = "UploadUserAvatar"
      /\ S!DeleteUser.rpc = "DeleteUser"
      /\ S!GetUserByUsername.rpc = "GetUserByUsername"
      /\ S!SearchUsers.rpc = "SearchUsers"
  BY DEF S!GetUser, S!UpdateUser, S!UpdateUsername, S!UpdateStatus, S!UploadUserAvatar,
         S!DeleteUser, S!GetUserByUsername, S!SearchUsers, S!DeleteQuery, S!Get, S!GetQuery,
         S!Patch, S!Post, S!Route
<1>2. DOMAIN S!ProfileRoutes = 1 .. 8
  BY DEF S!ProfileRoutes
<1>3. /\ S!ProfileRoutes[1] = S!GetUser
      /\ S!ProfileRoutes[2] = S!UpdateUser
      /\ S!ProfileRoutes[3] = S!UpdateUsername
      /\ S!ProfileRoutes[4] = S!UpdateStatus
      /\ S!ProfileRoutes[5] = S!UploadUserAvatar
      /\ S!ProfileRoutes[6] = S!DeleteUser
      /\ S!ProfileRoutes[7] = S!GetUserByUsername
      /\ S!ProfileRoutes[8] = S!SearchUsers
  BY DEF S!ProfileRoutes
<1>4. /\ S!ProfileRoutes[1].rpc = "GetUser"
      /\ S!ProfileRoutes[2].rpc = "UpdateUser"
      /\ S!ProfileRoutes[3].rpc = "UpdateUsername"
      /\ S!ProfileRoutes[4].rpc = "UpdateStatus"
      /\ S!ProfileRoutes[5].rpc = "UploadUserAvatar"
      /\ S!ProfileRoutes[6].rpc = "DeleteUser"
      /\ S!ProfileRoutes[7].rpc = "GetUserByUsername"
      /\ S!ProfileRoutes[8].rpc = "SearchUsers"
  BY <1>1, <1>3
<1>5. 1 .. 8 = {1, 2, 3, 4, 5, 6, 7, 8}
  OBVIOUS
<1> QED BY <1>2, <1>4, <1>5 DEF RPCsOf

LEMMA FriendRPCs ==
  RPCsOf(S!FriendRoutes) =
      {"SendFriendRequest", "AcceptFriendRequest", "DeclineFriendRequest",
       "CancelFriendRequest", "RemoveFriend", "BlockUser", "UnblockUser", "ListFriends",
       "ListPendingRequests", "ListBlocked"}
<1>1. /\ S!SendFriendRequest.rpc = "SendFriendRequest"
      /\ S!AcceptFriendRequest.rpc = "AcceptFriendRequest"
      /\ S!DeclineFriendRequest.rpc = "DeclineFriendRequest"
      /\ S!CancelFriendRequest.rpc = "CancelFriendRequest"
      /\ S!RemoveFriend.rpc = "RemoveFriend"
      /\ S!BlockUser.rpc = "BlockUser"
      /\ S!UnblockUser.rpc = "UnblockUser"
      /\ S!ListFriends.rpc = "ListFriends"
      /\ S!ListPendingRequests.rpc = "ListPendingRequests"
      /\ S!ListBlocked.rpc = "ListBlocked"
  BY DEF S!SendFriendRequest, S!AcceptFriendRequest, S!DeclineFriendRequest,
         S!CancelFriendRequest, S!RemoveFriend, S!BlockUser, S!UnblockUser, S!ListFriends,
         S!ListPendingRequests, S!ListBlocked, S!Delete, S!Get, S!Post, S!Put, S!Route
<1>2. DOMAIN S!FriendRoutes = 1 .. 10
  BY DEF S!FriendRoutes
<1>3. /\ S!FriendRoutes[1] = S!SendFriendRequest
      /\ S!FriendRoutes[2] = S!AcceptFriendRequest
      /\ S!FriendRoutes[3] = S!DeclineFriendRequest
      /\ S!FriendRoutes[4] = S!CancelFriendRequest
      /\ S!FriendRoutes[5] = S!RemoveFriend
      /\ S!FriendRoutes[6] = S!BlockUser
      /\ S!FriendRoutes[7] = S!UnblockUser
      /\ S!FriendRoutes[8] = S!ListFriends
      /\ S!FriendRoutes[9] = S!ListPendingRequests
      /\ S!FriendRoutes[10] = S!ListBlocked
  BY DEF S!FriendRoutes
<1>4. /\ S!FriendRoutes[1].rpc = "SendFriendRequest"
      /\ S!FriendRoutes[2].rpc = "AcceptFriendRequest"
      /\ S!FriendRoutes[3].rpc = "DeclineFriendRequest"
      /\ S!FriendRoutes[4].rpc = "CancelFriendRequest"
      /\ S!FriendRoutes[5].rpc = "RemoveFriend"
      /\ S!FriendRoutes[6].rpc = "BlockUser"
      /\ S!FriendRoutes[7].rpc = "UnblockUser"
      /\ S!FriendRoutes[8].rpc = "ListFriends"
      /\ S!FriendRoutes[9].rpc = "ListPendingRequests"
      /\ S!FriendRoutes[10].rpc = "ListBlocked"
  BY <1>1, <1>3
<1>5. 1 .. 10 = {1, 2, 3, 4, 5, 6, 7, 8, 9, 10}
  OBVIOUS
<1> QED BY <1>2, <1>4, <1>5 DEF RPCsOf

\* The RPCs of signing in are those that AuthInterceptor lets pass, by their full names.
LEMMA SignInIsPublic ==
  ASSUME NEW n \in DOMAIN S!Clients, n \in SignIn
  PROVE  S!Clients[n] \in publicMethods
<1>1. S!Clients = S!++(S!++(S!++(S!++(S!++(S!++(S!++(S!++(S!++(S!AuthClient, S!UserClient),
                    S!GuildClient), S!ChannelClient), S!MessageClient), S!StreamClient),
                    S!SyncClient), S!PresenceClient), S!MediaClient), S!VoiceClient)
  BY DEF S!Clients
<1>2. \A f, g, m : m \in DOMAIN f => m \in DOMAIN S!++(f, g) /\ S!++(f, g)[m] = f[m]
  BY DEF S!++
<1>3. \A f, g, m : m \in DOMAIN g /\ m \notin DOMAIN f
                     => m \in DOMAIN S!++(f, g) /\ S!++(f, g)[m] = g[m]
  BY DEF S!++
<1>4. \A f, g, m : m \notin DOMAIN f /\ m \notin DOMAIN g => m \notin DOMAIN S!++(f, g)
  BY DEF S!++
<1>5. CASE n = "PreviewInvite"
  <2>1. "PreviewInvite" \notin DOMAIN S!AuthClient
    BY AuthRPCs DEF S!AuthClient, S!Stub, RPCsOf
  <2>2. "PreviewInvite" \notin RPCsOf(S!ProfileRoutes)
    BY ProfileRPCs
  <2>3. "PreviewInvite" \notin RPCsOf(S!FriendRoutes)
    BY FriendRPCs
  <2>4. "PreviewInvite" \notin DOMAIN S!UserClient
    BY <2>2, <2>3, Named, StubNames, Concatenated, ProfileRoutesTable, FriendRoutesTable
       DEF S!UserClient
  <2>5. "PreviewInvite" \in RPCsOf(S!GuildRoutes)
    <3>1. S!GuildRoutes[8].rpc = "PreviewInvite" /\ 8 \in DOMAIN S!GuildRoutes
      <4>1. S!GuildRoutes[8] = S!PreviewInvite /\ 8 \in DOMAIN S!GuildRoutes
        BY DEF S!GuildRoutes
      <4>2. S!PreviewInvite.rpc = "PreviewInvite"
        BY DEF S!PreviewInvite, S!Get, S!Route
      <4> QED BY <4>1, <4>2
    <3> QED BY <3>1 DEF RPCsOf
  <2>6. /\ "PreviewInvite" \in DOMAIN S!GuildClient
        /\ S!GuildClient["PreviewInvite"] = <<"guild.v1.GuildService", "PreviewInvite">>
    <3> DEFINE routes == (S!GuildRoutes \o S!MemberRoutes) \o S!RoleRoutes
    <3>1. "PreviewInvite" \in RPCsOf(routes)
      BY <2>5, Concatenated, GuildRoutesTable, MemberRoutesTable, RoleRoutesTable
    <3>2. S!GuildClient = S!Stub("guild.v1.GuildService", routes)
      BY DEF S!GuildClient
    <3> HIDE DEF routes
    <3> QED BY <3>1, <3>2 DEF S!Stub, RPCsOf
  <2>7. S!Clients["PreviewInvite"] = S!GuildClient["PreviewInvite"]
    BY <1>1, <1>2, <1>3, <1>4, <2>1, <2>4, <2>6
  <2> QED BY <1>5, <2>6, <2>7 DEF publicMethods
<1>6. CASE n # "PreviewInvite"
  <2>1. n \in {"Register", "VerifyOTP", "ResendOTP", "Login", "RefreshToken", "ValidateToken"}
    BY <1>6 DEF SignIn
  <2>2. n \in DOMAIN S!AuthClient /\ S!AuthClient[n] = <<"auth.v1.AuthService", n>>
    BY <2>1, AuthRPCs DEF S!AuthClient, S!Stub, RPCsOf
  <2>3. S!Clients[n] = S!AuthClient[n]
    BY <1>1, <1>2, <2>2
  <2> QED BY <2>1, <2>2, <2>3 DEF publicMethods
<1> QED BY <1>5, <1>6

\* Every service reports its unary methods under its own name.
LEMMA HandlersReport ==
  ASSUME NEW s \in S!Services
  PROVE  ReportsItself(s.methods, s.name)
<1>1. \A name, methods, streams : S!Described(name, methods, streams).methods = methods
  BY DEF S!Described
<1>2. CASE s = S!AuthService
  BY <1>1, <1>2, Named, ReportingReports DEF S!AuthService, S!AuthHandlers
<1>3. CASE s = S!UserService
  <2>1. s.methods = S!++(S!++(S!ProfileHandlers, S!FriendHandlers), S!BlockHandlers)
    BY <1>1, <1>3 DEF S!UserService
  <2>2. /\ ReportsItself(S!ProfileHandlers, s.name) /\ ReportsItself(S!FriendHandlers, s.name)
        /\ ReportsItself(S!BlockHandlers, s.name)
    BY <1>3, Named, ReportingReports DEF S!ProfileHandlers, S!FriendHandlers, S!BlockHandlers
  <2> QED BY <2>1, <2>2, BothReport
<1>4. CASE s = S!GuildService
  <2>1. s.methods = S!++(S!++(S!++(S!GuildHandlers, S!MemberHandlers), S!RoleHandlers),
                         S!PermissionHandlers)
    BY <1>1, <1>4 DEF S!GuildService
  <2>2. /\ ReportsItself(S!GuildHandlers, s.name) /\ ReportsItself(S!MemberHandlers, s.name)
        /\ ReportsItself(S!RoleHandlers, s.name) /\ ReportsItself(S!PermissionHandlers, s.name)
    BY <1>4, Named, ReportingReports
       DEF S!GuildHandlers, S!MemberHandlers, S!RoleHandlers, S!PermissionHandlers
  <2> QED BY <2>1, <2>2, BothReport
<1>5. CASE s = S!ChannelService
  <2>1. s.methods = S!++(S!++(S!ChannelHandlers, S!DMChannelHandlers), S!OverrideHandlers)
    BY <1>1, <1>5 DEF S!ChannelService
  <2>2. /\ ReportsItself(S!ChannelHandlers, s.name) /\ ReportsItself(S!DMChannelHandlers, s.name)
        /\ ReportsItself(S!OverrideHandlers, s.name)
    BY <1>5, Named, ReportingReports DEF S!ChannelHandlers, S!DMChannelHandlers, S!OverrideHandlers
  <2> QED BY <2>1, <2>2, BothReport
<1>6. CASE s = S!MessageService
  <2>1. s.methods = S!++(S!MessageHandlers, S!ReadingHandlers)
    BY <1>1, <1>6 DEF S!MessageService
  <2>2. ReportsItself(S!MessageHandlers, s.name) /\ ReportsItself(S!ReadingHandlers, s.name)
    BY <1>6, Named, ReportingReports DEF S!MessageHandlers, S!ReadingHandlers
  <2> QED BY <2>1, <2>2, BothReport
<1>7. CASE s = S!StreamService
  BY <1>1, <1>7, ReportingReports DEF S!StreamService
<1>8. CASE s = S!SyncService
  BY <1>1, <1>8, Named, ReportingReports DEF S!SyncService, S!SyncHandlers
<1>9. CASE s = S!PresenceService
  BY <1>1, <1>9, Named, ReportingReports DEF S!PresenceService, S!PresenceHandlers
<1>10. CASE s = S!MediaService
  BY <1>1, <1>10, Named, ReportingReports DEF S!MediaService, S!MediaHandlers
<1>11. CASE s = S!VoiceService
  <2>1. s.methods = S!++(S!++(S!CallHandlers, S!ToggleHandlers), S!ModerationHandlers)
    BY <1>1, <1>11 DEF S!VoiceService
  <2>2. /\ ReportsItself(S!CallHandlers, s.name) /\ ReportsItself(S!ToggleHandlers, s.name)
        /\ ReportsItself(S!ModerationHandlers, s.name)
    BY <1>11, Named, ReportingReports DEF S!CallHandlers, S!ToggleHandlers, S!ModerationHandlers
  <2> QED BY <2>1, <2>2, BothReport
<1> QED
  BY <1>2, <1>3, <1>4, <1>5, <1>6, <1>7, <1>8, <1>9, <1>10, <1>11 DEF S!Services

\* The name the interceptors look up is the one the client has called.
LEMMA ReportedAsCalled ==
  ASSUME NEW x \in DOMAIN S!Clients
  PROVE  S!Reported(S!Clients[x]) = S!Clients[x] /\ S!Clients[x][2] = x
<1>1. PICK service \in ServiceNames : S!Clients[x] = <<service, x>>
  BY ClientNames DEF NamesItself
<1> DEFINE full == <<service, x>>
<1>2. S!Serving(full) \in S!Services /\ S!Serving(full).name = service
  <2>1. full[1] = service
    OBVIOUS
  <2>2. \E s \in S!Services : s.name = full[1]
    BY <2>1 DEF ServiceNames
  <2> HIDE DEF full
  <2> QED BY <2>1, <2>2 DEF S!Serving
<1>3. ReportsItself(S!Serving(full).methods, service)
  BY <1>2, HandlersReport
<1>4. S!Reported(full) = full
  BY <1>3 DEF S!Reported, S!IsUnary, ReportsItself
<1> QED BY <1>1, <1>4

-----------------------------------------------------------------------------
(* The route that serves a URL.                                              *)

LEMMA LargestOf ==
  ASSUME NEW n \in Nat, NEW hits, hits \subseteq 1 .. n, hits # {}
  PROVE  \E i \in hits : \A j \in hits : j <= i
<1> DEFINE left == {n - i : i \in hits}
<1>1. \A i \in hits : i \in Nat /\ n - i \in Nat
  OBVIOUS
<1>2. left \subseteq Nat /\ left # {}
  BY <1>1
<1>3. PICK l \in left : \A m \in left : ~ (<<m, l>> \in OpToRel(<, Nat))
  <2> HIDE DEF left
  <2> QED BY <1>2, NatLessThanWellFounded, WFMin
<1>4. PICK i \in hits : l = n - i
  BY <1>3
<1>5. ASSUME NEW j \in hits PROVE j <= i
  <2>1. n - j \in left /\ n - j \in Nat /\ l \in Nat
    BY <1>1, <1>4
  <2>2. ~ (<<n - j, l>> \in OpToRel(<, Nat))
    BY <1>3, <2>1
  <2>3. \A x, y \in Nat : x < y => <<x, y>> \in OpToRel(<, Nat)
    BY DEF OpToRel
  <2>4. ~ (n - j < l)
    BY <2>1, <2>2, <2>3
  <2> QED BY <1>1, <1>4, <2>1, <2>4
<1> QED BY <1>5

\* The URL of a registered route is served by a registered route.
LEMMA DispatchRegistered ==
  ASSUME NEW k \in DOMAIN S!Registered, NEW args
  PROVE  S!Dispatch(S!URL(S!Registered[k], args)).rpc \in RPCsOf(S!Registered)
<1> DEFINE route == S!Registered[k]
           url == S!URL(route, args)
           hits == {i \in DOMAIN S!Registered : S!Matches(S!Registered[i], url)}
<1>1. DOMAIN S!Registered = 1 .. Len(S!Registered) /\ Len(S!Registered) \in Nat
  BY RegisteredRoutes DEF IsTable, IsSequence
<1>2. Len(route.path) \in Nat /\ DOMAIN route.path = 1 .. Len(route.path)
  BY RegisteredRoutes DEF IsTable, IsSequence
<1>3. k \in hits
  <2> DEFINE path == [i \in DOMAIN route.path |->
                        IF route.path[i] \in S!Field THEN args[route.path[i]] ELSE route.path[i]]
  <2>1. url.method = route.method /\ url.verb = route.verb /\ url.path = path
    BY DEF S!URL
  <2>2. DOMAIN path = DOMAIN route.path /\ Len(path) = Len(route.path)
    BY <1>2
  <2>3. \A i \in DOMAIN path : route.path[i] \in S!Field \/ route.path[i] = path[i]
    OBVIOUS
  <2> HIDE DEF path, url, route
  <2>4. S!Matches(route, url)
    BY <2>1, <2>2, <2>3 DEF S!Matches
  <2> QED BY <2>4 DEF route
<1> HIDE DEF url
<1>4. \E i \in hits : \A j \in hits : j <= i
  BY <1>1, <1>3, LargestOf
<1>5. S!Dispatch(url) = S!Registered[CHOOSE i \in hits : \A j \in hits : j <= i]
  BY DEF S!Dispatch
<1>6. (CHOOSE i \in hits : \A j \in hits : j <= i) \in DOMAIN S!Registered
  BY <1>4
<1>7. S!Dispatch(url).rpc \in RPCsOf(S!Registered)
  BY <1>5, <1>6 DEF RPCsOf
<1> QED BY <1>7 DEF url

\* Whatever a request asks for, gRPC or REST, what is called is an RPC of the tables,
\* under the name its handler reports.
LEMMA CallsAnRPC ==
  ASSUME NEW req \in Requests
  PROVE  \E x \in DOMAIN S!Clients : Called(req).method = S!Clients[x]
<1>1. req.rpc \in AllRPCs /\ AllRPCs = RPCsOf(S!Registered)
  BY DEF Requests, AllRPCs, RPCsOf
<1>2. PICK k \in DOMAIN S!Registered : RouteOf(req.rpc) = S!Registered[k]
  BY <1>1 DEF AllRPCs, RouteOf
<1>3. CASE req.via = "grpc"
  <2>1. Called(req).method = S!Reported(S!Clients[req.rpc])
    BY <1>3 DEF Called
  <2> QED BY <1>1, <2>1, ClientNames, ReportedAsCalled
<1>4. CASE req.via # "grpc"
  <2> DEFINE taken == S!Dispatch(S!URL(S!Registered[k], req.args))
  <2>1. Called(req).method = S!Reported(S!Clients[taken.rpc])
    BY <1>2, <1>4 DEF Called
  <2>2. taken.rpc \in DOMAIN S!Clients
    BY DispatchRegistered, ClientNames
  <2> HIDE DEF taken
  <2> QED BY <2>1, <2>2, ReportedAsCalled
<1> QED BY <1>3, <1>4

\* Of the RPCs the tables name, signing in is what is public.
LEMMA PublicIsSignIn ==
  ASSUME NEW req \in Requests
  PROVE  Called(req).method \in publicMethods <=> Called(req).method[2] \in SignIn
<1>1. PICK x \in DOMAIN S!Clients : Called(req).method = S!Clients[x]
  BY CallsAnRPC
<1>2. S!Clients[x][2] = x
  BY ReportedAsCalled
<1>3. \A m \in publicMethods : m[2] \in SignIn
  BY DEF publicMethods, SignIn
<1> QED BY <1>1, <1>2, <1>3, SignInIsPublic

-----------------------------------------------------------------------------

LastInv ==
    /\ last = [req |-> last.req, method |-> last.method, fields |-> last.fields,
               user |-> last.user, outcome |-> last.outcome]
    /\ HandlerKnowsCaller

\* What AuthInterceptor makes of a request.
LEMMA HandledCases ==
  ASSUME NEW req \in Requests, NEW method
  PROVE  LET result == Handled(req, method)
         IN  /\ result = [user |-> result.user, outcome |-> result.outcome]
             /\ result.outcome \in {"handled", "Unauthenticated"}
             /\ result.outcome = "handled" /\ method \notin publicMethods
                  => result.user = req.client /\ req.token = "good"
             /\ result.outcome = "Unauthenticated"
                  => method \notin publicMethods /\ req.token # "good"
<1>1. req.client # Anonymous
  BY GatewayConstants DEF Requests
<1> QED BY <1>1 DEF Handled, extractUserID

LEMMA ResultKnowsCaller ==
  ASSUME NEW req \in Requests, NEW result,
         result = [user |-> result.user, outcome |-> result.outcome],
         Result(req, Called(req), result),
         result.outcome = "handled" =>
            /\ Called(req).method[2] \notin SignIn => result.user = req.client /\ req.token = "good"
            /\ S!IsUnary(Called(req).method) => req.valid,
         result.outcome = "Unauthenticated" =>
            Called(req).method[2] \notin SignIn /\ req.token # "good"
  PROVE  LastInv'
<1>1. /\ last'.req = req /\ last'.method = Called(req).method /\ last'.user = result.user
      /\ last'.outcome = result.outcome
      /\ last' = [req |-> last'.req, method |-> last'.method, fields |-> last'.fields,
                  user |-> last'.user, outcome |-> last'.outcome]
  BY DEF Result
<1> QED BY <1>1 DEF LastInv, HandlerKnowsCaller

LEMMA UnaryKnowsCaller ==
  ASSUME NEW req \in Requests, Unary(req)
  PROVE  LastInv'
<1> DEFINE method == Called(req).method
           first == Handled(req, method)
           rest == ValidationInterceptor(req, first)
<1>1. /\ first = [user |-> first.user, outcome |-> first.outcome]
      /\ first.outcome \in {"handled", "Unauthenticated"}
      /\ first.outcome = "handled" /\ method \notin publicMethods
           => first.user = req.client /\ req.token = "good"
      /\ first.outcome = "Unauthenticated" => method \notin publicMethods /\ req.token # "good"
  BY HandledCases
<1>2. method \in publicMethods <=> method[2] \in SignIn
  BY PublicIsSignIn
<1> HIDE DEF first
<1>3. /\ rest = [user |-> rest.user, outcome |-> rest.outcome]
      /\ rest.outcome = "handled" =>
            /\ method[2] \notin SignIn => rest.user = req.client /\ req.token = "good"
            /\ req.valid
      /\ rest.outcome = "Unauthenticated" => method[2] \notin SignIn /\ req.token # "good"
  <2>1. CASE first.outcome = "handled" /\ ~req.valid
    <3>1. rest = [user |-> first.user, outcome |-> "InvalidArgument"]
      BY <1>1, <2>1 DEF ValidationInterceptor
    <3> QED BY <3>1
  <2>2. CASE ~(first.outcome = "handled" /\ ~req.valid)
    <3>1. rest = first
      BY <2>2 DEF ValidationInterceptor
    <3>2. req.valid \in BOOLEAN
      BY DEF Requests
    <3> QED BY <1>1, <1>2, <2>2, <3>1, <3>2
  <2> QED BY <2>1, <2>2
<1>4. CASE Result(req, Called(req), Refusal)
  BY <1>4, ResultKnowsCaller DEF Refusal
<1>5. CASE Result(req, Called(req), rest)
  <2> HIDE DEF rest
  <2> QED BY <1>3, <1>5, ResultKnowsCaller
<1>6. Result(req, Called(req), Refusal) \/ Result(req, Called(req), rest)
  BY DEF Unary, first
<1> QED BY <1>4, <1>5, <1>6

LEMMA StreamKnowsCaller ==
  ASSUME NEW req \in Requests, Stream(req)
  PROVE  LastInv'
<1> DEFINE method == Called(req).method
           result == Handled(req, method)
<1>1. /\ result = [user |-> result.user, outcome |-> result.outcome]
      /\ result.outcome = "handled" /\ method \notin publicMethods
           => result.user = req.client /\ req.token = "good"
      /\ result.outcome = "Unauthenticated" => method \notin publicMethods /\ req.token # "good"
  BY HandledCases
<1>2. method \in publicMethods <=> method[2] \in SignIn
  BY PublicIsSignIn
<1>3. ~S!IsUnary(method) /\ Result(req, Called(req), result)
  BY DEF Stream
<1> HIDE DEF result
<1> QED BY <1>1, <1>2, <1>3, ResultKnowsCaller

\* Over gRPC or REST, unary or stream, rate limiter up or failing, a handler runs for
\* the user whose token the request carries unless it serves signing in, which never
\* needs a token, and no unary handler sees a request that does not validate: for any
\* clients, and for every RPC of the tables under the name its handler reports.
THEOREM HandlersKnowTheirCaller == GatewaySpec => []HandlerKnowsCaller
<1>1. GatewayInit => LastInv
  BY DEF GatewayInit, LastInv, HandlerKnowsCaller
<1>2. LastInv /\ [GatewayNext]_gatewayVars => LastInv'
  <2> SUFFICES ASSUME LastInv, [GatewayNext]_gatewayVars PROVE LastInv'
    OBVIOUS
  <2>1. CASE Tick
    <3>1. last' = [last EXCEPT !.outcome = "past"]
      BY <2>1 DEF Tick
    <3>2. last'.outcome = "past"
      BY <3>1 DEF LastInv
    <3>3. last' = [req |-> last'.req, method |-> last'.method, fields |-> last'.fields,
                   user |-> last'.user, outcome |-> last'.outcome]
      BY <3>1 DEF LastInv
    <3> QED BY <3>2, <3>3 DEF LastInv, HandlerKnowsCaller
  <2>2. CASE \E req \in Requests : Unary(req) \/ Stream(req)
    BY <2>2, UnaryKnowsCaller, StreamKnowsCaller
  <2>3. CASE UNCHANGED gatewayVars
    BY <2>3 DEF gatewayVars, LastInv, HandlerKnowsCaller
  <2> QED BY <2>1, <2>2, <2>3 DEF GatewayNext
<1>3. LastInv => HandlerKnowsCaller
  BY DEF LastInv
<1> QED BY <1>1, <1>2, <1>3, PTL DEF GatewaySpec
=============================================================================
