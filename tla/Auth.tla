-------------------------------- MODULE Auth --------------------------------
(***************************************************************************)
(* Accounts, one-time passwords and refresh tokens: internal/features/auth.*)
(* Access tokens are self-contained JWTs and leave no state behind.        *)
(*                                                                         *)
(* A session is what one Login or VerifyOTP started; it is named after its *)
(* first refresh token, and every later token of it comes from a refresh.  *)
(***************************************************************************)
EXTENDS Naturals, FiniteSets

CONSTANTS
    Email, Worker,
    Handle,         \* the discriminators of the one base name in use
    Code,           \* OTP values; every OTP generated is a new one
    Token,          \* refresh tokens; every token generated is a new one
    Ops,            \* the RPCs clients call in this instance
    None,
    MaxAttempts,    \* maxHandleAttempts
    MaxFaults       \* bound: how many store calls fail

AuthOps == {"Register", "VerifyOTP", "ResendOTP", "Login", "RefreshToken", "Logout",
            "DeleteUser"}

ASSUME AuthConstants ==
    /\ Ops \subseteq AuthOps
    /\ None \notin Email \cup Code \cup Token
    /\ MaxAttempts \in Nat \ {0}
    /\ MaxFaults \in Nat

VARIABLES
    account,    \* users.verified by email, "none" before the insert
    deleted,    \* the emails of soft-deleted users
    handles,    \* users.username: the discriminators taken
    otp,        \* otp:<email>
    codes,      \* the codes generated so far
    owner,      \* refresh:<token>, None before it is stored and once it is gone
    session,    \* the session each token belongs to
    rpc,        \* the running RPC of each worker
    faults,     \* store calls that have failed so far
    redeemed,   \* history: how many refreshes each token has paid for
    opened,     \* history: how many sessions each code has opened
    ended,      \* history: sessions a Logout has deleted the token of
    serial      \* history: no two RPCs have overlapped and no call has failed so far

users == <<account, deleted, handles>>
redis == <<otp, codes, owner, session>>
history == <<redeemed, opened, ended>>
vars == <<users, redis, rpc, faults, history, serial>>

Calls == {"idle", "CreateUser", "StoreOTP", "GetUserByEmail", "GetOTP", "VerifyUser",
          "DeleteOTP", "GetRefreshToken", "DeleteRefreshToken", "StoreRefreshToken",
          "DeleteUser"}

Request == [op : AuthOps \cup {"none"}, pc : Calls, email : Email \cup {None},
            code : Code \cup {None}, token : Token \cup {None}, attempts : Nat]

AuthTypeOK ==
    /\ account \in [Email -> {"none", "unverified", "verified"}]
    /\ deleted \subseteq Email
    /\ handles \subseteq Handle
    /\ otp \in [Email -> Code \cup {None}]
    /\ codes \subseteq Code
    /\ owner \in [Token -> Email \cup {None}]
    /\ session \in [Token -> Token \cup {None}]
    /\ rpc \in [Worker -> Request]
    /\ faults \in Nat
    /\ redeemed \in [Token -> Nat]
    /\ opened \in [Code -> Nat]
    /\ ended \subseteq Token
    /\ serial \in BOOLEAN

Idle == [op |-> "none", pc |-> "idle", email |-> None, code |-> None, token |-> None,
         attempts |-> 0]

Init ==
    /\ account = [e \in Email |-> "none"]
    /\ deleted = {}
    /\ handles = {}
    /\ otp = [e \in Email |-> None]
    /\ codes = {}
    /\ owner = [t \in Token |-> None]
    /\ session = [t \in Token |-> None]
    /\ rpc = [w \in Worker |-> Idle]
    /\ faults = 0
    /\ redeemed = [t \in Token |-> 0]
    /\ opened = [c \in Code |-> 0]
    /\ ended = {}
    /\ serial = TRUE

-----------------------------------------------------------------------------

Goto(w, pc) == rpc' = [rpc EXCEPT ![w].pc = pc]

Return(w) == rpc' = [rpc EXCEPT ![w] = Idle]

Proceed(w, ok, pc) == IF ok THEN Goto(w, pc) ELSE Return(w)

Read == UNCHANGED <<users, redis, faults, history>>

Entry(op) ==
    CASE op = "Register" -> "CreateUser"
      [] op = "VerifyOTP" -> "GetOTP"
      [] op = "RefreshToken" -> "GetRefreshToken"
      [] op = "Logout" -> "DeleteRefreshToken"
      [] op = "DeleteUser" -> "DeleteUser"
      [] OTHER -> "GetUserByEmail"

Issued == {t \in Token : session[t] # None}

\* A client's RPC reaches a free worker, with any email, and any code or token
\* that has ever been handed out.  DeleteUser is the caller's own, so the caller
\* has an account.
Call(w) ==
    /\ rpc[w].pc = "idle"
    /\ \E op \in Ops, e \in Email, c \in codes \cup {None}, t \in Issued \cup {None} :
        /\ c # None <=> op = "VerifyOTP"
        /\ t # None <=> op \in {"RefreshToken", "Logout"}
        /\ op = "DeleteUser" => account[e] = "verified"
        /\ rpc' = [rpc EXCEPT ![w] = [Idle EXCEPT !.op = op, !.pc = Entry(op), !.email = e,
                                                  !.code = c, !.token = t]]
    /\ Read

-----------------------------------------------------------------------------
(* Register, ResendOTP.                                                      *)

\* One INSERT of CreateUserWithUsername: a taken handle and a taken email are the
\* same unique violation.  The email of a deleted user stays taken.
CreateUser(w) ==
    /\ rpc[w].pc = "CreateUser"
    /\ \E h \in Handle :
        IF h \notin handles /\ account[rpc[w].email] = "none"
        THEN /\ account' = [account EXCEPT ![rpc[w].email] = "unverified"]
             /\ handles' = handles \cup {h}
             /\ Goto(w, "StoreOTP")
        ELSE /\ IF rpc[w].attempts + 1 < MaxAttempts
                THEN rpc' = [rpc EXCEPT ![w].attempts = @ + 1]
                ELSE Return(w)
             /\ UNCHANGED <<account, handles>>
    /\ UNCHANGED <<deleted, redis, faults, history>>

\* sendOTP: the code replaces an earlier one.  The mail changes nothing here.
StoreOTP(w) ==
    /\ rpc[w].pc = "StoreOTP"
    /\ \E c \in Code \ codes :
        /\ otp' = [otp EXCEPT ![rpc[w].email] = c]
        /\ codes' = codes \cup {c}
    /\ Return(w)
    /\ UNCHANGED <<users, owner, session, faults, history>>

Exists(e) == account[e] # "none" /\ e \notin deleted

\* Mutant: Login does not look at verified.
LoginUnverified(op, e, ok) == Exists(e) /\ (op = "Login" => ok)

\* GetUserByEmail; Login goes on with the right password of a verified user.
Admitted(op, e, ok) == Exists(e) /\ (op = "Login" => ok /\ account[e] = "verified")

AfterUser(op) ==
    CASE op = "ResendOTP" -> "StoreOTP"
      [] op = "VerifyOTP" -> "VerifyUser"
      [] OTHER -> "StoreRefreshToken"

\* ok: the password is the right one.
GetUserByEmail(w) ==
    /\ rpc[w].pc = "GetUserByEmail"
    /\ \E ok \in BOOLEAN :
        Proceed(w, Admitted(rpc[w].op, rpc[w].email, ok), AfterUser(rpc[w].op))
    /\ Read

-----------------------------------------------------------------------------
(* VerifyOTP.                                                                *)

GetOTP(w) ==
    /\ rpc[w].pc = "GetOTP"
    /\ Proceed(w, otp[rpc[w].email] = rpc[w].code, "GetUserByEmail")
    /\ Read

\* By id, deleted or not.
VerifyUser(w) ==
    /\ rpc[w].pc = "VerifyUser"
    /\ account' = [account EXCEPT ![rpc[w].email] = "verified"]
    /\ Goto(w, "DeleteOTP")
    /\ UNCHANGED <<deleted, handles, redis, faults, history>>

\* Mutant: the code is left to expire.
KeepOTP(w) ==
    /\ rpc[w].pc = "DeleteOTP"
    /\ Goto(w, "StoreRefreshToken")
    /\ Read

\* Whatever code is stored by now.
DeleteOTP(w) ==
    /\ rpc[w].pc = "DeleteOTP"
    /\ otp' = [otp EXCEPT ![rpc[w].email] = None]
    /\ Goto(w, "StoreRefreshToken")
    /\ UNCHANGED <<users, codes, owner, session, faults, history>>

-----------------------------------------------------------------------------
(* RefreshToken, Logout.                                                     *)

GetRefreshToken(w) ==
    /\ rpc[w].pc = "GetRefreshToken"
    /\ LET e == owner[rpc[w].token] IN
        IF e = None THEN Return(w)
        ELSE rpc' = [rpc EXCEPT ![w].email = e, ![w].pc = "DeleteRefreshToken"]
    /\ Read

\* Mutant: a refresh leaves the old token in place.
KeepRefreshToken(w) ==
    /\ rpc[w].pc = "DeleteRefreshToken"
    /\ owner' = [owner EXCEPT ![rpc[w].token] = IF rpc[w].op = "Logout" THEN None ELSE @]
    /\ ended' = IF rpc[w].op = "Logout" /\ owner[rpc[w].token] # None
                THEN ended \cup {session[rpc[w].token]} ELSE ended
    /\ Proceed(w, rpc[w].op = "RefreshToken", "StoreRefreshToken")
    /\ UNCHANGED <<users, otp, codes, session, faults, redeemed, opened>>

\* Mutant: a logout leaves the token to expire.
LogoutKeepsToken(w) ==
    /\ rpc[w].pc = "DeleteRefreshToken"
    /\ owner' = [owner EXCEPT ![rpc[w].token] = IF rpc[w].op = "Logout" THEN @ ELSE None]
    /\ ended' = IF rpc[w].op = "Logout" /\ owner[rpc[w].token] # None
                THEN ended \cup {session[rpc[w].token]} ELSE ended
    /\ Proceed(w, rpc[w].op = "RefreshToken", "StoreRefreshToken")
    /\ UNCHANGED <<users, otp, codes, session, faults, redeemed, opened>>

\* DEL succeeds whether or not the token is still there.
DeleteRefreshToken(w) ==
    /\ rpc[w].pc = "DeleteRefreshToken"
    /\ owner' = [owner EXCEPT ![rpc[w].token] = None]
    /\ ended' = IF rpc[w].op = "Logout" /\ owner[rpc[w].token] # None
                THEN ended \cup {session[rpc[w].token]} ELSE ended
    /\ Proceed(w, rpc[w].op = "RefreshToken", "StoreRefreshToken")
    /\ UNCHANGED <<users, otp, codes, session, faults, redeemed, opened>>

\* generateTokens.
StoreRefreshToken(w) ==
    /\ rpc[w].pc = "StoreRefreshToken"
    /\ \E t \in Token \ Issued :
        /\ owner' = [owner EXCEPT ![t] = rpc[w].email]
        /\ session' = [session EXCEPT ![t] =
                            IF rpc[w].op = "RefreshToken" THEN session[rpc[w].token] ELSE t]
    /\ redeemed' = IF rpc[w].op = "RefreshToken"
                   THEN [redeemed EXCEPT ![rpc[w].token] = @ + 1] ELSE redeemed
    /\ opened' = IF rpc[w].op = "VerifyOTP"
                 THEN [opened EXCEPT ![rpc[w].code] = @ + 1] ELSE opened
    /\ Return(w)
    /\ UNCHANGED <<users, otp, codes, faults, ended>>

\* The soft delete of user/service.go; refresh tokens are left alone.
DeleteUser(w) ==
    /\ rpc[w].pc = "DeleteUser"
    /\ deleted' = deleted \cup {rpc[w].email}
    /\ Return(w)
    /\ UNCHANGED <<account, handles, redis, faults, history>>

\* A TTL runs out.
Expire ==
    /\ \/ \E e \in Email : otp[e] # None /\ otp' = [otp EXCEPT ![e] = None] /\ UNCHANGED owner
       \/ \E t \in Token : owner[t] # None /\ owner' = [owner EXCEPT ![t] = None] /\ UNCHANGED otp
    /\ UNCHANGED <<users, codes, session, rpc, faults, history>>

\* Bound: no code or token of the instance is left.
Exhausted(w) ==
    /\ \/ rpc[w].pc = "StoreOTP" /\ codes = Code
       \/ rpc[w].pc = "StoreRefreshToken" /\ Issued = Token
    /\ Return(w)
    /\ Read

\* A store call fails; only DeleteOTP's error is ignored.
CallFails(w) ==
    /\ rpc[w].pc # "idle"
    /\ faults < MaxFaults
    /\ faults' = faults + 1
    /\ Proceed(w, rpc[w].pc = "DeleteOTP", "StoreRefreshToken")
    /\ UNCHANGED <<users, redis, history>>

OneAtATime ==
    /\ faults = 0
    /\ \A v, w \in Worker : rpc[v].pc # "idle" /\ rpc[w].pc # "idle" => v = w

Step(w) ==
    \/ Call(w) \/ CreateUser(w) \/ StoreOTP(w) \/ GetUserByEmail(w) \/ GetOTP(w)
    \/ VerifyUser(w) \/ DeleteOTP(w) \/ GetRefreshToken(w) \/ DeleteRefreshToken(w)
    \/ StoreRefreshToken(w) \/ DeleteUser(w) \/ Exhausted(w) \/ CallFails(w)

Next ==
    /\ Expire \/ \E w \in Worker : Step(w)
    /\ serial' = (serial /\ OneAtATime')

Spec == Init /\ [][Next]_vars

-----------------------------------------------------------------------------
(* Whatever the interleaving, and whichever calls fail.                      *)

\* A refresh token is only ever given to a user whose email was verified: Login
\* checks it, VerifyOTP makes it so, and a refresh hands on an earlier token's owner.
TokensOnlyVerified ==
    \A t \in Token : owner[t] # None => account[owner[t]] = "verified"

-----------------------------------------------------------------------------
(* As long as RPCs do not overlap and no call fails.                         *)

\* A refresh token pays for one refresh, and is gone once it has; a code opens one
\* session, however often it is presented and however many codes are sent.
SingleUse ==
    serial =>
        /\ \A t \in Token : redeemed[t] <= 1 /\ (redeemed[t] = 1 => owner[t] = None)
        /\ \A c \in Code : opened[c] <= 1

\* Once a Logout has deleted a session's token, no token of that session is left,
\* however often the session was refreshed before.
LogoutEndsSession ==
    serial => \A t \in Token : owner[t] # None => session[t] \notin ended
=============================================================================
