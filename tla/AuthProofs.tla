----------------------------- MODULE AuthProofs -----------------------------
(***************************************************************************)
(* Theorems about Auth, for any number of accounts, workers, codes and     *)
(* refresh tokens.                                                         *)
(***************************************************************************)
EXTENDS Auth, TLAPS

(* Type correctness.  A running request names an account, and the code or    *)
(* the token its RPC needs.                                                  *)

Fits(op, pc) ==
    /\ pc = "GetRefreshToken" => op = "RefreshToken"
    /\ pc = "DeleteRefreshToken" => op \in {"RefreshToken", "Logout"}
    /\ pc \in {"GetOTP", "VerifyUser", "DeleteOTP"} => op = "VerifyOTP"
    /\ pc = "GetUserByEmail" => op \in {"ResendOTP", "Login", "VerifyOTP"}

WellFormed(w) ==
    rpc[w].pc # "idle" =>
        /\ rpc[w].email \in Email
        /\ rpc[w].op = "VerifyOTP" => rpc[w].code \in codes
        /\ rpc[w].op \in {"RefreshToken", "Logout"} => rpc[w].token \in Issued
        /\ Fits(rpc[w].op, rpc[w].pc)

TypeInv ==
    /\ AuthTypeOK
    /\ \A w \in Worker : WellFormed(w)
    /\ \A t \in Issued : session[t] \in Issued

LEMMA IdleType == Idle \in Request /\ Idle.pc = "idle"
  BY DEF Idle, Request, Calls

\* What no step takes back.
Grown == codes \subseteq codes' /\ Issued \subseteq Issued'

LEMMA ReturnType ==
  ASSUME TypeInv, NEW w \in Worker, Return(w), Grown
  PROVE  rpc' \in [Worker -> Request] /\ \A v \in Worker : WellFormed(v)'
<1> USE DEF TypeInv, AuthTypeOK, Return
<1>1. \A v \in Worker \ {w} : rpc'[v] = rpc[v]
  OBVIOUS
<1>2. rpc'[w] = Idle
  OBVIOUS
<1> QED BY <1>1, <1>2, IdleType DEF Grown, WellFormed

LEMMA GotoType ==
  ASSUME TypeInv, NEW w \in Worker, NEW pc \in Calls, rpc[w].pc # "idle", Goto(w, pc), Grown,
         Fits(rpc[w].op, pc)
  PROVE  rpc' \in [Worker -> Request] /\ \A v \in Worker : WellFormed(v)'
<1> USE DEF TypeInv, AuthTypeOK, Goto
<1>1. \A v \in Worker \ {w} : rpc'[v] = rpc[v]
  OBVIOUS
<1>2. rpc'[w] = [rpc[w] EXCEPT !.pc = pc]
  OBVIOUS
<1>3. /\ rpc'[w].pc = pc /\ rpc'[w].op = rpc[w].op /\ rpc'[w].email = rpc[w].email
      /\ rpc'[w].code = rpc[w].code /\ rpc'[w].token = rpc[w].token
  BY <1>2 DEF Request
<1>4. rpc' \in [Worker -> Request]
  BY <1>2 DEF Request
<1>5. WellFormed(w)'
  BY <1>3 DEF WellFormed, Grown, Fits
<1> QED BY <1>1, <1>4, <1>5 DEF Grown, WellFormed

LEMMA ProceedType ==
  ASSUME TypeInv, NEW w \in Worker, NEW pc \in Calls, NEW ok, rpc[w].pc # "idle",
         Proceed(w, ok, pc), Grown, Fits(rpc[w].op, pc)
  PROVE  rpc' \in [Worker -> Request] /\ \A v \in Worker : WellFormed(v)'
  BY GotoType, ReturnType DEF Proceed

LEMMA ReadGrown ==
  ASSUME UNCHANGED redis PROVE Grown
  BY DEF redis, Grown, Issued

LEMMA RequestsType ==
  ASSUME TypeInv, NEW w \in Worker, Step(w)
  PROVE  /\ rpc' \in [Worker -> Request] /\ \A v \in Worker : WellFormed(v)'
         /\ Grown
<1> USE DEF TypeInv, AuthTypeOK
<1> USE AuthConstants
<1>1. CASE Call(w)
  <2>1. PICK op \in Ops, e \in Email, c \in codes \cup {None}, t \in Issued \cup {None} :
            /\ c # None <=> op = "VerifyOTP"
            /\ t # None <=> op \in {"RefreshToken", "Logout"}
            /\ op = "DeleteUser" => account[e] = "verified"
            /\ rpc' = [rpc EXCEPT ![w] = [Idle EXCEPT !.op = op, !.pc = Entry(op), !.email = e,
                                                      !.code = c, !.token = t]]
    BY <1>1 DEF Call
  <2>2. Entry(op) \in Calls /\ Fits(op, Entry(op))
    BY DEF Entry, Calls, Fits, AuthOps
  <2>3. rpc'[w] = [op |-> op, pc |-> Entry(op), email |-> e, code |-> c, token |-> t,
                   attempts |-> 0]
    BY <2>1 DEF Idle
  <2>4. rpc'[w] \in Request
    BY <2>2, <2>3 DEF Request, Issued
  <2>5. \A v \in Worker \ {w} : rpc'[v] = rpc[v]
    BY <2>1
  <2>6. UNCHANGED <<codes, session>> /\ Grown
    BY <1>1, ReadGrown DEF Call, Read, redis
  <2>7. WellFormed(w)'
    BY <2>1, <2>2, <2>3, <2>6 DEF WellFormed, Issued, Fits
  <2>8. \A v \in Worker \ {w} : WellFormed(v)'
    BY <2>5, <2>6 DEF WellFormed, Grown
  <2> QED BY <2>1, <2>4, <2>6, <2>7, <2>8
<1>2. CASE CreateUser(w)
  <2>1. Grown
    BY <1>2, ReadGrown DEF CreateUser
  <2>2. CASE Goto(w, "StoreOTP")
    BY <1>2, <2>1, <2>2, GotoType DEF CreateUser, Fits, Calls
  <2>3. CASE Return(w)
    BY <2>1, <2>3, ReturnType
  <2>4. CASE rpc' = [rpc EXCEPT ![w].attempts = @ + 1]
    <3>1. /\ rpc'[w].pc = rpc[w].pc /\ rpc'[w].op = rpc[w].op /\ rpc'[w].email = rpc[w].email
          /\ rpc'[w].code = rpc[w].code /\ rpc'[w].token = rpc[w].token
      BY <2>4 DEF Request
    <3>2. rpc' \in [Worker -> Request]
      BY <2>4 DEF Request
    <3>3. \A v \in Worker \ {w} : rpc'[v] = rpc[v]
      BY <2>4
    <3> QED BY <2>1, <3>1, <3>2, <3>3 DEF WellFormed, Grown, Fits
  <2> QED BY <1>2, <2>1, <2>2, <2>3, <2>4 DEF CreateUser
<1>3. CASE StoreOTP(w)
  <2>1. Grown
    BY <1>3 DEF StoreOTP, Grown, Issued
  <2> QED BY <1>3, <2>1, ReturnType DEF StoreOTP
<1>4. CASE GetUserByEmail(w)
  <2>1. rpc[w].op \in {"ResendOTP", "Login", "VerifyOTP"}
    BY <1>4 DEF GetUserByEmail, WellFormed, Fits
  <2>2. AfterUser(rpc[w].op) \in Calls /\ Fits(rpc[w].op, AfterUser(rpc[w].op))
    BY <2>1 DEF AfterUser, Fits, Calls
  <2> QED BY <1>4, <2>2, ProceedType, ReadGrown DEF GetUserByEmail, Read
<1>5. CASE GetOTP(w)
  <2>1. Fits(rpc[w].op, "GetUserByEmail") /\ "GetUserByEmail" \in Calls
    BY <1>5 DEF GetOTP, WellFormed, Fits, Calls
  <2> QED BY <1>5, <2>1, ProceedType, ReadGrown DEF GetOTP, Read
<1>6. CASE VerifyUser(w)
  <2>1. Fits(rpc[w].op, "DeleteOTP") /\ "DeleteOTP" \in Calls
    BY <1>6 DEF VerifyUser, WellFormed, Fits, Calls
  <2> QED BY <1>6, <2>1, GotoType, ReadGrown DEF VerifyUser
<1>7. Fits(rpc[w].op, "StoreRefreshToken") /\ "StoreRefreshToken" \in Calls
  BY DEF Fits, Calls
<1>8. CASE DeleteOTP(w)
  <2>1. Grown
    BY <1>8 DEF DeleteOTP, Grown, Issued
  <2> QED BY <1>7, <1>8, <2>1, GotoType DEF DeleteOTP
<1>9. CASE GetRefreshToken(w)
  <2>1. Grown
    BY <1>9, ReadGrown DEF GetRefreshToken, Read
  <2>2. CASE Return(w)
    BY <2>1, <2>2, ReturnType
  <2>3. CASE /\ owner[rpc[w].token] # None
             /\ rpc' = [rpc EXCEPT ![w].email = owner[rpc[w].token], ![w].pc = "DeleteRefreshToken"]
    <3>1. rpc[w].op = "RefreshToken" /\ rpc[w].token \in Token
      BY <1>9 DEF GetRefreshToken, WellFormed, Fits, Issued
    <3>2. /\ rpc'[w].pc = "DeleteRefreshToken" /\ rpc'[w].op = rpc[w].op
          /\ rpc'[w].email = owner[rpc[w].token]
          /\ rpc'[w].code = rpc[w].code /\ rpc'[w].token = rpc[w].token
      BY <2>3 DEF Request
    <3>3. owner[rpc[w].token] \in Email /\ "DeleteRefreshToken" \in Calls
      BY <2>3, <3>1 DEF Calls
    <3>4. rpc' \in [Worker -> Request]
      <4>1. rpc'[w] = [rpc[w] EXCEPT !.email = owner[rpc[w].token], !.pc = "DeleteRefreshToken"]
        BY <2>3
      <4>2. rpc'[w] \in Request
        BY <3>3, <4>1 DEF Request
      <4> QED BY <2>3, <4>2
    <3>5. \A v \in Worker \ {w} : rpc'[v] = rpc[v]
      BY <2>3
    <3>6. WellFormed(w)'
      BY <1>9, <2>1, <3>1, <3>2, <3>3 DEF WellFormed, Fits, Grown, GetRefreshToken
    <3> QED BY <2>1, <3>4, <3>5, <3>6 DEF WellFormed, Grown
  <2> QED BY <1>9, <2>2, <2>3 DEF GetRefreshToken
<1>10. CASE DeleteRefreshToken(w)
  <2>1. Grown
    BY <1>10 DEF DeleteRefreshToken, Grown, Issued
  <2> QED BY <1>7, <1>10, <2>1, ProceedType DEF DeleteRefreshToken
<1>11. CASE StoreRefreshToken(w)
  <2>1. PICK t \in Token \ Issued :
            session' = [session EXCEPT ![t] =
                            IF rpc[w].op = "RefreshToken" THEN session[rpc[w].token] ELSE t]
    BY <1>11 DEF StoreRefreshToken
  <2>2. Grown
    BY <1>11, <2>1 DEF StoreRefreshToken, Grown, Issued
  <2> QED BY <1>11, <2>2, ReturnType DEF StoreRefreshToken
<1>12. CASE DeleteUser(w)
  BY <1>12, ReturnType, ReadGrown DEF DeleteUser
<1>13. CASE Exhausted(w)
  BY <1>13, ReturnType, ReadGrown DEF Exhausted, Read
<1>14. CASE CallFails(w)
  BY <1>7, <1>14, ProceedType, ReadGrown DEF CallFails
<1> QED BY <1>1, <1>2, <1>3, <1>4, <1>5, <1>6, <1>8, <1>9, <1>10, <1>11, <1>12, <1>13, <1>14
    DEF Step

LEMMA StoreType ==
  ASSUME TypeInv, NEW w \in Worker, Step(w)
  PROVE  /\ account' \in [Email -> {"none", "unverified", "verified"}]
         /\ deleted' \subseteq Email /\ handles' \subseteq Handle
         /\ otp' \in [Email -> Code \cup {None}] /\ codes' \subseteq Code
         /\ owner' \in [Token -> Email \cup {None}]
         /\ session' \in [Token -> Token \cup {None}] /\ \A t \in Issued' : session'[t] \in Issued'
         /\ faults' \in Nat
         /\ redeemed' \in [Token -> Nat] /\ opened' \in [Code -> Nat] /\ ended' \subseteq Token
<1> USE DEF TypeInv, AuthTypeOK, users, redis, history
<1> USE AuthConstants
<1>1. rpc[w].pc # "idle" =>
        /\ rpc[w].email \in Email
        /\ rpc[w].op = "VerifyOTP" => rpc[w].code \in Code
        /\ rpc[w].op \in {"RefreshToken", "Logout"} => rpc[w].token \in Issued
        /\ rpc[w].pc = "DeleteRefreshToken" => rpc[w].token \in Issued
  BY DEF WellFormed, Fits
<1>2. session' = session => \A t \in Issued' : session'[t] \in Issued'
  BY DEF Issued
<1>3. CASE Read
  BY <1>2, <1>3 DEF Read
<1>4. CASE CreateUser(w)
  BY <1>1, <1>2, <1>4 DEF CreateUser
<1>5. CASE StoreOTP(w)
  BY <1>1, <1>2, <1>5 DEF StoreOTP
<1>6. CASE VerifyUser(w)
  BY <1>1, <1>2, <1>6 DEF VerifyUser
<1>7. CASE DeleteOTP(w)
  BY <1>1, <1>2, <1>7 DEF DeleteOTP
<1>8. CASE DeleteRefreshToken(w)
  <2>1. session[rpc[w].token] \in Token /\ rpc[w].token \in Token
    BY <1>1, <1>8 DEF DeleteRefreshToken, Issued
  <2>2. ended' \subseteq Token
    BY <1>8, <2>1 DEF DeleteRefreshToken
  <2> QED BY <1>2, <1>8, <2>1, <2>2 DEF DeleteRefreshToken
<1>9. CASE StoreRefreshToken(w)
  <2>1. PICK t \in Token \ Issued :
            /\ owner' = [owner EXCEPT ![t] = rpc[w].email]
            /\ session' = [session EXCEPT ![t] =
                            IF rpc[w].op = "RefreshToken" THEN session[rpc[w].token] ELSE t]
    BY <1>9 DEF StoreRefreshToken
  <2>2. PICK s : /\ s = IF rpc[w].op = "RefreshToken" THEN session[rpc[w].token] ELSE t
                 /\ s \in Issued \cup {t} /\ s \in Token
    BY <1>1, <1>9 DEF StoreRefreshToken, Issued
  <2>3. session' = [session EXCEPT ![t] = s]
    BY <2>1, <2>2
  <2>4. session' \in [Token -> Token \cup {None}] /\ Issued' = Issued \cup {t}
    BY <2>2, <2>3 DEF Issued
  <2>5. \A r \in Issued' : session'[r] \in Issued'
    BY <2>2, <2>3, <2>4 DEF Issued
  <2>6. redeemed' \in [Token -> Nat]
    BY <1>1, <1>9 DEF StoreRefreshToken, Issued
  <2>7. opened' \in [Code -> Nat]
    BY <1>1, <1>9 DEF StoreRefreshToken
  <2>8. owner' \in [Token -> Email \cup {None}]
    BY <1>1, <1>9, <2>1 DEF StoreRefreshToken
  <2> QED BY <1>9, <2>4, <2>5, <2>6, <2>7, <2>8 DEF StoreRefreshToken
<1>10. CASE DeleteUser(w)
  BY <1>1, <1>2, <1>10 DEF DeleteUser
<1>11. CASE CallFails(w)
  BY <1>2, <1>11 DEF CallFails
<1> QED BY <1>3, <1>4, <1>5, <1>6, <1>7, <1>8, <1>9, <1>10, <1>11
    DEF Step, Call, GetUserByEmail, GetOTP, GetRefreshToken, Exhausted

LEMMA ExpireType ==
  ASSUME TypeInv, Expire
  PROVE  /\ otp' \in [Email -> Code \cup {None}] /\ owner' \in [Token -> Email \cup {None}]
         /\ UNCHANGED <<users, codes, session, rpc, faults, history>>
  BY DEF TypeInv, AuthTypeOK, Expire

\* Accounts, codes, refresh tokens and running requests are well typed; a running request
\* names an account and, where its RPC takes one, a code or token that was handed out;
\* and a session is named after a token that was handed out.
THEOREM TypeCorrect == Spec => []TypeInv
<1>1. Init => TypeInv
  BY IdleType DEF Init, TypeInv, AuthTypeOK, WellFormed, Issued
<1>2. TypeInv /\ [Next]_vars => TypeInv'
  <2> SUFFICES ASSUME TypeInv, [Next]_vars PROVE TypeInv'
    OBVIOUS
  <2>1. ASSUME NEW w \in Worker, Step(w), Next
        PROVE  TypeInv'
    <3>1. serial' \in BOOLEAN
      BY <2>1 DEF Next
    <3> QED BY <2>1, <3>1, RequestsType, StoreType DEF TypeInv, AuthTypeOK
  <2>2. CASE Expire /\ Next
    <3>1. serial' \in BOOLEAN
      BY <2>2 DEF Next
    <3> QED BY <2>2, <3>1, ExpireType
        DEF TypeInv, AuthTypeOK, WellFormed, Issued, users, history
  <2>3. CASE UNCHANGED vars
    BY <2>3 DEF TypeInv, AuthTypeOK, WellFormed, Issued, vars, users, redis, history
  <2> QED BY <2>1, <2>2, <2>3 DEF Next
<1> QED BY <1>1, <1>2, PTL DEF Spec

-----------------------------------------------------------------------------
(* Verified accounts.  A request that is about to hand out a token has seen   *)
(* or made its account verified, and no account is ever unverified again.     *)

Handing(w) ==
    \/ rpc[w].pc \in {"StoreRefreshToken", "DeleteOTP"}
    \/ rpc[w].pc = "DeleteRefreshToken" /\ rpc[w].op = "RefreshToken"

VerifiedInv ==
    /\ TokensOnlyVerified
    /\ \A w \in Worker : Handing(w) => account[rpc[w].email] = "verified"

LEMMA StaysVerified ==
  ASSUME TypeInv, NEW w \in Worker, Step(w), NEW e \in Email, account[e] = "verified"
  PROVE  account'[e] = "verified"
<1> USE DEF TypeInv, AuthTypeOK
<1>1. CASE CreateUser(w)
  BY <1>1 DEF CreateUser
<1>2. CASE VerifyUser(w)
  BY <1>2 DEF VerifyUser
<1>3. CASE UNCHANGED account
  BY <1>3
<1> QED BY <1>1, <1>2, <1>3
    DEF Step, Call, StoreOTP, GetUserByEmail, GetOTP, DeleteOTP, GetRefreshToken,
        DeleteRefreshToken, StoreRefreshToken, DeleteUser, Exhausted, CallFails, Read, users

\* A step of w leaves the other requests alone.
LEMMA OthersKept ==
  ASSUME TypeInv, NEW w \in Worker, Step(w)
  PROVE  \A v \in Worker \ {w} : rpc'[v] = rpc[v]
  BY DEF TypeInv, AuthTypeOK, Step, Call, CreateUser, StoreOTP, GetUserByEmail, GetOTP,
         VerifyUser, DeleteOTP, GetRefreshToken, DeleteRefreshToken, StoreRefreshToken,
         DeleteUser, Exhausted, CallFails, Proceed, Goto, Return

LEMMA HandingStep ==
  ASSUME TypeInv, VerifiedInv, NEW w \in Worker, Step(w), Handing(w)'
  PROVE  account'[rpc'[w].email] = "verified"
<1> USE DEF TypeInv, AuthTypeOK
<1>0. rpc[w].pc # "idle" => rpc[w].email \in Email
  BY DEF WellFormed
<1>1. ~Return(w)
  BY IdleType DEF Return, Handing
<1>2. ASSUME NEW pc, Goto(w, pc)
      PROVE  rpc'[w].pc = pc /\ rpc'[w].email = rpc[w].email /\ rpc'[w].op = rpc[w].op
  BY <1>2 DEF Goto, Request
<1>3. ASSUME NEW pc, rpc[w].pc # "idle", Goto(w, pc), account[rpc[w].email] = "verified"
      PROVE  account'[rpc'[w].email] = "verified"
  BY <1>0, <1>2, <1>3, StaysVerified
<1>4. CASE Call(w)
  <2>1. PICK op \in Ops : rpc'[w].pc = Entry(op) /\ rpc'[w].op = op
    BY <1>4 DEF Call, Idle
  <2>2. Entry(op) \notin {"StoreRefreshToken", "DeleteOTP"}
    BY DEF Entry
  <2>3. Entry(op) = "DeleteRefreshToken" => op = "Logout"
    BY DEF Entry
  <2> QED BY <2>1, <2>2, <2>3 DEF Handing
<1>5. CASE CreateUser(w)
  <2>1. rpc'[w].pc \in {"CreateUser", "StoreOTP"}
    BY <1>1, <1>5 DEF CreateUser, Goto, Request
  <2> QED BY <2>1 DEF Handing
<1>6. CASE GetUserByEmail(w)
  <2>1. PICK ok \in BOOLEAN : /\ Admitted(rpc[w].op, rpc[w].email, ok)
                              /\ Goto(w, AfterUser(rpc[w].op))
    BY <1>1, <1>6 DEF GetUserByEmail, Proceed
  <2>2. rpc[w].op \in {"ResendOTP", "Login", "VerifyOTP"}
    BY <1>6 DEF GetUserByEmail, WellFormed, Fits
  <2>3. rpc'[w].pc = AfterUser(rpc[w].op)
    BY <1>2, <2>1
  <2>4. rpc[w].op = "Login"
    BY <2>2, <2>3 DEF AfterUser, Handing
  <2> QED BY <1>3, <1>6, <2>1, <2>4 DEF Admitted, GetUserByEmail
<1>7. CASE GetOTP(w)
  <2>1. Goto(w, "GetUserByEmail")
    BY <1>1, <1>7 DEF GetOTP, Proceed
  <2> QED BY <1>2, <2>1 DEF Handing
<1>8. CASE VerifyUser(w)
  <2>1. rpc'[w].email = rpc[w].email
    BY <1>2, <1>8 DEF VerifyUser
  <2> QED BY <1>0, <1>8, <2>1 DEF VerifyUser
<1>9. CASE DeleteOTP(w)
  <2>1. account[rpc[w].email] = "verified"
    BY <1>9 DEF DeleteOTP, VerifiedInv, Handing
  <2> QED BY <1>3, <1>9, <2>1 DEF DeleteOTP
<1>10. CASE GetRefreshToken(w)
  <2>1. owner[rpc[w].token] # None /\ rpc'[w].email = owner[rpc[w].token]
    BY <1>1, <1>10 DEF GetRefreshToken, Request
  <2>2. rpc[w].token \in Token
    BY <1>10 DEF GetRefreshToken, WellFormed, Fits, Issued
  <2>3. account[owner[rpc[w].token]] = "verified" /\ owner[rpc[w].token] \in Email
    BY <2>1, <2>2 DEF VerifiedInv, TokensOnlyVerified
  <2> QED BY <2>1, <2>3, StaysVerified
<1>11. CASE DeleteRefreshToken(w)
  <2>1. Goto(w, "StoreRefreshToken") /\ rpc[w].op = "RefreshToken"
    BY <1>1, <1>11 DEF DeleteRefreshToken, Proceed
  <2>2. account[rpc[w].email] = "verified"
    BY <1>11, <2>1 DEF DeleteRefreshToken, VerifiedInv, Handing
  <2> QED BY <1>3, <1>11, <2>1, <2>2 DEF DeleteRefreshToken
<1>12. CASE CallFails(w)
  <2>1. Goto(w, "StoreRefreshToken") /\ rpc[w].pc = "DeleteOTP"
    BY <1>1, <1>12 DEF CallFails, Proceed
  <2>2. account[rpc[w].email] = "verified"
    BY <2>1 DEF VerifiedInv, Handing
  <2> QED BY <1>3, <2>1, <2>2
<1> QED BY <1>1, <1>4, <1>5, <1>6, <1>7, <1>8, <1>9, <1>10, <1>11, <1>12
    DEF Step, StoreOTP, StoreRefreshToken, DeleteUser, Exhausted

LEMMA OwnersStep ==
  ASSUME TypeInv, VerifiedInv, NEW w \in Worker, Step(w)
  PROVE  TokensOnlyVerified'
<1> USE DEF TypeInv, AuthTypeOK
<1> SUFFICES ASSUME NEW t \in Token, owner'[t] # None
             PROVE  account'[owner'[t]] = "verified"
  BY DEF TokensOnlyVerified
<1>1. CASE owner'[t] = owner[t]
  BY <1>1, StaysVerified DEF VerifiedInv, TokensOnlyVerified
<1>2. CASE StoreRefreshToken(w) /\ owner'[t] = rpc[w].email
  <2>1. account[rpc[w].email] = "verified" /\ rpc[w].email \in Email
    BY <1>2 DEF StoreRefreshToken, VerifiedInv, Handing, WellFormed
  <2> QED BY <1>2, <2>1, StaysVerified
<1>3. CASE StoreRefreshToken(w)
  BY <1>1, <1>2, <1>3 DEF StoreRefreshToken
<1>4. CASE DeleteRefreshToken(w)
  BY <1>1, <1>4 DEF DeleteRefreshToken
<1>5. CASE UNCHANGED owner
  BY <1>1, <1>5
<1> QED BY <1>3, <1>4, <1>5
    DEF Step, Call, CreateUser, StoreOTP, GetUserByEmail, GetOTP, VerifyUser, DeleteOTP,
        GetRefreshToken, DeleteUser, Exhausted, CallFails, Read, redis

\* However the RPCs of any number of clients interleave, whichever store calls fail and
\* whatever expires, a refresh token belongs to an account whose email was verified.
THEOREM OnlyVerifiedHoldTokens == Spec => []TokensOnlyVerified
<1>1. Init => VerifiedInv
  BY IdleType DEF Init, VerifiedInv, TokensOnlyVerified, Handing
<1>2. TypeInv /\ VerifiedInv /\ [Next]_vars => VerifiedInv'
  <2> SUFFICES ASSUME TypeInv, VerifiedInv, [Next]_vars PROVE VerifiedInv'
    OBVIOUS
  <2>1. ASSUME NEW w \in Worker, Step(w)
        PROVE  VerifiedInv'
    <3>1. ASSUME NEW v \in Worker \ {w}, Handing(v)'
          PROVE  account'[rpc'[v].email] = "verified"
      <4>1. rpc'[v] = rpc[v]
        BY <2>1, OthersKept
      <4>2. account[rpc[v].email] = "verified" /\ rpc[v].email \in Email
        BY <3>1, <4>1 DEF Handing, VerifiedInv, TypeInv, WellFormed
      <4> QED BY <2>1, <4>1, <4>2, StaysVerified
    <3> QED BY <2>1, <3>1, HandingStep, OwnersStep DEF VerifiedInv
  <2>2. CASE Expire
    <3>1. UNCHANGED <<account, rpc>>
      BY <2>2 DEF Expire, users
    <3>2. \A t \in Token : owner'[t] # None => owner'[t] = owner[t]
      BY <2>2 DEF Expire, TypeInv, AuthTypeOK
    <3> QED BY <3>1, <3>2 DEF VerifiedInv, TokensOnlyVerified, Handing
  <2>3. CASE UNCHANGED vars
    BY <2>3 DEF VerifiedInv, TokensOnlyVerified, Handing, vars, users, redis
  <2> QED BY <2>1, <2>2, <2>3 DEF Next
<1> QED BY <1>1, <1>2, TypeCorrect, PTL DEF Spec, VerifiedInv

-----------------------------------------------------------------------------
(* RPCs that do not overlap.                                                 *)

\* A code is for one account at a time, and unused as long as it is stored.
CodesFresh ==
    /\ \A e, f \in Email : otp[e] # None /\ otp[e] = otp[f] => e = f
    /\ \A e \in Email : otp[e] # None => otp[e] \in codes /\ opened[otp[e]] = 0
    /\ \A c \in Code : opened[c] <= 1
    /\ \A c \in Code \ codes : opened[c] = 0

\* What a VerifyOTP past its look-up knows of its code.
CodeAsRead(w) ==
    LET r == rpc[w]
    IN  r.op = "VerifyOTP" =>
            /\ r.pc \in {"GetUserByEmail", "VerifyUser", "DeleteOTP", "StoreRefreshToken"} =>
                    opened[r.code] = 0
            /\ r.pc \in {"GetUserByEmail", "VerifyUser", "DeleteOTP"} =>
                    \A e \in Email : otp[e] = r.code => e = r.email
            /\ r.pc = "StoreRefreshToken" => \A e \in Email : otp[e] # r.code

\* A session has one live token, one that has paid for nothing yet, until it has ended.
OneTokenPerSession ==
    /\ \A s, t \in Token : owner[s] # None /\ owner[t] # None /\ session[s] = session[t] => s = t
    /\ \A t \in Token : owner[t] # None =>
            redeemed[t] = 0 /\ t \in Issued /\ session[t] \notin ended
    /\ \A t \in Token : redeemed[t] <= 1
    /\ \A t \in Token \ Issued : redeemed[t] = 0
    /\ ended \subseteq Issued

\* What a RefreshToken past its look-up knows of its token.
TokenAsRead(w) ==
    LET r == rpc[w]
    IN  r.op = "RefreshToken" /\ r.pc \in {"DeleteRefreshToken", "StoreRefreshToken"} =>
            /\ redeemed[r.token] = 0
            /\ session[r.token] \notin ended
            /\ \A t \in Token : owner[t] # None /\ session[t] = session[r.token] =>
                    r.pc = "DeleteRefreshToken" /\ t = r.token

SerialInv ==
    serial => /\ OneAtATime
              /\ CodesFresh
              /\ OneTokenPerSession
              /\ \A w \in Worker : CodeAsRead(w) /\ TokenAsRead(w)

\* While RPCs do not overlap, the others are idle when one takes a step.
LEMMA Alone ==
  ASSUME TypeInv, OneAtATime, NEW w \in Worker, Step(w), OneAtATime'
  PROVE  /\ ~CallFails(w)
         /\ \A v \in Worker \ {w} : rpc'[v].pc = "idle"
<1> USE DEF TypeInv, AuthTypeOK
<1>1. ~CallFails(w)
  BY DEF OneAtATime, CallFails
<1>2. \A v \in Worker \ {w} : rpc'[v] = rpc[v]
  BY OthersKept
<1>3. CASE rpc[w].pc # "idle"
  BY <1>1, <1>2, <1>3 DEF OneAtATime
<1>4. CASE rpc[w].pc = "idle"
  <2>1. Call(w)
    BY <1>1, <1>4 DEF Step, CreateUser, StoreOTP, GetUserByEmail, GetOTP, VerifyUser,
           DeleteOTP, GetRefreshToken, DeleteRefreshToken, StoreRefreshToken, DeleteUser, Exhausted
  <2>2. PICK op \in Ops : rpc'[w].pc = Entry(op)
    BY <2>1 DEF Call, Idle
  <2>3. Entry(op) # "idle"
    BY DEF Entry
  <2> QED BY <1>1, <1>2, <2>2, <2>3 DEF OneAtATime
<1> QED BY <1>1, <1>3, <1>4

LEMMA CodesStep ==
  ASSUME TypeInv, CodesFresh, NEW w \in Worker, CodeAsRead(w), Step(w), ~CallFails(w)
  PROVE  CodesFresh' /\ CodeAsRead(w)'
<1> USE DEF TypeInv, AuthTypeOK
<1> USE AuthConstants
<1>1. ASSUME UNCHANGED <<otp, codes, opened>> PROVE CodesFresh'
  BY <1>1 DEF CodesFresh
<1>2. ASSUME rpc'[w].pc \notin {"GetUserByEmail", "VerifyUser", "DeleteOTP", "StoreRefreshToken"}
      PROVE  CodeAsRead(w)'
  BY <1>2 DEF CodeAsRead
<1>3. ASSUME Return(w) PROVE CodeAsRead(w)'
  BY <1>2, <1>3, IdleType DEF Return
<1>4. ASSUME NEW pc, Goto(w, pc)
      PROVE  /\ rpc'[w].pc = pc /\ rpc'[w].op = rpc[w].op
             /\ rpc'[w].email = rpc[w].email /\ rpc'[w].code = rpc[w].code
  BY <1>4 DEF Goto, Request
<1>5. CASE Call(w)
  <2>1. PICK op \in Ops : rpc'[w].pc = Entry(op) /\ rpc'[w].op = op
    BY <1>5 DEF Call, Idle
  <2>2. op = "VerifyOTP" => Entry(op) = "GetOTP"
    BY DEF Entry
  <2> QED BY <1>1, <1>5, <2>1, <2>2 DEF Call, Read, redis, history, CodeAsRead
<1>6. CASE CreateUser(w)
  <2>1. rpc'[w].pc \in {"CreateUser", "StoreOTP"} \/ Return(w)
    BY <1>6 DEF CreateUser, Goto, Request
  <2> QED BY <1>1, <1>2, <1>3, <1>6, <2>1 DEF CreateUser, redis, history
<1>7. CASE StoreOTP(w)
  <2>1. PICK c \in Code \ codes : /\ otp' = [otp EXCEPT ![rpc[w].email] = c]
                                  /\ codes' = codes \cup {c}
    BY <1>7 DEF StoreOTP
  <2>2. rpc[w].email \in Email /\ UNCHANGED opened
    BY <1>7 DEF StoreOTP, WellFormed, history
  <2>3. \A e \in Email : otp[e] # c
    BY DEF CodesFresh
  <2>4. CodesFresh'
    BY <2>1, <2>2, <2>3 DEF CodesFresh
  <2> QED BY <1>3, <1>7, <2>4 DEF StoreOTP
<1>8. CASE GetUserByEmail(w)
  <2>1. CASE Goto(w, AfterUser(rpc[w].op))
    <3>1. rpc[w].op = "VerifyOTP" => AfterUser(rpc[w].op) = "VerifyUser"
      BY DEF AfterUser
    <3> QED BY <1>1, <1>4, <1>8, <2>1, <3>1 DEF GetUserByEmail, Read, redis, history, CodeAsRead
  <2> QED BY <1>1, <1>3, <1>8, <2>1 DEF GetUserByEmail, Proceed, Read, redis, history
<1>9. CASE GetOTP(w)
  <2>1. CASE otp[rpc[w].email] = rpc[w].code /\ Goto(w, "GetUserByEmail")
    <3>1. rpc[w].email \in Email /\ rpc[w].code # None
      BY <1>9 DEF GetOTP, WellFormed, Fits
    <3>2. opened[rpc[w].code] = 0 /\ \A e \in Email : otp[e] = rpc[w].code => e = rpc[w].email
      BY <2>1, <3>1 DEF CodesFresh
    <3> QED BY <1>1, <1>4, <1>9, <2>1, <3>2 DEF GetOTP, Read, redis, history, CodeAsRead
  <2> QED BY <1>1, <1>3, <1>9, <2>1 DEF GetOTP, Proceed, Read, redis, history
<1>10. CASE VerifyUser(w)
  BY <1>1, <1>4, <1>10 DEF VerifyUser, redis, history, CodeAsRead
<1>11. CASE DeleteOTP(w)
  <2>1. /\ otp' = [otp EXCEPT ![rpc[w].email] = None] /\ UNCHANGED <<codes, opened>>
        /\ rpc[w].email \in Email /\ rpc[w].op = "VerifyOTP" /\ rpc[w].code # None
    BY <1>11 DEF DeleteOTP, WellFormed, Fits, history
  <2>2. CodesFresh'
    BY <2>1 DEF CodesFresh
  <2>3. opened[rpc[w].code] = 0 /\ \A e \in Email : otp[e] = rpc[w].code => e = rpc[w].email
    BY <1>11, <2>1 DEF CodeAsRead, DeleteOTP
  <2>4. rpc'[w].pc = "StoreRefreshToken" /\ rpc'[w].code = rpc[w].code
    BY <1>4, <1>11 DEF DeleteOTP
  <2> QED BY <2>1, <2>2, <2>3, <2>4 DEF CodeAsRead
<1>12. CASE GetRefreshToken(w)
  <2>1. rpc'[w].pc = "DeleteRefreshToken" \/ Return(w)
    BY <1>12 DEF GetRefreshToken, Request
  <2> QED BY <1>1, <1>2, <1>3, <1>12, <2>1 DEF GetRefreshToken, Read, redis, history
<1>13. CASE DeleteRefreshToken(w)
  <2>1. rpc[w].op # "VerifyOTP"
    BY <1>13 DEF DeleteRefreshToken, WellFormed, Fits
  <2>2. CodeAsRead(w)'
    BY <1>3, <1>4, <1>13, <2>1 DEF DeleteRefreshToken, Proceed, CodeAsRead
  <2> QED BY <1>1, <1>13, <2>2 DEF DeleteRefreshToken
<1>14. CASE StoreRefreshToken(w)
  <2>1. CASE rpc[w].op = "VerifyOTP"
    <3>1. /\ opened' = [opened EXCEPT ![rpc[w].code] = @ + 1] /\ UNCHANGED <<otp, codes>>
          /\ rpc[w].code \in codes
      BY <1>14, <2>1 DEF StoreRefreshToken, WellFormed
    <3>2. opened[rpc[w].code] = 0 /\ \A e \in Email : otp[e] # rpc[w].code
      BY <1>14, <2>1 DEF StoreRefreshToken, CodeAsRead
    <3>3. CodesFresh'
      BY <3>1, <3>2 DEF CodesFresh
    <3> QED BY <1>3, <1>14, <3>3 DEF StoreRefreshToken
  <2> QED BY <1>1, <1>3, <1>14, <2>1 DEF StoreRefreshToken
<1>15. CASE DeleteUser(w)
  BY <1>1, <1>3, <1>15 DEF DeleteUser, redis, history
<1>16. CASE Exhausted(w)
  BY <1>1, <1>3, <1>16 DEF Exhausted, Read, redis, history
<1> QED BY <1>5, <1>6, <1>7, <1>8, <1>9, <1>10, <1>11, <1>12, <1>13, <1>14, <1>15, <1>16 DEF Step

LEMMA TokensStep ==
  ASSUME TypeInv, OneTokenPerSession, NEW w \in Worker, TokenAsRead(w), Step(w), ~CallFails(w)
  PROVE  OneTokenPerSession' /\ TokenAsRead(w)'
<1> USE DEF TypeInv, AuthTypeOK
<1> USE AuthConstants
<1>1. ASSUME UNCHANGED <<owner, session, redeemed, ended>> PROVE OneTokenPerSession'
  BY <1>1 DEF OneTokenPerSession, Issued
<1>2. ASSUME rpc'[w].pc \notin {"DeleteRefreshToken", "StoreRefreshToken"}
      PROVE  TokenAsRead(w)'
  BY <1>2 DEF TokenAsRead
<1>3. ASSUME Return(w) PROVE TokenAsRead(w)'
  BY <1>2, <1>3, IdleType DEF Return
<1>4. ASSUME NEW pc, Goto(w, pc)
      PROVE  /\ rpc'[w].pc = pc /\ rpc'[w].op = rpc[w].op /\ rpc'[w].token = rpc[w].token
  BY <1>4 DEF Goto, Request
<1>5. CASE Call(w)
  <2>1. PICK op \in Ops : rpc'[w].pc = Entry(op) /\ rpc'[w].op = op
    BY <1>5 DEF Call, Idle
  <2>2. op = "RefreshToken" => Entry(op) = "GetRefreshToken"
    BY DEF Entry
  <2> QED BY <1>1, <1>5, <2>1, <2>2 DEF Call, Read, redis, history, TokenAsRead
<1>6. CASE CreateUser(w)
  <2>1. rpc'[w].pc \in {"CreateUser", "StoreOTP"} \/ Return(w)
    BY <1>6 DEF CreateUser, Goto, Request
  <2> QED BY <1>1, <1>2, <1>3, <1>6, <2>1 DEF CreateUser, redis, history
<1>7. CASE StoreOTP(w)
  BY <1>1, <1>3, <1>7 DEF StoreOTP, history
<1>8. CASE GetUserByEmail(w)
  <2>1. rpc[w].op # "RefreshToken"
    BY <1>8 DEF GetUserByEmail, WellFormed, Fits
  <2>2. TokenAsRead(w)'
    BY <1>3, <1>4, <1>8, <2>1 DEF GetUserByEmail, Proceed, TokenAsRead
  <2> QED BY <1>1, <1>8, <2>2 DEF GetUserByEmail, Read, redis, history
<1>9. CASE GetOTP(w)
  <2>1. TokenAsRead(w)'
    BY <1>2, <1>3, <1>4, <1>9 DEF GetOTP, Proceed
  <2> QED BY <1>1, <1>9, <2>1 DEF GetOTP, Read, redis, history
<1>10. CASE VerifyUser(w)
  BY <1>1, <1>2, <1>4, <1>10 DEF VerifyUser, redis, history
<1>11. CASE DeleteOTP(w)
  <2>1. rpc[w].op # "RefreshToken"
    BY <1>11 DEF DeleteOTP, WellFormed, Fits
  <2> QED BY <1>1, <1>4, <1>11, <2>1 DEF DeleteOTP, history, TokenAsRead
<1>12. CASE GetRefreshToken(w)
  <2>1. UNCHANGED <<owner, session, redeemed, ended>>
    BY <1>12 DEF GetRefreshToken, Read, redis, history
  <2>2. CASE owner[rpc[w].token] # None
    <3>1. rpc[w].token \in Token
      BY <1>12 DEF GetRefreshToken, WellFormed, Fits, Issued
    <3>2. rpc'[w].pc = "DeleteRefreshToken" /\ rpc'[w].token = rpc[w].token
      BY <1>12, <2>2 DEF GetRefreshToken, Request
    <3>3. /\ redeemed[rpc[w].token] = 0 /\ session[rpc[w].token] \notin ended
          /\ \A t \in Token : owner[t] # None /\ session[t] = session[rpc[w].token] =>
                t = rpc[w].token
      BY <2>2, <3>1 DEF OneTokenPerSession
    <3> QED BY <1>1, <2>1, <3>2, <3>3 DEF TokenAsRead
  <2>3. CASE owner[rpc[w].token] = None
    BY <1>1, <1>3, <1>12, <2>1, <2>3 DEF GetRefreshToken
  <2> QED BY <2>2, <2>3
<1>13. CASE DeleteRefreshToken(w)
  <2>0. PICK r \in Token : r = rpc[w].token /\ r \in Issued /\ session[r] \in Issued
    BY <1>13 DEF DeleteRefreshToken, WellFormed, Fits, Issued
  <2>1. /\ owner' = [owner EXCEPT ![r] = None]
        /\ UNCHANGED <<session, redeemed>> /\ Issued' = Issued
    BY <1>13, <2>0 DEF DeleteRefreshToken, Issued
  <2>2. CASE rpc[w].op = "RefreshToken"
    <3>1. ended' = ended /\ Goto(w, "StoreRefreshToken")
      BY <1>13, <2>2 DEF DeleteRefreshToken, Proceed
    <3>2. OneTokenPerSession'
      BY <2>1, <3>1 DEF OneTokenPerSession
    <3>3. rpc'[w].pc = "StoreRefreshToken" /\ rpc'[w].token = r
      BY <1>4, <2>0, <3>1
    <3>4. /\ redeemed[r] = 0 /\ session[r] \notin ended
          /\ \A t \in Token : owner[t] # None /\ session[t] = session[r] => t = r
      BY <1>13, <2>0, <2>2 DEF DeleteRefreshToken, TokenAsRead
    <3>5. \A t \in Token : owner'[t] # None => session'[t] # session'[r]
      BY <2>1, <3>4
    <3>6. redeemed'[r] = 0 /\ session'[r] \notin ended'
      BY <2>1, <3>1, <3>4
    <3> QED BY <3>2, <3>3, <3>5, <3>6 DEF TokenAsRead
  <2>3. CASE rpc[w].op # "RefreshToken"
    <3>1. Return(w)
      BY <1>13, <2>3 DEF DeleteRefreshToken, Proceed
    <3>2. CASE ended' = ended
      BY <1>3, <2>1, <3>1, <3>2 DEF OneTokenPerSession
    <3>3. CASE owner[r] # None /\ ended' = ended \cup {session[r]}
      <4>1. \A t \in Token : owner'[t] # None => session[t] # session[r]
        BY <2>1, <3>3 DEF OneTokenPerSession
      <4> QED BY <1>3, <2>0, <2>1, <3>1, <3>3, <4>1 DEF OneTokenPerSession
    <3> QED BY <1>13, <2>0, <3>2, <3>3 DEF DeleteRefreshToken
  <2> QED BY <2>2, <2>3
<1>14. CASE StoreRefreshToken(w)
  <2>1. PICK n \in Token \ Issued :
            /\ owner' = [owner EXCEPT ![n] = rpc[w].email]
            /\ session' = [session EXCEPT ![n] =
                            IF rpc[w].op = "RefreshToken" THEN session[rpc[w].token] ELSE n]
    BY <1>14 DEF StoreRefreshToken
  <2>2. ended' = ended /\ Return(w) /\ rpc[w].email \in Email
    BY <1>14 DEF StoreRefreshToken, WellFormed
  <2>3. owner[n] = None /\ redeemed[n] = 0 /\ n \notin ended
    BY DEF OneTokenPerSession
  <2>4. CASE rpc[w].op = "RefreshToken"
    <3>0. PICK r \in Token : r = rpc[w].token /\ r \in Issued /\ session[r] \in Issued
      BY <1>14, <2>4 DEF StoreRefreshToken, WellFormed, Fits, Issued
    <3>1. /\ session' = [session EXCEPT ![n] = session[r]]
          /\ redeemed' = [redeemed EXCEPT ![r] = @ + 1]
      BY <1>14, <2>1, <2>4, <3>0 DEF StoreRefreshToken
    <3>2. /\ redeemed[r] = 0 /\ session[r] \notin ended
          /\ \A t \in Token : owner[t] # None => session[t] # session[r]
      BY <1>14, <2>4, <3>0 DEF StoreRefreshToken, TokenAsRead
    <3>3. owner[r] = None /\ r # n /\ Issued' = Issued \cup {n}
      BY <3>0, <3>1, <3>2 DEF Issued
    <3>4. ASSUME NEW s \in Token, NEW t \in Token, owner'[s] # None, owner'[t] # None,
                 session'[s] = session'[t]
          PROVE  s = t
      BY <2>1, <3>1, <3>2, <3>4 DEF OneTokenPerSession
    <3>5. ASSUME NEW t \in Token, owner'[t] # None
          PROVE  redeemed'[t] = 0 /\ t \in Issued' /\ session'[t] \notin ended'
      BY <2>1, <2>2, <2>3, <3>1, <3>2, <3>3, <3>5 DEF OneTokenPerSession
    <3>6. /\ \A t \in Token : redeemed'[t] <= 1
          /\ \A t \in Token \ Issued' : redeemed'[t] = 0
          /\ ended' \subseteq Issued'
      BY <2>2, <3>0, <3>1, <3>2, <3>3 DEF OneTokenPerSession
    <3> QED BY <1>3, <2>2, <3>4, <3>5, <3>6 DEF OneTokenPerSession
  <2>5. CASE rpc[w].op # "RefreshToken"
    <3>1. session' = [session EXCEPT ![n] = n] /\ redeemed' = redeemed
      BY <1>14, <2>1, <2>5 DEF StoreRefreshToken
    <3>2. Issued' = Issued \cup {n}
      BY <3>1 DEF Issued
    <3>3. \A t \in Token : owner[t] # None => session[t] # n
      BY DEF OneTokenPerSession
    <3>4. ASSUME NEW s \in Token, NEW t \in Token, owner'[s] # None, owner'[t] # None,
                 session'[s] = session'[t]
          PROVE  s = t
      BY <2>1, <3>1, <3>3, <3>4 DEF OneTokenPerSession
    <3> QED BY <1>3, <2>1, <2>2, <2>3, <3>1, <3>2, <3>4 DEF OneTokenPerSession
  <2> QED BY <2>4, <2>5
<1>15. CASE DeleteUser(w)
  BY <1>1, <1>3, <1>15 DEF DeleteUser, redis, history
<1>16. CASE Exhausted(w)
  BY <1>1, <1>3, <1>16 DEF Exhausted, Read, redis, history
<1> QED BY <1>5, <1>6, <1>7, <1>8, <1>9, <1>10, <1>11, <1>12, <1>13, <1>14, <1>15, <1>16 DEF Step

\* An expiry takes away a code or a token and nothing else.
LEMMA ExpireStep ==
  ASSUME TypeInv, CodesFresh, OneTokenPerSession, Expire,
         \A w \in Worker : CodeAsRead(w) /\ TokenAsRead(w)
  PROVE  /\ CodesFresh' /\ OneTokenPerSession'
         /\ \A w \in Worker : CodeAsRead(w)' /\ TokenAsRead(w)'
<1> USE DEF TypeInv, AuthTypeOK
<1>1. UNCHANGED <<codes, session, rpc, redeemed, opened, ended>> /\ Issued' = Issued
  BY DEF Expire, history, Issued
<1>2. /\ \A e \in Email : otp'[e] # None => otp'[e] = otp[e]
      /\ \A t \in Token : owner'[t] # None => owner'[t] = owner[t]
  BY DEF Expire
<1>3. CodesFresh' /\ OneTokenPerSession'
  BY <1>1, <1>2 DEF CodesFresh, OneTokenPerSession
<1>4. ASSUME NEW w \in Worker PROVE CodeAsRead(w)'
  <2>1. rpc[w].op = "VerifyOTP" /\ rpc[w].pc # "idle" => rpc[w].code # None
    BY AuthConstants DEF WellFormed
  <2> QED BY <1>1, <1>2, <2>1 DEF CodeAsRead
<1>5. ASSUME NEW w \in Worker PROVE TokenAsRead(w)'
  BY <1>1, <1>2 DEF TokenAsRead
<1> QED BY <1>3, <1>4, <1>5

LEMMA SerialStep ==
  ASSUME TypeInv, SerialInv, Next
  PROVE  SerialInv'
<1> SUFFICES ASSUME serial'
             PROVE  /\ OneAtATime' /\ CodesFresh' /\ OneTokenPerSession'
                    /\ \A w \in Worker : CodeAsRead(w)' /\ TokenAsRead(w)'
  BY DEF SerialInv
<1>1. serial /\ OneAtATime'
  BY DEF Next
<1>2. /\ OneAtATime /\ CodesFresh /\ OneTokenPerSession
      /\ \A w \in Worker : CodeAsRead(w) /\ TokenAsRead(w)
  BY <1>1 DEF SerialInv
<1>3. CASE Expire
  BY <1>1, <1>2, <1>3, ExpireStep
<1>4. ASSUME NEW w \in Worker, Step(w)
      PROVE  /\ CodesFresh' /\ OneTokenPerSession'
             /\ \A v \in Worker : CodeAsRead(v)' /\ TokenAsRead(v)'
  <2>1. ~CallFails(w) /\ \A v \in Worker \ {w} : rpc'[v].pc = "idle"
    BY <1>1, <1>2, <1>4, Alone
  <2>2. CodesFresh' /\ OneTokenPerSession' /\ CodeAsRead(w)' /\ TokenAsRead(w)'
    BY <1>2, <1>4, <2>1, CodesStep, TokensStep
  <2>3. \A v \in Worker \ {w} : CodeAsRead(v)' /\ TokenAsRead(v)'
    BY <2>1 DEF CodeAsRead, TokenAsRead
  <2> QED BY <2>2, <2>3
<1> QED BY <1>1, <1>3, <1>4 DEF Next

LEMMA Serial == Spec => []SerialInv
<1>1. Init => SerialInv
  BY DEF Init, SerialInv, OneAtATime, CodesFresh, OneTokenPerSession, CodeAsRead, TokenAsRead,
         Issued, Idle
<1>2. TypeInv /\ SerialInv /\ [Next]_vars => SerialInv'
  <2> SUFFICES ASSUME TypeInv, SerialInv, [Next]_vars PROVE SerialInv'
    OBVIOUS
  <2>1. CASE UNCHANGED vars
    BY <2>1 DEF SerialInv, OneAtATime, CodesFresh, OneTokenPerSession, CodeAsRead, TokenAsRead,
                Issued, vars, redis, history
  <2> QED BY <2>1, SerialStep
<1> QED BY <1>1, <1>2, TypeCorrect, PTL DEF Spec

\* As long as no two RPCs overlap and no call fails, a refresh token pays for one refresh
\* and is gone once it has, and a code opens one session: nothing a client presents again
\* works a second time.
THEOREM TokensAreSingleUse == Spec => []SingleUse
<1>1. TypeInv /\ SerialInv => SingleUse
  BY DEF TypeInv, AuthTypeOK, SerialInv, CodesFresh, OneTokenPerSession, SingleUse
<1> QED BY <1>1, TypeCorrect, Serial, PTL

\* As long as no two RPCs overlap and no call fails, a Logout with a session's live token
\* leaves no token of that session, however often it was refreshed before.
THEOREM LogoutIsFinal == Spec => []LogoutEndsSession
<1>1. TypeInv /\ SerialInv => LogoutEndsSession
  BY DEF SerialInv, OneTokenPerSession, LogoutEndsSession
<1> QED BY <1>1, TypeCorrect, Serial, PTL
=============================================================================
