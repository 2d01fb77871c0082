------------------------------ MODULE Gateway ------------------------------
(***************************************************************************)
(* A request from its arrival to its handler: gRPC directly, REST through    *)
(* the gateway mux and its loopback connection (internal/app/server.go,      *)
(* gateway.go), then the interceptors in the order of                        *)
(* internal/shared/middleware/modules.go: rate limit, authentication and     *)
(* validation for a unary RPC, authentication alone for a stream.  The state *)
(* is what requests share: the rate limiter's counters in Redis, one for     *)
(* each identity and method, which live for Window ticks after the last      *)
(* request.  The handlers are the other modules of this project.             *)
(***************************************************************************)
EXTENDS Naturals, FiniteSetsExt, SequencesExt

CONSTANTS
    Client,         \* the users who send requests, each from an address of its own
    RPCs,           \* the RPCs they call
    AuthLimit, MessageLimit, FriendLimit, DefaultLimit,
    Window,         \* rateLimit.window, in ticks
    MaxPerTick,     \* bound: unary requests within a tick
    MaxRedisFaults  \* bound: Redis pipelines that fail, for each counter

Anonymous == "nobody"   \* no user in the context

ASSUME GatewayConstants ==
    /\ {AuthLimit, MessageLimit, FriendLimit, DefaultLimit} \subseteq Nat \ {0}
    /\ Window \in Nat \ {0}
    /\ MaxPerTick \in Nat
    /\ MaxRedisFaults \in Nat
    /\ {"bufconn", Anonymous} \cap Client = {}

S == INSTANCE Services

VARIABLES
    bucket,         \* the counters in Redis that exist
    log,            \* history: what each counter let through, by age
    last            \* the request served last, and its outcome

gatewayVars == <<bucket, log, last>>

Age == 0 .. Window - 1
Zero == [a \in Age |-> 0]
NoLog == [arrived |-> Zero, admitted |-> Zero, faults |-> 0]
NoTTL == Window + 1     \* a counter INCR has made and EXPIRE has not reached

At(f, x, default) == IF x \in DOMAIN f THEN f[x] ELSE default
Set(f, x, v) == [y \in DOMAIN f \cup {x} |-> IF y = x THEN v ELSE f[y]]
More(n) == [n EXCEPT ![0] = @ + 1]
Older(n) == [a \in Age |-> IF a = 0 THEN 0 ELSE n[a - 1]]

-----------------------------------------------------------------------------
(* From the wire to an RPC. *)

\* User names, which are words of the user's choice; the other path parameters are ids
\* and codes, never a word of the API.
Words == {"alice", "guilds", "presence", "search"}

RouteOf(rpc) == S!Registered[CHOOSE i \in DOMAIN S!Registered : S!Registered[i].rpc = rpc]

\* The body may name the path fields too, with another value.
Body(req) == [f \in IF req.body = "none" THEN {} ELSE S!PathFields(RouteOf(req.rpc)) |-> req.body]

\* The method and the fields that reach the interceptors.  A gRPC client uses the same
\* generated stubs as the gateway.
Called(req) ==
    LET route == RouteOf(req.rpc)
        url == S!URL(route, req.args)
        taken == S!Dispatch(url)
    IN  IF req.via = "grpc"
        THEN [method |-> S!Reported(S!Clients[req.rpc]),
              fields |-> [f \in S!PathFields(route) |-> req.args[f]]]
        ELSE [method |-> S!Reported(S!Clients[taken.rpc]),
              fields |-> S!Request(taken, url, Body(req))]

\* peerIP: a REST call reaches the server over the in-process loopback, whose address
\* is the same for everyone.
peerIP(req) == IF req.via = "grpc" THEN req.client ELSE "bufconn"

-----------------------------------------------------------------------------
(* Rate limit. *)

authRateLimits == {"auth.v1.AuthService"} \X {"Register", "Login", "VerifyOTP", "ResendOTP"}
messageSendMethods == {"message.v1.MessageService"} \X {"SendMessage", "SendDirectMessage"}
friendRequestMethods == {<<"user.v1.UserService", "SendFriendRequest">>}

LimitOf(method) ==
    CASE method \in authRateLimits -> AuthLimit
      [] method \in messageSendMethods -> MessageLimit
      [] method \in friendRequestMethods -> FriendLimit
      [] OTHER -> DefaultLimit

\* Whom a request counts against: the peer for the auth RPCs, for the others the user
\* in the context, and the peer while there is none.
resolveRateLimit(user, peer, method) ==
    <<IF method \in authRateLimits \/ user = Anonymous THEN peer ELSE user, method>>

\* The rate limiter runs before AuthInterceptor has put a user into the context.
KeyOf(req, method) == resolveRateLimit(Anonymous, peerIP(req), method)

CountOf(k) == At(bucket, k, [count |-> 0, ttl |-> 0]).count

\* INCR.  Bound: a counter over the limit stays at the limit plus one; all such values
\* are refused alike.
Incr(k) == IF CountOf(k) > LimitOf(k[2]) THEN CountOf(k) ELSE CountOf(k) + 1

\* Mutant: EXPIRE only when INCR has made the key, a fixed window.
ExpireOnCreate(k) ==
    IF k \in DOMAIN bucket /\ bucket[k].ttl # NoTTL THEN bucket[k].ttl ELSE Window

\* EXPIRE, which sets the full window again at every request.
ExpireKey(k) == Window

checkRateLimit(k) == bucket' = Set(bucket, k, [count |-> Incr(k), ttl |-> ExpireKey(k)])

\* The pipeline fails before its INCR, or between INCR and EXPIRE.
PipelineFails(k) ==
    \/ UNCHANGED bucket
    \/ bucket' = Set(bucket, k, [count |-> Incr(k), ttl |-> At(bucket, k, [ttl |-> NoTTL]).ttl])

Arrive(k, admit, fault) ==
    LET old == At(log, k, NoLog)
    IN  /\ FoldSet(LAMBDA j, s : s + log[j].arrived[0], 0, DOMAIN log) < MaxPerTick
        /\ log' = Set(log, k, [arrived |-> More(old.arrived),
                               admitted |-> IF admit THEN More(old.admitted) ELSE old.admitted,
                               faults |-> old.faults + fault])

-----------------------------------------------------------------------------
(* Authentication, validation, the handler. *)

publicMethods ==
    {"auth.v1.AuthService"} \X {"Register", "VerifyOTP", "ResendOTP", "Login", "RefreshToken",
                               "ValidateToken"}
      \cup {<<"guild.v1.GuildService", "PreviewInvite">>}

\* extractUserID: the subject of a token that is there and verifies.
extractUserID(req) == IF req.token = "good" THEN req.client ELSE Anonymous

\* What the handler finds in its context, and what becomes of the request.
Handled(req, method) ==
    IF method \in publicMethods THEN [user |-> Anonymous, outcome |-> "handled"]
    ELSE IF extractUserID(req) = Anonymous THEN [user |-> Anonymous, outcome |-> "Unauthenticated"]
    ELSE [user |-> extractUserID(req), outcome |-> "handled"]

\* Mutant: a failing validator is not looked at.
ValidationInterceptorLax(req, result) == result

ValidationInterceptor(req, result) ==
    IF result.outcome = "handled" /\ ~req.valid
    THEN [result EXCEPT !.outcome = "InvalidArgument"] ELSE result

Result(req, call, result) ==
    last' = [req |-> req, method |-> call.method, fields |-> call.fields,
             user |-> result.user, outcome |-> result.outcome]

Refusal == [user |-> Anonymous, outcome |-> "ResourceExhausted"]

Unary(req) ==
    LET call == Called(req)
        k == KeyOf(req, call.method)
        rest == ValidationInterceptor(req, Handled(req, call.method))
    IN  /\ S!IsUnary(call.method)
        /\ \/ /\ checkRateLimit(k)
              /\ LET allowed == bucket'[k].count <= LimitOf(call.method)
                 IN  /\ Arrive(k, allowed, 0)
                     /\ Result(req, call, IF allowed THEN rest ELSE Refusal)
           \/ /\ At(log, k, NoLog).faults < MaxRedisFaults
              /\ PipelineFails(k)
              /\ Arrive(k, TRUE, 1)
              /\ Result(req, call, rest)

\* A stream: neither counted nor validated.
Stream(req) ==
    LET call == Called(req)
    IN  /\ ~S!IsUnary(call.method)
        /\ Result(req, call, Handled(req, call.method))
        /\ UNCHANGED <<bucket, log>>

Left(k) == IF bucket[k].ttl = NoTTL THEN NoTTL ELSE bucket[k].ttl - 1

Aged(entry) == [arrived |-> Older(entry.arrived), admitted |-> Older(entry.admitted),
                faults |-> entry.faults]

\* A tick passes; a counter whose time has run out is gone.
Tick ==
    /\ bucket' = [k \in {j \in DOMAIN bucket : Left(j) > 0} |->
                    [count |-> bucket[k].count, ttl |-> Left(k)]]
    /\ log' = [k \in {j \in DOMAIN log : Aged(log[j]) # NoLog} |-> Aged(log[k])]
    /\ last' = [last EXCEPT !.outcome = "past"]

NoRequest == [client |-> Anonymous, via |-> "none", rpc |-> "none", args |-> <<>>, body |-> "none",
              token |-> "none", valid |-> FALSE]

GatewayInit ==
    /\ bucket = [k \in {} |-> 0]
    /\ log = [k \in {} |-> 0]
    /\ last = [req |-> NoRequest, method |-> <<>>, fields |-> <<>>, user |-> Anonymous,
               outcome |-> "past"]

-----------------------------------------------------------------------------

AllRPCs == {S!Registered[i].rpc : i \in DOMAIN S!Registered}

\* Any client, over gRPC or REST, with any body, token and validity.
Requests ==
    [client : Client, via : {"grpc", "rest"}, rpc : AllRPCs,
     args : {[f \in S!Field |-> IF f = "{username}" THEN w ELSE "id"] : w \in Words},
     body : {"none", "other"}, token : {"none", "bad", "good"}, valid : BOOLEAN]

GatewayNext == Tick \/ \E req \in Requests : Unary(req) \/ Stream(req)

GatewaySpec == GatewayInit /\ [][GatewayNext]_gatewayVars

-----------------------------------------------------------------------------

Key == (Client \cup {"bufconn"}) \X {S!Clients[rpc] : rpc \in RPCs}

Limit(k) == LimitOf(k[2])

Q == INSTANCE Quota WITH admitted <- [k \in Key |-> At(log, k, NoLog).admitted],
                         arrived <- [k \in Key |-> At(log, k, NoLog).arrived],
                         faults <- [k \in Key |-> At(log, k, NoLog).faults]

\* Every counter of the rate limiter implements Quota: however the requests of all
\* clients, over gRPC and REST, and the failures of Redis are spread over time, one
\* counter lets no more than its limit through in any window, Redis failures aside,
\* and refuses nothing after a window of silence.
EachCounterKeepsQuota == Q!Spec

\* The REST calls whose URL a pattern registered later matches too: leaving a guild, and
\* looking up a user called guilds or presence.
Shadowed(req) ==
    \/ req.rpc = "LeaveGuild"
    \/ req.rpc = "GetUserByUsername" /\ req.args["{username}"] \in {"guilds", "presence"}

\* A REST call reaches the RPC whose URL it uses, with the parameters of the URL in the
\* request even when the body names them too.  Nothing is said of the three shadowed
\* URLs, which guild.proto:102 and the OpenAPI file promise as well and the mux does not
\* keep (README, disagreements): a fix of their routes would satisfy this too.
RoutedAsAddressed ==
    last.req.via = "rest" /\ ~Shadowed(last.req) =>
        /\ last.method[2] = last.req.rpc
        /\ \A f \in S!PathFields(RouteOf(last.req.rpc)) : last.fields[f] = last.req.args[f]

\* The RPCs a client calls to get a token, and the preview shown before signing in.
SignIn == {"Register", "VerifyOTP", "ResendOTP", "Login", "RefreshToken", "ValidateToken",
           "PreviewInvite"}

\* Whatever the path to it (gRPC or REST, unary or stream, rate limiter up or failing),
\* a handler runs for the user whose token the request carries unless it serves
\* signing in, which needs no token, and a unary handler never sees a request that does
\* not validate.  The interceptors know a method by the name its generated handler
\* reports, so an entry of their tables under any other name would be without effect.
HandlerKnowsCaller ==
    /\ last.outcome = "handled" =>
          /\ last.method[2] \notin SignIn =>
                last.user = last.req.client /\ last.req.token = "good"
          /\ S!IsUnary(last.method) => last.req.valid
    /\ last.outcome = "Unauthenticated" =>
          last.method[2] \notin SignIn /\ last.req.token # "good"
=============================================================================
