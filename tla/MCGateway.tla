----------------------------- MODULE MCGateway -----------------------------
(***************************************************************************)
(* Gateway for TLC.  A behaviour is of one mode: "limit", requests for the    *)
(* watched RPCs over time; "shared", requests of all clients within a tick;   *)
(* "chain", two requests of every kind; "routes", one REST call of any RPC.   *)
(***************************************************************************)
EXTENDS Gateway, TLC

CONSTANT Chain      \* RPCs of the mode "chain"

VARIABLES
    mode,
    sent            \* history: the requests of each client, except in "limit"

ArgsOf(rpc) ==
    {[f \in S!Field |-> IF f = "{username}" THEN w ELSE "id"] :
        w \in IF "{username}" \in S!PathFields(RouteOf(rpc)) THEN Words ELSE {"alice"}}

RequestsOf(clients, vias, rpcs, bodies, tokens, valids) ==
    {[client |-> c, via |-> v, rpc |-> rpc, args |-> a, body |-> b, token |-> t, valid |-> ok] :
        <<c, v, b, t, ok, rpc, a>> \in
            UNION {clients \X vias \X bodies \X tokens \X valids \X {rpc} \X ArgsOf(rpc) : rpc \in rpcs}}

Modes == {"limit", "shared", "chain", "routes"}

Allowed ==
    [limit |-> RequestsOf({"u1"}, {"grpc"}, RPCs, {"none"}, {"good"}, {TRUE})
                 \cup RequestsOf({"u2"}, {"rest"}, RPCs, {"none"}, {"good"}, {TRUE}),
     shared |-> RequestsOf(Client, {"grpc", "rest"}, RPCs, {"none"}, {"good"}, {TRUE}),
     chain |-> RequestsOf({"u1"}, {"grpc", "rest"}, Chain, {"none"}, {"none", "bad", "good"}, BOOLEAN),
     routes |-> RequestsOf({"u1"}, {"rest"}, AllRPCs, {"none", "other"}, {"good"}, {TRUE})]

ASSUME AllowedRequests == \A m \in Modes : Allowed[m] \subseteq Requests

MCInit == GatewayInit /\ mode \in Modes /\ sent = [c \in Client |-> 0]

\* Bound: how many requests a behaviour is made of; in "limit" time passes instead.
Most == [shared |-> 3, chain |-> 2, routes |-> 1]

Serve(req) ==
    /\ \/ mode = "limit" /\ UNCHANGED sent
       \/ /\ mode # "limit" /\ MapThenSumSet(LAMBDA c : sent[c], Client) < Most[mode]
          /\ sent' = [sent EXCEPT ![req.client] = @ + 1]
    /\ Unary(req) \/ Stream(req)

MCNext ==
    /\ UNCHANGED mode
    /\ \/ \E req \in Allowed[mode] : Serve(req)
       \/ mode = "limit" /\ Tick /\ UNCHANGED sent

MCSpec == MCInit /\ [][MCNext]_<<gatewayVars, mode, sent>>

-----------------------------------------------------------------------------

\* internal/shared/middleware/ratelimit.go says of these limits that "Authenticated
\* endpoints" are "keyed by user ID": a user who is refused has sent more than the
\* limit within the window.
LimitIsPerUser ==
    mode = "shared" /\ last.outcome = "ResourceExhausted" =>
        sent[last.req.client] > LimitOf(last.method)
=============================================================================
