------------------------------- MODULE Quota -------------------------------
(***************************************************************************)
(* What the rate limiter of internal/shared/middleware/ratelimit.go promises *)
(* for each key on its own: in no stretch of Window ticks does it let more    *)
(* than Limit requests through, those aside that it lets through because      *)
(* Redis failed; and it refuses no request after a whole window of silence.   *)
(***************************************************************************)
EXTENDS Naturals, FiniteSets

CONSTANTS
    Key,
    Limit(_),       \* rateLimit.limit of a key
    Window          \* rateLimit.window, in ticks

VARIABLES
    admitted,       \* requests let through, by key and age in ticks
    arrived,        \* requests received, by key and age in ticks
    faults          \* requests on which Redis failed, by key

quota == <<admitted, arrived, faults>>

Age == 0 .. Window - 1

\* The sum of n[a] over all ages: one pair for each request.
InWindow(n) == Cardinality(UNION {{a} \X (1 .. n[a]) : a \in Age})

More(n, k) == [n EXCEPT ![k][0] = @ + 1]

Older(n) == [k \in Key |-> [a \in Age |-> IF a = 0 THEN 0 ELSE n[k][a - 1]]]

Init ==
    /\ admitted = [k \in Key |-> [a \in Age |-> 0]]
    /\ arrived = [k \in Key |-> [a \in Age |-> 0]]
    /\ faults = [k \in Key |-> 0]

Admit(k) ==
    /\ InWindow(admitted[k]) < Limit(k) + faults[k]
    /\ arrived' = More(arrived, k) /\ admitted' = More(admitted, k)
    /\ UNCHANGED faults

\* Counts that Redis kept without a TTL can hold a refusal over a silence.
Refuse(k) ==
    /\ InWindow(arrived[k]) > 0 \/ faults[k] >= Limit(k)
    /\ arrived' = More(arrived, k)
    /\ UNCHANGED <<admitted, faults>>

FailOpen(k) ==
    /\ arrived' = More(arrived, k) /\ admitted' = More(admitted, k)
    /\ faults' = [faults EXCEPT ![k] = @ + 1]

Tick == arrived' = Older(arrived) /\ admitted' = Older(admitted) /\ UNCHANGED faults

Next == Tick \/ \E k \in Key : Admit(k) \/ Refuse(k) \/ FailOpen(k)

Spec == Init /\ [][Next]_quota
=============================================================================
