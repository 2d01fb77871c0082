------------------------------- MODULE MCAuth -------------------------------
(***************************************************************************)
(* Auth for TLC: two emails while RPCs do not overlap and no call fails,    *)
(* and one email, two RPCs at a time and one failing call.                  *)
(***************************************************************************)
EXTENDS Auth, TLC

Involved ==
    {e \in Email : account[e] # "none"} \cup ({rpc[w].email : w \in Worker} \cap Email)

MCNext == Next /\ (serial' \/ Cardinality(Involved') <= 1)

MCSpec == Init /\ [][MCNext]_vars

Symmetric == Permutations(Email) \cup Permutations(Worker) \cup Permutations(Handle)
                \cup Permutations(Code) \cup Permutations(Token)
=============================================================================
