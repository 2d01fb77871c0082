----------------------------- MODULE MCFriends -----------------------------
(***************************************************************************)
(* Friends for TLC.  Every RPC is about one pair of users, so two users     *)
(* show every way in which RPCs about the same pair can meet: any number of *)
(* them one after the other, or two at a time and one failing call.         *)
(***************************************************************************)
EXTENDS Friends, TLC

Symmetric == Permutations(User) \cup Permutations(Worker) \cup Permutations(Channel)
=============================================================================
