------------------------------- MODULE Groups -------------------------------
(***************************************************************************)
(* What a restricted group promises its members (README.md, "Restricted    *)
(* groups"), with no sessions, statements or failures: who founds a group  *)
(* is its creator, only its admins let others in and promote them, each by *)
(* one step, and nobody is ever thrown out or loses an admin's rights.     *)
(***************************************************************************)
CONSTANTS Rooms, Names

VARIABLE rank       \* room -> name -> "none", "member", "admin" or "creator"

Rank == {"none", "member", "admin", "creator"}

\* Some groups may be there already, with a creator at most.
GroupsInit ==
    /\ rank \in [Rooms -> [Names -> Rank]]
    /\ \A r \in Rooms : \A m, n \in Names :
          rank[r][m] = "creator" /\ rank[r][n] = "creator" => m = n

IsAdmin(r, n) == rank[r][n] \in {"admin", "creator"}

Found(r, n) ==
    /\ \A m \in Names : rank[r][m] = "none"
    /\ rank' = [rank EXCEPT ![r][n] = "creator"]

\* Whether the newcomer has asked is not looked at.
LetIn(r, a, n) ==
    /\ IsAdmin(r, a) /\ rank[r][n] = "none"
    /\ rank' = [rank EXCEPT ![r][n] = "member"]

\* A creator may be promoted too, and is a plain admin from then on.
Promote(r, a, n) ==
    /\ IsAdmin(r, a) /\ rank[r][n] # "none"
    /\ rank' = [rank EXCEPT ![r][n] = "admin"]

GroupsNext ==
    \E r \in Rooms : \E n \in Names :
        \/ Found(r, n)
        \/ \E a \in Names : LetIn(r, a, n) \/ Promote(r, a, n)

GroupsSpec == GroupsInit /\ [][GroupsNext]_rank
=============================================================================
