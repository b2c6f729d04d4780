---------------------------- MODULE MCChatServer ----------------------------
(***************************************************************************)
(* Instances of ChatServer for TLC.                                        *)
(***************************************************************************)
EXTENDS ChatServer, FiniteSets, TLC

CONSTANTS alice, bob, s1, s2, s3, g1

Symmetry == Permutations(Names) \cup Permutations(Sessions)
SessionSymmetry == Permutations(Sessions)

\* An empty database: only general, which open() inserts.
NoMembers == [r \in Rooms |-> [n \in Names |-> "none"]]
Empty == [rooms |-> {General} \cap Rooms, role |-> NoMembers, requests |-> {}]
EmptyBoot == {Empty}

\* The database after an earlier run in which n created g1.
Founded(n) == [Empty EXCEPT !.rooms = @ \cup {g1}, !.role[g1][n] = "creator"]
GroupBoot == {Founded(alice)}

\* The same with m let in, while m asked a second time (session.rs:207).
Shared(n, m) ==
    [Founded(n) EXCEPT !.role[g1][m] = "member", !.requests = {<<g1, m>>}]

\* Any of these, whoever is the creator.
AnyBoot == {Empty} \cup {Founded(n) : n \in Names}
             \cup {Shared(alice, bob), Shared(bob, alice)}
=============================================================================
