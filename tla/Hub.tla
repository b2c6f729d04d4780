-------------------------------- MODULE Hub --------------------------------
(***************************************************************************)
(* The in-memory router of the chat server (src/src/hub.rs): who is        *)
(* online, which of them are in which room, and the unbounded queue that   *)
(* leads to each session.  Everything here runs under one mutex, so an     *)
(* operator of this module is one critical section.                        *)
(***************************************************************************)
EXTENDS ChatNames, Sequences

CONSTANTS
    Sessions,   \* WebSocket session tasks; a task serves one connection
    NoSession   \* the value of users[n] while n is offline

ASSUME NoSessionIsNoSession == NoSession \notin Sessions

VARIABLES
    users,      \* name -> the session whose outbox is registered under it
    members,    \* room -> its online members (Inner.rooms)
    outbox      \* session -> frames queued for its socket

hubVars == <<users, members, outbox>>

HubInit ==
    /\ users = [n \in Names |-> NoSession]
    /\ members = [r \in Rooms |-> {}]
    /\ outbox = [s \in Sessions |-> <<>>]

Online == {n \in Names : users[n] # NoSession}

\* Faulty variant of Connect: the entry of a session already there is replaced.
ConnectReplaces(n, s) == users' = [users EXCEPT ![n] = s]

\* Hub::connect succeeds only for a name that is not online.
Connect(n, s) ==
    /\ users[n] = NoSession
    /\ users' = [users EXCEPT ![n] = s]

\* Faulty variants of Disconnect: one of the two tables is forgotten.
DisconnectKeepsRooms(n) ==
    /\ users' = [users EXCEPT ![n] = NoSession]
    /\ UNCHANGED members
DisconnectKeepsUser(n) ==
    /\ members' = [r \in Rooms |-> members[r] \ {n}]
    /\ UNCHANGED users

Disconnect(n) ==
    /\ users' = [users EXCEPT ![n] = NoSession]
    /\ members' = [r \in Rooms |-> members[r] \ {n}]

\* Faulty variant of JoinHub: the arguments are swapped.
JoinHubSwapped(r, n) == members' = [members EXCEPT ![r] = @ \cup {r}]

\* An absent room and an empty one look the same to every operation but
\* Hub::rooms, so creating the entry (add_room) is not a step of its own.
JoinHub(r, n) == members' = [members EXCEPT ![r] = @ \cup {n}]

LeaveHub(r, n) == members' = [members EXCEPT ![r] = @ \ {n}]

\* The queues ob after frame f is sent to every name of ns that is online:
\* send_to_user, send_to_users, send_to_room and broadcast differ only in ns.
Posted(ob, ns, f) ==
    [s \in Sessions |->
        IF \E n \in ns : users[n] = s THEN Append(ob[s], f) ELSE ob[s]]

Post(ns, f) == outbox' = Posted(outbox, ns, f)
=============================================================================
