---------------------------- MODULE MeetingDoor ----------------------------
(***************************************************************************)
(* What the LAN meetings promise of who is in them, with no sessions,      *)
(* connections, frames or clients: a room belongs to whoever opened it as  *)
(* long as anybody is inside, its host alone lets others in or turns them  *)
(* away and does so from inside, there is a limit to it, the last one out  *)
(* closes the door on those who wait, and who is gone stays gone.          *)
(***************************************************************************)
EXTENDS Naturals, FiniteSets

CONSTANTS Peers, NoPeer, Capacity

VARIABLES
    room,       \* peer -> the room it has chosen, or NoPeer
    place,      \* peer -> "away", "waiting", "inside" or "gone"
    host        \* room -> who opened it, NoPeer while nobody is inside

At(r, where) == {p \in Peers : room[p] = r /\ place[p] = where}
Inside(r) == At(r, "inside")
Waiting(r) == At(r, "waiting")
HostInside(r) == host[r] \in Inside(r)

Moves(P, where) == place' = [p \in Peers |-> IF p \in P THEN where ELSE place[p]]

DoorInit ==
    /\ room = [p \in Peers |-> NoPeer]
    /\ place = [p \in Peers |-> "away"]
    /\ host = [r \in Peers |-> NoPeer]

\* A room of one's own, or one that its founder has chosen before.
Choose(p, r) ==
    /\ room[p] = NoPeer /\ (r = p \/ room[r] = r)
    /\ room' = [room EXCEPT ![p] = r]
    /\ UNCHANGED <<place, host>>

OnTheWay(p) == place[p] = "away" /\ room[p] # NoPeer

OpenRoom(p) ==
    /\ OnTheWay(p) /\ Inside(room[p]) = {}
    /\ Moves({p}, "inside")
    /\ host' = [host EXCEPT ![room[p]] = p]
    /\ UNCHANGED room

Knock(p) ==
    /\ OnTheWay(p) /\ HostInside(room[p])
    /\ Cardinality(Inside(room[p]) \cup Waiting(room[p])) < Capacity
    /\ Moves({p}, "waiting")
    /\ UNCHANGED <<room, host>>

\* Refused, or the connection is lost on the way.
GiveUp(p) == OnTheWay(p) /\ Moves({p}, "gone") /\ UNCHANGED <<room, host>>

Answer(p) ==
    /\ place[p] = "waiting" /\ HostInside(room[p])
    /\ \E where \in {"inside", "gone"} : Moves({p}, where)
    /\ UNCHANGED <<room, host>>

\* Others stay, whether the host does or not.
Leave(p) ==
    /\ place[p] \in {"inside", "waiting"} /\ Inside(room[p]) \ {p} # {}
    /\ Moves({p}, "gone")
    /\ UNCHANGED <<room, host>>

LeaveLast(p) ==
    /\ place[p] = "inside" /\ Inside(room[p]) = {p}
    /\ Moves({p} \cup Waiting(room[p]), "gone")
    /\ host' = [host EXCEPT ![room[p]] = NoPeer]
    /\ UNCHANGED room

DoorNext ==
    \E p \in Peers :
        \/ \E r \in Peers : Choose(p, r)
        \/ OpenRoom(p) \/ Knock(p) \/ GiveUp(p) \/ Answer(p) \/ Leave(p) \/ LeaveLast(p)

DoorSpec == DoorInit /\ [][DoorNext]_<<room, place, host>>
=============================================================================
