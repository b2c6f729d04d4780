---------------------------- MODULE MeetingRooms ----------------------------
(***************************************************************************)
(* The rooms of the LAN signaling server                                   *)
(* (src-tauri/src/lan_meeting/rooms.rs).  RoomManager keeps them behind    *)
(* one lock: an operator of this module is one method, one critical        *)
(* section.  A room is named by the peer that created it.                  *)
(***************************************************************************)
EXTENDS LanPeers, Naturals

CONSTANT Capacity   \* how many people a room holds (6 in the code)

ASSUME CapacityIsPositive == Capacity \in Nat \ {0}

VARIABLES
    host,       \* room -> host_peer_id, NoPeer while the room does not exist
    peers,      \* room -> the peers in it
    pending     \* room -> guests waiting for the host's verdict

roomVars == <<host, peers, pending>>

RoomsTypeOK ==
    /\ host \in [Peers -> Peers \cup {NoPeer}]
    /\ peers \in [Peers -> SUBSET Peers]
    /\ pending \in [Peers -> SUBSET Peers]

RoomsInit ==
    /\ host = [r \in Peers |-> NoPeer]
    /\ peers = [r \in Peers |-> {}]
    /\ pending = [r \in Peers |-> {}]

\* Faulty variant of Full: those who wait are not counted.
FullInside(r) == Cardinality(peers[r]) >= Capacity

Full(r) == Cardinality(peers[r]) + Cardinality(pending[r]) >= Capacity

IsHost(r, p) == host[r] = p

\* The three outcomes of join_peer: the first peer is the host and walks in,
\* a later one waits, or there is no place or no host to ask.
Admitted(r, p) ==
    /\ ~Full(r)
    /\ peers[r] = {} \/ IsHost(r, p)
    /\ host' = [host EXCEPT ![r] = p]
    /\ peers' = [peers EXCEPT ![r] = @ \cup {p}]
    /\ UNCHANGED pending

AwaitingApproval(r, p) ==
    /\ ~Full(r)
    /\ peers[r] # {} /\ ~IsHost(r, p)
    /\ host[r] \in peers[r]
    /\ pending' = [pending EXCEPT ![r] = @ \cup {p}]
    /\ UNCHANGED <<host, peers>>

Refused(r, p) ==
    /\ \/ Full(r)
       \/ peers[r] # {} /\ ~IsHost(r, p) /\ host[r] \notin peers[r]
    /\ UNCHANGED roomVars

\* Faulty variant of ApprovePeer: whoever is named gets in, waiting or not.
ApproveAnybody(r, p) ==
    /\ peers' = [peers EXCEPT ![r] = @ \cup {p}]
    /\ pending' = [pending EXCEPT ![r] = @ \ {p}]
    /\ UNCHANGED host

ApprovePeer(r, p) ==
    /\ p \in pending[r]
    /\ peers' = [peers EXCEPT ![r] = @ \cup {p}]
    /\ pending' = [pending EXCEPT ![r] = @ \ {p}]
    /\ UNCHANGED host

\* Faulty variant of RejectPeer: the guest stays at the door.
RejectKeepsPending(r, p) == p \in pending[r] /\ UNCHANGED roomVars

RejectPeer(r, p) ==
    /\ p \in pending[r]
    /\ pending' = [pending EXCEPT ![r] = @ \ {p}]
    /\ UNCHANGED <<host, peers>>

\* Faulty variant of LeavePeer: who waits at the door is forgotten.
LeaveForgetsPending(r, p) ==
    /\ peers' = [peers EXCEPT ![r] = @ \ {p}]
    /\ host' = IF peers'[r] = {} THEN [host EXCEPT ![r] = NoPeer] ELSE host
    /\ UNCHANGED pending

\* Faulty variant of LeavePeer: the door stays when the room goes.
LeaveKeepsDoor(r, p) ==
    /\ peers' = [peers EXCEPT ![r] = @ \ {p}]
    /\ pending' = [pending EXCEPT ![r] = @ \ {p}]
    /\ host' = IF peers'[r] = {} THEN [host EXCEPT ![r] = NoPeer] ELSE host

\* The last one to leave takes the room along, those at its door included.
LeavePeer(r, p) ==
    LET left == peers[r] \ {p}
    IN  /\ peers' = [peers EXCEPT ![r] = left]
        /\ pending' = [pending EXCEPT ![r] = IF left = {} THEN {} ELSE @ \ {p}]
        /\ host' = IF left = {} THEN [host EXCEPT ![r] = NoPeer] ELSE host
=============================================================================
