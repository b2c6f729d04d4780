------------------------------ MODULE Meeting ------------------------------
(***************************************************************************)
(* LAN meetings: the signaling sessions of the server (signaling.rs) over  *)
(* its rooms (MeetingRooms), the desktop clients (commands.rs) and their   *)
(* web views (meeting.ts).  A peer is one meeting of one machine: its      *)
(* commands, its connection, the session at the server's end and the task  *)
(* that handles what the server sends.  Sessions run on several threads    *)
(* and send after the lock of the rooms is released, one recipient after   *)
(* the other: sends holds what a session has still to send.                *)
(*                                                                         *)
(* Offers, answers and candidates, audio and screens are not in this       *)
(* module.  Error frames and JoinPending only open a dialog or a notice.   *)
(***************************************************************************)
EXTENDS MeetingRooms, Sequences

CONSTANTS
    MayCreate,      \* peers that may create a room in this instance
    MaxLeaves,      \* bounds: meetings left by the user,
    MaxLosses       \*   connections that are lost

ASSUME MayCreateArePeers == MayCreate \subseteq Peers

VARIABLES
    \* The server's end of each connection.
    session,        \* peer -> state of its run_server_session
    sends,          \* peer -> what its session has to send, and to whom
    \* Connections.
    link,           \* peer -> its connection works
    queue,          \* peer -> frames for its client
    decisions,      \* peer -> verdicts on their way to the server
    \* Clients.
    client,         \* peer -> how far its meeting has got
    room,           \* peer -> the room it wants to be in
    known,          \* peer -> participants, as the signaling handler sees them
    active,         \* machine -> active_meeting
    advertised,     \* machine -> the room it advertises and the count in it
    \* Web views.
    pendingJoin,    \* machine -> the join that waits for the host
    inMeeting,      \* machine -> the meeting on the screen
    shown,          \* machine -> the participants on the screen
    knocks,         \* machine -> knockQueue; its order is left out
    leaves, losses  \* how many so far

serverVars == <<session, sends>>
linkVars == <<link, queue, decisions>>
clientVars == <<client, room, known, active, advertised>>
viewVars == <<pendingJoin, inMeeting, shown, knocks>>
counters == <<leaves, losses>>
vars == <<roomVars, serverVars, linkVars, clientVars, viewVars, counters>>

PeerFrame == [type: {"peer-left", "join-requested", "join-rejected"},
              peer: Peers]
Frame == PeerFrame \cup [type: {"peer-joined"}, peer: Peers,
                         existing: SUBSET Peers]
Send == [frame: Frame, to: SUBSET Peers]
Decision == [peer: Peers, accept: BOOLEAN]
Advert == [room: Peers \cup {NoPeer}, count: 0..Cardinality(Peers)]
NoAdvert == [room |-> NoPeer, count |-> 0]

TypeOK ==
    /\ RoomsTypeOK
    /\ session \in [Peers -> {"none", "new", "open", "leaving", "ended"}]
    /\ sends \in [Peers -> Seq(Send)]
    /\ link \in [Peers -> BOOLEAN]
    /\ queue \in [Peers -> Seq(Frame)]
    /\ decisions \in [Peers -> Seq(Decision)]
    /\ client \in [Peers -> {"idle", "starting", "in", "left"}]
    /\ room \in [Peers -> Peers \cup {NoPeer}]
    /\ known \in [Peers -> SUBSET Peers]
    /\ active \in [Machines -> Peers \cup {NoPeer}]
    /\ advertised \in [Machines -> Advert]
    /\ pendingJoin \in [Machines -> Peers \cup {NoPeer}]
    /\ inMeeting \in [Machines -> Peers \cup {NoPeer}]
    /\ shown \in [Machines -> SUBSET Peers]
    /\ knocks \in [Machines -> SUBSET Peers]
    /\ leaves \in Nat /\ losses \in Nat

Init ==
    /\ RoomsInit
    /\ session = [p \in Peers |-> "none"]
    /\ sends = [p \in Peers |-> <<>>]
    /\ link = [p \in Peers |-> TRUE]
    /\ queue = [p \in Peers |-> <<>>]
    /\ decisions = [p \in Peers |-> <<>>]
    /\ client = [p \in Peers |-> "idle"]
    /\ room = [p \in Peers |-> NoPeer]
    /\ known = [p \in Peers |-> {}]
    /\ active = [m \in Machines |-> NoPeer]
    /\ advertised = [m \in Machines |-> NoAdvert]
    /\ pendingJoin = [m \in Machines |-> NoPeer]
    /\ inMeeting = [m \in Machines |-> NoPeer]
    /\ shown = [m \in Machines |-> {}]
    /\ knocks = [m \in Machines |-> {}]
    /\ leaves = 0 /\ losses = 0
-----------------------------------------------------------------------------
\* The server: one session per connection.  While it has something to send
\* the session is inside a handler and takes no other message.

Joined(p, existing) ==
    [type |-> "peer-joined", peer |-> p, existing |-> existing]
About(type, p) == [type |-> type, peer |-> p]

\* One frame for each of several peers.
Batch(frame, to) == IF to = {} THEN <<>> ELSE <<[frame |-> frame, to |-> to]>>

\* Faulty variant of Welcome: those who are there are not told.
WelcomeOnly(p, existing) == Batch(Joined(p, existing), {p})

\* A new peer gets the list of who is there, then each of them gets a notice.
Welcome(p, existing) ==
    Batch(Joined(p, existing), {p}) \o Batch(Joined(p, {}), existing)

\* joined_peer is set before the room is asked, so that whatever the outcome
\* the cleanup will leave the room.
JoinRoom(p) ==
    /\ session[p] = "new"
    /\ \/ /\ Admitted(room[p], p)
          /\ session' = [session EXCEPT ![p] = "open"]
          /\ sends' = [sends EXCEPT ![p] = Welcome(p, peers[room[p]])]
       \/ /\ AwaitingApproval(room[p], p)
          /\ session' = [session EXCEPT ![p] = "open"]
          /\ sends' = [sends EXCEPT ![p] =
                         Batch(About("join-requested", p), {host[room[p]]})]
       \/ \* The Error is queued and the loop left in one go: nobody writes it.
          /\ Refused(room[p], p)
          /\ session' = [session EXCEPT ![p] = "leaving"]
          /\ UNCHANGED sends
    /\ UNCHANGED <<linkVars, clientVars, viewVars, counters>>

\* Send one frame to one recipient; a session that has left its loop no longer
\* reads its channel.
SendNext(p) ==
    /\ sends[p] # <<>>
    /\ LET next == Head(sends[p]) IN
         \E q \in next.to :
           /\ sends' = [sends EXCEPT ![p] =
                          Batch(next.frame, next.to \ {q}) \o Tail(@)]
           /\ queue' = IF session[q] = "open" /\ link[q]
                       THEN [queue EXCEPT ![q] = Append(@, next.frame)]
                       ELSE queue
    /\ UNCHANGED <<roomVars, session, link, decisions, clientVars, viewVars, counters>>

\* The host's session takes one verdict.  Only this session can take its peer
\* out of the room, so is_host still holds when approve_peer takes the lock.
JoinDecision(p) ==
    /\ session[p] = "open" /\ sends[p] = <<>> /\ link[p]
    /\ decisions[p] # <<>>
    /\ decisions' = [decisions EXCEPT ![p] = Tail(@)]
    /\ LET r == room[p]
           guest == Head(decisions[p]).peer
       IN \/ /\ IsHost(r, p) /\ Head(decisions[p]).accept
             /\ ApprovePeer(r, guest)
             /\ sends' = [sends EXCEPT ![p] = Welcome(guest, peers[r])]
          \/ /\ IsHost(r, p) /\ ~Head(decisions[p]).accept
             /\ RejectPeer(r, guest)
             /\ sends' = [sends EXCEPT ![p] =
                            Batch(About("join-rejected", guest), {guest})]
          \/ /\ ~IsHost(r, p) \/ guest \notin pending[r]
             /\ UNCHANGED <<roomVars, sends>>
    /\ UNCHANGED <<session, link, queue, clientVars, viewVars, counters>>

\* leave_peer, and the notice to those who are still in the room.
Depart(p) ==
    /\ LeavePeer(room[p], p)
    /\ sends' = [sends EXCEPT ![p] =
                    Batch(About("peer-left", p), peers'[room[p]])]

\* The loop ends; the client still gets what had been written to its socket.
EndLoop(p) ==
    /\ session' = [session EXCEPT ![p] = "leaving"]
    /\ \E n \in 0..Len(queue[p]) :
         queue' = [queue EXCEPT ![p] = SubSeq(@, 1, n)]

\* Faulty variant of LeaveRoom: the loop goes on.
LeaveRoomStays(p) ==
    /\ session[p] = "open" /\ sends[p] = <<>> /\ link[p]
    /\ client[p] = "left" /\ decisions[p] = <<>>
    /\ Depart(p)
    /\ UNCHANGED <<session, linkVars, clientVars, viewVars, counters>>

LeaveRoom(p) ==
    /\ session[p] = "open" /\ sends[p] = <<>> /\ link[p]
    /\ client[p] = "left" /\ decisions[p] = <<>>
    /\ Depart(p)
    /\ EndLoop(p)
    /\ UNCHANGED <<link, decisions, clientVars, viewVars, counters>>

\* A lost connection ends the loop by an error or by the heartbeat.
Timeout(p) ==
    /\ session[p] \in {"new", "open"} /\ sends[p] = <<>> /\ ~link[p]
    /\ session' = [session EXCEPT ![p] =
                     IF @ = "new" THEN "ended" ELSE "leaving"]
    /\ UNCHANGED <<roomVars, sends, linkVars, clientVars, viewVars, counters>>

Cleanup(p) ==
    /\ session[p] = "leaving" /\ sends[p] = <<>>
    /\ Depart(p)
    /\ session' = [session EXCEPT ![p] = "ended"]
    /\ UNCHANGED <<linkVars, clientVars, viewVars, counters>>
-----------------------------------------------------------------------------
\* The client's commands.

\* do_leave_meeting; "meeting://left" makes the view forget its meeting.  The
\* handler of the meeting goes on with the frames that still arrive.
DoLeave(m, newAdvert) ==
    /\ advertised' = [advertised EXCEPT ![m] = newAdvert]
    /\ active' = [active EXCEPT ![m] = NoPeer]
    /\ IF active[m] = NoPeer
         THEN UNCHANGED viewVars
         ELSE /\ pendingJoin' = [pendingJoin EXCEPT ![m] = NoPeer]
              /\ inMeeting' = [inMeeting EXCEPT ![m] = NoPeer]
              /\ shown' = [shown EXCEPT ![m] = {}]
              /\ knocks' = [knocks EXCEPT ![m] = {}]

\* Both commands leave the active meeting and then await a connection.
Command(p, r, newAdvert) ==
    /\ client[p] = "idle"
    /\ DoLeave(MachineOf[p], newAdvert)
    /\ client' = [q \in Peers |-> CASE q = p -> "starting"
                                    [] q = active[MachineOf[p]] -> "left"
                                    [] OTHER -> client[q]]
    /\ room' = [room EXCEPT ![p] = r]
    /\ known' = [known EXCEPT ![p] = {p}]
    /\ UNCHANGED <<roomVars, serverVars, linkVars, counters>>

\* The room is advertised before its host has joined it.
CreateMeeting(p) == Command(p, p, [room |-> p, count |-> 1])

\* A guest learns of a room by discovery or is told its code; by now the room
\* may be gone.
JoinMeeting(p, r) ==
    /\ client[r] # "idle" /\ room[r] = r
    /\ Command(p, r, NoAdvert)

\* The connection is there: join-room is sent and the command returns.
\* active_meeting is overwritten, whatever it holds.
Connected(p) ==
    LET m == MachineOf[p] IN
    /\ client[p] = "starting"
    /\ client' = [client EXCEPT ![p] = "in"]
    /\ session' = [session EXCEPT ![p] = "new"]
    /\ active' = [active EXCEPT ![m] = p]
    /\ IF room[p] = p
         THEN /\ inMeeting' = [inMeeting EXCEPT ![m] = p]
              /\ shown' = [shown EXCEPT ![m] = {p}]
              /\ UNCHANGED pendingJoin
         ELSE /\ pendingJoin' = [pendingJoin EXCEPT ![m] = p]
              /\ UNCHANGED <<inMeeting, shown>>
    /\ UNCHANGED <<roomVars, sends, linkVars, room, known, advertised, knocks, counters>>

LeaveMeeting(m) ==
    /\ active[m] # NoPeer
    /\ leaves < MaxLeaves
    /\ leaves' = leaves + 1
    /\ DoLeave(m, NoAdvert)
    /\ client' = [client EXCEPT ![active[m]] = "left"]
    /\ UNCHANGED <<roomVars, serverVars, linkVars, room, known, losses>>

\* answerKnock: the verdict goes through whatever meeting is active, and
\* nowhere if this machine does not think it is the host.
AnswerKnock(m) ==
    \E guest \in knocks[m], accept \in BOOLEAN :
      /\ knocks' = [knocks EXCEPT ![m] = @ \ {guest}]
      /\ LET p == active[m] IN
           IF p # NoPeer /\ room[p] = p
             THEN decisions' = [decisions EXCEPT ![p] =
                     Append(@, [peer |-> guest, accept |-> accept])]
             ELSE UNCHANGED decisions
      /\ UNCHANGED <<roomVars, serverVars, link, queue, clientVars,
                     pendingJoin, inMeeting, shown, counters>>

LoseConnection(p) ==
    /\ losses < MaxLosses
    /\ session[p] \in {"new", "open"} /\ link[p]
    /\ link' = [link EXCEPT ![p] = FALSE]
    /\ queue' = [queue EXCEPT ![p] = <<>>]
    /\ losses' = losses + 1
    /\ UNCHANGED <<roomVars, serverVars, decisions, clientVars, viewVars, leaves>>
-----------------------------------------------------------------------------
\* spawn_signaling_handler: one task per meeting, which outlives it.  It
\* writes into the advertisement of the machine, whichever room that is.

Participants(p, f) ==
    CASE f.type = "peer-joined" /\ f.existing # {} -> known[p] \cup f.existing
      [] f.type = "peer-joined" /\ f.existing = {} -> known[p] \cup {f.peer}
      [] f.type = "peer-left" -> known[p] \ {f.peer}
      [] OTHER -> known[p]

\* Faulty variant of SyncAdvertisedCount: the host is counted once more.
SyncWithHost(m, count) ==
    advertised' = IF advertised[m].room = NoPeer THEN advertised
                  ELSE [advertised EXCEPT ![m].count = count + 1]

SyncAdvertisedCount(m, count) ==
    advertised' = IF advertised[m].room = NoPeer THEN advertised
                  ELSE [advertised EXCEPT ![m].count = count]

\* participants-update, and on the first welcome with others in the room
\* join-accepted: the view enters the meeting with the list the join command
\* returned, which holds only its own peer.
UpdateParticipants(p, f) ==
    LET m == MachineOf[p]
        entering == f.type = "peer-joined" /\ f.existing # {}
                      /\ pendingJoin[m] # NoPeer
    IN  /\ known' = [known EXCEPT ![p] = Participants(p, f)]
        /\ SyncAdvertisedCount(m, Cardinality(Participants(p, f)))
        /\ IF entering
             THEN /\ inMeeting' = [inMeeting EXCEPT ![m] = pendingJoin[m]]
                  /\ pendingJoin' = [pendingJoin EXCEPT ![m] = NoPeer]
                  /\ shown' = [shown EXCEPT ![m] = {pendingJoin[m]}]
             ELSE /\ shown' = [shown EXCEPT ![m] = Participants(p, f)]
                  /\ UNCHANGED <<inMeeting, pendingJoin>>
        /\ UNCHANGED knocks

HandleFrame(p) ==
    /\ queue[p] # <<>>
    /\ queue' = [queue EXCEPT ![p] = Tail(@)]
    /\ LET f == Head(queue[p])
           m == MachineOf[p]
       IN \/ /\ f.type \in {"peer-joined", "peer-left"}
             /\ UpdateParticipants(p, f)
          \/ /\ f.type = "join-requested"
             /\ knocks' = [knocks EXCEPT ![m] = @ \cup {f.peer}]
             /\ UNCHANGED <<known, advertised, pendingJoin, inMeeting, shown>>
          \/ \* The view then leaves, by LeaveMeeting.
             /\ f.type = "join-rejected"
             /\ pendingJoin' = [pendingJoin EXCEPT ![m] = NoPeer]
             /\ UNCHANGED <<known, advertised, inMeeting, shown, knocks>>
    /\ UNCHANGED <<roomVars, serverVars, link, decisions, client, room, active, counters>>
-----------------------------------------------------------------------------
Session(p) ==
    JoinRoom(p) \/ SendNext(p) \/ JoinDecision(p) \/ LeaveRoom(p)
      \/ Timeout(p) \/ Cleanup(p)

User(p) ==
    \/ p \in MayCreate /\ CreateMeeting(p)
    \/ \E r \in Peers : JoinMeeting(p, r)

Next ==
    \/ \E p \in Peers : \/ Session(p) \/ User(p) \/ Connected(p)
                        \/ HandleFrame(p) \/ LoseConnection(p)
    \/ \E m \in Machines : LeaveMeeting(m) \/ AnswerKnock(m)

Spec == Init /\ [][Next]_vars

\* The tasks of sessions and handlers run as long as they have something to
\* do, the heartbeat's ticks included, and a connection attempt comes to an
\* end.  What users do, and whether connections are lost, is up to them.
Fairness ==
    \A p \in Peers : /\ WF_vars(Session(p))
                     /\ WF_vars(HandleFrame(p))
                     /\ WF_vars(Connected(p))

FairSpec == Spec /\ Fairness
-----------------------------------------------------------------------------
\* Properties.

InRoom(p) == \E r \in Peers : p \in peers[r] \cup pending[r]

\* Nobody is in a room, or at its door, whose session has ended or never asked
\* for that room: the cleanup of a session takes its peer out even if the host
\* admits it meanwhile (signaling.rs:201, rooms.rs:140, 215).
RoomsFollowSessions ==
    \A r, p \in Peers : p \in peers[r] \cup pending[r] =>
        room[p] = r /\ session[p] \in {"open", "leaving"}

\* "Room is full (maximum 6 participants)" (rooms.rs:88): a room and its door
\* never hold more, though guests are counted at the door and admitted later.
RoomWithinCapacity ==
    \A r \in Peers : /\ Cardinality(peers[r] \cup pending[r]) <= Capacity
                     /\ peers[r] \cap pending[r] = {}

\* A guest waits only where somebody is inside: the door goes with the room.
NobodyWaitsAtAnEmptyRoom ==
    \A r \in Peers : pending[r] # {} => peers[r] # {}

Queued(p) == {queue[p][i] : i \in DOMAIN queue[p]}
SentTo(p) ==
    UNION {{sends[q][i].frame : i \in {j \in DOMAIN sends[q] : p \in sends[q][j].to}}
             : q \in Peers}
Coming(p) == Queued(p) \cup SentTo(p)

Introduces(f, p) ==
    f.type = "peer-joined" /\ p \in f.existing \cup {f.peer}

\* Whoever is in a room with somebody knows of them or is about to be told,
\* whichever way the joins, departures and sends of the sessions interleave:
\* the welcome and the notices together miss nobody (rooms.rs:155, 160).
NobodyIsMissing ==
    \A r \in Peers : \A p, q \in peers[r] :
        session[p] = "open" /\ link[p] =>
            q \in known[p] \/ \E f \in Coming(p) : Introduces(f, q)

\* Who was turned away is in no room and waits at none.
RejectedStayOut ==
    \A p \in Peers : (\E f \in Coming(p) : f.type = "join-rejected") => ~InRoom(p)

\* A guest gets in because the host of the room, who is in it, said so, or by
\* opening the room (rooms.rs:91, 140, signaling.rs:107).
AdmittedByHost ==
    [][\A r, p \in Peers :
          p \notin peers[r] /\ p \in peers'[r] =>
             \/ peers[r] = {} /\ host'[r] = p
             \/ /\ p \in pending[r]
                /\ \E h \in peers[r] : /\ IsHost(r, h)
                                       /\ decisions[h] # <<>>
                                       /\ Head(decisions[h]) = [peer |-> p, accept |-> TRUE]]_vars

\* Where a peer is, as the rooms and its session have it: a session asks for a
\* room once.
Place(p) ==
    LET r == room[p] IN
      CASE r # NoPeer /\ p \in peers[r]   -> "inside"
        [] r # NoPeer /\ p \in pending[r] -> "waiting"
        [] ~InRoom(p) /\ session[p] \in {"none", "new"} -> "away"
        [] OTHER -> "gone"

\* Rooms, sessions and clients together keep what MeetingDoor promises: a host
\* stays the host while anybody is inside, only the host's word from inside
\* lets in, and neither a departure that is announced twice, nor a verdict that
\* comes late, nor a lost connection brings anybody back (rooms.rs:82, 140,
\* 215; signaling.rs:201).
Door == INSTANCE MeetingDoor WITH place <- [p \in Peers |-> Place(p)]
RoomsAreKept == Door!DoorSpec

\* Nothing is being sent, handled or answered.
Quiet ==
    /\ \A p \in Peers :
         /\ session[p] \in {"none", "open", "ended"}
         /\ sends[p] = <<>> /\ queue[p] = <<>> /\ decisions[p] = <<>>
         /\ session[p] = "open" => link[p] /\ client[p] # "left"
         /\ client[p] # "starting"

\* A session whose client has left, or is gone, ends, and so (by
\* RoomsFollowSessions) its peer is taken out of its room (signaling.rs:151,
\* 180, 201).
LeaversAreReleased ==
    \A p \in Peers :
        (client[p] = "left" \/ ~link[p]) ~> session[p] = "ended"

\* Whoever is in a room gets to know everybody who is, unless its connection
\* ends first (rooms.rs:155, 160; signaling.rs:113).
EveryoneIsIntroduced ==
    \A p \in Peers :
        (\E r \in Peers : p \in peers[r])
          ~> \/ \A r \in Peers : p \in peers[r] => peers[r] \subseteq known[p]
             \/ session[p] # "open" \/ ~link[p]

\* "Keeps the advertised participant count in step with the real room"
\* (commands.rs:461).
AdvertisedCountInStep ==
    Quiet => \A m \in Machines : LET r == advertised[m].room IN
        r # NoPeer /\ active[m] = r /\ r \in peers[r] =>
            advertised[m].count = Cardinality(peers[r])
=============================================================================
