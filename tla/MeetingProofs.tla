--------------------------- MODULE MeetingProofs ---------------------------
(***************************************************************************)
(* Proofs about Meeting, for any finite set of peers, any assignment of    *)
(* them to machines, any capacity and any number of departures and losses. *)
(***************************************************************************)
EXTENDS Meeting, FiniteSetTheorems, SequenceTheorems, TLAPS

-----------------------------------------------------------------------------
\* The inductive invariant.

\* A meeting has a room from its command on, and no session before it is
\* connected.
Located ==
    \A p \in Peers :
        /\ session[p] # "none" => room[p] \in Peers
        /\ client[p] = "starting" => room[p] \in Peers
        /\ client[p] \in {"idle", "starting"} => session[p] = "none"

\* The host of a room asked for that room and is in it while its session runs.
HostsAreInside ==
    \A r \in Peers : host[r] # NoPeer =>
        /\ room[host[r]] = r
        /\ session[host[r]] \in {"open", "leaving", "ended"}
        /\ session[host[r]] = "open" => host[r] \in peers[r]

Places == RoomsFollowSessions /\ HostsAreInside /\ NobodyWaitsAtAnEmptyRoom

IndInv == TypeOK /\ Located /\ Places /\ RoomWithinCapacity

\* What the invariant of the rooms depends on.
placeVars == <<roomVars, session, room>>
-----------------------------------------------------------------------------
\* Types.

LEMMA BatchType ==
    ASSUME NEW f \in Frame, NEW to \in SUBSET Peers
    PROVE  Batch(f, to) \in Seq(Send)
<1>1. [frame |-> f, to |-> to] \in Send
  BY DEF Send
<1> QED
  BY <1>1 DEF Batch

LEMMA WelcomeType ==
    ASSUME NEW p \in Peers, NEW existing \in SUBSET Peers
    PROVE  Welcome(p, existing) \in Seq(Send)
<1>1. Joined(p, existing) \in Frame /\ Joined(p, {}) \in Frame
  BY DEF Joined, Frame
<1>2. Batch(Joined(p, existing), {p}) \in Seq(Send) /\ Batch(Joined(p, {}), existing) \in Seq(Send)
  BY <1>1, BatchType
<1> QED
  BY <1>2 DEF Welcome

LEMMA AboutType ==
    ASSUME NEW type \in {"peer-left", "join-requested", "join-rejected"}, NEW p \in Peers
    PROVE  About(type, p) \in Frame
  BY DEF About, Frame, PeerFrame

LEMMA CountType ==
    ASSUME NEW S \in SUBSET Peers
    PROVE  Cardinality(S) \in 0..Cardinality(Peers)
<1>1. IsFiniteSet(S) /\ Cardinality(S) <= Cardinality(Peers)
  BY PeersAreFinite, FS_Subset
<1>2. Cardinality(S) \in Nat /\ Cardinality(Peers) \in Nat
  BY <1>1, PeersAreFinite, FS_CardinalityType
<1> QED
  BY <1>1, <1>2

LEMMA NewAdvertType ==
    ASSUME NEW p \in Peers
    PROVE  [room |-> p, count |-> 1] \in Advert /\ NoAdvert \in Advert
<1>1. Cardinality({p}) = 1
  BY FS_Singleton
<1>2. 1 \in 0..Cardinality(Peers)
  BY <1>1, CountType
<1>3. Cardinality(Peers) \in Nat
  BY PeersAreFinite, FS_CardinalityType
<1> QED
  BY <1>2, <1>3 DEF Advert, NoAdvert

LEMMA InitType == Init => TypeOK
<1>1. NoAdvert \in Advert
  <2>1. Cardinality(Peers) \in Nat
    BY PeersAreFinite, FS_CardinalityType
  <2> QED
    BY <2>1 DEF Advert, NoAdvert
<1> QED
  BY <1>1 DEF Init, TypeOK, RoomsInit, RoomsTypeOK

LEMMA RoomOperationsType ==
    ASSUME RoomsTypeOK, NEW r \in Peers, NEW p \in Peers,
           \/ Admitted(r, p) \/ AwaitingApproval(r, p) \/ Refused(r, p)
           \/ ApprovePeer(r, p) \/ RejectPeer(r, p) \/ LeavePeer(r, p)
    PROVE  RoomsTypeOK'
  BY DEF RoomsTypeOK, Admitted, AwaitingApproval, Refused, ApprovePeer,
         RejectPeer, LeavePeer, roomVars

LEMMA SessionType ==
    ASSUME TypeOK, Located, NEW p \in Peers, Session(p)
    PROVE  TypeOK'
<1>1. CASE JoinRoom(p)
  <2>1. room[p] \in Peers
    BY <1>1 DEF JoinRoom, Located
  <2>2. RoomsTypeOK'
    BY <1>1, <2>1, RoomOperationsType DEF JoinRoom, TypeOK
  <2>3. Welcome(p, peers[room[p]]) \in Seq(Send)
    BY <2>1, WelcomeType DEF TypeOK, RoomsTypeOK
  <2>4. AwaitingApproval(room[p], p) =>
          Batch(About("join-requested", p), {host[room[p]]}) \in Seq(Send)
    <3>1. About("join-requested", p) \in Frame
      BY AboutType
    <3>2. AwaitingApproval(room[p], p) => {host[room[p]]} \in SUBSET Peers
      BY <2>1 DEF AwaitingApproval, TypeOK, RoomsTypeOK
    <3> QED
      BY <3>1, <3>2, BatchType
  <2>5. sends' \in [Peers -> Seq(Send)]
    BY <1>1, <2>3, <2>4 DEF JoinRoom, TypeOK
  <2> QED
    BY <1>1, <2>2, <2>5, ZenonT(60) DEF JoinRoom, TypeOK, linkVars, clientVars, viewVars, counters
<1>2. CASE SendNext(p)
  <2>1. PICK q \in Head(sends[p]).to :
          /\ sends' = [sends EXCEPT ![p] =
               Batch(Head(sends[p]).frame, Head(sends[p]).to \ {q}) \o Tail(@)]
          /\ queue' = IF session[q] = "open" /\ link[q]
                      THEN [queue EXCEPT ![q] = Append(@, Head(sends[p]).frame)]
                      ELSE queue
    BY <1>2 DEF SendNext
  <2>2. Head(sends[p]) \in Send /\ Tail(sends[p]) \in Seq(Send)
    BY <1>2 DEF SendNext, TypeOK
  <2>3. Head(sends[p]).frame \in Frame /\ Head(sends[p]).to \in SUBSET Peers
    BY <2>2 DEF Send
  <2>4. Batch(Head(sends[p]).frame, Head(sends[p]).to \ {q}) \in Seq(Send)
    BY <2>3, BatchType
  <2>5. sends' \in [Peers -> Seq(Send)]
    BY <2>1, <2>2, <2>4 DEF TypeOK
  <2>6. queue' \in [Peers -> Seq(Frame)]
    BY <2>1, <2>3 DEF TypeOK
  <2> QED
    BY <1>2, <2>5, <2>6 DEF SendNext, TypeOK, roomVars, RoomsTypeOK, clientVars, viewVars, counters
<1>3. CASE JoinDecision(p)
  <2> DEFINE guest == Head(decisions[p]).peer
  <2>1. room[p] \in Peers
    BY <1>3 DEF JoinDecision, Located
  <2>2. Head(decisions[p]) \in Decision /\ Tail(decisions[p]) \in Seq(Decision)
    BY <1>3 DEF JoinDecision, TypeOK
  <2>3. guest \in Peers
    BY <2>2 DEF Decision
  <2>4. RoomsTypeOK'
    <3>1. \/ ApprovePeer(room[p], guest) \/ RejectPeer(room[p], guest) \/ UNCHANGED roomVars
      BY <1>3 DEF JoinDecision
    <3>2. CASE UNCHANGED roomVars
      BY <3>2 DEF roomVars, RoomsTypeOK, TypeOK
    <3>3. CASE ApprovePeer(room[p], guest) \/ RejectPeer(room[p], guest)
      BY <3>3, <2>1, <2>3, RoomOperationsType DEF TypeOK
    <3> QED
      BY <3>1, <3>2, <3>3
  <2>5. Welcome(guest, peers[room[p]]) \in Seq(Send)
    BY <2>1, <2>3, WelcomeType DEF TypeOK, RoomsTypeOK
  <2>6. Batch(About("join-rejected", guest), {guest}) \in Seq(Send)
    BY <2>3, AboutType, BatchType
  <2>7. sends' \in [Peers -> Seq(Send)]
    BY <1>3, <2>5, <2>6 DEF JoinDecision, TypeOK
  <2>8. decisions' \in [Peers -> Seq(Decision)]
    BY <1>3, <2>2 DEF JoinDecision, TypeOK
  <2> QED
    BY <1>3, <2>4, <2>7, <2>8 DEF JoinDecision, TypeOK, clientVars, viewVars, counters
<1>4. CASE LeaveRoom(p) \/ Cleanup(p)
  <2>1. room[p] \in Peers /\ Depart(p)
    BY <1>4 DEF LeaveRoom, Cleanup, Located
  <2>2. RoomsTypeOK'
    BY <2>1, RoomOperationsType DEF Depart, TypeOK
  <2>3. Batch(About("peer-left", p), peers'[room[p]]) \in Seq(Send)
    <3>1. About("peer-left", p) \in Frame
      BY AboutType
    <3>2. peers'[room[p]] \in SUBSET Peers
      BY <2>1, <2>2 DEF RoomsTypeOK
    <3> QED
      BY <3>1, <3>2, BatchType
  <2>4. sends' \in [Peers -> Seq(Send)]
    BY <2>1, <2>3 DEF Depart, TypeOK
  <2>5. queue' \in [Peers -> Seq(Frame)]
    <3>1. CASE LeaveRoom(p)
      <4>1. PICK n \in 0..Len(queue[p]) : queue' = [queue EXCEPT ![p] = SubSeq(@, 1, n)]
        BY <3>1 DEF LeaveRoom, EndLoop
      <4>2. queue[p] \in Seq(Frame)
        BY DEF TypeOK
      <4>3. SubSeq(queue[p], 1, n) \in Seq(Frame)
        BY <4>2
      <4> QED
        BY <4>1, <4>3 DEF TypeOK
    <3>2. CASE Cleanup(p)
      BY <3>2 DEF Cleanup, linkVars, TypeOK
    <3> QED
      BY <1>4, <3>1, <3>2
  <2> QED
    BY <1>4, <2>2, <2>4, <2>5 DEF LeaveRoom, Cleanup, EndLoop, TypeOK, linkVars,
       clientVars, viewVars, counters
<1>5. CASE Timeout(p)
  BY <1>5 DEF Timeout, TypeOK, roomVars, RoomsTypeOK, linkVars, clientVars, viewVars, counters
<1> QED
  BY <1>1, <1>2, <1>3, <1>4, <1>5 DEF Session

LEMMA DoLeaveType ==
    ASSUME TypeOK, NEW m \in Machines, NEW a \in Advert, DoLeave(m, a)
    PROVE  /\ active' \in [Machines -> Peers \cup {NoPeer}]
           /\ advertised' \in [Machines -> Advert]
           /\ pendingJoin' \in [Machines -> Peers \cup {NoPeer}]
           /\ inMeeting' \in [Machines -> Peers \cup {NoPeer}]
           /\ shown' \in [Machines -> SUBSET Peers]
           /\ knocks' \in [Machines -> SUBSET Peers]
  BY DEF DoLeave, TypeOK, viewVars

LEMMA CommandType ==
    ASSUME TypeOK, NEW p \in Peers, NEW r \in Peers, NEW a \in Advert, Command(p, r, a)
    PROVE  TypeOK'
<1>1. MachineOf[p] \in Machines
  BY MachineOfIsFunction
<1>2. DoLeave(MachineOf[p], a)
  BY DEF Command
<1> QED
  BY <1>1, <1>2, DoLeaveType DEF Command, TypeOK, roomVars, RoomsTypeOK, serverVars, linkVars, counters

LEMMA ParticipantsType ==
    ASSUME TypeOK, NEW p \in Peers, NEW f \in Frame
    PROVE  Participants(p, f) \in SUBSET Peers
  BY DEF TypeOK, Participants, Frame, PeerFrame

LEMMA HandleFrameType ==
    ASSUME TypeOK, NEW p \in Peers, HandleFrame(p)
    PROVE  TypeOK'
<1> DEFINE f == Head(queue[p])
           m == MachineOf[p]
<1>1. f \in Frame /\ Tail(queue[p]) \in Seq(Frame)
  BY DEF HandleFrame, TypeOK
<1>2. queue' \in [Peers -> Seq(Frame)]
  BY <1>1 DEF HandleFrame, TypeOK
<1>3. m \in Machines
  BY MachineOfIsFunction
<1>4. /\ known' \in [Peers -> SUBSET Peers]
      /\ advertised' \in [Machines -> Advert]
      /\ pendingJoin' \in [Machines -> Peers \cup {NoPeer}]
      /\ inMeeting' \in [Machines -> Peers \cup {NoPeer}]
      /\ shown' \in [Machines -> SUBSET Peers]
      /\ knocks' \in [Machines -> SUBSET Peers]
  <2>1. CASE UpdateParticipants(p, f)
    <3>1. Participants(p, f) \in SUBSET Peers
      BY <1>1, ParticipantsType
    <3>2. Cardinality(Participants(p, f)) \in 0..Cardinality(Peers)
      BY <3>1, CountType
    <3>3. advertised' \in [Machines -> Advert]
      <4> DEFINE n == Cardinality(Participants(p, f))
      <4>1. SyncAdvertisedCount(m, n)
        BY <2>1 DEF UpdateParticipants
      <4>2. advertised[m] \in Advert
        BY <1>3 DEF TypeOK
      <4>3. n \in 0..Cardinality(Peers)
        BY <3>2
      <4> HIDE DEF n
      <4>4. [advertised[m] EXCEPT !.count = n] \in Advert
        BY <4>2, <4>3 DEF Advert
      <4>5. advertised' = advertised
              \/ advertised' = [advertised EXCEPT ![m] = [advertised[m] EXCEPT !.count = n]]
        BY <4>1 DEF SyncAdvertisedCount
      <4> QED
        BY <4>4, <4>5 DEF TypeOK
    <3>4. known' \in [Peers -> SUBSET Peers]
      BY <2>1, <3>1 DEF UpdateParticipants, TypeOK
    <3>5. /\ pendingJoin' \in [Machines -> Peers \cup {NoPeer}]
          /\ inMeeting' \in [Machines -> Peers \cup {NoPeer}]
          /\ shown' \in [Machines -> SUBSET Peers]
          /\ knocks' \in [Machines -> SUBSET Peers]
      <4>1. CASE /\ pendingJoin[m] # NoPeer
                 /\ inMeeting' = [inMeeting EXCEPT ![m] = pendingJoin[m]]
                 /\ pendingJoin' = [pendingJoin EXCEPT ![m] = NoPeer]
                 /\ shown' = [shown EXCEPT ![m] = {pendingJoin[m]}]
                 /\ UNCHANGED knocks
        <5>1. pendingJoin[m] \in Peers
          BY <4>1, <1>3 DEF TypeOK
        <5> QED
          BY <4>1, <5>1 DEF TypeOK
      <4>2. CASE /\ shown' = [shown EXCEPT ![m] = Participants(p, f)]
                 /\ UNCHANGED <<inMeeting, pendingJoin, knocks>>
        BY <4>2, <3>1 DEF TypeOK
      <4> QED
        BY <2>1, <4>1, <4>2 DEF UpdateParticipants
    <3> QED
      BY <3>3, <3>4, <3>5
  <2>2. CASE f.type = "join-requested" /\ knocks' = [knocks EXCEPT ![m] = @ \cup {f.peer}]
               /\ UNCHANGED <<known, advertised, pendingJoin, inMeeting, shown>>
    <3>1. f.peer \in Peers
      BY <1>1 DEF Frame, PeerFrame
    <3> QED
      BY <2>2, <3>1 DEF TypeOK
  <2>3. CASE pendingJoin' = [pendingJoin EXCEPT ![m] = NoPeer]
               /\ UNCHANGED <<known, advertised, inMeeting, shown, knocks>>
    BY <2>3 DEF TypeOK
  <2> QED
    BY <2>1, <2>2, <2>3 DEF HandleFrame
<1> QED
  BY <1>2, <1>4 DEF HandleFrame, TypeOK, roomVars, RoomsTypeOK, serverVars, counters

LEMMA TypeStep ==
    ASSUME TypeOK, Located, [Next]_vars
    PROVE  TypeOK'
<1>1. ASSUME NEW p \in Peers, Session(p)
      PROVE  TypeOK'
  BY <1>1, SessionType
<1>2. ASSUME NEW p \in Peers, User(p)
      PROVE  TypeOK'
  <2>1. NoAdvert \in Advert /\ [room |-> p, count |-> 1] \in Advert
    BY NewAdvertType
  <2>2. CASE CreateMeeting(p)
    BY <2>1, <2>2, CommandType DEF CreateMeeting
  <2>3. ASSUME NEW r \in Peers, JoinMeeting(p, r)
        PROVE  TypeOK'
    BY <2>1, <2>3, CommandType DEF JoinMeeting
  <2> QED
    BY <1>2, <2>2, <2>3 DEF User
<1>3. ASSUME NEW p \in Peers, Connected(p)
      PROVE  TypeOK'
  <2>1. MachineOf[p] \in Machines
    BY MachineOfIsFunction
  <2>2. /\ pendingJoin' \in [Machines -> Peers \cup {NoPeer}]
        /\ inMeeting' \in [Machines -> Peers \cup {NoPeer}]
        /\ shown' \in [Machines -> SUBSET Peers]
    <3>1. CASE /\ inMeeting' = [inMeeting EXCEPT ![MachineOf[p]] = p]
               /\ shown' = [shown EXCEPT ![MachineOf[p]] = {p}]
               /\ UNCHANGED pendingJoin
      BY <3>1, <2>1 DEF TypeOK
    <3>2. CASE /\ pendingJoin' = [pendingJoin EXCEPT ![MachineOf[p]] = p]
               /\ UNCHANGED <<inMeeting, shown>>
      BY <3>2, <2>1 DEF TypeOK
    <3> QED
      BY <1>3, <3>1, <3>2 DEF Connected
  <2> QED
    BY <1>3, <2>1, <2>2 DEF Connected, TypeOK, roomVars, RoomsTypeOK, linkVars, counters
<1>4. ASSUME NEW p \in Peers, HandleFrame(p)
      PROVE  TypeOK'
  BY <1>4, HandleFrameType
<1>5. ASSUME NEW p \in Peers, LoseConnection(p)
      PROVE  TypeOK'
  BY <1>5 DEF LoseConnection, TypeOK, roomVars, RoomsTypeOK, serverVars, clientVars, viewVars
<1>6. ASSUME NEW m \in Machines, LeaveMeeting(m)
      PROVE  TypeOK'
  <2>1. NoAdvert \in Advert
    <3>1. Cardinality(Peers) \in Nat
      BY PeersAreFinite, FS_CardinalityType
    <3> QED
      BY <3>1 DEF Advert, NoAdvert
  <2> QED
    BY <1>6, <2>1, DoLeaveType DEF LeaveMeeting, TypeOK, roomVars, RoomsTypeOK, serverVars, linkVars
<1>7. ASSUME NEW m \in Machines, AnswerKnock(m)
      PROVE  TypeOK'
  <2>1. PICK guest \in knocks[m], accept \in BOOLEAN :
          /\ knocks' = [knocks EXCEPT ![m] = @ \ {guest}]
          /\ IF active[m] # NoPeer /\ room[active[m]] = active[m]
               THEN decisions' = [decisions EXCEPT ![active[m]] =
                       Append(@, [peer |-> guest, accept |-> accept])]
               ELSE UNCHANGED decisions
    BY <1>7 DEF AnswerKnock
  <2>2. [peer |-> guest, accept |-> accept] \in Decision
    BY <2>1 DEF TypeOK, Decision
  <2>3. decisions' \in [Peers -> Seq(Decision)]
    <3>1. CASE active[m] # NoPeer /\ room[active[m]] = active[m]
      <4> DEFINE p == active[m]
                 d == [peer |-> guest, accept |-> accept]
      <4>1. p \in Peers
        BY <3>1 DEF TypeOK
      <4>2. decisions' = [decisions EXCEPT ![p] = Append(decisions[p], d)]
        BY <2>1, <3>1
      <4>3. Append(decisions[p], d) \in Seq(Decision)
        BY <2>2, <4>1 DEF TypeOK
      <4> QED
        BY <4>1, <4>2, <4>3 DEF TypeOK
    <3>2. CASE UNCHANGED decisions
      BY <3>2 DEF TypeOK
    <3> QED
      BY <2>1, <3>1, <3>2
  <2> QED
    BY <1>7, <2>1, <2>3 DEF AnswerKnock, TypeOK, roomVars, RoomsTypeOK, serverVars, clientVars, counters
<1>8. CASE UNCHANGED vars
  BY <1>8 DEF vars, TypeOK, roomVars, RoomsTypeOK, serverVars, linkVars, clientVars, viewVars, counters
<1> QED
  BY <1>1, <1>2, <1>3, <1>4, <1>5, <1>6, <1>7, <1>8 DEF Next
-----------------------------------------------------------------------------
\* Sessions, rooms and their invariants.

LEMMA InitPlaces == Init => Located /\ Places /\ RoomWithinCapacity
<1> SUFFICES ASSUME Init
             PROVE  Located /\ Places /\ RoomWithinCapacity
  OBVIOUS
<1>1. Located
  BY DEF Init, Located
<1>2. Places
  BY DEF Init, RoomsInit, Places, RoomsFollowSessions, HostsAreInside, NobodyWaitsAtAnEmptyRoom
<1>3. RoomWithinCapacity
  <2>1. Cardinality({}) = 0
    BY FS_EmptySet
  <2>2. {} \cup {} = {}
    OBVIOUS
  <2> QED
    BY <2>1, <2>2, CapacityIsPositive DEF Init, RoomsInit, RoomWithinCapacity
<1> QED
  BY <1>1, <1>2, <1>3

LEMMA LocatedStep ==
    ASSUME TypeOK, Located, [Next]_vars
    PROVE  Located'
<1>1. ASSUME NEW p \in Peers, Session(p)
      PROVE  Located'
  <2>1. UNCHANGED <<client, room>>
    BY <1>1 DEF Session, JoinRoom, SendNext, JoinDecision, LeaveRoom, Timeout, Cleanup, clientVars
  <2>2. \A q \in Peers : session'[q] = "none" <=> session[q] = "none"
    BY <1>1 DEF Session, JoinRoom, SendNext, JoinDecision, LeaveRoom, EndLoop, Timeout, Cleanup,
       TypeOK
  <2> QED
    BY <2>1, <2>2 DEF Located
<1>2. ASSUME NEW p \in Peers, NEW r \in Peers, NEW a, Command(p, r, a)
      PROVE  Located'
  <2>1. UNCHANGED session /\ room' = [room EXCEPT ![p] = r]
    BY <1>2 DEF Command, serverVars
  <2>2. \A q \in Peers \ {p} : client'[q] \in {client[q], "left"}
    BY <1>2 DEF Command, TypeOK
  <2>3. client[p] = "idle"
    BY <1>2 DEF Command
  <2> QED
    BY <2>1, <2>2, <2>3 DEF Located, TypeOK
<1>3. ASSUME NEW p \in Peers, User(p)
      PROVE  Located'
  BY <1>2, <1>3 DEF User, CreateMeeting, JoinMeeting
<1>4. ASSUME NEW p \in Peers, Connected(p)
      PROVE  Located'
  BY <1>4 DEF Connected, Located, TypeOK
<1>5. ASSUME NEW m \in Machines, LeaveMeeting(m)
      PROVE  Located'
  <2>1. UNCHANGED <<session, room>> /\ client' = [client EXCEPT ![active[m]] = "left"]
    BY <1>5 DEF LeaveMeeting, serverVars
  <2> QED
    BY <2>1 DEF Located, TypeOK
<1>6. ASSUME \/ \E p \in Peers : HandleFrame(p) \/ LoseConnection(p)
             \/ \E m \in Machines : AnswerKnock(m)
             \/ UNCHANGED vars
      PROVE  Located'
  <2>1. UNCHANGED <<session, client, room>>
    BY <1>6 DEF HandleFrame, LoseConnection, AnswerKnock, vars, serverVars, clientVars
  <2> QED
    BY <2>1 DEF Located
<1> QED
  BY <1>1, <1>3, <1>4, <1>5, <1>6 DEF Next

\* Most steps leave the rooms, the sessions and who wants to be where alone;
\* a command names the room of a peer that has no session yet.
LEMMA OtherSteps ==
    ASSUME TypeOK, Located, [Next]_vars,
           ~ \E p \in Peers : \/ JoinRoom(p) \/ JoinDecision(p) \/ LeaveRoom(p)
                              \/ Timeout(p) \/ Cleanup(p) \/ Connected(p)
    PROVE  /\ UNCHANGED <<roomVars, session>>
           /\ \A q \in Peers : session[q] # "none" => room'[q] = room[q]
<1>1. ASSUME NEW p \in Peers, NEW r \in Peers, NEW a, Command(p, r, a)
      PROVE  /\ UNCHANGED <<roomVars, session>>
             /\ \A q \in Peers : session[q] # "none" => room'[q] = room[q]
  BY <1>1 DEF Command, serverVars, Located, TypeOK
<1>2. CASE \E p \in Peers : User(p)
  BY <1>1, <1>2 DEF User, CreateMeeting, JoinMeeting
<1>3. ASSUME \/ \E p \in Peers : SendNext(p) \/ HandleFrame(p) \/ LoseConnection(p)
             \/ \E m \in Machines : LeaveMeeting(m) \/ AnswerKnock(m)
             \/ UNCHANGED vars
      PROVE  UNCHANGED <<roomVars, session, room>>
  BY <1>3 DEF SendNext, HandleFrame, LoseConnection, LeaveMeeting, AnswerKnock, vars,
     serverVars, clientVars
<1> QED
  BY <1>2, <1>3 DEF Next, Session

\* A peer whose session has not joined is nowhere, and nobody's host.
LEMMA Newcomer ==
    ASSUME TypeOK, Places, NEW p \in Peers, session[p] \in {"none", "new"}
    PROVE  /\ \A r \in Peers : p \notin peers[r] /\ p \notin pending[r]
           /\ \A r \in Peers : host[r] # p
<1>1. \A r \in Peers : p \notin peers[r] /\ p \notin pending[r]
  BY DEF Places, RoomsFollowSessions
<1>2. \A r \in Peers : host[r] # p
  BY PeersAreFinite DEF Places, HostsAreInside
<1> QED
  BY <1>1, <1>2

\* Steps that leave the rooms alone, and keep those who are in one, or host
\* one, where they are.
LEMMA UnmovedPlaces ==
    ASSUME TypeOK, Places, UNCHANGED roomVars,
           \A q \in Peers : \/ /\ \A r \in Peers : q \notin peers[r] /\ q \notin pending[r]
                               /\ \A r \in Peers : host[r] # q
                            \/ /\ room'[q] = room[q]
                               /\ \/ session'[q] = session[q]
                                  \/ session[q] = "open" /\ session'[q] = "leaving"
    PROVE  Places'
<1>1. host' = host /\ peers' = peers /\ pending' = pending
  BY DEF roomVars
<1>2. RoomsFollowSessions'
  BY <1>1 DEF Places, RoomsFollowSessions
<1>3. HostsAreInside'
  <2> SUFFICES ASSUME NEW r \in Peers, host[r] # NoPeer
               PROVE  /\ room'[host[r]] = r
                      /\ session'[host[r]] \in {"open", "leaving", "ended"}
                      /\ session'[host[r]] = "open" => host[r] \in peers[r]
    BY <1>1 DEF HostsAreInside
  <2>1. host[r] \in Peers
    BY DEF TypeOK, RoomsTypeOK
  <2>2. \/ session'[host[r]] = session[host[r]]
        \/ session'[host[r]] = "leaving"
    BY <2>1
  <2>3. room'[host[r]] = room[host[r]]
    BY <2>1
  <2> QED
    BY <2>1, <2>2, <2>3 DEF Places, HostsAreInside
<1>4. NobodyWaitsAtAnEmptyRoom'
  BY <1>1 DEF Places, NobodyWaitsAtAnEmptyRoom
<1> QED
  BY <1>2, <1>3, <1>4 DEF Places

LEMMA JoinPlaces ==
    ASSUME TypeOK, Located, Places, NEW p \in Peers, JoinRoom(p)
    PROVE  Places'
<1> DEFINE r == room[p]
<1>1. r \in Peers /\ session[p] = "new" /\ UNCHANGED room
  BY DEF JoinRoom, Located, clientVars
<1>2. /\ \A x \in Peers : p \notin peers[x] /\ p \notin pending[x]
      /\ \A x \in Peers : host[x] # p
  BY <1>1, Newcomer
<1>3. CASE Admitted(r, p) /\ session' = [session EXCEPT ![p] = "open"]
  <2>1. /\ peers[r] = {} /\ pending[r] = {}
        /\ host' = [host EXCEPT ![r] = p]
        /\ peers' = [peers EXCEPT ![r] = {p}]
        /\ pending' = pending
    BY <1>1, <1>2, <1>3 DEF Admitted, IsHost, Places, NobodyWaitsAtAnEmptyRoom
  <2>2. RoomsFollowSessions'
    BY <1>1, <1>3, <2>1 DEF TypeOK, RoomsTypeOK, Places, RoomsFollowSessions
  <2>3. HostsAreInside'
    BY <1>1, <1>2, <1>3, <2>1 DEF TypeOK, RoomsTypeOK, Places, HostsAreInside
  <2>4. NobodyWaitsAtAnEmptyRoom'
    BY <1>1, <2>1 DEF TypeOK, RoomsTypeOK, Places, NobodyWaitsAtAnEmptyRoom
  <2> QED
    BY <2>2, <2>3, <2>4 DEF Places
<1>4. CASE AwaitingApproval(r, p) /\ session' = [session EXCEPT ![p] = "open"]
  <2>1. /\ peers[r] # {}
        /\ host' = host /\ peers' = peers
        /\ pending' = [pending EXCEPT ![r] = @ \cup {p}]
    BY <1>4 DEF AwaitingApproval
  <2>2. RoomsFollowSessions'
    BY <1>1, <1>4, <2>1 DEF TypeOK, RoomsTypeOK, Places, RoomsFollowSessions
  <2>3. HostsAreInside'
    BY <1>1, <1>2, <1>4, <2>1 DEF TypeOK, RoomsTypeOK, Places, HostsAreInside
  <2>4. NobodyWaitsAtAnEmptyRoom'
    BY <1>1, <2>1 DEF TypeOK, RoomsTypeOK, Places, NobodyWaitsAtAnEmptyRoom
  <2> QED
    BY <2>2, <2>3, <2>4 DEF Places
<1>5. CASE Refused(r, p) /\ session' = [session EXCEPT ![p] = "leaving"]
  <2>1. UNCHANGED roomVars
    BY <1>5 DEF Refused
  <2>2. \A q \in Peers \ {p} : session'[q] = session[q]
    BY <1>5 DEF TypeOK
  <2> QED
    BY <1>1, <1>2, <2>1, <2>2, UnmovedPlaces
<1> QED
  BY <1>3, <1>4, <1>5 DEF JoinRoom

\* Steps that move nobody out of a room, and nobody to a room's door.
LEMMA KeptPlaces ==
    ASSUME Places, UNCHANGED <<host, session, room>>,
           \A x \in Peers : /\ peers[x] \subseteq peers'[x]
                            /\ peers'[x] \cup pending'[x] \subseteq peers[x] \cup pending[x]
                            /\ pending'[x] \subseteq pending[x]
    PROVE  Places'
<1>1. RoomsFollowSessions'
  BY DEF Places, RoomsFollowSessions
<1>2. HostsAreInside'
  <2> SUFFICES ASSUME NEW r \in Peers, host[r] # NoPeer
               PROVE  /\ room[host[r]] = r
                      /\ session[host[r]] \in {"open", "leaving", "ended"}
                      /\ session[host[r]] = "open" => host[r] \in peers'[r]
    BY DEF HostsAreInside
  <2> QED
    BY DEF Places, HostsAreInside
<1>3. NobodyWaitsAtAnEmptyRoom'
  BY DEF Places, NobodyWaitsAtAnEmptyRoom
<1> QED
  BY <1>1, <1>2, <1>3 DEF Places

LEMMA DecisionPlaces ==
    ASSUME TypeOK, Located, Places, NEW p \in Peers, JoinDecision(p)
    PROVE  Places'
<1> DEFINE r == room[p]
           guest == Head(decisions[p]).peer
<1>1. r \in Peers /\ UNCHANGED <<session, room>>
  BY DEF JoinDecision, Located, clientVars
<1>2. guest \in Peers
  <2>1. Head(decisions[p]) \in Decision
    BY DEF JoinDecision, TypeOK
  <2> QED
    BY <2>1 DEF Decision
<1> HIDE DEF guest
<1>3. CASE UNCHANGED roomVars
  BY <1>1, <1>3, UnmovedPlaces
<1>4. CASE ApprovePeer(r, guest)
  <2>1. /\ guest \in pending[r] /\ host' = host
        /\ peers' = [peers EXCEPT ![r] = @ \cup {guest}]
        /\ pending' = [pending EXCEPT ![r] = @ \ {guest}]
    BY <1>4 DEF ApprovePeer
  <2>2. \A x \in Peers : /\ peers[x] \subseteq peers'[x]
                         /\ peers'[x] \cup pending'[x] = peers[x] \cup pending[x]
                         /\ pending'[x] \subseteq pending[x]
    BY <1>1, <1>2, <2>1 DEF TypeOK, RoomsTypeOK
  <2> QED
    BY <1>1, <2>1, <2>2, KeptPlaces
<1>5. CASE RejectPeer(r, guest)
  <2>1. /\ UNCHANGED <<host, peers>>
        /\ pending' = [pending EXCEPT ![r] = @ \ {guest}]
    BY <1>5 DEF RejectPeer
  <2>2. \A x \in Peers : pending'[x] \subseteq pending[x]
    BY <1>1, <1>2, <2>1 DEF TypeOK, RoomsTypeOK
  <2>3. \A x \in Peers : peers'[x] \cup pending'[x] \subseteq peers[x] \cup pending[x]
    BY <2>1, <2>2
  <2> QED
    BY <1>1, <2>1, <2>2, <2>3, KeptPlaces
<1> QED
  BY <1>3, <1>4, <1>5 DEF JoinDecision, guest

LEMMA DepartPlaces ==
    ASSUME TypeOK, Located, Places, NEW p \in Peers, LeaveRoom(p) \/ Cleanup(p)
    PROVE  Places'
<1> DEFINE r == room[p]
           left == peers[r] \ {p}
<1>1. r \in Peers /\ UNCHANGED room
  BY DEF LeaveRoom, Cleanup, Located, clientVars
<1>2. session[p] \in {"open", "leaving"} /\ Depart(p)
  BY DEF LeaveRoom, Cleanup
<1>3. PICK s \in {"leaving", "ended"} : session' = [session EXCEPT ![p] = s]
  BY DEF LeaveRoom, EndLoop, Cleanup
<1>4. /\ peers' = [peers EXCEPT ![r] = left]
      /\ pending' = [pending EXCEPT ![r] = IF left = {} THEN {} ELSE pending[r] \ {p}]
      /\ host' = IF left = {} THEN [host EXCEPT ![r] = NoPeer] ELSE host
  BY <1>2 DEF Depart, LeavePeer
<1>5. RoomsFollowSessions'
  <2>1. \A x \in Peers : p \in peers[x] \cup pending[x] => x = r
    BY DEF Places, RoomsFollowSessions
  <2>2. \A x \in Peers : /\ peers'[x] \cup pending'[x] \subseteq peers[x] \cup pending[x]
                         /\ p \notin peers'[x] \cup pending'[x]
    BY <1>1, <1>4, <2>1 DEF TypeOK, RoomsTypeOK
  <2> QED
    BY <1>1, <1>3, <2>2 DEF TypeOK, RoomsTypeOK, Places, RoomsFollowSessions
<1>6. HostsAreInside'
  <2> SUFFICES ASSUME NEW x \in Peers, host'[x] # NoPeer
               PROVE  /\ room[host'[x]] = x
                      /\ session'[host'[x]] \in {"open", "leaving", "ended"}
                      /\ session'[host'[x]] = "open" => host'[x] \in peers'[x]
    BY <1>1 DEF HostsAreInside
  <2>1. host'[x] = host[x] /\ host[x] \in Peers
    BY <1>1, <1>4 DEF TypeOK, RoomsTypeOK
  <2>2. /\ room[host[x]] = x
        /\ session[host[x]] \in {"open", "leaving", "ended"}
        /\ session[host[x]] = "open" => host[x] \in peers[x]
    BY <2>1 DEF Places, HostsAreInside
  <2>3. CASE host[x] = p
    BY <1>3, <2>1, <2>2, <2>3 DEF TypeOK
  <2>4. CASE host[x] # p
    BY <1>1, <1>3, <1>4, <2>1, <2>2, <2>4 DEF TypeOK, RoomsTypeOK
  <2> QED
    BY <2>3, <2>4
<1>7. NobodyWaitsAtAnEmptyRoom'
  BY <1>1, <1>4 DEF TypeOK, RoomsTypeOK, Places, NobodyWaitsAtAnEmptyRoom
<1> QED
  BY <1>5, <1>6, <1>7 DEF Places

LEMMA PlacesStep ==
    ASSUME TypeOK, Located, Places, [Next]_vars
    PROVE  Places'
<1>1. CASE \E p \in Peers : JoinRoom(p)
  BY <1>1, JoinPlaces
<1>2. CASE \E p \in Peers : JoinDecision(p)
  BY <1>2, DecisionPlaces
<1>3. CASE \E p \in Peers : LeaveRoom(p) \/ Cleanup(p)
  BY <1>3, DepartPlaces
<1>4. ASSUME NEW p \in Peers, Timeout(p) \/ Connected(p)
      PROVE  Places'
  <2>1. UNCHANGED <<roomVars, room>>
    BY <1>4 DEF Timeout, Connected, clientVars
  <2>2. CASE Timeout(p) /\ session[p] = "open"
    <3>1. session' = [session EXCEPT ![p] = "leaving"]
      BY <2>2 DEF Timeout
    <3>2. \A q \in Peers : session'[q] = IF q = p THEN "leaving" ELSE session[q]
      BY <3>1 DEF TypeOK
    <3> QED
      BY <2>1, <2>2, <3>2, UnmovedPlaces
  <2>3. CASE session[p] \in {"none", "new"}
    <3>1. /\ \A r \in Peers : p \notin peers[r] /\ p \notin pending[r]
          /\ \A r \in Peers : host[r] # p
      BY <2>3, Newcomer
    <3>2. PICK s : session' = [session EXCEPT ![p] = s]
      BY <1>4 DEF Timeout, Connected
    <3>3. \A q \in Peers \ {p} : session'[q] = session[q]
      BY <3>2 DEF TypeOK
    <3> QED
      BY <2>1, <3>1, <3>3, UnmovedPlaces
  <2>4. Connected(p) => session[p] = "none"
    BY DEF Connected, Located
  <2> QED
    BY <1>4, <2>2, <2>3, <2>4 DEF Timeout
<1>5. CASE /\ UNCHANGED <<roomVars, session>>
           /\ \A q \in Peers : session[q] # "none" => room'[q] = room[q]
  <2>1. \A q \in Peers : session[q] = "none" =>
          /\ \A r \in Peers : q \notin peers[r] /\ q \notin pending[r]
          /\ \A r \in Peers : host[r] # q
    BY Newcomer
  <2> QED
    BY <1>5, <2>1, UnmovedPlaces
<1> QED
  BY <1>1, <1>2, <1>3, <1>4, <1>5, OtherSteps
-----------------------------------------------------------------------------
\* Capacity.

\* A room that grows by at most one below its limit stays within it.
LEMMA RoomGrows ==
    ASSUME RoomsTypeOK, RoomWithinCapacity, UNCHANGED host,
           NEW r \in Peers, NEW p \in Peers, ~Full(r),
           \A x \in Peers \ {r} : peers'[x] = peers[x] /\ pending'[x] = pending[x],
           peers'[r] \cup pending'[r] = (peers[r] \cup pending[r]) \cup {p},
           peers'[r] \cap pending'[r] = {}
    PROVE  RoomWithinCapacity'
<1> DEFINE inside == peers[r]
           door == pending[r]
<1>1. IsFiniteSet(inside) /\ IsFiniteSet(door)
  BY PeersAreFinite, FS_Subset DEF RoomsTypeOK
<1>2. /\ IsFiniteSet(inside \cup door) /\ IsFiniteSet(inside \cap door)
      /\ Cardinality(inside \cup door) =
            Cardinality(inside) + Cardinality(door) - Cardinality(inside \cap door)
  <2>1. IsFiniteSet(inside \cap door)
    BY <1>1, FS_Subset
  <2> QED
    BY <1>1, <2>1, FS_Union
<1>3. /\ Cardinality(inside) \in Nat /\ Cardinality(door) \in Nat
      /\ Cardinality(inside \cap door) \in Nat /\ Cardinality(inside \cup door) \in Nat
  BY <1>1, <1>2, FS_CardinalityType
<1>4. Cardinality(inside) + Cardinality(door) < Capacity
  BY <1>3, CapacityIsPositive DEF Full
<1>5. Cardinality((inside \cup door) \cup {p}) <= Cardinality(inside \cup door) + 1
  <2>1. Cardinality((inside \cup door) \cup {p}) =
          IF p \in inside \cup door THEN Cardinality(inside \cup door)
          ELSE Cardinality(inside \cup door) + 1
    BY <1>2, FS_AddElement
  <2> QED
    BY <1>3, <2>1
<1>6. Cardinality((inside \cup door) \cup {p}) \in Nat
  <2>1. IsFiniteSet((inside \cup door) \cup {p})
    BY <1>2, FS_AddElement
  <2> QED
    BY <2>1, FS_CardinalityType
<1>7. Cardinality((inside \cup door) \cup {p}) <= Capacity
  BY <1>2, <1>3, <1>4, <1>5, <1>6, CapacityIsPositive
<1>8. /\ Cardinality(peers'[r] \cup pending'[r]) <= Capacity
      /\ peers'[r] \cap pending'[r] = {}
  BY <1>7
<1>9. ASSUME NEW x \in Peers \ {r}
      PROVE  /\ Cardinality(peers'[x] \cup pending'[x]) <= Capacity
             /\ peers'[x] \cap pending'[x] = {}
  BY DEF RoomWithinCapacity
<1> QED
  BY <1>8, <1>9 DEF RoomWithinCapacity

\* A step after which nobody new is in a room or at its door.
LEMMA RoomsShrink ==
    ASSUME RoomsTypeOK, RoomWithinCapacity,
           \A x \in Peers : /\ peers'[x] \cup pending'[x] \subseteq peers[x] \cup pending[x]
                            /\ peers'[x] \cap pending'[x] = {}
    PROVE  RoomWithinCapacity'
<1> SUFFICES ASSUME NEW x \in Peers
             PROVE  Cardinality(peers'[x] \cup pending'[x]) <= Capacity
  BY DEF RoomWithinCapacity
<1>1. IsFiniteSet(peers[x] \cup pending[x])
  BY PeersAreFinite, FS_Subset DEF RoomsTypeOK
<1>2. /\ IsFiniteSet(peers'[x] \cup pending'[x])
      /\ Cardinality(peers'[x] \cup pending'[x]) <= Cardinality(peers[x] \cup pending[x])
  BY <1>1, FS_Subset
<1>3. /\ Cardinality(peers[x] \cup pending[x]) \in Nat
      /\ Cardinality(peers'[x] \cup pending'[x]) \in Nat
  BY <1>1, <1>2, FS_CardinalityType
<1>4. Cardinality(peers[x] \cup pending[x]) <= Capacity
  BY DEF RoomWithinCapacity
<1> QED
  BY <1>2, <1>3, <1>4, CapacityIsPositive

LEMMA CapacityStep ==
    ASSUME IndInv, [Next]_vars
    PROVE  RoomWithinCapacity'
<1> USE DEF IndInv
<1>0. RoomsTypeOK
  BY DEF TypeOK
<1>1. ASSUME NEW p \in Peers, JoinRoom(p)
      PROVE  RoomWithinCapacity'
  <2> DEFINE r == room[p]
  <2>1. r \in Peers /\ session[p] = "new"
    BY <1>1 DEF JoinRoom, Located
  <2>2. /\ \A x \in Peers : p \notin peers[x] /\ p \notin pending[x]
        /\ \A x \in Peers : host[x] # p
    BY <2>1, Newcomer
  <2>3. CASE Admitted(r, p)
    <3>1. /\ peers[r] = {} /\ pending[r] = {} /\ pending' = pending
          /\ peers' = [peers EXCEPT ![r] = {p}]
      BY <2>1, <2>2, <2>3 DEF Admitted, IsHost, Places, NobodyWaitsAtAnEmptyRoom
    <3>2. Cardinality({p}) = 1 /\ 1 <= Capacity
      BY FS_Singleton, CapacityIsPositive
    <3>3. peers'[r] \cup pending'[r] = {p} /\ peers'[r] \cap pending'[r] = {}
      BY <1>0, <2>1, <3>1 DEF RoomsTypeOK
    <3>4. \A x \in Peers \ {r} : peers'[x] = peers[x] /\ pending'[x] = pending[x]
      BY <1>0, <3>1 DEF RoomsTypeOK
    <3>5. Cardinality(peers'[r] \cup pending'[r]) <= Capacity
      BY <3>2, <3>3
    <3>6. ASSUME NEW x \in Peers \ {r}
          PROVE  /\ Cardinality(peers'[x] \cup pending'[x]) <= Capacity
                 /\ peers'[x] \cap pending'[x] = {}
      BY <3>4 DEF RoomWithinCapacity
    <3> QED
      BY <3>3, <3>5, <3>6 DEF RoomWithinCapacity
  <2>4. CASE AwaitingApproval(r, p)
    <3>1. /\ ~Full(r) /\ UNCHANGED host /\ peers' = peers
          /\ pending' = [pending EXCEPT ![r] = @ \cup {p}]
      BY <2>4 DEF AwaitingApproval
    <3>2. /\ pending'[r] = pending[r] \cup {p}
          /\ \A x \in Peers \ {r} : pending'[x] = pending[x]
      BY <1>0, <2>1, <3>1 DEF RoomsTypeOK
    <3>3. /\ peers'[r] \cup pending'[r] = (peers[r] \cup pending[r]) \cup {p}
          /\ peers'[r] \cap pending'[r] = {}
      BY <2>1, <2>2, <3>1, <3>2 DEF RoomWithinCapacity
    <3> QED
      BY <1>0, <2>1, <3>1, <3>2, <3>3, RoomGrows
  <2>5. CASE Refused(r, p)
    BY <2>5 DEF Refused, roomVars, RoomWithinCapacity
  <2> QED
    BY <1>1, <2>3, <2>4, <2>5 DEF JoinRoom
<1>2. ASSUME NEW p \in Peers, JoinDecision(p) \/ LeaveRoom(p) \/ Cleanup(p)
      PROVE  RoomWithinCapacity'
  <2> DEFINE r == room[p]
  <2>1. r \in Peers
    BY <1>2 DEF JoinDecision, LeaveRoom, Cleanup, Located
  <2>2. \/ \E q : ApprovePeer(r, q) \/ RejectPeer(r, q) \/ LeavePeer(r, q)
        \/ UNCHANGED roomVars
    BY <1>2 DEF JoinDecision, LeaveRoom, Cleanup, Depart
  <2>3. ASSUME NEW q, ApprovePeer(r, q) \/ RejectPeer(r, q) \/ LeavePeer(r, q)
        PROVE  \A x \in Peers :
                 /\ peers'[x] \cup pending'[x] \subseteq peers[x] \cup pending[x]
                 /\ peers'[x] \cap pending'[x] = {}
    <3>1. \A x \in Peers : peers[x] \cap pending[x] = {}
      BY DEF RoomWithinCapacity
    <3>2. CASE ApprovePeer(r, q)
      BY <1>0, <2>1, <3>1, <3>2 DEF ApprovePeer, RoomsTypeOK
    <3>3. CASE RejectPeer(r, q)
      BY <1>0, <2>1, <3>1, <3>3 DEF RejectPeer, RoomsTypeOK
    <3>4. CASE LeavePeer(r, q)
      BY <1>0, <2>1, <3>1, <3>4 DEF LeavePeer, RoomsTypeOK
    <3> QED
      BY <2>3, <3>2, <3>3, <3>4
  <2>4. CASE UNCHANGED roomVars
    BY <2>4 DEF roomVars, RoomWithinCapacity
  <2> QED
    BY <1>0, <2>2, <2>3, <2>4, RoomsShrink
<1>3. CASE UNCHANGED roomVars
  BY <1>3 DEF roomVars, RoomWithinCapacity
<1>4. ASSUME NEW p \in Peers, Timeout(p) \/ Connected(p)
      PROVE  UNCHANGED roomVars
  BY <1>4 DEF Timeout, Connected
<1> QED
  BY <1>1, <1>2, <1>3, <1>4, OtherSteps
-----------------------------------------------------------------------------
\* Admission.

\* The step form of AdmittedByHost.
LetInByHost(r, p) ==
    p \notin peers[r] /\ p \in peers'[r] =>
       \/ peers[r] = {} /\ host'[r] = p
       \/ /\ p \in pending[r]
          /\ \E h \in peers[r] : /\ IsHost(r, h)
                                 /\ decisions[h] # <<>>
                                 /\ Head(decisions[h]) = [peer |-> p, accept |-> TRUE]

LEMMA AdmissionStep ==
    ASSUME IndInv, [Next]_vars, NEW r \in Peers, NEW p \in Peers
    PROVE  LetInByHost(r, p)
<1> USE DEF IndInv
<1>0. RoomsTypeOK
  BY DEF TypeOK
<1> SUFFICES ASSUME p \notin peers[r], p \in peers'[r]
             PROVE  \/ peers[r] = {} /\ host'[r] = p
                    \/ /\ p \in pending[r]
                       /\ \E h \in peers[r] :
                            /\ IsHost(r, h)
                            /\ decisions[h] # <<>>
                            /\ Head(decisions[h]) = [peer |-> p, accept |-> TRUE]
  BY DEF LetInByHost
<1>1. ASSUME NEW q \in Peers, JoinRoom(q)
      PROVE  peers[r] = {} /\ host'[r] = p
  <2>1. room[q] \in Peers /\ session[q] = "new"
    BY <1>1 DEF JoinRoom, Located
  <2>2. \A x \in Peers : host[x] # q
    BY <2>1, Newcomer
  <2>3. Admitted(room[q], q)
    BY <1>1 DEF JoinRoom, AwaitingApproval, Refused, roomVars
  <2>4. /\ peers[room[q]] = {}
        /\ host' = [host EXCEPT ![room[q]] = q]
        /\ peers' = [peers EXCEPT ![room[q]] = @ \cup {q}]
    BY <2>1, <2>2, <2>3 DEF Admitted, IsHost
  <2>5. r = room[q] /\ p = q
    BY <1>0, <2>1, <2>4 DEF RoomsTypeOK
  <2> QED
    BY <1>0, <2>4, <2>5 DEF RoomsTypeOK
<1>2. ASSUME NEW h \in Peers, JoinDecision(h)
      PROVE  /\ p \in pending[r]
             /\ h \in peers[r] /\ IsHost(r, h)
             /\ decisions[h] # <<>>
             /\ Head(decisions[h]) = [peer |-> p, accept |-> TRUE]
  <2> DEFINE d == Head(decisions[h])
  <2>1. room[h] \in Peers /\ session[h] = "open" /\ decisions[h] # <<>>
    BY <1>2 DEF JoinDecision, Located
  <2>2. d \in Decision
    BY <2>1 DEF TypeOK
  <2>3. IsHost(room[h], h) /\ d.accept /\ ApprovePeer(room[h], d.peer)
    BY <1>2 DEF JoinDecision, RejectPeer, roomVars
  <2>4. r = room[h] /\ p = d.peer
    BY <1>0, <2>1, <2>3 DEF ApprovePeer, RoomsTypeOK
  <2>5. p \in pending[r]
    BY <2>3, <2>4 DEF ApprovePeer
  <2>6. h \in peers[r]
    BY <2>1, <2>3, <2>4, PeersAreFinite DEF IsHost, Places, HostsAreInside
  <2>7. d = [peer |-> p, accept |-> TRUE]
    BY <2>2, <2>3, <2>4 DEF Decision
  <2> QED
    BY <2>1, <2>3, <2>4, <2>5, <2>6, <2>7
<1>3. ASSUME NEW q \in Peers, LeaveRoom(q) \/ Cleanup(q)
      PROVE  FALSE
  <2>1. room[q] \in Peers /\ LeavePeer(room[q], q)
    BY <1>3 DEF LeaveRoom, Cleanup, Depart, Located
  <2> QED
    BY <1>0, <2>1 DEF LeavePeer, RoomsTypeOK
<1>4. ~UNCHANGED roomVars
  BY DEF roomVars
<1>5. ASSUME NEW q \in Peers, Timeout(q) \/ Connected(q)
      PROVE  UNCHANGED roomVars
  BY <1>5 DEF Timeout, Connected
<1> QED
  BY <1>1, <1>2, <1>3, <1>4, <1>5, OtherSteps
-----------------------------------------------------------------------------
\* The mail: what sessions have still to send and clients to read.

Carries(batches, f, p) ==
    \E i \in DOMAIN batches : batches[i].frame = f /\ p \in batches[i].to

OnItsWay(f, p) ==
    \/ \E i \in DOMAIN queue[p] : queue[p][i] = f
    \/ \E q \in Peers : Carries(sends[q], f, p)

\* Has been in the meeting, or at its door, and is not any more.
Gone(p) == ~InRoom(p) /\ session[p] \notin {"none", "new"}

\* What a frame on its way to p says is still so.
StillTrue(f, p) ==
    /\ f.type = "join-rejected" => Gone(p)
    /\ f.type = "peer-left" => f.peer # p /\ Gone(f.peer)
    /\ f.type = "peer-joined" /\ f.existing # {} => f.peer = p

MailIsTrue == \A f \in Frame, p \in Peers : OnItsWay(f, p) => StillTrue(f, p)

KnowsItself ==
    \A p \in Peers : client[p] = "starting" \/ session[p] # "none" => p \in known[p]

NewAreSilent == \A p \in Peers : session[p] \in {"none", "new"} => sends[p] = <<>>

HearsOf(p, q) ==
    q \in known[p] \/ \E f \in Frame : OnItsWay(f, p) /\ Introduces(f, q)

EverybodyIsHeardOf ==
    \A r \in Peers : \A p, q \in peers[r] :
        session[p] = "open" /\ link[p] => HearsOf(p, q)

MailInv == MailIsTrue /\ KnowsItself /\ NewAreSilent /\ EverybodyIsHeardOf

LEMMA BatchCarries ==
    ASSUME NEW f, NEW to, NEW g, NEW x
    PROVE  Carries(Batch(f, to), g, x) <=> g = f /\ x \in to
<1>1. CASE to = {}
  BY <1>1 DEF Carries, Batch
<1>2. CASE to # {}
  <2> DEFINE s == <<[frame |-> f, to |-> to]>>
  <2>1. DOMAIN s = {1} /\ s[1].frame = f /\ s[1].to = to
    OBVIOUS
  <2>2. Batch(f, to) = s
    BY <1>2 DEF Batch
  <2> HIDE DEF s
  <2> QED
    BY <2>1, <2>2 DEF Carries
<1> QED
  BY <1>1, <1>2

LEMMA ConcatCarries ==
    ASSUME NEW s \in Seq(Send), NEW t \in Seq(Send), NEW g, NEW x
    PROVE  Carries(s \o t, g, x) <=> Carries(s, g, x) \/ Carries(t, g, x)
<1>1. /\ s \o t \in Seq(Send) /\ Len(s \o t) = Len(s) + Len(t)
      /\ \A i \in 1..Len(s) + Len(t) :
           (s \o t)[i] = IF i <= Len(s) THEN s[i] ELSE t[i - Len(s)]
  BY ConcatProperties
<1>2. /\ DOMAIN s = 1..Len(s) /\ DOMAIN t = 1..Len(t)
      /\ DOMAIN (s \o t) = 1..Len(s) + Len(t) /\ Len(s) \in Nat /\ Len(t) \in Nat
  BY <1>1, LenProperties
<1>3. ASSUME NEW i \in DOMAIN s
      PROVE  i \in DOMAIN (s \o t) /\ (s \o t)[i] = s[i]
  BY <1>1, <1>2
<1>4. ASSUME NEW i \in DOMAIN t
      PROVE  i + Len(s) \in DOMAIN (s \o t) /\ (s \o t)[i + Len(s)] = t[i]
  BY <1>1, <1>2
<1>5. ASSUME NEW i \in DOMAIN (s \o t)
      PROVE  \/ i \in DOMAIN s /\ (s \o t)[i] = s[i]
             \/ i - Len(s) \in DOMAIN t /\ (s \o t)[i] = t[i - Len(s)]
  BY <1>1, <1>2
<1> QED
  BY <1>3, <1>4, <1>5, ZenonT(60) DEF Carries

LEMMA HeadAndTail ==
    ASSUME NEW S, NEW s \in Seq(S), s # <<>>
    PROVE  /\ 1 \in DOMAIN s /\ s[1] = Head(s)
           /\ \A i \in DOMAIN Tail(s) : i + 1 \in DOMAIN s /\ s[i + 1] = Tail(s)[i]
           /\ \A i \in DOMAIN s : i = 1 \/ (i - 1 \in DOMAIN Tail(s) /\ s[i] = Tail(s)[i - 1])
<1>1. /\ Len(s) \in Nat \ {0} /\ DOMAIN s = 1..Len(s)
      /\ Tail(s) \in Seq(S) /\ Len(Tail(s)) = Len(s) - 1
      /\ \A i \in 1..Len(Tail(s)) : Tail(s)[i] = s[i + 1]
  BY HeadTailProperties, LenProperties, EmptySeq
<1>2. DOMAIN Tail(s) = 1..Len(Tail(s))
  BY <1>1, LenProperties
<1> QED
  BY <1>1, <1>2

LEMMA TailCarries ==
    ASSUME NEW s \in Seq(Send), s # <<>>, NEW g, NEW x
    PROVE  Carries(s, g, x) <=> (Head(s).frame = g /\ x \in Head(s).to) \/ Carries(Tail(s), g, x)
<1>1. /\ 1 \in DOMAIN s /\ s[1] = Head(s)
      /\ \A i \in DOMAIN Tail(s) : i + 1 \in DOMAIN s /\ s[i + 1] = Tail(s)[i]
      /\ \A i \in DOMAIN s : i = 1 \/ (i - 1 \in DOMAIN Tail(s) /\ s[i] = Tail(s)[i - 1])
  BY HeadAndTail
<1>2. ASSUME Carries(s, g, x)
      PROVE  (Head(s).frame = g /\ x \in Head(s).to) \/ Carries(Tail(s), g, x)
  <2>1. PICK i \in DOMAIN s : s[i].frame = g /\ x \in s[i].to
    BY <1>2 DEF Carries
  <2> QED
    BY <1>1, <2>1 DEF Carries
<1>3. ASSUME (Head(s).frame = g /\ x \in Head(s).to) \/ Carries(Tail(s), g, x)
      PROVE  Carries(s, g, x)
  BY <1>1, <1>3 DEF Carries
<1> QED
  BY <1>2, <1>3

LEMMA WelcomeCarries ==
    ASSUME NEW p \in Peers, NEW existing \in SUBSET Peers, NEW g, NEW x
    PROVE  Carries(Welcome(p, existing), g, x) <=>
             \/ g = Joined(p, existing) /\ x = p
             \/ g = Joined(p, {}) /\ x \in existing
<1>1. Joined(p, existing) \in Frame /\ Joined(p, {}) \in Frame
  BY DEF Joined, Frame
<1>2. /\ Batch(Joined(p, existing), {p}) \in Seq(Send)
      /\ Batch(Joined(p, {}), existing) \in Seq(Send)
  BY <1>1, BatchType
<1>3. Carries(Batch(Joined(p, existing), {p}), g, x) <=> g = Joined(p, existing) /\ x = p
  BY BatchCarries
<1>4. Carries(Batch(Joined(p, {}), existing), g, x) <=> g = Joined(p, {}) /\ x \in existing
  BY BatchCarries
<1> QED
  BY <1>2, <1>3, <1>4, ConcatCarries DEF Welcome

\* Where p's session had nothing to send and now has something.
LEMMA NewMail ==
    ASSUME TypeOK, NEW p \in Peers, NEW new, sends[p] = <<>>,
           sends' = [sends EXCEPT ![p] = new], queue' = queue,
           NEW f, NEW x \in Peers
    PROVE  OnItsWay(f, x)' <=> OnItsWay(f, x) \/ Carries(new, f, x)
<1>1. \A q \in Peers : sends'[q] = IF q = p THEN new ELSE sends[q]
  BY DEF TypeOK
<1>2. ~Carries(sends[p], f, x)
  BY DEF Carries
<1> QED
  BY <1>1, <1>2 DEF OnItsWay

\* Nobody comes back: a session joins once, and from then on only those who
\* wait are let in.
LEMMA GoneForGood ==
    ASSUME IndInv, [Next]_vars, NEW p \in Peers, Gone(p)
    PROVE  Gone(p)'
<1>1. ASSUME UNCHANGED <<roomVars, session>>
      PROVE  Gone(p)'
  BY <1>1 DEF Gone, InRoom, roomVars
<1>2. ASSUME NEW q \in Peers, JoinRoom(q)
      PROVE  Gone(p)'
  <2>1. p # q
    BY <1>2 DEF JoinRoom, Gone
  <2>2. session'[p] = session[p]
    BY <1>2, <2>1 DEF JoinRoom, IndInv, TypeOK
  <2>3. /\ peers' = peers \/ peers' = [peers EXCEPT ![room[q]] = @ \cup {q}]
        /\ pending' = pending \/ pending' = [pending EXCEPT ![room[q]] = @ \cup {q}]
    BY <1>2 DEF JoinRoom, Admitted, AwaitingApproval, Refused, roomVars
  <2>4. \A r \in Peers : /\ peers'[r] \subseteq peers[r] \cup {q}
                        /\ pending'[r] \subseteq pending[r] \cup {q}
    <3>1. peers \in [Peers -> SUBSET Peers] /\ pending \in [Peers -> SUBSET Peers]
      BY DEF IndInv, TypeOK, RoomsTypeOK
    <3> QED
      BY <2>3, <3>1
  <2>5. \A r \in Peers : p \notin peers'[r] \cup pending'[r]
    BY <2>1, <2>4 DEF Gone, InRoom
  <2> QED
    BY <2>2, <2>5 DEF Gone, InRoom
<1>3. ASSUME NEW q \in Peers, JoinDecision(q)
      PROVE  Gone(p)'
  <2>1. session' = session
    BY <1>3 DEF JoinDecision
  <2> DEFINE guest == Head(decisions[q]).peer
  <2>2. /\ \/ pending' = pending
           \/ pending' = [pending EXCEPT ![room[q]] = @ \ {guest}]
        /\ \/ peers' = peers
           \/ guest \in pending[room[q]] /\ peers' = [peers EXCEPT ![room[q]] = @ \cup {guest}]
    BY <1>3 DEF JoinDecision, ApprovePeer, RejectPeer, roomVars
  <2> HIDE DEF guest
  <2>3. room[q] \in Peers
    BY <1>3 DEF JoinDecision, IndInv, Located
  <2>4. \A r \in Peers : /\ pending'[r] \subseteq pending[r]
                        /\ peers'[r] \subseteq peers[r] \cup pending[r]
    <3>1. peers \in [Peers -> SUBSET Peers] /\ pending \in [Peers -> SUBSET Peers]
      BY DEF IndInv, TypeOK, RoomsTypeOK
    <3> QED
      BY <2>2, <2>3, <3>1
  <2>5. \A r \in Peers : p \notin peers'[r] \cup pending'[r]
    BY <2>4 DEF Gone, InRoom
  <2> QED
    BY <2>1, <2>5 DEF Gone, InRoom
<1>4. ASSUME NEW q \in Peers, LeaveRoom(q) \/ Cleanup(q)
      PROVE  Gone(p)'
  <2>1. session'[p] \in {session[p], "leaving", "ended"}
    BY <1>4 DEF LeaveRoom, Cleanup, EndLoop, IndInv, TypeOK
  <2>2. LeavePeer(room[q], q)
    BY <1>4 DEF LeaveRoom, Cleanup, Depart
  <2>3. \A r \in Peers : /\ peers'[r] \subseteq peers[r]
                        /\ pending'[r] \subseteq pending[r]
    BY <2>2 DEF LeavePeer, IndInv, TypeOK, RoomsTypeOK
  <2>4. \A r \in Peers : p \notin peers'[r] \cup pending'[r]
    BY <2>3 DEF Gone, InRoom
  <2> QED
    BY <2>1, <2>4 DEF Gone, InRoom
<1>5. ASSUME NEW q \in Peers, Timeout(q) \/ Connected(q)
      PROVE  Gone(p)'
  <2>1. roomVars' = roomVars
    BY <1>5 DEF Timeout, Connected
  <2>2. session'[p] \notin {"none", "new"}
    <3>1. CASE Timeout(q)
      BY <3>1 DEF Timeout, Gone, IndInv, TypeOK
    <3>2. CASE Connected(q)
      BY <3>2 DEF Connected, Gone, IndInv, TypeOK, Located
    <3> QED
      BY <1>5, <3>1, <3>2
  <2> QED
    BY <2>1, <2>2 DEF Gone, InRoom, roomVars
<1> QED
  BY <1>1, <1>2, <1>3, <1>4, <1>5, OtherSteps DEF IndInv

LEMMA MailStaysTrue ==
    ASSUME IndInv, MailIsTrue, [Next]_vars,
           \A f \in Frame, x \in Peers :
               OnItsWay(f, x)' => OnItsWay(f, x) \/ StillTrue(f, x)'
    PROVE  MailIsTrue'
<1> SUFFICES ASSUME NEW f \in Frame, NEW x \in Peers, OnItsWay(f, x)'
             PROVE  StillTrue(f, x)'
  BY DEF MailIsTrue
<1>1. CASE OnItsWay(f, x)
  <2>1. StillTrue(f, x)
    BY <1>1 DEF MailIsTrue
  <2>2. f.type = "peer-left" => f.peer \in Peers
    BY DEF Frame, PeerFrame
  <2>3. \A p \in Peers : Gone(p) => Gone(p)'
    BY GoneForGood
  <2> QED
    BY <2>1, <2>2, <2>3 DEF StillTrue
<1> QED
  BY <1>1

\* What the sessions' steps that neither send nor read change.
LEMMA KeptMail ==
    ASSUME IndInv, MailInv, [Next]_vars, UNCHANGED <<sends, queue, known, peers>>,
           \A p \in Peers :
               /\ client'[p] = "starting" \/ session'[p] # "none"
                    => client[p] = "starting" \/ session[p] # "none"
               /\ session'[p] \in {"none", "new"} => session[p] \in {"none", "new"}
               /\ session'[p] = "open" /\ link'[p] => session[p] = "open" /\ link[p]
    PROVE  MailInv'
<1>1. \A f, x : OnItsWay(f, x)' <=> OnItsWay(f, x)
  BY DEF OnItsWay, Carries
<1>2. MailIsTrue'
  BY <1>1, MailStaysTrue DEF MailInv
<1>3. \A p, q : HearsOf(p, q)' <=> HearsOf(p, q)
  BY <1>1 DEF HearsOf, Introduces
<1>4. EverybodyIsHeardOf'
  <2>1. \A r \in Peers : peers[r] \subseteq Peers
    BY DEF IndInv, TypeOK, RoomsTypeOK
  <2> QED
    BY <1>3, <2>1 DEF MailInv, EverybodyIsHeardOf
<1>5. KnowsItself' /\ NewAreSilent'
  BY DEF MailInv, KnowsItself, NewAreSilent
<1> QED
  BY <1>2, <1>4, <1>5 DEF MailInv

\* A session greets the one it lets in, and tells those who are inside.
LEMMA Greeted ==
    ASSUME IndInv, MailInv, [Next]_vars,
           NEW p \in Peers, NEW r \in Peers, NEW guest \in Peers,
           sends[p] = <<>>, sends' = [sends EXCEPT ![p] = Welcome(guest, peers[r])],
           peers' = [peers EXCEPT ![r] = @ \cup {guest}],
           queue' = queue, known' = known, client' = client, link' = link,
           session'[p] \notin {"none", "new"},
           \A q \in Peers : \/ session'[q] = session[q]
                            \/ session[q] = "new" /\ session'[q] = "open"
    PROVE  MailInv'
<1>1. PICK inside \in SUBSET Peers : inside = peers[r]
  BY DEF IndInv, TypeOK, RoomsTypeOK
<1>2. ASSUME NEW f, NEW x \in Peers
      PROVE  OnItsWay(f, x)' <=> \/ OnItsWay(f, x)
                                 \/ f = Joined(guest, inside) /\ x = guest
                                 \/ f = Joined(guest, {}) /\ x \in inside
  <2>1. sends' = [sends EXCEPT ![p] = Welcome(guest, inside)]
    BY <1>1
  <2>2. OnItsWay(f, x)' <=> OnItsWay(f, x) \/ Carries(Welcome(guest, inside), f, x)
    BY <2>1, NewMail DEF IndInv
  <2> QED
    BY <2>2, WelcomeCarries
<1>3. MailIsTrue'
  <2>1. \A x : /\ StillTrue(Joined(guest, inside), guest)'
               /\ StillTrue(Joined(guest, {}), x)'
    BY DEF Joined, StillTrue
  <2>2. ASSUME NEW f \in Frame, NEW x \in Peers, OnItsWay(f, x)'
        PROVE  OnItsWay(f, x) \/ StillTrue(f, x)'
    BY <1>2, <2>1, <2>2
  <2> QED
    BY <2>2, MailStaysTrue DEF MailInv
<1>4. EverybodyIsHeardOf'
  <2> SUFFICES ASSUME NEW s \in Peers, NEW x \in peers'[s], NEW y \in peers'[s],
                      session'[x] = "open", link'[x]
               PROVE  HearsOf(x, y)'
    BY DEF EverybodyIsHeardOf
  <2>1. /\ x \in Peers /\ y \in Peers
        /\ s # r => x \in peers[s] /\ y \in peers[s]
        /\ s = r => x \in inside \cup {guest} /\ y \in inside \cup {guest}
    BY <1>1 DEF IndInv, TypeOK, RoomsTypeOK
  <2>2. Joined(guest, inside) \in Frame /\ Joined(guest, {}) \in Frame
    BY DEF Joined, Frame
  <2>3. CASE s = r /\ x = guest
    <3>1. OnItsWay(Joined(guest, inside), x)'
      BY <1>2, <2>3
    <3>2. Introduces(Joined(guest, inside), y)
      BY <2>1, <2>3 DEF Introduces, Joined
    <3> QED
      BY <2>2, <3>1, <3>2 DEF HearsOf, Introduces
  <2>4. CASE s = r /\ x \in inside /\ y = guest
    <3>1. OnItsWay(Joined(guest, {}), x)'
      BY <1>2, <2>1, <2>4
    <3>2. Introduces(Joined(guest, {}), y)
      BY <2>4 DEF Introduces, Joined
    <3> QED
      BY <2>2, <3>1, <3>2 DEF HearsOf, Introduces
  <2>5. CASE x \in peers[s] /\ y \in peers[s]
    <3>1. session[x] = "open"
      <4>1. session[x] \notin {"none", "new"}
        BY <2>1, <2>5 DEF IndInv, Places, RoomsFollowSessions
      <4> QED
        BY <2>1, <4>1
    <3>2. HearsOf(x, y)
      BY <2>5, <3>1 DEF MailInv, EverybodyIsHeardOf
    <3> QED
      BY <1>2, <2>1, <3>2 DEF HearsOf, Introduces
  <2> QED
    BY <1>1, <2>1, <2>3, <2>4, <2>5
<1>5. KnowsItself'
  BY DEF MailInv, KnowsItself
<1>6. NewAreSilent'
  BY DEF MailInv, NewAreSilent, IndInv, TypeOK
<1> QED
  BY <1>3, <1>4, <1>5, <1>6 DEF MailInv

\* A session sends a frame that says what is so, and lets nobody in.
LEMMA Noted ==
    ASSUME IndInv, MailInv, [Next]_vars,
           NEW p \in Peers, NEW note, NEW to,
           sends[p] = <<>>, sends' = [sends EXCEPT ![p] = Batch(note, to)],
           \A x \in to : StillTrue(note, x)',
           \A x \in Peers :
               /\ \A i \in DOMAIN queue'[x] : \E j \in DOMAIN queue[x] : queue'[x][i] = queue[x][j]
               /\ session'[x] = "open" => queue'[x] = queue[x],
           known' = known, client' = client, link' = link,
           \A r \in Peers : peers'[r] \subseteq peers[r],
           session'[p] \notin {"none", "new"},
           \A q \in Peers : \/ session'[q] = session[q]
                            \/ session[q] # "none" /\ session'[q] \in {"leaving", "ended"}
                            \/ session[q] = "new" /\ session'[q] = "open"
    PROVE  MailInv'
<1>1. \A q \in Peers : sends'[q] = IF q = p THEN Batch(note, to) ELSE sends[q]
  BY DEF IndInv, TypeOK
<1>2. \A f, x : ~Carries(sends[p], f, x)
  BY DEF Carries
<1>3. MailIsTrue'
  <2>1. ASSUME NEW f \in Frame, NEW x \in Peers, OnItsWay(f, x)'
        PROVE  OnItsWay(f, x) \/ StillTrue(f, x)'
    <3>1. CASE Carries(Batch(note, to), f, x)
      BY <3>1, BatchCarries
    <3>2. CASE \E i \in DOMAIN queue'[x] : queue'[x][i] = f
      BY <3>2 DEF OnItsWay
    <3>3. CASE \E q \in Peers \ {p} : Carries(sends[q], f, x)
      BY <3>3 DEF OnItsWay
    <3> QED
      BY <1>1, <2>1, <3>1, <3>2, <3>3 DEF OnItsWay
  <2> QED
    BY <2>1, MailStaysTrue DEF MailInv
<1>4. ASSUME NEW f, NEW x \in Peers, session'[x] = "open", OnItsWay(f, x)
      PROVE  OnItsWay(f, x)'
  BY <1>1, <1>2, <1>4 DEF OnItsWay
<1>5. EverybodyIsHeardOf'
  <2> SUFFICES ASSUME NEW s \in Peers, NEW x \in peers'[s], NEW y \in peers'[s],
                      session'[x] = "open", link'[x]
               PROVE  HearsOf(x, y)'
    BY DEF EverybodyIsHeardOf
  <2>1. x \in Peers /\ x \in peers[s] /\ y \in peers[s]
    BY DEF IndInv, TypeOK, RoomsTypeOK
  <2>2. session[x] = "open"
    <3>1. session[x] # "new"
      BY <2>1 DEF IndInv, Places, RoomsFollowSessions
    <3> QED
      BY <2>1, <3>1
  <2>3. HearsOf(x, y)
    BY <2>1, <2>2 DEF MailInv, EverybodyIsHeardOf
  <2> QED
    BY <1>4, <2>1, <2>3 DEF HearsOf, Introduces
<1>6. KnowsItself'
  BY DEF MailInv, KnowsItself
<1>7. NewAreSilent'
  BY <1>1 DEF MailInv, NewAreSilent
<1> QED
  BY <1>3, <1>5, <1>6, <1>7 DEF MailInv

LEMMA JoinMail ==
    ASSUME IndInv, MailInv, [Next]_vars, NEW p \in Peers, JoinRoom(p)
    PROVE  MailInv'
<1>1. /\ session[p] = "new" /\ sends[p] = <<>> /\ room[p] \in Peers
      /\ queue' = queue /\ known' = known /\ client' = client /\ link' = link
  BY DEF JoinRoom, linkVars, clientVars, MailInv, NewAreSilent, IndInv, Located
<1>2. session \in [Peers -> {"none", "new", "open", "leaving", "ended"}]
  BY DEF IndInv, TypeOK
<1>3. CASE Admitted(room[p], p)
  <2>1. peers' = [peers EXCEPT ![room[p]] = @ \cup {p}]
    BY <1>3 DEF Admitted
  <2>2. session' = [session EXCEPT ![p] = "open"]
    BY <1>3 DEF JoinRoom, Admitted, AwaitingApproval, Refused
  <2>3. sends' = [sends EXCEPT ![p] = Welcome(p, peers[room[p]])]
    BY <1>3 DEF JoinRoom, Admitted, AwaitingApproval, Refused
  <2>4. /\ session'[p] \notin {"none", "new"}
        /\ \A q \in Peers : \/ session'[q] = session[q]
                            \/ session[q] = "new" /\ session'[q] = "open"
    BY <1>1, <1>2, <2>2
  <2> QED
    BY <1>1, <2>1, <2>3, <2>4, Greeted
<1>4. CASE AwaitingApproval(room[p], p)
  <2>1. peers' = peers
    BY <1>4 DEF AwaitingApproval
  <2>2. session' = [session EXCEPT ![p] = "open"]
    BY <1>4 DEF JoinRoom, Admitted, AwaitingApproval, Refused
  <2>3. sends' = [sends EXCEPT ![p] =
                    Batch(About("join-requested", p), {host[room[p]]})]
    BY <1>4 DEF JoinRoom, Admitted, AwaitingApproval, Refused
  <2>4. \A x : StillTrue(About("join-requested", p), x)'
    BY DEF StillTrue, About
  <2>5. /\ session'[p] \notin {"none", "new"}
        /\ \A q \in Peers : \/ session'[q] = session[q]
                            \/ session[q] # "none" /\ session'[q] \in {"leaving", "ended"}
                            \/ session[q] = "new" /\ session'[q] = "open"
    BY <1>1, <1>2, <2>2
  <2>6. /\ \A x \in Peers :
             /\ \A i \in DOMAIN queue'[x] : \E j \in DOMAIN queue[x] : queue'[x][i] = queue[x][j]
             /\ session'[x] = "open" => queue'[x] = queue[x]
        /\ \A r \in Peers : peers'[r] \subseteq peers[r]
    BY <1>1, <2>1
  <2> QED
    BY <1>1, <2>3, <2>4, <2>5, <2>6, Noted
<1>5. CASE Refused(room[p], p)
  <2>1. peers' = peers
    BY <1>5 DEF Refused, roomVars
  <2>2. session' = [session EXCEPT ![p] = "leaving"] /\ sends' = sends
    BY <1>5 DEF JoinRoom, Admitted, AwaitingApproval, Refused
  <2> QED
    BY <1>1, <1>2, <2>1, <2>2, KeptMail
<1> QED
  BY <1>3, <1>4, <1>5 DEF JoinRoom

LEMMA DecisionMail ==
    ASSUME IndInv, MailInv, [Next]_vars, NEW p \in Peers, JoinDecision(p)
    PROVE  MailInv'
<1> DEFINE guest == Head(decisions[p]).peer
<1>1. /\ sends[p] = <<>> /\ session[p] = "open" /\ room[p] \in Peers
      /\ queue' = queue /\ known' = known /\ client' = client /\ link' = link
      /\ session' = session
  BY DEF JoinDecision, clientVars, IndInv, Located
<1>2. guest \in Peers
  <2>1. Head(decisions[p]) \in Decision
    BY DEF JoinDecision, IndInv, TypeOK
  <2> QED
    BY <2>1 DEF Decision
<1>3. \/ ApprovePeer(room[p], guest) /\ sends' = [sends EXCEPT ![p] = Welcome(guest, peers[room[p]])]
      \/ RejectPeer(room[p], guest)
           /\ sends' = [sends EXCEPT ![p] = Batch(About("join-rejected", guest), {guest})]
      \/ UNCHANGED <<roomVars, sends>>
  BY DEF JoinDecision
<1> HIDE DEF guest
<1>4. PICK g \in Peers : g = guest
  BY <1>2
<1>5. CASE /\ ApprovePeer(room[p], g)
           /\ sends' = [sends EXCEPT ![p] = Welcome(g, peers[room[p]])]
  <2>1. peers' = [peers EXCEPT ![room[p]] = @ \cup {g}]
    BY <1>5 DEF ApprovePeer
  <2> QED
    BY <1>1, <1>5, <2>1, Greeted
<1>6. CASE /\ RejectPeer(room[p], g)
           /\ sends' = [sends EXCEPT ![p] = Batch(About("join-rejected", g), {g})]
  <2>1. g \in pending[room[p]] /\ peers' = peers /\ pending' = [pending EXCEPT ![room[p]] = @ \ {g}]
    BY <1>6 DEF RejectPeer
  <2>2. /\ session[g] \in {"open", "leaving"} /\ room[g] = room[p]
        /\ \A r \in Peers : g \in peers[r] \cup pending[r] => r = room[p]
    BY <1>1, <2>1 DEF IndInv, Places, RoomsFollowSessions
  <2>3. g \notin peers[room[p]]
    BY <1>1, <2>1 DEF IndInv, RoomWithinCapacity
  <2>4. \A r \in Peers : g \notin peers'[r] \cup pending'[r]
    BY <1>1, <2>1, <2>2, <2>3 DEF IndInv, TypeOK, RoomsTypeOK
  <2>5. Gone(g)'
    BY <1>1, <2>2, <2>4 DEF Gone, InRoom
  <2>6. PICK note : note = About("join-rejected", g)
    OBVIOUS
  <2> DEFINE to == {g}
  <2>7. /\ \A x \in Peers :
             /\ \A i \in DOMAIN queue'[x] : \E j \in DOMAIN queue[x] : queue'[x][i] = queue[x][j]
             /\ session'[x] = "open" => queue'[x] = queue[x]
        /\ \A r \in Peers : peers'[r] \subseteq peers[r]
    BY <1>1, <2>1
  <2>8. /\ session'[p] \notin {"none", "new"}
        /\ \A q \in Peers : \/ session'[q] = session[q]
                            \/ session[q] # "none" /\ session'[q] \in {"leaving", "ended"}
                            \/ session[q] = "new" /\ session'[q] = "open"
    BY <1>1
  <2>9. /\ sends' = [sends EXCEPT ![p] = Batch(note, to)]
        /\ \A x \in to : StillTrue(note, x)'
    <3>1. ASSUME NEW x \in to
          PROVE  StillTrue(note, x)'
      <4>1. note.type = "join-rejected" /\ x = g
        BY <2>6 DEF About
      <4> QED
        BY <2>5, <4>1 DEF StillTrue
    <3>2. sends' = [sends EXCEPT ![p] = Batch(note, to)]
      BY <1>6, <2>6
    <3> QED
      BY <3>1, <3>2
  <2> HIDE DEF to
  <2> QED
    BY <1>1, <2>7, <2>8, <2>9, Noted
<1>7. CASE UNCHANGED <<roomVars, sends>>
  BY <1>1, <1>7, KeptMail DEF roomVars
<1> QED
  BY <1>3, <1>4, <1>5, <1>6, <1>7

LEMMA FirstFrames ==
    ASSUME NEW S, NEW s \in Seq(S), NEW n \in 0..Len(s)
    PROVE  \A i \in DOMAIN SubSeq(s, 1, n) : i \in DOMAIN s /\ SubSeq(s, 1, n)[i] = s[i]
<1>1. Len(s) \in Nat /\ DOMAIN s = 1..Len(s) /\ \A i \in 1..Len(s) : s[i] \in S
  BY LenProperties, ElementOfSeq
<1>2. n \in Nat /\ n <= Len(s)
  BY <1>1
<1>3. \A i \in 1..n : s[i] \in S
  BY <1>1, <1>2
<1>4. /\ SubSeq(s, 1, n) \in Seq(S)
      /\ Len(SubSeq(s, 1, n)) = IF 1 <= n THEN n - 1 + 1 ELSE 0
      /\ \A i \in 1..n - 1 + 1 : SubSeq(s, 1, n)[i] = s[1 + i - 1]
  BY <1>2, <1>3, SubSeqProperties
<1>5. DOMAIN SubSeq(s, 1, n) = 1..n
  BY <1>2, <1>4, LenProperties
<1> QED
  BY <1>1, <1>2, <1>4, <1>5

LEMMA AppendElements ==
    ASSUME NEW S, NEW s \in Seq(S), NEW e \in S, NEW t, t = Append(s, e)
    PROVE  /\ \A i \in DOMAIN t : (i \in DOMAIN s /\ t[i] = s[i]) \/ t[i] = e
           /\ \A i \in DOMAIN s : i \in DOMAIN t /\ t[i] = s[i]
           /\ \E i \in DOMAIN t : t[i] = e
<1>1. /\ Append(s, e) \in Seq(S) /\ Len(Append(s, e)) = Len(s) + 1
      /\ \A i \in 1..Len(s) : Append(s, e)[i] = s[i]
      /\ Append(s, e)[Len(s) + 1] = e
  BY AppendProperties
<1>2. /\ DOMAIN s = 1..Len(s) /\ Len(s) \in Nat
      /\ DOMAIN Append(s, e) = 1..Len(Append(s, e))
  BY <1>1, LenProperties
<1> QED
  BY <1>1, <1>2

LEMMA LeaveMail ==
    ASSUME IndInv, MailInv, [Next]_vars, NEW p \in Peers, LeaveRoom(p) \/ Cleanup(p)
    PROVE  MailInv'
<1>1. /\ sends[p] = <<>> /\ session[p] \in {"open", "leaving"} /\ room[p] \in Peers
      /\ known' = known /\ client' = client /\ link' = link
  BY DEF LeaveRoom, Cleanup, linkVars, clientVars, IndInv, Located
<1>2. LeavePeer(room[p], p)
  BY DEF LeaveRoom, Cleanup, Depart
<1>3. PICK to : to = peers'[room[p]]
  OBVIOUS
<1>4. PICK note : note = About("peer-left", p)
  OBVIOUS
<1>5. sends' = [sends EXCEPT ![p] = Batch(note, to)]
  BY <1>3, <1>4 DEF LeaveRoom, Cleanup, Depart
<1>6. \A q \in Peers : session'[q] = IF q # p THEN session[q]
                                     ELSE IF LeaveRoom(p) THEN "leaving" ELSE "ended"
  BY DEF LeaveRoom, Cleanup, EndLoop, IndInv, TypeOK
<1>7. \A x \in Peers :
        /\ \A i \in DOMAIN queue'[x] : \E j \in DOMAIN queue[x] : queue'[x][i] = queue[x][j]
        /\ session'[x] = "open" => queue'[x] = queue[x]
  <2>1. CASE Cleanup(p)
    BY <2>1 DEF Cleanup, linkVars
  <2>2. CASE LeaveRoom(p)
    <3>1. PICK n \in 0..Len(queue[p]) : queue' = [queue EXCEPT ![p] = SubSeq(@, 1, n)]
      BY <2>2 DEF LeaveRoom, EndLoop
    <3>2. queue[p] \in Seq(Frame)
      BY DEF IndInv, TypeOK
    <3>3. \A i \in DOMAIN SubSeq(queue[p], 1, n) :
            i \in DOMAIN queue[p] /\ SubSeq(queue[p], 1, n)[i] = queue[p][i]
      BY <3>2, FirstFrames
    <3>4. \A x \in Peers : queue'[x] = IF x = p THEN SubSeq(queue[p], 1, n) ELSE queue[x]
      BY <3>1 DEF IndInv, TypeOK
    <3> QED
      BY <1>6, <2>2, <3>3, <3>4
  <2> QED
    BY <2>1, <2>2
<1>8. /\ \A r \in Peers : peers'[r] \subseteq peers[r] /\ pending'[r] \subseteq pending[r]
      /\ p \notin peers'[room[p]] /\ p \notin pending'[room[p]]
  BY <1>1, <1>2 DEF LeavePeer, IndInv, TypeOK, RoomsTypeOK
<1>9. Gone(p)'
  <2>1. \A r \in Peers : p \notin peers'[r] \cup pending'[r]
    BY <1>8 DEF IndInv, Places, RoomsFollowSessions
  <2> QED
    BY <1>6, <2>1 DEF Gone, InRoom
<1>10. \A x \in to : StillTrue(note, x)'
  <2>1. note.type = "peer-left" /\ note.peer = p
    BY <1>4 DEF About
  <2>2. p \notin to
    BY <1>3, <1>8
  <2> QED
    BY <1>9, <2>1, <2>2 DEF StillTrue
<1>11. /\ session'[p] \notin {"none", "new"}
       /\ \A q \in Peers : \/ session'[q] = session[q]
                           \/ session[q] # "none" /\ session'[q] \in {"leaving", "ended"}
                           \/ session[q] = "new" /\ session'[q] = "open"
  BY <1>1, <1>6
<1>12. \A r \in Peers : peers'[r] \subseteq peers[r]
  BY <1>8
<1> QED
  BY <1>1, <1>5, <1>7, <1>10, <1>11, <1>12, Noted

\* A frame moves from the session to the client, or is lost with a session
\* that has left its loop or a connection that is gone.
LEMMA SendMail ==
    ASSUME IndInv, MailInv, [Next]_vars, NEW p \in Peers, SendNext(p)
    PROVE  MailInv'
<1>1. PICK next : next = Head(sends[p])
  OBVIOUS
<1>2. PICK q \in next.to :
        /\ sends' = [sends EXCEPT ![p] = Batch(next.frame, next.to \ {q}) \o Tail(@)]
        /\ queue' = IF session[q] = "open" /\ link[q]
                    THEN [queue EXCEPT ![q] = Append(@, next.frame)]
                    ELSE queue
  BY <1>1 DEF SendNext
<1>3. /\ sends[p] # <<>> /\ sends[p] \in Seq(Send)
      /\ next.frame \in Frame /\ next.to \in SUBSET Peers /\ q \in Peers
      /\ Tail(sends[p]) \in Seq(Send)
  <2>1. sends[p] # <<>> /\ sends[p] \in Seq(Send)
    BY DEF SendNext, IndInv, TypeOK
  <2>2. next \in Send /\ Tail(sends[p]) \in Seq(Send)
    BY <1>1, <2>1, HeadTailProperties
  <2> QED
    BY <1>2, <2>1, <2>2 DEF Send
<1>4. /\ known' = known /\ client' = client /\ link' = link /\ session' = session
      /\ peers' = peers
  BY DEF SendNext, roomVars, clientVars
<1>5. \A s \in Peers : s # p => sends'[s] = sends[s]
  BY <1>2 DEF IndInv, TypeOK
<1>6. ASSUME NEW f, NEW x
      PROVE  /\ Carries(sends[p], f, x) <=>
                  (next.frame = f /\ x \in next.to) \/ Carries(Tail(sends[p]), f, x)
             /\ Carries(sends'[p], f, x) <=>
                  (next.frame = f /\ x \in next.to \ {q}) \/ Carries(Tail(sends[p]), f, x)
  <2> DEFINE rest == Batch(next.frame, next.to \ {q})
  <2>1. rest \in Seq(Send)
    BY <1>3, BatchType
  <2>2. sends'[p] = rest \o Tail(sends[p])
    BY <1>2 DEF IndInv, TypeOK
  <2>3. Carries(rest, f, x) <=> next.frame = f /\ x \in next.to \ {q}
    BY BatchCarries
  <2> HIDE DEF rest
  <2>4. Carries(rest \o Tail(sends[p]), f, x) <=>
          Carries(rest, f, x) \/ Carries(Tail(sends[p]), f, x)
    BY <1>3, <2>1, ConcatCarries
  <2> QED
    BY <1>1, <1>3, <2>2, <2>3, <2>4, TailCarries
<1>7. /\ \A x \in Peers : x # q => queue'[x] = queue[x]
      /\ ~(session[q] = "open" /\ link[q]) => queue'[q] = queue[q]
      /\ \A i \in DOMAIN queue'[q] :
           \/ i \in DOMAIN queue[q] /\ queue'[q][i] = queue[q][i]
           \/ queue'[q][i] = next.frame
      /\ session[q] = "open" /\ link[q] =>
           /\ \A i \in DOMAIN queue[q] : i \in DOMAIN queue'[q] /\ queue'[q][i] = queue[q][i]
           /\ \E i \in DOMAIN queue'[q] : queue'[q][i] = next.frame
  <2>1. queue \in [Peers -> Seq(Frame)] /\ queue[q] \in Seq(Frame)
    BY <1>3 DEF IndInv, TypeOK
  <2>2. CASE session[q] = "open" /\ link[q]
    <3>1. queue' = [queue EXCEPT ![q] = Append(queue[q], next.frame)]
      BY <1>2, <2>2
    <3>2. queue'[q] = Append(queue[q], next.frame)
      BY <1>3, <2>1, <3>1
    <3>3. \A x \in Peers : x # q => queue'[x] = queue[x]
      BY <2>1, <3>1
    <3>4. /\ \A i \in DOMAIN queue'[q] :
               \/ i \in DOMAIN queue[q] /\ queue'[q][i] = queue[q][i]
               \/ queue'[q][i] = next.frame
          /\ \A i \in DOMAIN queue[q] : i \in DOMAIN queue'[q] /\ queue'[q][i] = queue[q][i]
          /\ \E i \in DOMAIN queue'[q] : queue'[q][i] = next.frame
      <4>1. PICK s \in Seq(Frame) : s = queue[q]
        BY <2>1
      <4>2. PICK e \in Frame : e = next.frame
        BY <1>3
      <4>3. PICK t : t = queue'[q]
        OBVIOUS
      <4>4. t = Append(s, e)
        BY <3>2, <4>1, <4>2, <4>3
      <4>5. /\ \A i \in DOMAIN t : (i \in DOMAIN s /\ t[i] = s[i]) \/ t[i] = e
            /\ \A i \in DOMAIN s : i \in DOMAIN t /\ t[i] = s[i]
            /\ \E i \in DOMAIN t : t[i] = e
        BY <4>4, AppendElements
      <4> QED
        BY <4>1, <4>2, <4>3, <4>5
    <3> QED
      BY <2>2, <3>3, <3>4
  <2>3. CASE ~(session[q] = "open" /\ link[q])
    BY <1>2, <2>3
  <2> QED
    BY <2>2, <2>3
<1>8. ASSUME NEW f, NEW x \in Peers, OnItsWay(f, x)'
      PROVE  OnItsWay(f, x)
  <2>1. CASE \E s \in Peers : Carries(sends'[s], f, x)
    BY <1>5, <1>6, <2>1 DEF OnItsWay
  <2>2. CASE \E i \in DOMAIN queue'[x] : queue'[x][i] = f
    <3>1. CASE \E i \in DOMAIN queue[x] : queue[x][i] = f
      BY <3>1 DEF OnItsWay
    <3>2. CASE x = q /\ f = next.frame
      BY <1>2, <1>6, <3>2 DEF OnItsWay
    <3> QED
      BY <1>7, <2>2, <3>1, <3>2
  <2> QED
    BY <1>8, <2>1, <2>2 DEF OnItsWay
<1>9. ASSUME NEW f, NEW x \in Peers, session[x] = "open", link[x], OnItsWay(f, x)
      PROVE  OnItsWay(f, x)'
  <2>1. CASE \E i \in DOMAIN queue[x] : queue[x][i] = f
    <3>1. \E i \in DOMAIN queue'[x] : queue'[x][i] = f
      BY <1>7, <1>9, <2>1
    <3> QED
      BY <3>1 DEF OnItsWay
  <2>2. CASE \E s \in Peers : Carries(sends[s], f, x)
    <3>1. CASE \E s \in Peers : Carries(sends'[s], f, x)
      BY <3>1 DEF OnItsWay
    <3>2. CASE x = q /\ f = next.frame
      <4>1. \E i \in DOMAIN queue'[x] : queue'[x][i] = f
        BY <1>7, <1>9, <3>2
      <4> QED
        BY <4>1 DEF OnItsWay
    <3> QED
      BY <1>5, <1>6, <2>2, <3>1, <3>2
  <2> QED
    BY <1>9, <2>1, <2>2 DEF OnItsWay
<1>10. MailIsTrue'
  BY <1>8, MailStaysTrue DEF MailInv
<1>11. EverybodyIsHeardOf'
  <2>1. \A r \in Peers : peers[r] \subseteq Peers
    BY DEF IndInv, TypeOK, RoomsTypeOK
  <2> QED
    BY <1>4, <1>9, <2>1 DEF MailInv, EverybodyIsHeardOf, HearsOf, Introduces
<1>12. KnowsItself'
  BY <1>4 DEF MailInv, KnowsItself
<1>13. NewAreSilent'
  BY <1>3, <1>4, <1>5 DEF MailInv, NewAreSilent
<1> QED
  BY <1>10, <1>11, <1>12, <1>13 DEF MailInv

\* A client reads a frame: whom it introduces the client now knows, and who
\* left was no longer in the room.
LEMMA ReadMail ==
    ASSUME IndInv, MailInv, [Next]_vars, NEW p \in Peers, HandleFrame(p)
    PROVE  MailInv'
<1>1. PICK read \in Frame : read = Head(queue[p])
  <2>1. queue[p] # <<>> /\ queue[p] \in Seq(Frame)
    BY DEF HandleFrame, IndInv, TypeOK
  <2> QED
    BY <2>1, HeadTailProperties
<1>2. /\ queue[p] # <<>> /\ queue[p] \in Seq(Frame)
      /\ sends' = sends /\ session' = session /\ peers' = peers /\ link' = link
      /\ client' = client
  BY DEF HandleFrame, serverVars, roomVars, IndInv, TypeOK
<1>3. /\ queue'[p] = Tail(queue[p])
      /\ \A x \in Peers : x # p => queue'[x] = queue[x]
  BY DEF HandleFrame, IndInv, TypeOK
<1>4. /\ 1 \in DOMAIN queue[p] /\ queue[p][1] = read
      /\ \A i \in DOMAIN Tail(queue[p]) :
           i + 1 \in DOMAIN queue[p] /\ queue[p][i + 1] = Tail(queue[p])[i]
      /\ \A i \in DOMAIN queue[p] :
           i = 1 \/ (i - 1 \in DOMAIN Tail(queue[p]) /\ queue[p][i] = Tail(queue[p])[i - 1])
  BY <1>1, <1>2, HeadAndTail
<1>5. ASSUME NEW f, NEW x \in Peers, OnItsWay(f, x)'
      PROVE  OnItsWay(f, x)
  BY <1>2, <1>3, <1>4, <1>5 DEF OnItsWay, Carries
<1>6. ASSUME NEW f, NEW x \in Peers, OnItsWay(f, x)
      PROVE  OnItsWay(f, x)' \/ (x = p /\ f = read)
  <2>1. CASE \E s \in Peers : Carries(sends[s], f, x)
    BY <1>2, <2>1 DEF OnItsWay
  <2>2. CASE \E i \in DOMAIN queue[x] : queue[x][i] = f
    <3>1. \/ \E i \in DOMAIN queue'[x] : queue'[x][i] = f
          \/ x = p /\ f = read
      <4>1. PICK i \in DOMAIN queue[x] : queue[x][i] = f
        BY <2>2
      <4>2. CASE x # p
        BY <1>3, <4>1, <4>2
      <4>3. CASE x = p /\ i = 1
        BY <1>4, <4>1, <4>3
      <4>4. CASE x = p /\ i - 1 \in DOMAIN queue'[p] /\ queue[p][i] = queue'[p][i - 1]
        BY <4>1, <4>4
      <4> QED
        BY <1>3, <1>4, <4>1, <4>2, <4>3, <4>4
    <3> QED
      BY <3>1 DEF OnItsWay
  <2> QED
    BY <1>6, <2>1, <2>2 DEF OnItsWay
<1>7. OnItsWay(read, p) /\ StillTrue(read, p)
  <2>1. OnItsWay(read, p)
    BY <1>4 DEF OnItsWay
  <2> QED
    BY <1>1, <2>1 DEF MailInv, MailIsTrue
<1>8. /\ \A x \in Peers : x # p => known'[x] = known[x]
      /\ known'[p] = IF read.type \in {"peer-joined", "peer-left"}
                     THEN Participants(p, read) ELSE known[p]
  <2>1. CASE read.type \in {"peer-joined", "peer-left"}
    <3>1. UpdateParticipants(p, read)
      BY <1>1, <2>1 DEF HandleFrame
    <3> QED
      BY <2>1, <3>1 DEF UpdateParticipants, IndInv, TypeOK
  <2>2. CASE read.type \notin {"peer-joined", "peer-left"}
    BY <1>1, <2>2 DEF HandleFrame
  <2> QED
    BY <2>1, <2>2
<1>9. \A y \in Peers :
        /\ y \in known[p] => y \in known'[p] \/ (read.type = "peer-left" /\ read.peer = y)
        /\ Introduces(read, y) => y \in known'[p] \/ (read.existing # {} /\ read.peer = y)
  BY <1>8 DEF Participants, Introduces
<1>10. MailIsTrue'
  BY <1>5, MailStaysTrue DEF MailInv
<1>11. KnowsItself'
  <2>1. p \in known[p] => p \in known'[p]
    BY <1>7, <1>9 DEF StillTrue
  <2> QED
    BY <1>2, <1>8, <2>1 DEF MailInv, KnowsItself
<1>12. NewAreSilent'
  BY <1>2 DEF MailInv, NewAreSilent
<1>13. EverybodyIsHeardOf'
  <2> SUFFICES ASSUME NEW r \in Peers, NEW x \in peers'[r], NEW y \in peers'[r],
                      session'[x] = "open", link'[x]
               PROVE  HearsOf(x, y)'
    BY DEF EverybodyIsHeardOf
  <2>1. /\ x \in Peers /\ y \in Peers /\ x \in peers[r] /\ y \in peers[r]
        /\ session[x] = "open" /\ HearsOf(x, y)
    BY <1>2 DEF IndInv, TypeOK, RoomsTypeOK, MailInv, EverybodyIsHeardOf
  <2>2. CASE x # p
    BY <1>6, <1>8, <2>1, <2>2 DEF HearsOf, Introduces
  <2>3. CASE x = p
    <3>1. ~Gone(y)
      BY <2>1 DEF Gone, InRoom
    <3>2. read.type = "peer-left" => read.peer # y
      BY <1>7, <3>1 DEF StillTrue
    <3>3. p \in known[p] /\ p \in known'[p]
      BY <1>2, <1>11, <2>1, <2>3 DEF MailInv, KnowsItself
    <3>4. CASE y \in known[p]
      BY <1>9, <2>1, <2>3, <3>2, <3>4 DEF HearsOf
    <3>5. CASE \E f \in Frame : OnItsWay(f, p) /\ Introduces(f, y)
      <4>1. PICK f \in Frame : OnItsWay(f, p) /\ Introduces(f, y)
        BY <3>5
      <4>2. CASE OnItsWay(f, p)'
        BY <2>3, <4>1, <4>2 DEF HearsOf, Introduces
      <4>3. CASE f = read
        <5>1. read.type = "peer-joined" /\ (read.existing # {} => read.peer = p)
          BY <1>7, <4>1, <4>3 DEF Introduces, StillTrue
        <5>2. y \in known'[p]
          BY <1>9, <2>1, <3>3, <4>1, <4>3, <5>1
        <5> QED
          BY <2>3, <5>2 DEF HearsOf
      <4> QED
        BY <1>6, <4>1, <4>2, <4>3
    <3> QED
      BY <2>1, <2>3, <3>4, <3>5 DEF HearsOf
  <2> QED
    BY <2>2, <2>3
<1> QED
  BY <1>10, <1>11, <1>12, <1>13 DEF MailInv

\* A meeting that begins has no session yet, and knows itself.
LEMMA CommandMail ==
    ASSUME IndInv, MailInv, [Next]_vars,
           NEW p \in Peers, NEW r, NEW advert, Command(p, r, advert)
    PROVE  MailInv'
<1>1. /\ sends' = sends /\ queue' = queue /\ session' = session /\ peers' = peers
      /\ link' = link
      /\ known' = [known EXCEPT ![p] = {p}]
      /\ \A q \in Peers : q # p /\ client'[q] = "starting" => client[q] = "starting"
      /\ session[p] = "none"
  BY DEF Command, serverVars, linkVars, roomVars, IndInv, Located
<1>2. \A q \in Peers : known'[q] = IF q = p THEN {p} ELSE known[q]
  BY <1>1 DEF IndInv, TypeOK
<1>3. \A f, x : OnItsWay(f, x)' <=> OnItsWay(f, x)
  BY <1>1 DEF OnItsWay, Carries
<1>4. MailIsTrue'
  BY <1>3, MailStaysTrue DEF MailInv
<1>5. KnowsItself' /\ NewAreSilent'
  BY <1>1, <1>2 DEF MailInv, KnowsItself, NewAreSilent
<1>6. EverybodyIsHeardOf'
  <2>1. \A s \in Peers : peers[s] \subseteq Peers
    BY DEF IndInv, TypeOK, RoomsTypeOK
  <2> QED
    BY <1>1, <1>2, <1>3, <2>1 DEF MailInv, EverybodyIsHeardOf, HearsOf, Introduces
<1> QED
  BY <1>4, <1>5, <1>6 DEF MailInv

LEMMA LossMail ==
    ASSUME IndInv, MailInv, [Next]_vars, NEW p \in Peers, LoseConnection(p)
    PROVE  MailInv'
<1>1. /\ sends' = sends /\ session' = session /\ peers' = peers
      /\ known' = known /\ client' = client
      /\ \A x \in Peers : /\ queue'[x] = IF x = p THEN <<>> ELSE queue[x]
                          /\ link'[x] => x # p /\ link[x]
  BY DEF LoseConnection, serverVars, roomVars, clientVars, IndInv, TypeOK
<1>2. \A f : \A x \in Peers : /\ OnItsWay(f, x)' => OnItsWay(f, x)
                              /\ link'[x] /\ OnItsWay(f, x) => OnItsWay(f, x)'
  BY <1>1 DEF OnItsWay, Carries
<1>3. MailIsTrue'
  BY <1>2, MailStaysTrue DEF MailInv
<1>4. KnowsItself' /\ NewAreSilent'
  BY <1>1 DEF MailInv, KnowsItself, NewAreSilent
<1>5. EverybodyIsHeardOf'
  <2>1. \A s \in Peers : peers[s] \subseteq Peers
    BY DEF IndInv, TypeOK, RoomsTypeOK
  <2> QED
    BY <1>1, <1>2, <2>1 DEF MailInv, EverybodyIsHeardOf, HearsOf, Introduces
<1> QED
  BY <1>3, <1>4, <1>5 DEF MailInv

LEMMA MailStep ==
    ASSUME IndInv, MailInv, [Next]_vars
    PROVE  MailInv'
<1>1. ASSUME NEW p \in Peers, Session(p)
      PROVE  MailInv'
  <2>1. ASSUME Timeout(p)
        PROVE  MailInv'
    <3>1. /\ sends' = sends /\ queue' = queue /\ known' = known /\ peers' = peers
          /\ client' = client /\ link' = link /\ session[p] \in {"new", "open"}
          /\ \A q \in Peers : /\ q # p => session'[q] = session[q]
                              /\ session'[p] \in {"leaving", "ended"}
      BY <2>1 DEF Timeout, linkVars, clientVars, roomVars, IndInv, TypeOK
    <3> QED
      BY <3>1, KeptMail
  <2> QED
    BY <1>1, <2>1, JoinMail, SendMail, DecisionMail, LeaveMail DEF Session
<1>2. ASSUME NEW p \in Peers, User(p)
      PROVE  MailInv'
  BY <1>2, CommandMail DEF User, CreateMeeting, JoinMeeting
<1>3. ASSUME NEW p \in Peers, Connected(p)
      PROVE  MailInv'
  <2>1. /\ sends' = sends /\ queue' = queue /\ known' = known /\ peers' = peers
        /\ link' = link /\ client[p] = "starting" /\ session[p] = "none"
        /\ \A q \in Peers : /\ q # p => session'[q] = session[q] /\ client'[q] = client[q]
                            /\ session'[p] = "new"
    BY <1>3 DEF Connected, linkVars, roomVars, IndInv, TypeOK, Located
  <2> QED
    BY <2>1, KeptMail
<1>4. ASSUME NEW m \in Machines, LeaveMeeting(m)
      PROVE  MailInv'
  <2>1. /\ sends' = sends /\ queue' = queue /\ known' = known /\ peers' = peers
        /\ link' = link /\ session' = session
        /\ \A q \in Peers : client'[q] \in {client[q], "left"}
    BY <1>4 DEF LeaveMeeting, serverVars, linkVars, roomVars, IndInv, TypeOK
  <2> QED
    BY <2>1, KeptMail
<1>5. ASSUME (\E m \in Machines : AnswerKnock(m)) \/ UNCHANGED vars
      PROVE  MailInv'
  <2>1. /\ sends' = sends /\ queue' = queue /\ known' = known /\ peers' = peers
        /\ link' = link /\ session' = session /\ client' = client
    BY <1>5 DEF AnswerKnock, vars, serverVars, linkVars, roomVars, clientVars
  <2> QED
    BY <2>1, KeptMail
<1> QED
  BY <1>1, <1>2, <1>3, <1>4, <1>5, ReadMail, LossMail DEF Next
-----------------------------------------------------------------------------
\* The theorems.

\* IndInv holds in the initial state and no step breaks it.
THEOREM Invariance == Spec => []IndInv
<1>1. Init => IndInv
  BY InitType, InitPlaces DEF IndInv
<1>2. IndInv /\ [Next]_vars => IndInv'
  BY TypeStep, LocatedStep, PlacesStep, CapacityStep DEF IndInv
<1> QED
  BY <1>1, <1>2, PTL DEF Spec

\* Every variable keeps its type, the counts in the advertisements included.
THEOREM TypeCorrect == Spec => []TypeOK
<1>1. IndInv => TypeOK
  BY DEF IndInv
<1> QED
  BY <1>1, Invariance, PTL

\* Whoever is in a room or at its door has a session that asked for that room
\* and has not ended, whatever connections do and whenever the host admits.
THEOREM RoomsSound == Spec => []RoomsFollowSessions
<1>1. IndInv => RoomsFollowSessions
  BY DEF IndInv, Places
<1> QED
  BY <1>1, Invariance, PTL

\* A room and its door hold at most Capacity people, for every Capacity.
THEOREM CapacityKept == Spec => []RoomWithinCapacity
<1>1. IndInv => RoomWithinCapacity
  BY DEF IndInv
<1> QED
  BY <1>1, Invariance, PTL

\* No guest waits at a room nobody is in.
THEOREM DoorsAreAttended == Spec => []NobodyWaitsAtAnEmptyRoom
<1>1. IndInv => NobodyWaitsAtAnEmptyRoom
  BY DEF IndInv, Places
<1> QED
  BY <1>1, Invariance, PTL

\* Nobody enters a room but by opening it or by the word of a host who is
\* inside.
THEOREM Admission == Spec => AdmittedByHost
<1>1. IndInv /\ [Next]_vars => [\A r, p \in Peers : LetInByHost(r, p)]_vars
  BY AdmissionStep
<1> QED
  BY <1>1, Invariance, PTL DEF Spec, AdmittedByHost, LetInByHost

\* What is on its way to the clients is true and complete, in every state.
THEOREM MailInvariance == Spec => [](IndInv /\ MailInv)
<1>1. Init => MailInv
  <2> SUFFICES ASSUME Init PROVE MailInv
    OBVIOUS
  <2>1. \A q : q = <<>> => DOMAIN q = {}
    OBVIOUS
  <2>2. \A p \in Peers : queue[p] = <<>> /\ sends[p] = <<>> /\ peers[p] = {}
    BY DEF Init, RoomsInit
  <2>3. \A f : \A p \in Peers : ~OnItsWay(f, p)
    BY <2>1, <2>2 DEF OnItsWay, Carries
  <2>4. MailIsTrue /\ EverybodyIsHeardOf
    BY <2>2, <2>3 DEF MailIsTrue, EverybodyIsHeardOf
  <2>5. KnowsItself /\ NewAreSilent
    BY <2>2 DEF Init, KnowsItself, NewAreSilent
  <2> QED
    BY <2>4, <2>5 DEF MailInv
<1>2. IndInv /\ MailInv /\ [Next]_vars => MailInv'
  BY MailStep
<1> QED
  BY <1>1, <1>2, Invariance, PTL DEF Spec

\* A frame is coming to p where p's queue or a session's sends hold it.
LEMMA ComingFrames ==
    ASSUME TypeOK, NEW p \in Peers
    PROVE  \A f : f \in Coming(p) <=> f \in Frame /\ OnItsWay(f, p)
<1>1. \A f : f \in Coming(p) <=> OnItsWay(f, p)
  BY DEF Coming, Queued, SentTo, OnItsWay, Carries
<1>2. ASSUME NEW f, OnItsWay(f, p)
      PROVE  f \in Frame
  <2>1. CASE \E i \in DOMAIN queue[p] : queue[p][i] = f
    <3>1. queue[p] \in Seq(Frame)
      BY DEF TypeOK
    <3> QED
      BY <2>1, <3>1, LenProperties, ElementOfSeq
  <2>2. CASE \E q \in Peers : Carries(sends[q], f, p)
    <3>1. PICK q \in Peers : \E i \in DOMAIN sends[q] : sends[q][i].frame = f
      BY <2>2 DEF Carries
    <3>2. sends[q] \in Seq(Send)
      BY DEF TypeOK
    <3>3. \A i \in DOMAIN sends[q] : sends[q][i] \in Send
      BY <3>2, LenProperties, ElementOfSeq
    <3> QED
      BY <3>1, <3>3 DEF Send
  <2> QED
    BY <1>2, <2>1, <2>2 DEF OnItsWay
<1> QED
  BY <1>1, <1>2

\* Whoever is in a room knows of everybody else there, or a frame that says so
\* is on its way, however joins, departures and sends interleave.
THEOREM NobodyMissed == Spec => []NobodyIsMissing
<1>1. IndInv /\ MailInv => NobodyIsMissing
  <2> SUFFICES ASSUME IndInv, MailInv, NEW r \in Peers, NEW p \in peers[r], NEW q \in peers[r],
                      session[p] = "open", link[p]
               PROVE  q \in known[p] \/ \E f \in Coming(p) : Introduces(f, q)
    BY DEF NobodyIsMissing
  <2>1. p \in Peers /\ TypeOK
    BY DEF IndInv, TypeOK, RoomsTypeOK
  <2>2. HearsOf(p, q)
    BY DEF MailInv, EverybodyIsHeardOf
  <2> QED
    BY <2>1, <2>2, ComingFrames DEF HearsOf
<1> QED
  BY <1>1, MailInvariance, PTL

\* A guest that was turned away gets into no room: nobody admits it later, and
\* its session joins no other.
THEOREM RejectionsHold == Spec => []RejectedStayOut
<1>1. IndInv /\ MailInv => RejectedStayOut
  <2> SUFFICES ASSUME IndInv, MailInv, NEW p \in Peers,
                      NEW f \in Coming(p), f.type = "join-rejected"
               PROVE  ~InRoom(p)
    BY DEF RejectedStayOut
  <2>1. f \in Frame /\ OnItsWay(f, p)
    BY ComingFrames DEF IndInv
  <2> QED
    BY <2>1 DEF MailInv, MailIsTrue, StillTrue, Gone
<1> QED
  BY <1>1, MailInvariance, PTL

-----------------------------------------------------------------------------
\* Meeting implements MeetingDoor.

\* What the refinement needs besides: a meeting has no room before its command,
\* and an empty room no host.
DoorInv ==
    /\ \A p \in Peers : client[p] = "idle" => room[p] = NoPeer
    /\ \A r \in Peers : peers[r] = {} => host[r] = NoPeer

\* The places of the refinement mapping.
Seats == [p \in Peers |-> Place(p)]

doorVars == <<room, Seats, host>>

\* Where everybody is, in the terms of the rooms and of the sessions.
PlaceTable ==
    /\ \A p \in Peers :
         Seats[p] = IF \E r \in Peers : p \in peers[r] THEN "inside"
                    ELSE IF \E r \in Peers : p \in pending[r] THEN "waiting"
                    ELSE IF session[p] \in {"none", "new"} THEN "away" ELSE "gone"
    /\ \A p, r \in Peers :
         /\ p \in peers[r] \cup pending[r] =>
                room[p] = r /\ session[p] \in {"open", "leaving"}
         /\ ~(p \in peers[r] /\ p \in pending[r])
    /\ RoomsTypeOK /\ session \in [Peers -> {"none", "new", "open", "leaving", "ended"}]
    /\ \A p \in Peers : session[p] # "none" => room[p] \in Peers

LEMMA PlacesAreListed == IndInv => PlaceTable
<1> SUFFICES ASSUME IndInv PROVE PlaceTable
  OBVIOUS
<1>1. \A p, r \in Peers :
        /\ p \in peers[r] \cup pending[r] => room[p] = r /\ session[p] \in {"open", "leaving"}
        /\ ~(p \in peers[r] /\ p \in pending[r])
  BY DEF IndInv, Places, RoomsFollowSessions, RoomWithinCapacity
<1>2. ASSUME NEW p \in Peers
      PROVE  Place(p) = IF \E r \in Peers : p \in peers[r] THEN "inside"
                        ELSE IF \E r \in Peers : p \in pending[r] THEN "waiting"
                        ELSE IF session[p] \in {"none", "new"} THEN "away" ELSE "gone"
  <2>1. CASE \E r \in Peers : p \in peers[r]
    <3>1. PICK r \in Peers : p \in peers[r]
      BY <2>1
    <3>2. room[p] = r /\ r # NoPeer /\ p \notin pending[r] /\ InRoom(p)
      BY <1>1, <3>1, PeersAreFinite DEF InRoom
    <3> QED  BY <3>1, <3>2 DEF Place
  <2>2. CASE ~(\E r \in Peers : p \in peers[r]) /\ \E r \in Peers : p \in pending[r]
    <3>1. PICK r \in Peers : p \in pending[r] /\ p \notin peers[r]
      BY <2>2
    <3>2. room[p] = r /\ r # NoPeer /\ InRoom(p)
      BY <1>1, <3>1, PeersAreFinite DEF InRoom
    <3> QED  BY <2>2, <3>1, <3>2 DEF Place
  <2>3. CASE ~(\E r \in Peers : p \in peers[r]) /\ ~(\E r \in Peers : p \in pending[r])
    <3>1. ~InRoom(p)
      BY <2>3 DEF InRoom
    <3>2. room[p] # NoPeer => room[p] \in Peers
      BY DEF IndInv, TypeOK
    <3>3. ~(room[p] # NoPeer /\ p \in peers[room[p]]) /\ ~(room[p] # NoPeer /\ p \in pending[room[p]])
      BY <2>3, <3>2
    <3> QED  BY <2>3, <3>1, <3>3 DEF Place
  <2> QED  BY <2>1, <2>2, <2>3
<1> QED  BY <1>1, <1>2 DEF PlaceTable, Seats, IndInv, TypeOK, Located

\* Who is inside and who waits, as MeetingDoor counts them.
LEMMA SeatsAreRooms ==
    ASSUME PlaceTable, NEW r \in Peers
    PROVE  Door!Inside(r) = peers[r] /\ Door!Waiting(r) = pending[r]
<1>1. \A p \in Peers : Seats[p] = Place(p)
  BY DEF Seats
<1>2. peers[r] \subseteq Peers /\ pending[r] \subseteq Peers
  BY DEF PlaceTable, RoomsTypeOK
<1>3. \A p \in Peers : p \in peers[r] <=> room[p] = r /\ Seats[p] = "inside"
  BY DEF PlaceTable
<1>4. \A p \in Peers : p \in pending[r] <=> room[p] = r /\ Seats[p] = "waiting"
  BY DEF PlaceTable
<1>5. /\ Door!Inside(r) = {p \in Peers : room[p] = r /\ Seats[p] = "inside"}
      /\ Door!Waiting(r) = {p \in Peers : room[p] = r /\ Seats[p] = "waiting"}
  BY DEF Door!Inside, Door!Waiting, Door!At, Seats
<1> QED  BY <1>2, <1>3, <1>4, <1>5

\* Steps that move nobody.
LEMMA NobodyMoves ==
    ASSUME PlaceTable, PlaceTable', UNCHANGED <<roomVars, room>>,
           \A p \in Peers : session'[p] \in {"none", "new"} <=> session[p] \in {"none", "new"}
    PROVE  UNCHANGED doorVars
<1>1. peers' = peers /\ pending' = pending /\ host' = host /\ room' = room
  BY DEF roomVars
<1>2. \A p \in Peers : Seats'[p] = Seats[p]
  BY <1>1 DEF PlaceTable
<1>3. Seats' = Seats
  BY <1>2 DEF Seats
<1> QED  BY <1>1, <1>3 DEF doorVars

\* Steps that move those of P to one place.
LEMMA SomeMove ==
    ASSUME NEW P, NEW where, \A q \in Peers : Seats'[q] = IF q \in P THEN where ELSE Seats[q]
    PROVE  Door!Moves(P, where)
<1>1. Seats' = [q \in Peers |-> IF q \in P THEN where ELSE Seats[q]]
  BY DEF Seats
<1>2. \A q \in Peers : Seats[q] = Place(q)
  BY DEF Seats
<1> QED  BY <1>1, <1>2 DEF Door!Moves, Seats

\* What the operations of a room do to the table of all rooms.
LEMMA RoomsMoveOn ==
    ASSUME RoomsTypeOK, NEW r \in Peers, NEW p
    PROVE  /\ Admitted(r, p) \/ ApprovePeer(r, p) =>
                \A x \in Peers : peers'[x] = IF x = r THEN peers[x] \cup {p} ELSE peers[x]
           /\ AwaitingApproval(r, p) =>
                \A x \in Peers : pending'[x] = IF x = r THEN pending[x] \cup {p} ELSE pending[x]
           /\ ApprovePeer(r, p) \/ RejectPeer(r, p) =>
                \A x \in Peers : pending'[x] = IF x = r THEN pending[x] \ {p} ELSE pending[x]
<1>1. /\ peers \in [Peers -> SUBSET Peers] /\ pending \in [Peers -> SUBSET Peers]
  BY DEF RoomsTypeOK
<1>2. ASSUME Admitted(r, p) \/ ApprovePeer(r, p)
      PROVE  \A x \in Peers : peers'[x] = IF x = r THEN peers[x] \cup {p} ELSE peers[x]
  <2>1. peers' = [peers EXCEPT ![r] = peers[r] \cup {p}]
    BY <1>2 DEF Admitted, ApprovePeer
  <2> QED  BY <1>1, <2>1
<1>3. ASSUME AwaitingApproval(r, p)
      PROVE  \A x \in Peers : pending'[x] = IF x = r THEN pending[x] \cup {p} ELSE pending[x]
  <2>1. pending' = [pending EXCEPT ![r] = pending[r] \cup {p}]
    BY <1>3 DEF AwaitingApproval
  <2> QED  BY <1>1, <2>1
<1>4. ASSUME ApprovePeer(r, p) \/ RejectPeer(r, p)
      PROVE  \A x \in Peers : pending'[x] = IF x = r THEN pending[x] \ {p} ELSE pending[x]
  <2>1. pending' = [pending EXCEPT ![r] = pending[r] \ {p}]
    BY <1>4 DEF ApprovePeer, RejectPeer
  <2> QED  BY <1>1, <2>1
<1> QED  BY <1>2, <1>3, <1>4

LEMMA RoomsAfterLeave ==
    ASSUME RoomsTypeOK, NEW r \in Peers, NEW p, LeavePeer(r, p)
    PROVE  /\ \A x \in Peers : peers'[x] = IF x = r THEN peers[r] \ {p} ELSE peers[x]
           /\ \A x \in Peers : pending'[x] =
                IF x = r THEN (IF peers[r] \ {p} = {} THEN {} ELSE pending[x] \ {p})
                         ELSE pending[x]
           /\ host' = IF peers[r] \ {p} = {} THEN [host EXCEPT ![r] = NoPeer] ELSE host
<1>1. /\ peers \in [Peers -> SUBSET Peers] /\ pending \in [Peers -> SUBSET Peers]
  BY DEF RoomsTypeOK
<1>2. PICK left : left = peers[r] \ {p}
  OBVIOUS
<1>3. peers' = [peers EXCEPT ![r] = left]
  BY <1>2 DEF LeavePeer
<1>4. pending' = [pending EXCEPT ![r] = IF left = {} THEN {} ELSE pending[r] \ {p}]
  BY <1>2 DEF LeavePeer
<1>5. host' = IF left = {} THEN [host EXCEPT ![r] = NoPeer] ELSE host
  BY <1>2 DEF LeavePeer
<1>6. \A x \in Peers : peers'[x] = IF x = r THEN left ELSE peers[x]
  BY <1>1, <1>3
<1>7. \A x \in Peers : pending'[x] =
         IF x = r THEN (IF left = {} THEN {} ELSE pending[x] \ {p}) ELSE pending[x]
  BY <1>1, <1>4
<1> QED  BY <1>2, <1>5, <1>6, <1>7

\* The first in opens the room, a later one knocks or goes away.
LEMMA JoinDoor ==
    ASSUME IndInv, PlaceTable, PlaceTable', NEW p \in Peers, JoinRoom(p)
    PROVE  Door!OpenRoom(p) \/ Door!Knock(p) \/ Door!GiveUp(p)
<1> DEFINE r == room[p]
<1>0. RoomsTypeOK
  BY DEF PlaceTable
<1>1. r \in Peers /\ r # NoPeer /\ session[p] = "new" /\ room' = room
  BY PeersAreFinite DEF JoinRoom, IndInv, Located, clientVars
<1>2. /\ \A x \in Peers : p \notin peers[x] /\ p \notin pending[x]
      /\ \A x \in Peers : host[x] # p
  BY <1>1, Newcomer DEF IndInv
<1>3. Door!Inside(r) = peers[r] /\ Door!Waiting(r) = pending[r]
  BY <1>1, SeatsAreRooms
<1>4. Seats[p] = "away" /\ Place(p) = "away"
  BY <1>1, <1>2 DEF PlaceTable, Seats
<1>5. Door!OnTheWay(p)
  BY <1>1, <1>4 DEF Door!OnTheWay
<1>6. \A q \in Peers \ {p} : session'[q] = session[q]
  BY DEF JoinRoom, PlaceTable
<1> HIDE DEF r
<1>7. ASSUME Admitted(r, p)
      PROVE  Door!OpenRoom(p)
  <2>1. peers[r] = {} /\ host' = [host EXCEPT ![r] = p] /\ pending' = pending
    BY <1>1, <1>2, <1>7 DEF Admitted, IsHost
  <2>2. \A x \in Peers : peers'[x] = IF x = r THEN peers[x] \cup {p} ELSE peers[x]
    BY <1>0, <1>1, <1>7, RoomsMoveOn
  <2>3. \A q \in Peers : Seats'[q] = IF q \in {p} THEN "inside" ELSE Seats[q]
    <3> SUFFICES ASSUME NEW q \in Peers PROVE Seats'[q] = IF q = p THEN "inside" ELSE Seats[q]
      OBVIOUS
    <3>1. CASE q = p
      <4>1. \E x \in Peers : q \in peers'[x]
        BY <1>1, <2>2, <3>1
      <4> QED  BY <3>1, <4>1 DEF PlaceTable
    <3>2. CASE q # p
      <4>1. \A x \in Peers : q \in peers'[x] <=> q \in peers[x]
        BY <2>2, <3>2
      <4> QED  BY <1>6, <2>1, <3>2, <4>1 DEF PlaceTable
    <3> QED  BY <3>1, <3>2
  <2>4. Door!Moves({p}, "inside")
    BY <2>3, SomeMove
  <2> QED  BY <1>1, <1>3, <1>5, <2>1, <2>4 DEF Door!OpenRoom, r
<1>8. ASSUME AwaitingApproval(r, p)
      PROVE  Door!Knock(p)
  <2>1. host[r] \in peers[r] /\ host' = host /\ peers' = peers /\ ~Full(r)
    BY <1>8 DEF AwaitingApproval
  <2>2. \A x \in Peers : pending'[x] = IF x = r THEN pending[x] \cup {p} ELSE pending[x]
    BY <1>0, <1>1, <1>8, RoomsMoveOn
  <2>3. \A q \in Peers : Seats'[q] = IF q \in {p} THEN "waiting" ELSE Seats[q]
    <3> SUFFICES ASSUME NEW q \in Peers PROVE Seats'[q] = IF q = p THEN "waiting" ELSE Seats[q]
      OBVIOUS
    <3>1. CASE q = p
      <4>1. (\E x \in Peers : q \in pending'[x]) /\ ~(\E x \in Peers : q \in peers'[x])
        BY <1>1, <1>2, <2>1, <2>2, <3>1
      <4> QED  BY <3>1, <4>1 DEF PlaceTable
    <3>2. CASE q # p
      <4>1. \A x \in Peers : q \in pending'[x] <=> q \in pending[x]
        BY <2>2, <3>2
      <4> QED  BY <1>6, <2>1, <3>2, <4>1 DEF PlaceTable
    <3> QED  BY <3>1, <3>2
  <2>4. Door!Moves({p}, "waiting")
    BY <2>3, SomeMove
  <2>5. Cardinality(peers[r] \cup pending[r]) < Capacity
    <3>1. IsFiniteSet(peers[r]) /\ IsFiniteSet(pending[r])
      BY <1>1, PeersAreFinite, FS_Subset DEF PlaceTable, RoomsTypeOK
    <3>2. peers[r] \cap pending[r] = {}
      BY <1>1 DEF IndInv, RoomWithinCapacity
    <3>3. PICK A, B : A = peers[r] /\ B = pending[r]
      OBVIOUS
    <3>4. Cardinality(A \cap B) = 0
      BY <3>2, <3>3, FS_EmptySet
    <3>5. Cardinality(A \cup B) = Cardinality(A) + Cardinality(B) - Cardinality(A \cap B)
      BY <3>1, <3>3, FS_Union
    <3>6. Cardinality(A) \in Nat /\ Cardinality(B) \in Nat
      BY <3>1, <3>3, FS_CardinalityType
    <3>7. ~(Cardinality(A) + Cardinality(B) >= Capacity)
      BY <2>1, <3>3 DEF Full
    <3>8. Cardinality(A \cup B) < Capacity
      BY <3>4, <3>5, <3>6, <3>7, CapacityIsPositive
    <3> QED  BY <3>3, <3>8
  <2>6. \A S : Door!Cardinality(S) = Cardinality(S)
    BY DEF Door!Cardinality, Cardinality
  <2>7. Door!Cardinality(Door!Inside(r) \cup Door!Waiting(r)) < Capacity
    BY <1>3, <2>5, <2>6
  <2>8. Door!HostInside(r)
    BY <1>3, <2>1 DEF Door!HostInside
  <2>9. UNCHANGED <<room, host>>
    BY <1>1, <2>1
  <2> QED  BY <1>5, <2>4, <2>7, <2>8, <2>9 DEF Door!Knock, r
<1>9. ASSUME Refused(r, p), session' = [session EXCEPT ![p] = "leaving"]
      PROVE  Door!GiveUp(p)
  <2>1. host' = host /\ peers' = peers /\ pending' = pending /\ session'[p] = "leaving"
    BY <1>9 DEF Refused, roomVars, PlaceTable
  <2>2. \A q \in Peers : Seats'[q] = IF q \in {p} THEN "gone" ELSE Seats[q]
    BY <1>2, <1>6, <2>1 DEF PlaceTable
  <2>3. Door!Moves({p}, "gone")
    BY <2>2, SomeMove
  <2> QED  BY <1>1, <1>5, <2>1, <2>3 DEF Door!GiveUp
<1> QED  BY <1>7, <1>8, <1>9 DEF JoinRoom, r

\* A verdict that is about somebody who waits comes from a host who is inside.
LEMMA DecisionDoor ==
    ASSUME IndInv, PlaceTable, PlaceTable', NEW h \in Peers, JoinDecision(h)
    PROVE  (\E p \in Peers : Door!Answer(p)) \/ UNCHANGED doorVars
<1> DEFINE r == room[h]
           guest == Head(decisions[h]).peer
<1>0. RoomsTypeOK
  BY DEF PlaceTable
<1>1. /\ r \in Peers /\ session[h] = "open" /\ session' = session /\ room' = room
      /\ guest \in Peers
  <2>1. session[h] = "open" /\ decisions[h] # <<>> /\ session' = session /\ room' = room
    BY DEF JoinDecision, clientVars
  <2>2. Head(decisions[h]) \in Decision
    BY <2>1 DEF IndInv, TypeOK
  <2> QED  BY <2>1, <2>2 DEF Decision, IndInv, Located
<1>2. CASE UNCHANGED roomVars
  BY <1>1, <1>2, NobodyMoves
<1>3. CASE IsHost(r, h) /\ (ApprovePeer(r, guest) \/ RejectPeer(r, guest))
  <2> HIDE DEF r, guest
  <2>1. h \in peers[r] /\ host[r] = h
    BY <1>1, <1>3, PeersAreFinite DEF IsHost, IndInv, Places, HostsAreInside
  <2>2. guest \in pending[r] /\ host' = host
    BY <1>3 DEF ApprovePeer, RejectPeer
  <2>3. /\ room[guest] = r /\ session[guest] \in {"open", "leaving"}
        /\ \A x \in Peers : guest \notin peers[x]
        /\ \A x \in Peers : guest \in pending[x] => x = r
    BY <1>1, <2>2 DEF PlaceTable
  <2>4. Seats[guest] = "waiting" /\ Place(guest) = "waiting"
    BY <1>1, <2>2, <2>3 DEF PlaceTable, Seats
  <2>5. \A x \in Peers : pending'[x] = IF x = r THEN pending[x] \ {guest} ELSE pending[x]
    BY <1>0, <1>1, <1>3, RoomsMoveOn
  <2>6. ASSUME ApprovePeer(r, guest)
        PROVE  Door!Moves({guest}, "inside")
    <3>1. \A x \in Peers : peers'[x] = IF x = r THEN peers[x] \cup {guest} ELSE peers[x]
      BY <1>0, <1>1, <2>6, RoomsMoveOn
    <3>2. \A q \in Peers : Seats'[q] = IF q \in {guest} THEN "inside" ELSE Seats[q]
      <4> SUFFICES ASSUME NEW q \in Peers
                   PROVE  Seats'[q] = IF q = guest THEN "inside" ELSE Seats[q]
        OBVIOUS
      <4>1. CASE q = guest
        <5>1. \E x \in Peers : q \in peers'[x]
          BY <1>1, <3>1, <4>1
        <5> QED  BY <4>1, <5>1 DEF PlaceTable
      <4>2. CASE q # guest
        <5>1. \A x \in Peers : (q \in peers'[x] <=> q \in peers[x])
                               /\ (q \in pending'[x] <=> q \in pending[x])
          BY <2>5, <3>1, <4>2
        <5> QED  BY <1>1, <4>2, <5>1 DEF PlaceTable
      <4> QED  BY <4>1, <4>2
    <3> QED  BY <3>2, SomeMove
  <2>7. ASSUME RejectPeer(r, guest)
        PROVE  Door!Moves({guest}, "gone")
    <3>1. peers' = peers
      BY <2>7 DEF RejectPeer
    <3>2. \A q \in Peers : Seats'[q] = IF q \in {guest} THEN "gone" ELSE Seats[q]
      <4> SUFFICES ASSUME NEW q \in Peers
                   PROVE  Seats'[q] = IF q = guest THEN "gone" ELSE Seats[q]
        OBVIOUS
      <4>1. CASE q = guest
        <5>1. ~(\E x \in Peers : q \in peers'[x]) /\ ~(\E x \in Peers : q \in pending'[x])
          BY <2>3, <2>5, <3>1, <4>1
        <5> QED  BY <1>1, <2>3, <4>1, <5>1 DEF PlaceTable
      <4>2. CASE q # guest
        <5>1. \A x \in Peers : q \in pending'[x] <=> q \in pending[x]
          BY <2>5, <4>2
        <5> QED  BY <1>1, <3>1, <4>2, <5>1 DEF PlaceTable
      <4> QED  BY <4>1, <4>2
    <3> QED  BY <3>2, SomeMove
  <2>8. \E where \in {"inside", "gone"} : Door!Moves({guest}, where)
    BY <1>3, <2>6, <2>7
  <2>9. Door!HostInside(room[guest])
    BY <1>1, <2>1, <2>3, SeatsAreRooms DEF Door!HostInside
  <2>10. Door!Answer(guest)
    BY <1>1, <2>2, <2>4, <2>8, <2>9 DEF Door!Answer
  <2> QED  BY <1>1, <2>10
<1> QED  BY <1>2, <1>3 DEF JoinDecision

\* Whoever leaves is gone, and takes the room and those who wait along when
\* nobody is left; the second announcement of a departure finds nobody.
LEMMA DepartDoor ==
    ASSUME IndInv, DoorInv, PlaceTable, PlaceTable', NEW p \in Peers,
           LeaveRoom(p) \/ Cleanup(p)
    PROVE  Door!Leave(p) \/ Door!LeaveLast(p) \/ UNCHANGED doorVars
<1> DEFINE r == room[p]
           left == peers[r] \ {p}
<1>0. RoomsTypeOK
  BY DEF PlaceTable
<1>1. /\ r \in Peers /\ room' = room /\ session[p] \in {"open", "leaving"}
      /\ session'[p] \in {"leaving", "ended"}
      /\ \A q \in Peers \ {p} : session'[q] = session[q]
      /\ LeavePeer(r, p)
  BY DEF LeaveRoom, Cleanup, EndLoop, Depart, IndInv, Located, TypeOK, clientVars
<1>2. Door!Inside(r) = peers[r] /\ Door!Waiting(r) = pending[r]
  BY <1>1, SeatsAreRooms
<1>3. \A q \in Peers : Seats[q] = Place(q)
  BY DEF Seats
<1> HIDE DEF r
<1>4. /\ \A x \in Peers : peers'[x] = IF x = r THEN left ELSE peers[x]
      /\ \A x \in Peers : pending'[x] = IF x = r THEN (IF left = {} THEN {} ELSE pending[x] \ {p})
                                        ELSE pending[x]
      /\ host' = IF left = {} THEN [host EXCEPT ![r] = NoPeer] ELSE host
  <2>1. RoomsTypeOK /\ LeavePeer(r, p) /\ r \in Peers
    BY <1>0, <1>1
  <2> QED  BY <2>1, RoomsAfterLeave
<1>5. \A x \in Peers : p \in peers[x] \cup pending[x] => x = r
  BY DEF PlaceTable, r
<1>6. CASE p \notin peers[r] /\ p \notin pending[r]
  <2>1. left = {} => pending[r] = {} /\ host[r] = NoPeer
    BY <1>1, <1>6 DEF IndInv, Places, NobodyWaitsAtAnEmptyRoom, DoorInv
  <2>2. host' = host
    BY <1>1, <1>4, <2>1 DEF PlaceTable, RoomsTypeOK
  <2>3. \A x \in Peers : peers'[x] = peers[x] /\ pending'[x] = pending[x]
    BY <1>4, <1>6, <2>1, ZenonT(60)
  <2>4. peers' = peers /\ pending' = pending
    BY <2>3 DEF PlaceTable, RoomsTypeOK
  <2>5. \A q \in Peers : session'[q] \in {"none", "new"} <=> session[q] \in {"none", "new"}
    BY <1>1
  <2> QED  BY <1>1, <2>2, <2>4, <2>5, NobodyMoves DEF roomVars
<1>7. CASE (p \in peers[r] \/ p \in pending[r]) /\ left # {}
  <2>1. host' = host
    BY <1>4, <1>7
  <2>2. \A q \in Peers : Seats'[q] = IF q \in {p} THEN "gone" ELSE Seats[q]
    <3> SUFFICES ASSUME NEW q \in Peers PROVE Seats'[q] = IF q = p THEN "gone" ELSE Seats[q]
      OBVIOUS
    <3>1. CASE q = p
      <4>1. ~(\E x \in Peers : q \in peers'[x]) /\ ~(\E x \in Peers : q \in pending'[x])
        BY <1>4, <1>5, <3>1
      <4> QED  BY <1>1, <3>1, <4>1 DEF PlaceTable
    <3>2. CASE q # p
      <4>1. \A x \in Peers : (q \in peers'[x] <=> q \in peers[x])
                             /\ (q \in pending'[x] <=> q \in pending[x])
        BY <1>4, <1>7, <3>2
      <4> QED  BY <1>1, <3>2, <4>1 DEF PlaceTable
    <3> QED  BY <3>1, <3>2
  <2>3. Door!Moves({p}, "gone")
    BY <2>2, SomeMove
  <2>4. Place(p) \in {"inside", "waiting"}
    BY <1>1, <1>3, <1>7 DEF PlaceTable
  <2>5. Door!Leave(p)
    BY <1>1, <1>2, <1>7, <2>1, <2>3, <2>4 DEF Door!Leave, r
  <2> QED  BY <2>5
<1>8. CASE p \in peers[r] /\ left = {}
  <2>1. peers[r] = {p} /\ p \notin pending[r] /\ host' = [host EXCEPT ![r] = NoPeer]
    BY <1>1, <1>4, <1>8 DEF PlaceTable
  <2>2. \A q \in Peers : Seats'[q] = IF q \in {p} \cup pending[r] THEN "gone" ELSE Seats[q]
    <3> SUFFICES ASSUME NEW q \in Peers
                 PROVE  Seats'[q] = IF q = p \/ q \in pending[r] THEN "gone" ELSE Seats[q]
      OBVIOUS
    <3>1. CASE q = p \/ q \in pending[r]
      <4>1. \A x \in Peers : q \in peers[x] \cup pending[x] => x = r
        BY <1>1, <1>5, <3>1 DEF PlaceTable
      <4>2. ~(\E x \in Peers : q \in peers'[x]) /\ ~(\E x \in Peers : q \in pending'[x])
        BY <1>4, <1>8, <4>1
      <4>3. session'[q] \notin {"none", "new"}
        BY <1>1, <3>1 DEF PlaceTable
      <4> QED  BY <3>1, <4>2, <4>3 DEF PlaceTable
    <3>2. CASE q # p /\ q \notin pending[r]
      <4>1. \A x \in Peers : (q \in peers'[x] <=> q \in peers[x])
                             /\ (q \in pending'[x] <=> q \in pending[x])
        BY <1>4, <1>8, <2>1, <3>2
      <4> QED  BY <1>1, <3>2, <4>1 DEF PlaceTable
    <3> QED  BY <3>1, <3>2
  <2>3. Door!Moves({p} \cup pending[r], "gone")
    <3> DEFINE P == {p} \cup pending[r]
    <3>1. \A q \in Peers : Seats'[q] = IF q \in P THEN "gone" ELSE Seats[q]
      BY <2>2
    <3> HIDE DEF P
    <3>2. Door!Moves(P, "gone")
      BY <3>1, SomeMove
    <3> QED  BY <3>2 DEF P
  <2>4. Place(p) = "inside"
    BY <1>1, <1>3, <1>8 DEF PlaceTable
  <2>5. Door!LeaveLast(p)
    BY <1>1, <1>2, <2>1, <2>3, <2>4 DEF Door!LeaveLast, r
  <2> QED  BY <2>5
<1>9. p \in pending[r] => left # {}
  BY <1>1 DEF IndInv, Places, NobodyWaitsAtAnEmptyRoom, PlaceTable
<1> QED  BY <1>6, <1>7, <1>8, <1>9

\* The end of a session that has not joined gives up the way; of one that has,
\* it changes nothing yet.
LEMMA TimeoutDoor ==
    ASSUME IndInv, PlaceTable, PlaceTable', NEW p \in Peers, Timeout(p)
    PROVE  Door!GiveUp(p) \/ UNCHANGED doorVars
<1>1. /\ UNCHANGED <<roomVars, room>> /\ session[p] \in {"new", "open"}
      /\ session'[p] = IF session[p] = "new" THEN "ended" ELSE "leaving"
      /\ \A q \in Peers \ {p} : session'[q] = session[q]
  BY DEF Timeout, PlaceTable, clientVars
<1>2. CASE session[p] = "open"
  <2>1. \A q \in Peers : session'[q] \in {"none", "new"} <=> session[q] \in {"none", "new"}
    BY <1>1, <1>2
  <2> QED  BY <1>1, <2>1, NobodyMoves
<1>3. CASE session[p] = "new"
  <2>1. room[p] \in Peers /\ room[p] # NoPeer /\ \A x \in Peers : p \notin peers[x] /\ p \notin pending[x]
    BY <1>3, PeersAreFinite DEF PlaceTable
  <2>2. peers' = peers /\ pending' = pending /\ host' = host /\ session'[p] = "ended"
    BY <1>1, <1>3 DEF roomVars
  <2>3. \A q \in Peers : Seats'[q] = IF q \in {p} THEN "gone" ELSE Seats[q]
    BY <1>1, <2>1, <2>2 DEF PlaceTable
  <2>4. Door!Moves({p}, "gone")
    BY <2>3, SomeMove
  <2>5. Place(p) = "away"
    BY <1>3, <2>1 DEF PlaceTable, Seats
  <2> QED  BY <1>1, <2>1, <2>2, <2>4, <2>5 DEF Door!GiveUp, Door!OnTheWay
<1> QED  BY <1>1, <1>2, <1>3

\* A command chooses the room.
LEMMA CommandDoor ==
    ASSUME IndInv, DoorInv, PlaceTable, PlaceTable', NEW p \in Peers, User(p)
    PROVE  \E r \in Peers : Door!Choose(p, r)
<1>1. PICK r \in Peers : /\ r = p \/ room[r] = r
                         /\ \E a : Command(p, r, a)
  BY DEF User, CreateMeeting, JoinMeeting
<1>2. /\ client[p] = "idle" /\ room' = [room EXCEPT ![p] = r]
      /\ UNCHANGED <<roomVars, session>>
  BY <1>1 DEF Command, serverVars
<1>3. room[p] = NoPeer
  BY <1>2 DEF DoorInv
<1>4. peers' = peers /\ pending' = pending /\ host' = host /\ session' = session
  BY <1>2 DEF roomVars
<1>5. \A q \in Peers : Seats'[q] = Seats[q]
  BY <1>4 DEF PlaceTable
<1>6. Seats' = Seats
  BY <1>5 DEF Seats
<1>7. Door!Choose(p, r)
  BY <1>1, <1>2, <1>3, <1>4, <1>6 DEF Door!Choose, Seats
<1> QED  BY <1>7

LEMMA DoorStep ==
    ASSUME IndInv, DoorInv, PlaceTable, PlaceTable', [Next]_vars
    PROVE  [Door!DoorNext]_doorVars
<1>1. ASSUME NEW p \in Peers, JoinRoom(p) \/ LeaveRoom(p) \/ Cleanup(p) \/ Timeout(p) \/ User(p)
      PROVE  Door!DoorNext \/ UNCHANGED doorVars
  BY <1>1, JoinDoor, DepartDoor, TimeoutDoor, CommandDoor DEF Door!DoorNext
<1>2. ASSUME NEW p \in Peers, JoinDecision(p)
      PROVE  Door!DoorNext \/ UNCHANGED doorVars
  BY <1>2, DecisionDoor DEF Door!DoorNext
<1>3. ASSUME \/ \E p \in Peers : SendNext(p) \/ Connected(p) \/ HandleFrame(p) \/ LoseConnection(p)
             \/ \E m \in Machines : LeaveMeeting(m) \/ AnswerKnock(m)
             \/ UNCHANGED vars
      PROVE  UNCHANGED doorVars
  <2>1. UNCHANGED <<roomVars, room>>
    BY <1>3 DEF SendNext, Connected, HandleFrame, LoseConnection, LeaveMeeting, AnswerKnock, vars,
       clientVars
  <2>2. \A q \in Peers : session'[q] \in {"none", "new"} <=> session[q] \in {"none", "new"}
    <3>1. CASE UNCHANGED session
      BY <3>1
    <3>2. ASSUME NEW p \in Peers, Connected(p)
          PROVE  \A q \in Peers : session'[q] \in {"none", "new"} <=> session[q] \in {"none", "new"}
      BY <3>2 DEF Connected, IndInv, Located, PlaceTable
    <3> QED
      BY <1>3, <3>1, <3>2 DEF SendNext, HandleFrame, LoseConnection, LeaveMeeting, AnswerKnock, vars,
         serverVars
  <2> QED  BY <2>1, <2>2, NobodyMoves
<1> QED  BY <1>1, <1>2, <1>3 DEF Next, Session

LEMMA DoorInvStep ==
    ASSUME IndInv, DoorInv, [Next]_vars
    PROVE  DoorInv'
<1>1. \A p \in Peers : client'[p] = "idle" => room'[p] = NoPeer
  <2>1. ASSUME NEW p \in Peers, NEW r \in Peers, NEW a, Command(p, r, a)
        PROVE  \A q \in Peers : client'[q] = "idle" => room'[q] = NoPeer
    BY <2>1 DEF Command, DoorInv, IndInv, TypeOK
  <2>2. CASE \E p \in Peers : User(p)
    BY <2>1, <2>2 DEF User, CreateMeeting, JoinMeeting
  <2>3. CASE \/ \E p \in Peers : Connected(p)
             \/ \E m \in Machines : LeaveMeeting(m)
    BY <2>3 DEF Connected, LeaveMeeting, DoorInv, IndInv, TypeOK
  <2>4. CASE \/ \E p \in Peers : Session(p) \/ HandleFrame(p) \/ LoseConnection(p)
             \/ \E m \in Machines : AnswerKnock(m)
             \/ UNCHANGED vars
    <3>1. client' = client /\ room' = room
      BY <2>4 DEF Session, JoinRoom, SendNext, JoinDecision, LeaveRoom, Timeout, Cleanup, HandleFrame,
         LoseConnection, AnswerKnock, vars, clientVars
    <3> QED  BY <3>1 DEF DoorInv
  <2> QED  BY <2>2, <2>3, <2>4 DEF Next
<1>2. \A r \in Peers : peers'[r] = {} => host'[r] = NoPeer
  <2>1. ASSUME NEW r \in Peers, NEW p \in Peers,
               \/ Admitted(r, p) \/ AwaitingApproval(r, p) \/ Refused(r, p)
               \/ ApprovePeer(r, p) \/ RejectPeer(r, p) \/ LeavePeer(r, p)
        PROVE  \A x \in Peers : peers'[x] = {} => host'[x] = NoPeer
    <3>1. RoomsTypeOK /\ host \in [Peers -> Peers \cup {NoPeer}]
      BY DEF IndInv, TypeOK, RoomsTypeOK
    <3>2. \A x \in Peers : peers[x] = {} => host[x] = NoPeer
      BY DEF DoorInv
    <3>3. CASE Admitted(r, p)
      <4>1. \A x \in Peers : peers'[x] = IF x = r THEN peers[x] \cup {p} ELSE peers[x]
        BY <3>1, <3>3, RoomsMoveOn
      <4>2. host' = [host EXCEPT ![r] = p]
        BY <3>3 DEF Admitted
      <4> QED  BY <3>1, <3>2, <4>1, <4>2
    <3>4. CASE ApprovePeer(r, p)
      <4>1. \A x \in Peers : peers'[x] = IF x = r THEN peers[x] \cup {p} ELSE peers[x]
        BY <3>1, <3>4, RoomsMoveOn
      <4>2. host' = host
        BY <3>4 DEF ApprovePeer
      <4> QED  BY <3>2, <4>1, <4>2
    <3>5. CASE LeavePeer(r, p)
      <4>1. PICK left : left = peers[r] \ {p}
        OBVIOUS
      <4>2. /\ \A x \in Peers : peers'[x] = IF x = r THEN left ELSE peers[x]
            /\ host' = IF left = {} THEN [host EXCEPT ![r] = NoPeer] ELSE host
        BY <3>1, <3>5, <4>1, RoomsAfterLeave
      <4> QED  BY <3>1, <3>2, <4>2
    <3>6. CASE AwaitingApproval(r, p) \/ Refused(r, p) \/ RejectPeer(r, p)
      <4>1. peers' = peers /\ host' = host
        BY <3>6 DEF AwaitingApproval, Refused, RejectPeer, roomVars
      <4> QED  BY <3>2, <4>1
    <3> QED  BY <2>1, <3>3, <3>4, <3>5, <3>6
  <2>2. CASE UNCHANGED roomVars
    BY <2>2 DEF roomVars, DoorInv
  <2>3. ASSUME NEW p \in Peers, JoinRoom(p) \/ LeaveRoom(p) \/ Cleanup(p)
        PROVE  \A x \in Peers : peers'[x] = {} => host'[x] = NoPeer
    <3>1. room[p] \in Peers
      BY <2>3 DEF JoinRoom, LeaveRoom, Cleanup, IndInv, Located
    <3> QED  BY <2>1, <2>3, <3>1 DEF JoinRoom, LeaveRoom, Cleanup, Depart
  <2>4. ASSUME NEW p \in Peers, JoinDecision(p)
        PROVE  \A x \in Peers : peers'[x] = {} => host'[x] = NoPeer
    <3>1. room[p] \in Peers /\ decisions[p] # <<>>
      BY <2>4 DEF JoinDecision, IndInv, Located
    <3>2. Head(decisions[p]) \in Decision
      BY <3>1 DEF IndInv, TypeOK
    <3>3. Head(decisions[p]).peer \in Peers
      BY <3>2 DEF Decision
    <3>4. \/ ApprovePeer(room[p], Head(decisions[p]).peer)
          \/ RejectPeer(room[p], Head(decisions[p]).peer) \/ UNCHANGED roomVars
      BY <2>4 DEF JoinDecision
    <3> QED  BY <2>1, <2>2, <3>1, <3>3, <3>4
  <2>5. ASSUME NEW p \in Peers, Timeout(p) \/ Connected(p)
        PROVE  UNCHANGED roomVars
    BY <2>5 DEF Timeout, Connected
  <2> QED  BY <2>2, <2>3, <2>4, <2>5, OtherSteps DEF IndInv
<1> QED  BY <1>1, <1>2 DEF DoorInv

\* Rooms, sessions and clients implement MeetingDoor: whatever crosses, is
\* announced twice, comes late or is lost, a room is its founder's as long as
\* anybody is inside, nobody gets in without the host's word, those who wait do
\* not outlast the room, and who is gone does not come back.
THEOREM MeetingImplemented == Spec => RoomsAreKept
<1>1. Init => DoorInv
  BY DEF Init, RoomsInit, DoorInv
<1>2. Init => Door!DoorInit
  <2> SUFFICES ASSUME Init PROVE Door!DoorInit
    OBVIOUS
  <2>1. \A p \in Peers : Place(p) = "away"
    BY DEF Init, RoomsInit, Place, InRoom
  <2> QED  BY <2>1 DEF Init, RoomsInit, Door!DoorInit
<1>3. IndInv /\ DoorInv /\ [Next]_vars => DoorInv'
  BY DoorInvStep
<1>4. IndInv /\ DoorInv /\ PlaceTable /\ PlaceTable' /\ [Next]_vars => [Door!DoorNext]_doorVars
  BY DoorStep
<1>5. [Door!DoorNext]_doorVars <=> [Door!DoorNext]_<<room, [p \in Peers |-> Place(p)], host>>
  BY DEF doorVars, Seats
<1> QED
  BY <1>1, <1>2, <1>3, <1>4, <1>5, PlacesAreListed, Invariance, PTL
     DEF Spec, RoomsAreKept, Door!DoorSpec
=============================================================================
