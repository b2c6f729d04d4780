-------------------------- MODULE ChatServerProofs --------------------------
(***************************************************************************)
(* Proofs about ChatServer, for any number of users, groups, sessions,     *)
(* requests, faults and crashes.                                           *)
(***************************************************************************)
EXTENDS ChatServer, SequenceTheorems, TLAPS

-----------------------------------------------------------------------------
\* The inductive invariant.

StatusLocation == {"status_members", "status_requests", "status_send"}
UserLocation == {"approve_delete", "approve_insert", "reject_delete",
                 "promote_update", "notify"}
RoomLocation == UserLocation \cup
    {"join", "create_room", "create_member", "create_hub", "request_insert",
     "admins", "details", "details_member", "route", "history"}

\* What a handler has checked stays true until it uses it.
TaskOK(s) ==
    /\ pc[s] \in Registered => user[s] \in Names
    /\ pc[s] \in RoomLocation => task[s].room \in Rooms /\ task[s].type # "welcome"
    /\ pc[s] \in UserLocation => task[s].user \in Names /\ task[s].type \in Answer
    /\ pc[s] = "reject_delete" => task[s].type = "reject"
    /\ pc[s] = "promote_update" => task[s].type = "promote"
    /\ pc[s] = "notify" /\ task[s].type = "approve" =>
          IsRoomMember(task[s].room, task[s].user)
    /\ pc[s] \in StatusLocation =>
          /\ task[s].target \in Names
          /\ task[s].statuses.joined \subseteq JoinedRooms(task[s].target)
    /\ pc[s] \in StatusLocation /\ task[s].type # "welcome" =>
          task[s].room \in Rooms
    /\ pc[s] \in StatusLocation /\ task[s].type = "welcome" =>
          task[s].target = user[s]
    /\ pc[s] \in {"join", "create_hub", "route", "history"} =>
          IsRoomMember(task[s].room, user[s])
    /\ pc[s] \in {"approve_delete", "approve_insert", "promote_update"} =>
          IsRoomAdmin(task[s].room, user[s])
    /\ pc[s] = "details" => task[s].todo \subseteq RoomAdmins(task[s].room)
    /\ pc[s] = "details_member" /\ task[s].type = "admin_details" =>
          IsRoomAdmin(task[s].room, user[s])

\* A frame that may be on its way to user n.
FrameOK(f, n) ==
    /\ f.type \in {"message", "typing"} => IsRoomMember(f.room, n)
    /\ f.type \in {"room_details", "join_requested"} => IsRoomAdmin(f.room, n)
    /\ f.type = "rooms" => f.statuses.joined \subseteq JoinedRooms(n)
    /\ f.type = "join_approved" /\ f.user = n => IsRoomMember(f.room, n)

\* q may be the queue of session s, v the view of its client.  A session that
\* is not in the hub has nothing queued and nothing shown.
QueueOK(s, q) ==
    IF pc[s] \in Registered
    THEN \A i \in DOMAIN q : FrameOK(q[i], user[s])
    ELSE q = <<>>
ViewOK(s, v) ==
    IF pc[s] \in Registered
    THEN /\ v.heard \cup v.joined \subseteq JoinedRooms(user[s])
         /\ v.managed \subseteq AdminRooms(user[s])
    ELSE v = EmptyView

ClientOK(s) == QueueOK(s, outbox[s]) /\ ViewOK(s, client[s])

IndInv ==
    /\ TypeOK
    /\ \A s \in Sessions : TaskOK(s) /\ ClientOK(s)
    /\ HubFollowsSessions
    /\ RoomsHoldOnlineMembers

\* The separate invariant for OneCreator: before the first member of a new
\* group is written nobody else can become one.
CreationInv ==
    /\ \A r \in Rooms : \A n \in Names : role[r][n] # "none" => r \in rooms
    /\ \A s \in Sessions : pc[s] = "create_member" =>
          /\ task[s].room \in rooms
          /\ \A n \in Names : role[task[s].room][n] = "none"
          /\ \A t \in Sessions :
                pc[t] = "create_member" /\ task[t].room = task[s].room => t = s
    /\ OneCreator
-----------------------------------------------------------------------------
\* Queues and views.

LEMMA PostedType ==
    ASSUME NEW ob \in [Sessions -> Seq(Frame)], NEW ns, NEW f \in Frame
    PROVE  Posted(ob, ns, f) \in [Sessions -> Seq(Frame)]
  BY DEF Posted

LEMMA PostedElements ==
    ASSUME NEW ob \in [Sessions -> Seq(Frame)], NEW ns, NEW f \in Frame,
           NEW s \in Sessions
    PROVE  /\ \A i \in DOMAIN Posted(ob, ns, f)[s] :
                \/ i \in DOMAIN ob[s] /\ Posted(ob, ns, f)[s][i] = ob[s][i]
                \/ /\ Posted(ob, ns, f)[s][i] = f
                   /\ \E n \in ns : users[n] = s
           /\ (\A n \in ns : users[n] # s) => Posted(ob, ns, f)[s] = ob[s]
  BY DEF Posted

LEMMA StatusesType ==
    ASSUME TypeOK, NEW n \in Names
    PROVE  /\ JoinedRooms(n) \subseteq Rooms
           /\ AdminRooms(n) \subseteq Rooms
           /\ PendingRooms(n) \subseteq Rooms
  BY DEF JoinedRooms, AdminRooms, PendingRooms

LEMMA FrameCases ==
    ASSUME NEW f \in Frame
    PROVE  /\ f.type = "presence" => f.users \subseteq Names
           /\ f.type = "rooms" => f.statuses \in Statuses
           /\ f.type \in RoomFrameType => f.room \in Rooms /\ f.user \in Names
  BY DEF Frame, RoomFrame, RoomFrameType

LEMMA ShownType ==
    ASSUME NEW v \in View, NEW me, NEW f \in Frame
    PROVE  Shown(v, me, f) \in View
  BY FrameCases DEF Shown, View, RoomFrameType, ShowStatuses, ShowJoined, Statuses

\* What a frame adds to the groups whose messages or requests are shown.
LEMMA ShownOK ==
    ASSUME NEW v \in View, NEW me, NEW f \in Frame
    PROVE  /\ Shown(v, me, f).heard \subseteq
                v.heard \cup IF f.type \in {"message", "typing"} THEN {f.room} ELSE {}
           /\ Shown(v, me, f).managed \subseteq
                v.managed \cup IF f.type = "room_details" THEN {f.room} ELSE {}
           /\ Shown(v, me, f).joined \subseteq
                (IF f.type = "rooms" THEN f.statuses.joined ELSE v.joined)
                  \cup IF f.type = "join_approved" /\ f.user = me THEN {f.room} ELSE {}
  BY FrameCases DEF Shown, View, RoomFrameType, ShowStatuses, ShowJoined, Statuses
-----------------------------------------------------------------------------
\* The three statements that write room_members.

LEMMA RoleSteps ==
    ASSUME [Next]_vars
    PROVE  \/ UNCHANGED role
           \/ \E s \in Sessions : \/ CreateInsertMember(s)
                                 \/ ApproveInsert(s)
                                 \/ PromoteUpdate(s)
<1>1. CASE UNCHANGED vars
  BY <1>1 DEF vars, storeVars
<1>2. CASE Crash
  BY <1>2 DEF Crash, storeVars
<1>3. ASSUME NEW s \in Sessions, Connection(s)
      PROVE  UNCHANGED role
  BY <1>3 DEF Connection, Accept, TurnAway, ReadMembers, ReadRequests, Welcome,
              ReadOnline, BroadcastPresence, Deliver, Drop, Unregister, storeVars
<1>4. ASSUME NEW s \in Sessions, Request(s)
      PROVE  UNCHANGED role
  BY <1>4 DEF Request, Join, Leave, Create, RequestJoin, GetRoomDetails, Send,
              Typing, History, ApproveJoin, RejectJoin, PromoteAdmin, AdminAsks,
              storeVars
<1>5. ASSUME NEW s \in Sessions, Handler(s)
      PROVE  \/ UNCHANGED role
             \/ CreateInsertMember(s) \/ ApproveInsert(s) \/ PromoteUpdate(s)
  BY <1>5 DEF Handler, EnterRoom, CreateInsertRoom, InsertRoom, CreateConflict,
              OpenRoom, SendStatus, RequestInsert, InsertRequest, ApproveDelete,
              DeleteRequest, RejectDelete, NotifyUser, ReadAdmins, SendDetails,
              ReplyDetails, RouteMessage, ReplyHistory, storeVars
<1>6. ASSUME NEW s \in Sessions,
             \/ \E v \in Names : SendDm(s, v)
             \/ StatementFails(s) \/ StatusesFail(s)
      PROVE  UNCHANGED role
  BY <1>6 DEF SendDm, StatementFails, StatusesFail, storeVars
<1> QED
  BY <1>1, <1>2, <1>3, <1>4, <1>5, <1>6 DEF Next

\* No step takes a membership or an admin's rights away.

LEMMA Monotone ==
    ASSUME TypeOK, [Next]_vars, NEW r \in Rooms, NEW n \in Names
    PROVE  /\ IsRoomMember(r, n) => IsRoomMember(r, n)'
           /\ IsRoomAdmin(r, n) => IsRoomAdmin(r, n)'
<1>1. CASE UNCHANGED role
  BY <1>1 DEF IsRoomMember, IsRoomAdmin
<1>2. ASSUME NEW q, NEW m, InsertCreator(q, m) \/ InsertMember(q, m) \/ SetAdmin(q, m)
      PROVE  /\ IsRoomMember(r, n) => IsRoomMember(r, n)'
             /\ IsRoomAdmin(r, n) => IsRoomAdmin(r, n)'
  <2>1. role \in [Rooms -> [Names -> Role]]
    BY DEF TypeOK, StoreTypeOK
  <2>2. /\ role'[r][n] = role[r][n] \/ role'[r][n] # "none"
        /\ role[r][n] \in {"creator", "admin"} => role'[r][n] \in {"creator", "admin"}
    <3>1. CASE InsertCreator(q, m)
      BY <2>1, <3>1 DEF InsertCreator
    <3>2. CASE InsertMember(q, m)
      BY <2>1, <3>2 DEF InsertMember
    <3>3. CASE SetAdmin(q, m)
      BY <2>1, <3>3 DEF SetAdmin
    <3> QED
      BY <1>2, <3>1, <3>2, <3>3
  <2> QED
    BY <2>2 DEF IsRoomMember, IsRoomAdmin
<1>3. ASSUME NEW s \in Sessions,
             CreateInsertMember(s) \/ ApproveInsert(s) \/ PromoteUpdate(s)
      PROVE  /\ IsRoomMember(r, n) => IsRoomMember(r, n)'
             /\ IsRoomAdmin(r, n) => IsRoomAdmin(r, n)'
  BY <1>2, <1>3 DEF CreateInsertMember, ApproveInsert, PromoteUpdate
<1> QED
  BY <1>1, <1>3, RoleSteps
-----------------------------------------------------------------------------
\* What the control-flow helpers do to the task that runs them.

LEMMA NoTaskType ==
    NoTask \in Task /\ NoStatuses \in Statuses
  BY DEF NoTask, Task, NoStatuses, Statuses

LEMMA UpdateStatusesEffect ==
    ASSUME TypeOK, NEW s \in Sessions, NEW ts \in SUBSET Names,
           NEW after \in {"idle", "admins"}, UpdateStatuses(s, ts, after)
    PROVE  /\ pc' \in [Sessions -> Location]
           /\ task' \in [Sessions -> Task]
           /\ \A t \in Sessions \ {s} : pc'[t] = pc[t] /\ task'[t] = task[t]
           /\ pc'[s] \in {"status_members", after}
           /\ pc'[s] = "status_members" =>
                /\ task'[s].target \in Names
                /\ task'[s].room = task[s].room
                /\ task'[s].type = task[s].type
                /\ task'[s].statuses.joined = {}
           /\ pc'[s] = "admins" =>
                task'[s].room = task[s].room /\ task'[s].type = task[s].type
<1>1. task[s] \in Task /\ pc \in [Sessions -> Location] /\ task \in [Sessions -> Task]
  BY DEF TypeOK
<1>2. CASE ts = {} /\ after = "idle"
  BY <1>1, <1>2, NoTaskType DEF UpdateStatuses, Goto, Location, Registered
<1>3. CASE ts = {} /\ after = "admins"
  <2>1. [task[s] EXCEPT !.target = NoName, !.statuses = NoStatuses, !.todo = {}] \in Task
    BY <1>1, NoTaskType DEF Task
  <2>2. /\ pc' = [pc EXCEPT ![s] = "admins"]
        /\ task' = [task EXCEPT ![s] = [task[s] EXCEPT
                      !.target = NoName, !.statuses = NoStatuses, !.todo = {}]]
    BY <1>1, <1>3 DEF UpdateStatuses, Goto
  <2>3. "admins" \in Location
    BY DEF Location, Registered
  <2>4. LET new == [task[s] EXCEPT !.target = NoName, !.statuses = NoStatuses,
                                   !.todo = {}]
        IN  new.room = task[s].room /\ new.type = task[s].type
    BY <1>1 DEF Task
  <2> QED
    BY <1>1, <1>3, <2>1, <2>2, <2>3, <2>4
<1>4. CASE ts # {}
  <2>1. PICK t \in ts :
          /\ Goto(s, "status_members")
          /\ task' = [task EXCEPT ![s] = [@ EXCEPT !.target = t,
                        !.statuses = NoStatuses, !.todo = ts \ {t}]]
    BY <1>4 DEF UpdateStatuses
  <2>2. [task[s] EXCEPT !.target = t, !.statuses = NoStatuses, !.todo = ts \ {t}] \in Task
    BY <1>1, NoTaskType DEF Task
  <2>3. "status_members" \in Location
    BY DEF Location, Registered
  <2>4. LET new == [task[s] EXCEPT !.target = t, !.statuses = NoStatuses,
                                   !.todo = ts \ {t}]
        IN  /\ new.target = t /\ new.room = task[s].room
            /\ new.type = task[s].type /\ new.statuses.joined = {}
    BY <1>1 DEF Task, NoStatuses
  <2> QED
    BY <1>1, <2>1, <2>2, <2>3, <2>4 DEF Goto
<1> QED
  BY <1>2, <1>3, <1>4

LEMMA AskEffect ==
    ASSUME TypeOK, NEW s \in Sessions, NEW op \in Op \cup {"admin_details"},
           NEW r \in Rooms \cup {NoRoom}, NEW v \in Names \cup {NoName},
           NEW l \in Registered, Ask(s, op, r, v, l)
    PROVE  /\ pc' \in [Sessions -> Location]
           /\ task' \in [Sessions -> Task]
           /\ asked' \in Nat /\ faults' \in Nat /\ crashes' \in Nat
           /\ user' = user
           /\ \A t \in Sessions \ {s} : pc'[t] = pc[t] /\ task'[t] = task[t]
           /\ pc[s] = "idle" /\ pc'[s] = l
           /\ l # "idle" =>
                task'[s].type = op /\ task'[s].room = r /\ task'[s].user = v
<1>1. pc \in [Sessions -> Location] /\ task \in [Sessions -> Task] /\ asked \in Nat
      /\ faults \in Nat /\ crashes \in Nat
  BY DEF TypeOK
<1>2. [NoTask EXCEPT !.type = op, !.room = r, !.user = v] \in Task
  BY NoTaskType DEF Task
<1> QED
  BY <1>1, <1>2, NoTaskType DEF Ask, Goto, Location, Task

LEMMA FinishEffect ==
    ASSUME TypeOK, NEW s \in Sessions, Finish(s)
    PROVE  /\ pc' \in [Sessions -> Location]
           /\ task' \in [Sessions -> Task]
           /\ \A t \in Sessions \ {s} : pc'[t] = pc[t] /\ task'[t] = task[t]
           /\ pc'[s] = "idle"
  BY NoTaskType DEF TypeOK, Finish, Goto, Location, Registered
-----------------------------------------------------------------------------
\* Every step keeps the types.

LEMMA LocationTypes ==
    /\ Registered \subseteq Location
    /\ \A s \in Sessions : AfterStatuses(s) \in {"idle", "admins"}
  BY DEF Location, AfterStatuses

\* A frame about a room, sent by a handler.
LEMMA RoomFrameType1 ==
    ASSUME NEW ty \in RoomFrameType, NEW r \in Rooms, NEW n \in Names
    PROVE  [type |-> ty, room |-> r, user |-> n] \in Frame
  BY DEF Frame, RoomFrame

LEMMA ConnectionType ==
    ASSUME TypeOK, NEW s \in Sessions, TaskOK(s), Connection(s)
    PROVE  TypeOK'
<1> USE DEF TypeOK, StoreTypeOK, storeVars, hubVars, counters
<1>1. ASSUME NEW n \in Names, Accept(s, n)
      PROVE  TypeOK'
  <2>1. [NoTask EXCEPT !.type = "welcome", !.target = n] \in Task
    BY NoTaskType DEF Task
  <2>2. "status_members" \in Location
    BY DEF Location, Registered
  <2> QED
    BY <1>1, <2>1, <2>2 DEF Accept, Connect, Goto
<1>2. CASE TurnAway(s)
  <2>1. "closed" \in Location
    BY DEF Location
  <2> QED
    BY <1>2, <2>1 DEF TurnAway, Goto
<1>3. CASE ReadMembers(s)
  <2>1. "status_requests" \in Location
    BY DEF Location, Registered
  <2>2. [joined |-> JoinedRooms(task[s].target), pending |-> {},
         admin |-> AdminRooms(task[s].target)] \in Statuses
    BY DEF Statuses, JoinedRooms, AdminRooms
  <2>3. \A st \in Statuses : [task[s] EXCEPT !.statuses = st] \in Task
    BY ZenonT(60) DEF Task
  <2> QED
    BY <1>3, <2>1, <2>2, <2>3 DEF ReadMembers, Goto
<1>4. CASE ReadRequests(s)
  <2>1. "status_send" \in Location
    BY DEF Location, Registered
  <2>2. task[s].statuses \in Statuses /\ PendingRooms(task[s].target) \subseteq Rooms
    BY DEF Task, PendingRooms
  <2>3. [task[s].statuses EXCEPT !.pending = PendingRooms(task[s].target)] \in Statuses
    BY <2>2 DEF Statuses
  <2>4. \A st \in Statuses : [task[s] EXCEPT !.statuses = st] \in Task
    BY ZenonT(60) DEF Task
  <2> QED
    BY <1>4, <2>1, <2>3, <2>4 DEF ReadRequests, Goto
<1>5. CASE Welcome(s)
  <2>1. "announce" \in Location
    BY DEF Location, Registered
  <2>2. task[s].statuses \in Statuses /\ Online \subseteq Names
    BY DEF Task, Online
  <2>3. ShowStatuses([client[s] EXCEPT !.users = Online], task[s].statuses) \in View
    BY <2>2, ZenonT(60) DEF ShowStatuses, View, Statuses
  <2> QED
    BY <1>5, <2>1, <2>3, NoTaskType DEF Welcome, Goto
<1>6. CASE ReadOnline(s)
  <2>1. {"announce_send", "farewell_send"} \subseteq Location
    BY DEF Location, Registered
  <2>2. [task[s] EXCEPT !.online = Online] \in Task
    BY ZenonT(60) DEF Task, Online
  <2> QED
    BY <1>6, <2>1, <2>2 DEF ReadOnline, Goto
<1>7. CASE BroadcastPresence(s)
  <2>1. {"idle", "closed"} \subseteq Location
    BY DEF Location, Registered
  <2>2. [type |-> "presence", users |-> task[s].online] \in Frame
    BY DEF Task, Frame
  <2> QED
    BY <1>7, <2>1, <2>2, NoTaskType, PostedType DEF BroadcastPresence, Goto, Post
<1>8. CASE Deliver(s)
  <2>1. Head(outbox[s]) \in Frame /\ Tail(outbox[s]) \in Seq(Frame)
    BY <1>8 DEF Deliver
  <2> QED
    BY <1>8, <2>1, ShownType DEF Deliver
<1>9. CASE Drop(s)
  <2>1. "closing" \in Location
    BY DEF Location, Registered
  <2> QED
    BY <1>9, <2>1, NoTaskType DEF Drop, Goto
<1>10. CASE Unregister(s)
  <2>1. "farewell" \in Location /\ EmptyView \in View
    BY DEF Location, EmptyView, View
  <2>2. users' \in [Names -> Sessions \cup {NoSession}]
    BY <1>10 DEF Unregister, Disconnect
  <2>3. members' \in [Rooms -> SUBSET Names]
    BY <1>10 DEF Unregister, Disconnect
  <2> QED
    BY <1>10, <2>1, <2>2, <2>3 DEF Unregister, Goto
<1> QED
  BY <1>1, <1>2, <1>3, <1>4, <1>5, <1>6, <1>7, <1>8, <1>9, <1>10 DEF Connection

LEMMA RequestTypeStep ==
    ASSUME TypeOK, NEW s \in Sessions, TaskOK(s),
           Request(s) \/ \E v \in Names : SendDm(s, v)
    PROVE  TypeOK'
<1> USE DEF TypeOK, StoreTypeOK, storeVars, hubVars
<1>1. {"idle", "join", "create_room", "request_insert", "approve_delete",
       "reject_delete", "promote_update", "details_member", "route", "history"}
        \subseteq Registered
  BY DEF Registered
<1>2. /\ pc[s] = "idle" => user[s] \in Names
      /\ Op \cup {"admin_details"} = Op \cup {"admin_details"}
  BY <1>1 DEF TaskOK
<1>3. ASSUME NEW op \in Op \cup {"admin_details"}, NEW r \in Rooms \cup {NoRoom},
             NEW v \in Names \cup {NoName}, NEW l \in Registered,
             Ask(s, op, r, v, l), UNCHANGED <<storeVars, client, users>>,
             members' \in [Rooms -> SUBSET Names],
             outbox' \in [Sessions -> Seq(Frame)]
      PROVE  TypeOK'
  BY <1>3, AskEffect
<1>4. ASSUME NEW r \in Rooms,
             \/ Join(s, r) \/ Create(s, r) \/ Send(s, r) \/ History(s, r)
             \/ GetRoomDetails(s, r)
      PROVE  TypeOK'
  <2>1. /\ "join" \in Op /\ "create" \in Op /\ "send" \in Op /\ "history" \in Op
        /\ "details" \in Op
    BY DEF Op
  <2>2. PICK op \in Op \cup {"admin_details"}, l \in Registered :
          Ask(s, op, r, NoName, l) /\ UNCHANGED <<hubVars, storeVars, client>>
    BY <1>1, <1>4, <2>1 DEF Join, Create, Send, History, GetRoomDetails
  <2> QED
    BY <1>3, <2>2
<1>5. ASSUME NEW r \in Rooms, Leave(s, r)
      PROVE  TypeOK'
  <2>1. members' \in [Rooms -> SUBSET Names]
    BY <1>5 DEF Leave, LeaveHub
  <2> QED
    BY <1>1, <1>3, <1>5, <2>1 DEF Leave, Op
<1>6. ASSUME NEW r \in Rooms, RequestJoin(s, r)
      PROVE  TypeOK'
  <2>1. user[s] \in Names
    BY <1>2, <1>6 DEF RequestJoin, Ask
  <2> QED
    BY <1>1, <1>3, <1>6, <2>1 DEF RequestJoin, Op
<1>7. ASSUME NEW r \in Rooms, Typing(s, r)
      PROVE  TypeOK'
  <2>1. [type |-> "typing", room |-> r, user |-> user[s]] \in Frame
    BY <1>2, <1>7, RoomFrameType1 DEF Typing, Ask, RoomFrameType
  <2>2. outbox' \in [Sessions -> Seq(Frame)]
    BY <1>7, <2>1, PostedType DEF Typing, Post
  <2> QED
    BY <1>1, <1>3, <1>7, <2>2 DEF Typing, Op
<1>8. ASSUME NEW r \in Rooms, NEW v \in Names,
             ApproveJoin(s, r, v) \/ RejectJoin(s, r, v) \/ PromoteAdmin(s, r, v)
      PROVE  TypeOK'
  BY <1>1, <1>3, <1>8 DEF ApproveJoin, RejectJoin, PromoteAdmin, AdminAsks, Op
<1>9. ASSUME NEW v \in Names, SendDm(s, v)
      PROVE  TypeOK'
  <2>1. [type |-> "dm", ends |-> {v, user[s]}] \in Frame
    BY <1>2, <1>9 DEF SendDm, Ask, Frame
  <2>2. outbox' \in [Sessions -> Seq(Frame)]
    <3>1. PICK ns : outbox' = Posted(outbox, ns, [type |-> "dm", ends |-> {v, user[s]}])
      BY <1>9 DEF SendDm, Post
    <3> QED
      BY <2>1, <3>1, PostedType
  <2> QED
    BY <1>1, <1>3, <1>9, <2>2 DEF SendDm, Op
<1> QED
  BY <1>4, <1>5, <1>6, <1>7, <1>8, <1>9 DEF Request

LEMMA HandlerType ==
    ASSUME TypeOK, NEW s \in Sessions, TaskOK(s), Handler(s)
    PROVE  TypeOK'
<1> USE DEF TypeOK, StoreTypeOK, storeVars, hubVars, counters
<1>1. /\ pc[s] \in Registered => user[s] \in Names
      /\ pc[s] \in RoomLocation => task[s].room \in Rooms
      /\ pc[s] \in UserLocation => task[s].user \in Names
      /\ AfterStatuses(s) \in {"idle", "admins"}
      /\ task[s].todo \subseteq Names
      /\ RoomLocation \subseteq Registered
  BY LocationTypes DEF TaskOK, Task, RoomLocation, UserLocation, Registered
<1>2. CASE EnterRoom(s) \/ OpenRoom(s)
  <2>1. task[s].room \in Rooms /\ user[s] \in Names
    BY <1>1, <1>2 DEF EnterRoom, OpenRoom, RoomLocation
  <2>2. members' \in [Rooms -> SUBSET Names]
    <3>1. members' = [members EXCEPT ![task[s].room] = @ \cup {user[s]}]
      BY <1>2 DEF EnterRoom, OpenRoom, JoinHub
    <3> QED
      BY <2>1, <3>1
  <2>3. ShowJoined(client[s], task[s].room) \in View
    BY <2>1 DEF ShowJoined, View
  <2>4. client' \in [Sessions -> View]
    BY <1>2, <2>3 DEF EnterRoom, OpenRoom
  <2>5. Online \in SUBSET Names
    BY DEF Online
  <2>6. pc' \in [Sessions -> Location] /\ task' \in [Sessions -> Task]
    BY <1>1, <1>2, <2>5, FinishEffect, UpdateStatusesEffect DEF EnterRoom, OpenRoom
  <2> QED
    BY <1>2, <2>2, <2>4, <2>6 DEF EnterRoom, OpenRoom
<1>3. CASE CreateInsertRoom(s)
  <2>1. task[s].room \in Rooms /\ "create_member" \in Location
    BY <1>1, <1>3 DEF CreateInsertRoom, RoomLocation, Location, Registered
  <2> QED
    BY <1>3, <2>1 DEF CreateInsertRoom, InsertRoom, Goto
<1>4. CASE CreateConflict(s)
  BY <1>4, FinishEffect DEF CreateConflict
<1>5. CASE CreateInsertMember(s) \/ ApproveInsert(s) \/ PromoteUpdate(s)
  <2>1. task[s].room \in Rooms
    BY <1>1, <1>5 DEF CreateInsertMember, ApproveInsert, PromoteUpdate,
                      RoomLocation, UserLocation
  <2>2. role' \in [Rooms -> [Names -> Role]]
    <3>1. CASE CreateInsertMember(s)
      BY <2>1, <3>1 DEF CreateInsertMember, InsertCreator, Role
    <3>2. CASE ApproveInsert(s)
      BY <2>1, <3>2 DEF ApproveInsert, InsertMember, Role
    <3>3. CASE PromoteUpdate(s)
      BY <2>1, <3>3 DEF PromoteUpdate, SetAdmin, Role
    <3> QED
      BY <1>5, <3>1, <3>2, <3>3
  <2>3. {"create_hub", "notify"} \subseteq Location
    BY DEF Location, Registered
  <2>4. /\ Goto(s, "create_hub") \/ Goto(s, "notify")
        /\ UNCHANGED <<hubVars, rooms, requests, user, task, client, counters>>
    BY <1>5 DEF CreateInsertMember, ApproveInsert, PromoteUpdate,
         InsertCreator, InsertMember, SetAdmin
  <2> QED
    BY <2>2, <2>3, <2>4 DEF Goto
<1>6. CASE ApproveDelete(s) \/ RejectDelete(s)
  <2>1. {"approve_insert", "notify"} \subseteq Location
    BY DEF Location, Registered
  <2> QED
    BY <1>6, <2>1 DEF ApproveDelete, RejectDelete, DeleteRequest, Goto
<1>7. CASE RequestInsert(s)
  <2>1. task[s].room \in Rooms /\ user[s] \in Names
    BY <1>1, <1>7 DEF RequestInsert, RoomLocation, Registered
  <2>2. pc' \in [Sessions -> Location] /\ task' \in [Sessions -> Task]
    BY <1>7, <2>1, UpdateStatusesEffect DEF RequestInsert
  <2> QED
    BY <1>7, <2>1, <2>2 DEF RequestInsert, InsertRequest
<1>8. CASE SendStatus(s)
  <2>1. [type |-> "rooms", statuses |-> task[s].statuses] \in Frame
    BY DEF Task, Frame
  <2>2. pc' \in [Sessions -> Location] /\ task' \in [Sessions -> Task]
    BY <1>1, <1>8, UpdateStatusesEffect DEF SendStatus
  <2> QED
    BY <1>8, <2>1, <2>2, PostedType DEF SendStatus, Post
<1>9. CASE NotifyUser(s)
  <2>1. /\ pc[s] = "notify" /\ task[s].type \in Answer
        /\ task[s].room \in Rooms /\ task[s].user \in Names
    BY <1>1, <1>9 DEF NotifyUser, RoomLocation, UserLocation, TaskOK
  <2>2. Notice(s) \in Frame
    <3>1. NoticeType[task[s].type] \in RoomFrameType
      BY <2>1 DEF NoticeType, Answer, RoomFrameType
    <3> QED
      BY <2>1, <3>1, RoomFrameType1 DEF Notice
  <2>3. Posted(outbox, members[task[s].room], Notice(s)) \in [Sessions -> Seq(Frame)]
    BY <2>2, PostedType
  <2>4. outbox' \in [Sessions -> Seq(Frame)]
    <3>1. CASE task[s].type = "promote"
      BY <1>9, <2>2, <2>3, <3>1, PostedType DEF NotifyUser
    <3>2. CASE task[s].type # "promote"
      BY <1>9, <2>2, <3>2, PostedType DEF NotifyUser
    <3> QED
      BY <3>1, <3>2
  <2>5. pc' \in [Sessions -> Location] /\ task' \in [Sessions -> Task]
    BY <1>9, <2>1, UpdateStatusesEffect DEF NotifyUser
  <2> QED
    BY <1>9, <2>4, <2>5 DEF NotifyUser
<1>10. CASE ReadAdmins(s)
  <2>1. /\ pc[s] = "admins" /\ task[s].room \in Rooms /\ user[s] \in Names
        /\ RoomAdmins(task[s].room) \subseteq Names
    BY <1>1, <1>10 DEF ReadAdmins, RoomLocation, UserLocation, RoomAdmins
  <2>2. [type |-> "join_requested", room |-> task[s].room, user |-> user[s]] \in Frame
    BY <2>1, RoomFrameType1 DEF RoomFrameType
  <2>3. outbox' \in [Sessions -> Seq(Frame)]
    <3>1. \/ UNCHANGED outbox
          \/ outbox' = Posted(outbox, RoomAdmins(task[s].room),
                [type |-> "join_requested", room |-> task[s].room, user |-> user[s]])
      <4>1. CASE task[s].type = "request"
        BY <1>10, <4>1 DEF ReadAdmins, Post
      <4>2. CASE task[s].type # "request"
        BY <1>10, <4>2 DEF ReadAdmins
      <4> QED
        BY <4>1, <4>2
    <3>2. Posted(outbox, RoomAdmins(task[s].room),
             [type |-> "join_requested", room |-> task[s].room, user |-> user[s]])
            \in [Sessions -> Seq(Frame)]
      BY <2>2, PostedType
    <3> QED
      BY <3>1, <3>2
  <2>4. pc' \in [Sessions -> Location] /\ task' \in [Sessions -> Task]
    <3>1. CASE RoomAdmins(task[s].room) = {}
      BY <1>10, <3>1, FinishEffect DEF ReadAdmins
    <3>2. CASE RoomAdmins(task[s].room) # {}
      <4>1. \A ns \in SUBSET Names : [task[s] EXCEPT !.todo = ns] \in Task
        BY ZenonT(60) DEF Task
      <4>2. "details" \in Location
        BY DEF Location, Registered
      <4> QED
        <5>1. /\ pc' = [pc EXCEPT ![s] = "details"]
              /\ task' = [task EXCEPT ![s].todo = RoomAdmins(task[s].room)]
          BY <1>10, <3>2 DEF ReadAdmins, Goto
        <5> QED
          BY <2>1, <4>1, <4>2, <5>1
    <3> QED
      BY <3>1, <3>2
  <2> QED
    BY <1>10, <2>3, <2>4 DEF ReadAdmins
<1>11. CASE SendDetails(s)
  <2>1. pc[s] = "details" /\ task[s].room \in Rooms /\ user[s] \in Names
    BY <1>1, <1>11 DEF SendDetails, RoomLocation, UserLocation
  <2>2. DetailsFrame(s) \in Frame
    BY <2>1, RoomFrameType1 DEF DetailsFrame, RoomFrameType
  <2>3. outbox' \in [Sessions -> Seq(Frame)]
    <3>1. PICK ns : outbox' = Posted(outbox, ns, DetailsFrame(s))
      BY <1>11 DEF SendDetails, Post, DoneWith
    <3> QED
      BY <2>2, <3>1, PostedType
  <2>4. pc' \in [Sessions -> Location] /\ task' \in [Sessions -> Task]
    <3>1. CASE Finish(s)
      BY <3>1, FinishEffect
    <3>2. CASE ~Finish(s)
      <4>1. PICK a : /\ task' = [task EXCEPT ![s].todo = @ \ {a}]
                     /\ UNCHANGED pc
        BY <1>11, <3>2 DEF SendDetails, DoneWith
      <4>2. [task[s] EXCEPT !.todo = @ \ {a}] \in Task
        BY ZenonT(60) DEF Task
      <4> QED
        BY <4>1, <4>2
    <3> QED
      BY <3>1, <3>2
  <2> QED
    BY <1>11, <2>3, <2>4 DEF SendDetails, DoneWith
<1>12. CASE ReplyDetails(s) \/ ReplyHistory(s)
  <2>1. task[s].room \in Rooms
    BY <1>1, <1>12 DEF ReplyDetails, ReplyHistory, RoomLocation
  <2>2. /\ [client[s] EXCEPT !.managed = client[s].managed \cup {task[s].room}] \in View
        /\ [client[s] EXCEPT !.heard = client[s].heard \cup {task[s].room}] \in View
    BY <2>1 DEF View
  <2>3. client' \in [Sessions -> View]
    BY <1>12, <2>2 DEF ReplyDetails, ReplyHistory
  <2> QED
    BY <1>12, <2>3, FinishEffect DEF ReplyDetails, ReplyHistory
<1>13. CASE RouteMessage(s)
  <2>1. task[s].room \in Rooms /\ user[s] \in Names
    BY <1>1, <1>13 DEF RouteMessage, RoomLocation
  <2>2. [type |-> "message", room |-> task[s].room, user |-> user[s]] \in Frame
    BY <2>1, RoomFrameType1 DEF RoomFrameType
  <2>3. members' \in [Rooms -> SUBSET Names]
    BY <1>13, <2>1 DEF RouteMessage, JoinHub
  <2>4. outbox' \in [Sessions -> Seq(Frame)]
    BY <1>13, <2>2, PostedType DEF RouteMessage, Post
  <2> QED
    BY <1>13, <2>3, <2>4, FinishEffect DEF RouteMessage
<1> QED
  BY <1>2, <1>3, <1>4, <1>5, <1>6, <1>7, <1>8, <1>9, <1>10, <1>11, <1>12, <1>13
     DEF Handler

LEMMA FailureType ==
    ASSUME TypeOK, NEW s \in Sessions, TaskOK(s), StatementFails(s) \/ StatusesFail(s)
    PROVE  TypeOK'
<1> USE DEF TypeOK, StoreTypeOK, storeVars, hubVars
<1>1. CASE StatementFails(s)
  <2>1. CASE Finish(s)
    BY <1>1, <2>1, FinishEffect DEF StatementFails
  <2>2. CASE ~Finish(s)
    <3>1. PICK a : task' = [task EXCEPT ![s].todo = @ \ {a}] /\ UNCHANGED pc
      BY <1>1, <2>2 DEF StatementFails, DoneWith
    <3>2. [task[s] EXCEPT !.todo = @ \ {a}] \in Task
      BY ZenonT(60) DEF Task
    <3> QED
      BY <1>1, <3>1, <3>2 DEF StatementFails
  <2> QED
    BY <2>1, <2>2
<1>2. CASE StatusesFail(s)
  <2>1. /\ \A st \in Statuses : [task[s] EXCEPT !.statuses = st] \in Task
        /\ task[s].todo \in SUBSET Names
    BY ZenonT(60) DEF Task
  <2>4. [NoStatuses EXCEPT !.joined = {General} \cap Rooms] \in Statuses
    BY DEF NoStatuses, Statuses
  <2>2. "status_send" \in Location
    BY DEF Location, Registered
  <2>3. pc' \in [Sessions -> Location] /\ task' \in [Sessions -> Task]
    <3>1. CASE task[s].type = "welcome"
      BY <1>2, <2>1, <2>2, <2>4, <3>1, ZenonT(60) DEF StatusesFail, Goto
    <3>2. CASE task[s].type # "welcome"
      BY <1>2, <2>1, <3>2, UpdateStatusesEffect, LocationTypes DEF StatusesFail
    <3> QED
      BY <3>1, <3>2
  <2> QED
    BY <1>2, <2>3 DEF StatusesFail
<1> QED
  BY <1>1, <1>2

LEMMA TypeStep ==
    ASSUME TypeOK, \A s \in Sessions : TaskOK(s), [Next]_vars
    PROVE  TypeOK'
<1>1. CASE UNCHANGED vars
  BY <1>1 DEF TypeOK, StoreTypeOK, vars, hubVars, storeVars, sessionVars, counters
<1>2. CASE Crash
  <2>1. /\ {"new", "closed"} \subseteq Location /\ EmptyView \in View /\ NoTask \in Task
        /\ <<>> \in Seq(Frame)
    BY NoTaskType DEF Location, EmptyView, View
  <2>2. /\ users' \in [Names -> Sessions \cup {NoSession}]
        /\ members' \in [Rooms -> SUBSET Names]
        /\ outbox' \in [Sessions -> Seq(Frame)]
    BY <1>2, <2>1 DEF Crash
  <2>3. /\ pc' \in [Sessions -> Location]
        /\ task' \in [Sessions -> Task]
        /\ client' \in [Sessions -> View]
    BY <1>2, <2>1 DEF Crash
  <2> QED
    BY <1>2, <2>2, <2>3 DEF Crash, TypeOK, StoreTypeOK, storeVars
<1> QED
  BY <1>1, <1>2, ConnectionType, RequestTypeStep, HandlerType, FailureType DEF Next
-----------------------------------------------------------------------------
\* Which steps touch the hub's table of users, and which tasks.

\* A step of session s touches the task of no other session.
OthersStay(s) ==
    \A t \in Sessions \ {s} :
        pc'[t] = pc[t] /\ task'[t] = task[t] /\ user'[t] = user[t]

\* Nobody logs in or out.
HubStays ==
    /\ UNCHANGED <<users, user>>
    /\ \A t \in Sessions : pc'[t] \in Registered <=> pc[t] \in Registered

LEMMA ConnectionLocal ==
    ASSUME TypeOK, NEW s \in Sessions, Connection(s)
    PROVE  /\ OthersStay(s)
           /\ (\E n \in Names : Accept(s, n)) \/ Unregister(s) \/ HubStays
<1> USE DEF OthersStay, Goto, TypeOK
<1>1. ASSUME NEW n \in Names, Accept(s, n)
      PROVE  OthersStay(s)
  BY <1>1 DEF Accept
<1>2. CASE TurnAway(s) \/ ReadMembers(s) \/ ReadRequests(s) \/ Welcome(s)
  <2>1. OthersStay(s) /\ UNCHANGED <<users, user>>
    BY <1>2 DEF TurnAway, ReadMembers, ReadRequests, Welcome, hubVars
  <2>2. pc'[s] \in Registered <=> pc[s] \in Registered
    BY <1>2 DEF TurnAway, ReadMembers, ReadRequests, Welcome, Registered
  <2> QED
    BY <2>1, <2>2 DEF HubStays
<1>3. CASE ReadOnline(s) \/ BroadcastPresence(s)
  <2>1. OthersStay(s) /\ UNCHANGED <<users, user>>
    BY <1>3 DEF ReadOnline, BroadcastPresence, hubVars
  <2>2. pc'[s] \in Registered <=> pc[s] \in Registered
    BY <1>3 DEF ReadOnline, BroadcastPresence, Registered
  <2> QED
    BY <2>1, <2>2 DEF HubStays
<1>4. CASE Deliver(s) \/ Drop(s)
  <2>1. OthersStay(s) /\ UNCHANGED <<users, user>>
    BY <1>4 DEF Deliver, Drop, hubVars
  <2>2. pc'[s] \in Registered <=> pc[s] \in Registered
    BY <1>4 DEF Deliver, Drop, Registered
  <2> QED
    BY <2>1, <2>2 DEF HubStays
<1>5. CASE Unregister(s)
  BY <1>5 DEF Unregister
<1> QED
  BY <1>1, <1>2, <1>3, <1>4, <1>5 DEF Connection

LEMMA RequestLocal ==
    ASSUME TypeOK, NEW s \in Sessions, Request(s) \/ \E v \in Names : SendDm(s, v)
    PROVE  OthersStay(s) /\ HubStays
<1>0. {"idle", "join", "create_room", "request_insert", "approve_delete",
       "reject_delete", "promote_update", "details_member", "route", "history"}
        \subseteq Registered
  BY DEF Registered
<1>1. PICK op, r, v, l : Ask(s, op, r, v, l) /\ l \in Registered /\ UNCHANGED users
  <2>1. ASSUME NEW r \in Rooms,
               \/ Join(s, r) \/ Create(s, r) \/ RequestJoin(s, r) \/ Send(s, r)
               \/ History(s, r) \/ GetRoomDetails(s, r) \/ Leave(s, r)
               \/ Typing(s, r)
        PROVE  \E op, v, l : Ask(s, op, r, v, l) /\ l \in Registered /\ UNCHANGED users
    BY <1>0, <2>1 DEF Join, Leave, Create, RequestJoin, GetRoomDetails, Send,
         Typing, History, hubVars
  <2>2. ASSUME NEW r \in Rooms, NEW v \in Names,
               ApproveJoin(s, r, v) \/ RejectJoin(s, r, v) \/ PromoteAdmin(s, r, v)
        PROVE  \E op, l : Ask(s, op, r, v, l) /\ l \in Registered /\ UNCHANGED users
    BY <1>0, <2>2 DEF ApproveJoin, RejectJoin, PromoteAdmin, AdminAsks, hubVars
  <2>3. ASSUME NEW v \in Names, SendDm(s, v)
        PROVE  Ask(s, "dm", NoRoom, v, "idle") /\ UNCHANGED users
    BY <2>3 DEF SendDm
  <2> QED
    BY <1>0, <2>1, <2>2, <2>3 DEF Request
<1>2. pc' = [pc EXCEPT ![s] = l] /\ pc[s] = "idle" /\ UNCHANGED user
  BY <1>1 DEF Ask, Goto
<1>3. \A t \in Sessions \ {s} : task'[t] = task[t]
  BY <1>1 DEF Ask, TypeOK
<1>4. "idle" \in Registered /\ pc \in [Sessions -> Location]
  BY DEF Registered, TypeOK
<1> QED
  BY <1>1, <1>2, <1>3, <1>4 DEF OthersStay, HubStays

LEMMA UpdateStatusesLocal ==
    ASSUME TypeOK, NEW s \in Sessions, NEW ts \in SUBSET Names,
           NEW after \in {"idle", "admins"}, UpdateStatuses(s, ts, after),
           UNCHANGED <<users, user>>, pc[s] \in Registered
    PROVE  OthersStay(s) /\ HubStays
<1>1. pc'[s] \in Registered
  BY UpdateStatusesEffect DEF Registered
<1> QED
  BY <1>1, UpdateStatusesEffect DEF OthersStay, HubStays

LEMMA FinishLocal ==
    ASSUME TypeOK, NEW s \in Sessions, Finish(s), UNCHANGED <<users, user>>,
           pc[s] \in Registered
    PROVE  OthersStay(s) /\ HubStays
<1>1. pc'[s] \in Registered
  BY FinishEffect DEF Registered
<1> QED
  BY <1>1, FinishEffect DEF OthersStay, HubStays

LEMMA GotoLocal ==
    ASSUME TypeOK, NEW s \in Sessions, NEW l \in Registered, Goto(s, l),
           \A t \in Sessions \ {s} : task'[t] = task[t],
           UNCHANGED <<users, user>>, pc[s] \in Registered
    PROVE  OthersStay(s) /\ HubStays
  BY DEF OthersStay, HubStays, Goto, TypeOK

LEMMA HandlerLocal ==
    ASSUME TypeOK, NEW s \in Sessions, TaskOK(s),
           Handler(s) \/ StatementFails(s) \/ StatusesFail(s)
    PROVE  OthersStay(s) /\ HubStays
<1>1. UNCHANGED <<users, user>>
  BY DEF Handler, EnterRoom, CreateInsertRoom, CreateConflict, CreateInsertMember,
         OpenRoom, SendStatus, RequestInsert, ApproveDelete, ApproveInsert,
         RejectDelete, PromoteUpdate, NotifyUser, ReadAdmins, SendDetails,
         ReplyDetails, RouteMessage, ReplyHistory, StatementFails, StatusesFail,
         hubVars
<1>2. /\ Online \in SUBSET Names /\ task[s].todo \in SUBSET Names
      /\ AfterStatuses(s) \in {"idle", "admins"}
      /\ pc[s] \in Registered => user[s] \in Names
      /\ pc[s] = "notify" => task[s].user \in Names
  BY LocationTypes DEF Online, TypeOK, Task, TaskOK, UserLocation
<1>3. CASE Finish(s)
  <2>1. pc[s] \in Registered
    BY <1>3 DEF Handler, EnterRoom, CreateInsertRoom, CreateConflict,
         CreateInsertMember, OpenRoom, SendStatus, RequestInsert, ApproveDelete,
         ApproveInsert, RejectDelete, PromoteUpdate, NotifyUser, ReadAdmins,
         SendDetails, ReplyDetails, RouteMessage, ReplyHistory, StatementFails,
         StatusesFail, Registered
  <2> QED
    BY <1>1, <1>3, <2>1, FinishLocal
<1>4. CASE CreateInsertRoom(s) \/ CreateInsertMember(s) \/ ApproveDelete(s)
             \/ ApproveInsert(s) \/ RejectDelete(s) \/ PromoteUpdate(s)
  <2>1. PICK l \in Registered : Goto(s, l) /\ pc[s] \in Registered /\ UNCHANGED task
    BY <1>4 DEF CreateInsertRoom, CreateInsertMember, ApproveDelete, ApproveInsert,
         RejectDelete, PromoteUpdate, Registered
  <2> QED
    BY <1>1, <2>1, GotoLocal
<1>5. CASE OpenRoom(s) \/ SendStatus(s) \/ RequestInsert(s) \/ NotifyUser(s)
  <2>1. pc[s] \in Registered
    BY <1>5 DEF OpenRoom, SendStatus, RequestInsert, NotifyUser, Registered
  <2>2. PICK ts \in SUBSET Names, after \in {"idle", "admins"} :
          UpdateStatuses(s, ts, after)
    BY <1>2, <1>5, <2>1 DEF OpenRoom, SendStatus, RequestInsert, NotifyUser
  <2> QED
    BY <1>1, <2>1, <2>2, UpdateStatusesLocal
<1>6. CASE ReadAdmins(s) /\ ~Finish(s)
  <2>1. /\ Goto(s, "details") /\ pc[s] = "admins"
        /\ task' = [task EXCEPT ![s].todo = RoomAdmins(task[s].room)]
    BY <1>6 DEF ReadAdmins
  <2>2. \A t \in Sessions \ {s} : task'[t] = task[t]
    BY <2>1 DEF TypeOK
  <2> QED
    BY <1>1, <2>1, <2>2, GotoLocal DEF Registered
<1>7. CASE (SendDetails(s) \/ StatementFails(s)) /\ ~Finish(s)
  <2>1. PICK a : UNCHANGED pc /\ task' = [task EXCEPT ![s].todo = @ \ {a}]
    BY <1>7 DEF SendDetails, StatementFails, DoneWith
  <2> QED
    BY <1>1, <2>1 DEF OthersStay, HubStays, TypeOK
<1>8. CASE StatusesFail(s)
  <2>1. pc[s] \in Registered
    BY <1>8 DEF StatusesFail, Registered
  <2>2. CASE task[s].type = "welcome"
    <3>1. /\ Goto(s, "status_send")
          /\ \A t \in Sessions \ {s} : task'[t] = task[t]
      BY <1>8, <2>2 DEF StatusesFail, TypeOK
    <3> QED
      BY <1>1, <2>1, <3>1, GotoLocal DEF Registered
  <2>3. CASE task[s].type # "welcome"
    <3>1. UpdateStatuses(s, task[s].todo, AfterStatuses(s))
      BY <1>8, <2>3 DEF StatusesFail
    <3> QED
      BY <1>1, <1>2, <2>1, <3>1, UpdateStatusesLocal
  <2> QED
    BY <2>2, <2>3
<1> QED
  BY <1>3, <1>4, <1>5, <1>6, <1>7, <1>8 DEF Handler, EnterRoom, CreateConflict,
     ReplyDetails, RouteMessage, ReplyHistory
-----------------------------------------------------------------------------
\* The hub's tables.

LEMMA HubFollowsStep ==
    ASSUME TypeOK, \A s \in Sessions : TaskOK(s), HubFollowsSessions, [Next]_vars
    PROVE  HubFollowsSessions'
<1>1. CASE UNCHANGED vars
  BY <1>1 DEF HubFollowsSessions, vars, hubVars, sessionVars
<1>2. CASE HubStays
  <2>1. \A n \in Names : users[n] # NoSession => users[n] \in Sessions
    BY DEF TypeOK
  <2> QED
    BY <1>2, <2>1 DEF HubFollowsSessions, HubStays
<1>3. ASSUME NEW s \in Sessions, NEW n \in Names, Accept(s, n)
      PROVE  HubFollowsSessions'
  <2>1. /\ pc[s] = "new" /\ users[n] = NoSession
        /\ pc' = [pc EXCEPT ![s] = "status_members"]
        /\ users' = [users EXCEPT ![n] = s] /\ user' = [user EXCEPT ![s] = n]
    BY <1>3 DEF Accept, Connect, Goto
  <2>2. "status_members" \in Registered /\ "new" \notin Registered
    BY DEF Registered
  <2>3. /\ pc \in [Sessions -> Location] /\ user \in [Sessions -> Names \cup {NoName}]
        /\ users \in [Names -> Sessions \cup {NoSession}]
    BY DEF TypeOK
  <2>4. ASSUME NEW t \in Sessions, pc'[t] \in Registered
        PROVE  users'[user'[t]] = t
    <3>1. CASE t = s
      BY <2>1, <2>3, <3>1
    <3>2. CASE t # s
      <4>1. users[user[t]] = t /\ user'[t] = user[t] /\ user[t] \in Names
        BY <2>1, <2>3, <2>4, <3>2 DEF HubFollowsSessions, TaskOK
      <4> QED
        BY <2>1, <2>3, <4>1, NoSessionIsNoSession
    <3> QED
      BY <3>1, <3>2
  <2>5. ASSUME NEW m \in Names, users'[m] # NoSession
        PROVE  user'[users'[m]] = m /\ pc'[users'[m]] \in Registered
    <3>1. CASE m = n
      BY <2>1, <2>2, <2>3, <3>1
    <3>2. CASE m # n
      <4>1. users'[m] = users[m] /\ users[m] \in Sessions /\ users[m] # s
        BY <2>1, <2>2, <2>3, <2>5, <3>2 DEF HubFollowsSessions
      <4> QED
        BY <2>1, <2>3, <2>5, <4>1 DEF HubFollowsSessions
    <3> QED
      BY <3>1, <3>2
  <2> QED
    BY <2>4, <2>5 DEF HubFollowsSessions
<1>4. ASSUME NEW s \in Sessions, Unregister(s)
      PROVE  HubFollowsSessions'
  <2>1. /\ pc[s] = "closing" /\ pc' = [pc EXCEPT ![s] = "farewell"]
        /\ users' = [users EXCEPT ![user[s]] = NoSession] /\ UNCHANGED user
    BY <1>4 DEF Unregister, Disconnect, Goto
  <2>2. "closing" \in Registered /\ "farewell" \notin Registered
    BY DEF Registered
  <2>3. /\ pc \in [Sessions -> Location] /\ user[s] \in Names
        /\ users \in [Names -> Sessions \cup {NoSession}] /\ users[user[s]] = s
    BY <2>1, <2>2 DEF TypeOK, TaskOK, HubFollowsSessions
  <2>4. ASSUME NEW t \in Sessions, pc'[t] \in Registered
        PROVE  users'[user'[t]] = t
    <3>1. t # s /\ pc[t] \in Registered
      BY <2>1, <2>2, <2>3, <2>4
    <3>2. users[user[t]] = t /\ user[t] \in Names /\ user[t] # user[s]
      BY <2>3, <3>1 DEF HubFollowsSessions, TaskOK
    <3> QED
      BY <2>1, <2>3, <3>2
  <2>5. ASSUME NEW m \in Names, users'[m] # NoSession
        PROVE  user'[users'[m]] = m /\ pc'[users'[m]] \in Registered
    <3>1. m # user[s] /\ users'[m] = users[m]
      BY <2>1, <2>3, <2>5
    <3>2. users[m] \in Sessions /\ user[users[m]] = m /\ pc[users[m]] \in Registered
      BY <2>3, <2>5, <3>1 DEF HubFollowsSessions
    <3> QED
      BY <2>1, <2>3, <3>1, <3>2
  <2> QED
    BY <2>4, <2>5 DEF HubFollowsSessions
<1>5. CASE Crash
  BY <1>5 DEF Crash, HubFollowsSessions, Registered
<1> QED
  BY <1>1, <1>2, <1>3, <1>4, <1>5, ConnectionLocal, RequestLocal, HandlerLocal
     DEF Next

\* The handlers that put the user of session s into a room of the hub.
Enters(s) == EnterRoom(s) \/ OpenRoom(s) \/ RouteMessage(s)

LEMMA MembersSteps ==
    ASSUME [Next]_vars
    PROVE  \/ UNCHANGED members
           \/ Crash
           \/ \E s \in Sessions : \/ Unregister(s) \/ Enters(s)
                                 \/ \E r \in Rooms : Leave(s, r)
<1>1. CASE UNCHANGED vars
  BY <1>1 DEF vars, hubVars
<1>2. ASSUME NEW s \in Sessions, Connection(s)
      PROVE  UNCHANGED members \/ Unregister(s)
  BY <1>2 DEF Connection, Accept, TurnAway, ReadMembers, ReadRequests, Welcome,
              ReadOnline, BroadcastPresence, Deliver, Drop, hubVars
<1>3. ASSUME NEW s \in Sessions, Request(s) \/ \E v \in Names : SendDm(s, v)
      PROVE  UNCHANGED members \/ \E r \in Rooms : Leave(s, r)
  BY <1>3 DEF Request, Join, Create, RequestJoin, GetRoomDetails, Send, Typing,
              History, ApproveJoin, RejectJoin, PromoteAdmin, AdminAsks, SendDm,
              hubVars
<1>4. ASSUME NEW s \in Sessions, Handler(s) \/ StatementFails(s) \/ StatusesFail(s)
      PROVE  UNCHANGED members \/ Enters(s)
  BY <1>4 DEF Handler, Enters, CreateInsertRoom, CreateConflict,
              CreateInsertMember, SendStatus, RequestInsert, ApproveDelete,
              ApproveInsert, RejectDelete, PromoteUpdate, NotifyUser, ReadAdmins,
              SendDetails, ReplyDetails, ReplyHistory, StatementFails,
              StatusesFail, hubVars
<1> QED
  BY <1>1, <1>2, <1>3, <1>4 DEF Next

LEMMA UsersSteps ==
    ASSUME TypeOK, \A s \in Sessions : TaskOK(s), [Next]_vars
    PROVE  \/ UNCHANGED users
           \/ Crash
           \/ \E s \in Sessions : Unregister(s)
           \/ \E s \in Sessions, n \in Names :
                 users[n] = NoSession /\ users' = [users EXCEPT ![n] = s]
<1>1. ASSUME NEW s \in Sessions, NEW n \in Names, Accept(s, n)
      PROVE  users[n] = NoSession /\ users' = [users EXCEPT ![n] = s]
  BY <1>1 DEF Accept, Connect
<1> QED
  BY <1>1, ConnectionLocal, RequestLocal, HandlerLocal
     DEF Next, HubStays, vars, hubVars

LEMMA RoomsStep ==
    ASSUME IndInv, [Next]_vars
    PROVE  RoomsHoldOnlineMembers'
<1> USE DEF IndInv
<1>1. \A r \in Rooms, n \in Names : IsRoomMember(r, n) => IsRoomMember(r, n)'
  BY Monotone
<1>2. \A r \in Rooms : members[r] \subseteq Names
  BY DEF TypeOK
<1>3. CASE Crash
  BY <1>3 DEF Crash, RoomsHoldOnlineMembers
<1>4. ASSUME NEW s \in Sessions, Unregister(s)
      PROVE  RoomsHoldOnlineMembers'
  <2>1. /\ users' = [users EXCEPT ![user[s]] = NoSession]
        /\ members' = [r \in Rooms |-> members[r] \ {user[s]}]
    BY <1>4 DEF Unregister, Disconnect
  <2>2. ASSUME NEW r \in Rooms, NEW n \in members'[r]
        PROVE  users'[n] # NoSession /\ IsRoomMember(r, n)'
    <3>1. n \in members[r] /\ n # user[s] /\ n \in Names
      BY <1>2, <2>1
    <3>2. users'[n] = users[n]
      BY <2>1, <3>1 DEF TypeOK
    <3> QED
      BY <1>1, <3>1, <3>2 DEF RoomsHoldOnlineMembers
  <2> QED
    BY <2>2 DEF RoomsHoldOnlineMembers
<1>5. CASE /\ \A r \in Rooms : members'[r] \subseteq members[r]
           /\ ~Crash /\ \A s \in Sessions : ~Unregister(s)
  <2>1. \A n \in Names : users[n] # NoSession => users'[n] # NoSession
    BY <1>5, UsersSteps, NoSessionIsNoSession DEF TypeOK
  <2> QED
    BY <1>1, <1>2, <1>5, <2>1 DEF RoomsHoldOnlineMembers
<1>6. ASSUME NEW s \in Sessions, Enters(s)
      PROVE  RoomsHoldOnlineMembers'
  <2>1. pc[s] \in {"join", "create_hub", "route"}
    BY <1>6 DEF Enters, EnterRoom, OpenRoom, RouteMessage
  <2>2. /\ task[s].room \in Rooms /\ user[s] \in Names
        /\ IsRoomMember(task[s].room, user[s])
        /\ users[user[s]] = s
    BY <2>1 DEF TaskOK, RoomLocation, Registered, HubFollowsSessions
  <2>3. /\ members' = [members EXCEPT ![task[s].room] = @ \cup {user[s]}]
        /\ UNCHANGED users
    BY <1>6 DEF Enters, EnterRoom, OpenRoom, RouteMessage, JoinHub
  <2>4. ASSUME NEW r \in Rooms, NEW n \in members'[r]
        PROVE  n \in members[r] \/ (n = user[s] /\ r = task[s].room)
    BY <2>2, <2>3, <2>4 DEF TypeOK
  <2> QED
    BY <1>1, <1>2, <2>2, <2>3, <2>4, NoSessionIsNoSession DEF RoomsHoldOnlineMembers
<1>7. ASSUME NEW s \in Sessions, NEW r \in Rooms, Leave(s, r)
      PROVE  \A q \in Rooms : members'[q] \subseteq members[q]
  BY <1>7 DEF Leave, LeaveHub, TypeOK
<1> QED
  BY <1>3, <1>4, <1>5, <1>6, <1>7, MembersSteps
-----------------------------------------------------------------------------
\* What a handler has checked stays true.

LEMMA TaskKept ==
    ASSUME TypeOK, [Next]_vars, NEW s \in Sessions, TaskOK(s),
           pc'[s] = pc[s], task'[s] = task[s], user'[s] = user[s]
    PROVE  TaskOK(s)'
<1>1. \A r \in Rooms, n \in Names : /\ IsRoomMember(r, n) => IsRoomMember(r, n)'
                                    /\ IsRoomAdmin(r, n) => IsRoomAdmin(r, n)'
  BY Monotone
<1>3. \A r \in Rooms : RoomAdmins(r) \subseteq RoomAdmins(r)'
  BY <1>1 DEF RoomAdmins
<1>4. {"join", "create_hub", "route", "history", "approve_delete",
       "approve_insert", "promote_update", "details", "details_member", "notify"}
         \subseteq RoomLocation \cap Registered
  BY DEF RoomLocation, UserLocation, Registered
<1>5. /\ pc'[s] \in Registered => user'[s] \in Names
      /\ pc'[s] \in RoomLocation =>
            task'[s].room \in Rooms /\ task'[s].type # "welcome"
      /\ pc'[s] \in UserLocation => task'[s].user \in Names /\ task'[s].type \in Answer
      /\ pc'[s] = "reject_delete" => task'[s].type = "reject"
      /\ pc'[s] = "promote_update" => task'[s].type = "promote"
      /\ pc'[s] \in StatusLocation => task'[s].target \in Names
      /\ pc'[s] \in StatusLocation /\ task'[s].type # "welcome" =>
            task'[s].room \in Rooms
      /\ pc'[s] \in StatusLocation /\ task'[s].type = "welcome" =>
            task'[s].target = user'[s]
  BY DEF TaskOK
<1>6. pc'[s] \in StatusLocation =>
          (task[s].statuses.joined \subseteq JoinedRooms(task[s].target))'
  <2>1. pc[s] \in StatusLocation =>
          task[s].statuses.joined \subseteq JoinedRooms(task[s].target)'
    BY <1>1 DEF TaskOK, JoinedRooms
  <2> QED
    BY <2>1 DEF JoinedRooms, IsRoomMember
<1>7. /\ pc'[s] \in {"join", "create_hub", "route", "history"} =>
            IsRoomMember(task[s].room, user[s])'
      /\ pc'[s] \in {"approve_delete", "approve_insert", "promote_update"} =>
            IsRoomAdmin(task[s].room, user[s])'
      /\ pc'[s] = "details_member" /\ task'[s].type = "admin_details" =>
            IsRoomAdmin(task[s].room, user[s])'
      /\ pc'[s] = "details" => task'[s].todo \subseteq RoomAdmins(task[s].room)'
      /\ pc'[s] = "notify" /\ task'[s].type = "approve" =>
            IsRoomMember(task[s].room, task[s].user)'
  BY <1>1, <1>3, <1>4 DEF TaskOK, UserLocation
<1> QED
  BY <1>5, <1>6, <1>7 DEF TaskOK

\* Three lemmas by where the task is after its step: outside the handlers,
\* reading statuses, inside a handler.

LEMMA TaskElsewhere ==
    ASSUME NEW s \in Sessions, pc'[s] \notin StatusLocation \cup RoomLocation,
           pc'[s] \in Registered => user'[s] \in Names
    PROVE  TaskOK(s)'
  BY DEF TaskOK, StatusLocation, RoomLocation, UserLocation

LEMMA TaskReadsStatuses ==
    ASSUME NEW s \in Sessions, pc'[s] \in StatusLocation, user'[s] \in Names,
           task'[s].target \in Names,
           \/ task'[s].statuses.joined = {}
           \/ (task[s].statuses.joined \subseteq JoinedRooms(task[s].target))',
           IF task'[s].type = "welcome" THEN task'[s].target = user'[s]
                                        ELSE task'[s].room \in Rooms
    PROVE  TaskOK(s)'
<1>1. (task[s].statuses.joined \subseteq JoinedRooms(task[s].target))'
  OBVIOUS
<1> QED
  BY <1>1 DEF TaskOK, StatusLocation, RoomLocation, UserLocation

LEMMA TaskAtAdmins ==
    ASSUME NEW s \in Sessions, pc'[s] = "admins", user'[s] \in Names,
           task'[s].room \in Rooms, task'[s].type # "welcome"
    PROVE  TaskOK(s)'
  BY DEF TaskOK, StatusLocation, RoomLocation, UserLocation

LEMMA TaskUpdatesStatuses ==
    ASSUME TypeOK, NEW s \in Sessions, NEW ts \in SUBSET Names,
           NEW after \in {"idle", "admins"}, UpdateStatuses(s, ts, after),
           UNCHANGED user, user[s] \in Names,
           task[s].room \in Rooms, task[s].type # "welcome"
    PROVE  TaskOK(s)'
<1>1. CASE pc'[s] = "status_members"
  BY <1>1, UpdateStatusesEffect, TaskReadsStatuses DEF StatusLocation
<1>2. CASE pc'[s] = "admins"
  BY <1>2, UpdateStatusesEffect, TaskAtAdmins
<1>3. CASE pc'[s] = "idle"
  BY <1>3, TaskElsewhere DEF StatusLocation, RoomLocation, UserLocation
<1> QED
  BY <1>1, <1>2, <1>3, UpdateStatusesEffect

LEMMA ConnectionTask ==
    ASSUME TypeOK, NEW s \in Sessions, TaskOK(s), Connection(s), TypeOK'
    PROVE  TaskOK(s)'
<1>1. pc[s] \in Registered => user[s] \in Names
  BY DEF TaskOK
<1>2. ASSUME NEW n \in Names, Accept(s, n)
      PROVE  TaskOK(s)'
  <2>1. /\ pc'[s] = "status_members" /\ user'[s] = n
        /\ task' = [task EXCEPT ![s] = [NoTask EXCEPT !.type = "welcome", !.target = n]]
    BY <1>2 DEF Accept, Goto, TypeOK
  <2>2. /\ [NoTask EXCEPT !.type = "welcome", !.target = n].type = "welcome"
        /\ [NoTask EXCEPT !.type = "welcome", !.target = n].target = n
        /\ [NoTask EXCEPT !.type = "welcome", !.target = n].statuses.joined = {}
    BY DEF NoTask, NoStatuses
  <2>3. task'[s].type = "welcome" /\ task'[s].target = n
        /\ task'[s].statuses.joined = {}
    BY <2>1, <2>2 DEF TypeOK
  <2> QED
    BY <2>1, <2>3, TaskReadsStatuses DEF StatusLocation
<1>3. CASE TurnAway(s) \/ Drop(s) \/ Welcome(s) \/ ReadOnline(s)
             \/ BroadcastPresence(s) \/ Unregister(s)
  <2>1. UNCHANGED user
    BY <1>3 DEF TurnAway, Drop, Welcome, ReadOnline, BroadcastPresence, Unregister
  <2>2. pc'[s] \in {"closed", "closing", "announce", "announce_send", "farewell_send",
                    "idle", "farewell"}
    BY <1>3 DEF TurnAway, Drop, Welcome, ReadOnline, BroadcastPresence, Unregister,
                Goto, TypeOK
  <2>3. pc'[s] \in Registered => pc[s] \in Registered
    BY <1>3 DEF TurnAway, Drop, Welcome, ReadOnline, BroadcastPresence, Unregister,
                Goto, TypeOK, Registered
  <2> QED
    BY <1>1, <2>1, <2>2, <2>3, TaskElsewhere
       DEF StatusLocation, RoomLocation, UserLocation
<1>4. CASE ReadMembers(s)
  <2>1. /\ pc[s] = "status_members" /\ pc'[s] = "status_requests" /\ UNCHANGED user
        /\ UNCHANGED role
    BY <1>4 DEF ReadMembers, Goto, TypeOK, storeVars
  <2>2. /\ task'[s].statuses.joined = JoinedRooms(task[s].target)
        /\ task'[s].target = task[s].target /\ task'[s].type = task[s].type
        /\ task'[s].room = task[s].room
    BY <1>4 DEF ReadMembers, TypeOK, Task
  <2>3. (task[s].statuses.joined \subseteq JoinedRooms(task[s].target))'
    BY <2>1, <2>2 DEF JoinedRooms, IsRoomMember
  <2> QED
    BY <1>1, <2>1, <2>2, <2>3, TaskReadsStatuses
       DEF TaskOK, StatusLocation, Registered
<1>5. CASE ReadRequests(s)
  <2>1. /\ pc[s] = "status_requests" /\ pc'[s] = "status_send" /\ UNCHANGED user
        /\ UNCHANGED role
    BY <1>5 DEF ReadRequests, Goto, TypeOK, storeVars
  <2>2. /\ task'[s].statuses.joined = task[s].statuses.joined
        /\ task'[s].target = task[s].target /\ task'[s].type = task[s].type
        /\ task'[s].room = task[s].room
    BY <1>5 DEF ReadRequests, TypeOK, Task, Statuses
  <2>3. (task[s].statuses.joined \subseteq JoinedRooms(task[s].target))'
    BY <2>1, <2>2 DEF TaskOK, StatusLocation, JoinedRooms, IsRoomMember
  <2> QED
    BY <1>1, <2>1, <2>2, <2>3, TaskReadsStatuses
       DEF TaskOK, StatusLocation, Registered
<1>6. CASE Deliver(s)
  <2>1. pc'[s] = "idle" /\ UNCHANGED user /\ pc[s] = "idle"
    BY <1>6 DEF Deliver
  <2> QED
    BY <1>1, <2>1, TaskElsewhere
       DEF StatusLocation, RoomLocation, UserLocation, Registered
<1> QED
  BY <1>2, <1>3, <1>4, <1>5, <1>6 DEF Connection

LEMMA RequestTask ==
    ASSUME TypeOK, NEW s \in Sessions, TaskOK(s),
           Request(s) \/ \E v \in Names : SendDm(s, v)
    PROVE  TaskOK(s)'
<1>1. "idle" \in Registered
  BY DEF Registered
<1>2. ASSUME NEW r \in Rooms, Leave(s, r) \/ Typing(s, r)
      PROVE  TaskOK(s)'
  <2>1. pc[s] = "idle" /\ pc'[s] = "idle" /\ UNCHANGED user
    BY <1>2 DEF Leave, Typing, Ask, Goto, TypeOK
  <2> QED
    BY <1>1, <2>1, TaskElsewhere DEF TaskOK, StatusLocation, RoomLocation, UserLocation
<1>3. ASSUME NEW v \in Names, SendDm(s, v)
      PROVE  TaskOK(s)'
  <2>1. pc[s] = "idle" /\ pc'[s] = "idle" /\ UNCHANGED user
    BY <1>3 DEF SendDm, Ask, Goto, TypeOK
  <2> QED
    BY <1>1, <2>1, TaskElsewhere DEF TaskOK, StatusLocation, RoomLocation, UserLocation
<1>4. ASSUME NEW r \in Rooms,
             Join(s, r) \/ Create(s, r) \/ RequestJoin(s, r) \/ Send(s, r)
               \/ History(s, r) \/ GetRoomDetails(s, r)
      PROVE  TaskOK(s)'
  <2>1. PICK op \in Op \cup {"admin_details"}, v \in Names \cup {NoName},
             l \in {"join", "create_room", "request_insert", "route", "history",
                    "details_member"} :
          /\ Ask(s, op, r, v, l)
          /\ l \in {"join", "route", "history"} => IsRoomMember(r, user[s])
          /\ l = "details_member" /\ op = "admin_details" => IsRoomAdmin(r, user[s])
          /\ UNCHANGED role
    <3>1. {"join", "create", "request", "send", "history", "details"} \subseteq Op
      BY DEF Op
    <3>2. CASE Join(s, r)
      BY <3>1, <3>2 DEF Join, storeVars
    <3>3. CASE Create(s, r)
      BY <3>1, <3>3 DEF Create, storeVars
    <3>4. CASE RequestJoin(s, r)
      <4>1. user[s] \in Names \cup {NoName}
        BY DEF TypeOK
      <4> QED
        BY <3>1, <3>4, <4>1 DEF RequestJoin, storeVars
    <3>5. CASE Send(s, r)
      BY <3>1, <3>5 DEF Send, storeVars
    <3>6. CASE History(s, r)
      BY <3>1, <3>6 DEF History, storeVars
    <3>7. CASE GetRoomDetails(s, r)
      BY <3>1, <3>7 DEF GetRoomDetails, storeVars
    <3> QED
      BY <1>4, <3>2, <3>3, <3>4, <3>5, <3>6, <3>7
  <2>2. l \in Registered /\ l # "idle" /\ op # "welcome"
    BY DEF Registered, Op
  <2>3. /\ pc'[s] = l /\ user' = user /\ pc[s] = "idle"
        /\ task'[s].type = op /\ task'[s].room = r
    BY <2>1, <2>2, AskEffect
  <2>4. user[s] \in Names
    BY <1>1, <2>3 DEF TaskOK
  <2>5. /\ pc'[s] \in {"join", "create_hub", "route", "history"} =>
              IsRoomMember(task[s].room, user[s])'
        /\ pc'[s] = "details_member" /\ task'[s].type = "admin_details" =>
              IsRoomAdmin(task[s].room, user[s])'
    BY <2>1, <2>3 DEF IsRoomMember, IsRoomAdmin
  <2> QED
    BY <2>2, <2>3, <2>4, <2>5 DEF TaskOK, StatusLocation, RoomLocation, UserLocation
<1>5. ASSUME NEW r \in Rooms, NEW v \in Names,
             ApproveJoin(s, r, v) \/ RejectJoin(s, r, v) \/ PromoteAdmin(s, r, v)
      PROVE  TaskOK(s)'
  <2>1. PICK op \in Answer, l \in {"approve_delete", "reject_delete", "promote_update"} :
          /\ Ask(s, op, r, v, l) /\ IsRoomAdmin(r, user[s]) /\ UNCHANGED role
          /\ l = "reject_delete" => op = "reject"
          /\ l = "promote_update" => op = "promote"
    BY <1>5 DEF ApproveJoin, RejectJoin, PromoteAdmin, AdminAsks, Answer, storeVars
  <2>2. l \in Registered /\ l # "idle" /\ op \in Op /\ op # "welcome"
    BY DEF Registered, Answer, Op
  <2>3. /\ pc'[s] = l /\ user' = user /\ pc[s] = "idle"
        /\ task'[s].type = op /\ task'[s].room = r /\ task'[s].user = v
    BY <2>1, <2>2, AskEffect
  <2>4. user[s] \in Names
    BY <1>1, <2>3 DEF TaskOK
  <2>5. IsRoomAdmin(task[s].room, user[s])'
    BY <2>1, <2>3 DEF IsRoomAdmin
  <2> QED
    BY <2>1, <2>2, <2>3, <2>4, <2>5 DEF TaskOK, StatusLocation, RoomLocation, UserLocation
<1> QED
  BY <1>2, <1>3, <1>4, <1>5 DEF Request

LEMMA HandlerTask ==
    ASSUME TypeOK, NEW s \in Sessions, TaskOK(s), [Next]_vars,
           Handler(s) \/ StatementFails(s) \/ StatusesFail(s)
    PROVE  TaskOK(s)'
<1>1. /\ UNCHANGED user
      /\ pc[s] \in Registered
  BY DEF Handler, EnterRoom, CreateInsertRoom, CreateConflict, CreateInsertMember,
         OpenRoom, SendStatus, RequestInsert, ApproveDelete, ApproveInsert,
         RejectDelete, PromoteUpdate, NotifyUser, ReadAdmins, SendDetails,
         ReplyDetails, RouteMessage, ReplyHistory, StatementFails, StatusesFail,
         Registered
<1>2. /\ Online \in SUBSET Names /\ task[s].todo \in SUBSET Names
      /\ AfterStatuses(s) \in {"idle", "admins"}
      /\ user[s] \in Names
      /\ pc[s] = "notify" => task[s].user \in Names
      /\ pc[s] \in RoomLocation => task[s].room \in Rooms /\ task[s].type # "welcome"
      /\ pc[s] \in StatusLocation /\ task[s].type # "welcome" => task[s].room \in Rooms
  BY <1>1, LocationTypes DEF Online, TypeOK, Task, TaskOK, UserLocation
<1>3. CASE Finish(s)
  <2>1. pc'[s] = "idle"
    BY <1>3, FinishEffect
  <2> QED
    BY <1>1, <1>2, <2>1, TaskElsewhere DEF StatusLocation, RoomLocation, UserLocation
<1>4. CASE OpenRoom(s) \/ SendStatus(s) \/ RequestInsert(s) \/ NotifyUser(s)
  <2>1. task[s].room \in Rooms /\ task[s].type # "welcome"
    BY <1>2, <1>4 DEF OpenRoom, SendStatus, RequestInsert, NotifyUser,
                      RoomLocation, UserLocation, StatusLocation
  <2>2. PICK ts \in SUBSET Names, after \in {"idle", "admins"} :
          UpdateStatuses(s, ts, after)
    BY <1>2, <1>4 DEF OpenRoom, SendStatus, RequestInsert, NotifyUser
  <2> QED
    BY <1>1, <1>2, <2>1, <2>2, TaskUpdatesStatuses
<1>5. CASE StatusesFail(s)
  <2>1. CASE task[s].type = "welcome"
    <3>1. /\ pc'[s] = "status_send"
          /\ task'[s] = [task[s] EXCEPT !.statuses =
                           [NoStatuses EXCEPT !.joined = {General} \cap Rooms]]
          /\ pc[s] \in StatusLocation
      BY <1>5, <2>1 DEF StatusesFail, Goto, TypeOK, StatusLocation
    <3>2. /\ task'[s].target = task[s].target /\ task'[s].type = "welcome"
          /\ task'[s].statuses.joined = {General} \cap Rooms
      BY <2>1, <3>1 DEF TypeOK, Task, NoStatuses
    <3>3. (task[s].statuses.joined \subseteq JoinedRooms(task[s].target))'
      BY <3>2 DEF JoinedRooms, IsRoomMember
    <3>4. task[s].target \in Names /\ task[s].target = user[s]
      BY <2>1, <3>1 DEF TaskOK
    <3> QED
      BY <1>1, <1>2, <3>1, <3>2, <3>3, <3>4, TaskReadsStatuses DEF StatusLocation
  <2>2. CASE task[s].type # "welcome"
    <3>1. UpdateStatuses(s, task[s].todo, AfterStatuses(s)) /\ task[s].room \in Rooms
      BY <1>2, <1>5, <2>2 DEF StatusesFail, StatusLocation
    <3> QED
      BY <1>1, <1>2, <2>2, <3>1, TaskUpdatesStatuses
  <2> QED
    BY <2>1, <2>2
<1>6. CASE CreateInsertRoom(s)
  <2>1. pc[s] = "create_room" /\ pc'[s] = "create_member" /\ UNCHANGED task
    BY <1>6 DEF CreateInsertRoom, Goto, TypeOK
  <2> QED
    BY <1>1, <1>2, <2>1 DEF TaskOK, StatusLocation, RoomLocation, UserLocation
<1>7. CASE CreateInsertMember(s)
  <2>1. /\ pc[s] = "create_member" /\ pc'[s] = "create_hub" /\ UNCHANGED task
        /\ role' = [role EXCEPT ![task[s].room][user[s]] = "creator"]
    BY <1>7 DEF CreateInsertMember, InsertCreator, Goto, TypeOK
  <2>2. task[s].room \in Rooms
    BY <1>2, <2>1 DEF RoomLocation
  <2>3. role'[task[s].room][user[s]] = "creator"
    BY <1>2, <2>1, <2>2 DEF TypeOK, StoreTypeOK
  <2>4. IsRoomMember(task[s].room, user[s])'
    BY <1>1, <2>1, <2>3 DEF IsRoomMember
  <2> QED
    BY <1>1, <1>2, <2>1, <2>2, <2>4 DEF TaskOK, StatusLocation, RoomLocation, UserLocation
<1>8. CASE ApproveDelete(s)
  <2>1. /\ pc[s] = "approve_delete" /\ pc'[s] = "approve_insert" /\ UNCHANGED <<task, role>>
    BY <1>8 DEF ApproveDelete, DeleteRequest, Goto, TypeOK
  <2>2. /\ task[s].room \in Rooms /\ task[s].user \in Names /\ task[s].type \in Answer
        /\ IsRoomAdmin(task[s].room, user[s])
    BY <2>1 DEF TaskOK, RoomLocation, UserLocation
  <2>3. IsRoomAdmin(task[s].room, user[s])'
    BY <1>1, <2>1, <2>2 DEF IsRoomAdmin
  <2> QED
    BY <1>1, <1>2, <2>1, <2>2, <2>3 DEF TaskOK, StatusLocation, RoomLocation, UserLocation
<1>9. CASE ApproveInsert(s)
  <2>1. /\ pc[s] = "approve_insert" /\ pc'[s] = "notify" /\ UNCHANGED task
        /\ role' = [role EXCEPT ![task[s].room][task[s].user] =
                      IF @ = "none" THEN "member" ELSE @]
    BY <1>9 DEF ApproveInsert, InsertMember, Goto, TypeOK
  <2>2. task[s].room \in Rooms /\ task[s].user \in Names /\ task[s].type \in Answer
    BY <2>1 DEF TaskOK, RoomLocation, UserLocation
  <2>3. role'[task[s].room][task[s].user] # "none"
    BY <2>1, <2>2 DEF TypeOK, StoreTypeOK
  <2>4. IsRoomMember(task[s].room, task[s].user)'
    BY <2>1, <2>3 DEF IsRoomMember
  <2> QED
    BY <1>1, <1>2, <2>1, <2>2, <2>4 DEF TaskOK, StatusLocation, RoomLocation, UserLocation
<1>10. CASE RejectDelete(s) \/ PromoteUpdate(s)
  <2>1. /\ pc[s] \in {"reject_delete", "promote_update"} /\ pc'[s] = "notify"
        /\ UNCHANGED task
    BY <1>10 DEF RejectDelete, PromoteUpdate, Goto, TypeOK
  <2>2. /\ task[s].room \in Rooms /\ task[s].user \in Names
        /\ task[s].type \in Answer /\ task[s].type # "approve"
    BY <2>1 DEF TaskOK, RoomLocation, UserLocation
  <2> QED
    BY <1>1, <1>2, <2>1, <2>2 DEF TaskOK, StatusLocation, RoomLocation, UserLocation
<1>11. CASE ReadAdmins(s) /\ ~Finish(s)
  <2>1. /\ pc'[s] = "details" /\ pc[s] = "admins" /\ UNCHANGED role
        /\ task' = [task EXCEPT ![s].todo = RoomAdmins(task[s].room)]
    BY <1>11 DEF ReadAdmins, Goto, TypeOK, storeVars
  <2>2. task'[s].room = task[s].room /\ task'[s].todo = RoomAdmins(task[s].room)
    BY <2>1 DEF TypeOK, Task
  <2>3. task[s].room \in Rooms
    BY <1>2, <2>1 DEF RoomLocation
  <2>4. (task[s].todo \subseteq RoomAdmins(task[s].room))'
    BY <2>1, <2>2 DEF RoomAdmins, IsRoomAdmin
  <2> QED
    BY <1>1, <1>2, <2>1, <2>2, <2>3, <2>4
       DEF TaskOK, StatusLocation, RoomLocation, UserLocation
<1>12. CASE (SendDetails(s) \/ StatementFails(s)) /\ ~Finish(s)
  <2>1. PICK a : /\ pc[s] = "details" /\ UNCHANGED <<pc, role>>
                 /\ task' = [task EXCEPT ![s].todo = @ \ {a}]
    BY <1>12 DEF SendDetails, StatementFails, DoneWith, storeVars
  <2>2. task'[s].room = task[s].room /\ task'[s].todo \subseteq task[s].todo
    BY <2>1 DEF TypeOK, Task
  <2>3. task[s].room \in Rooms /\ task[s].todo \subseteq RoomAdmins(task[s].room)
    BY <1>2, <2>1 DEF RoomLocation, TaskOK
  <2>4. (task[s].todo \subseteq RoomAdmins(task[s].room))'
    BY <2>1, <2>2, <2>3 DEF RoomAdmins, IsRoomAdmin
  <2> QED
    BY <1>1, <1>2, <2>1, <2>2, <2>3, <2>4
       DEF TaskOK, StatusLocation, RoomLocation, UserLocation
<1> QED
  BY <1>3, <1>4, <1>5, <1>6, <1>7, <1>8, <1>9, <1>10, <1>11, <1>12
     DEF Handler, EnterRoom, CreateConflict, ReplyDetails, RouteMessage,
         ReplyHistory

LEMMA TaskStep ==
    ASSUME TypeOK, \A s \in Sessions : TaskOK(s), [Next]_vars, NEW t \in Sessions
    PROVE  TaskOK(t)'
<1>1. CASE UNCHANGED vars
  BY <1>1, TaskKept DEF vars, sessionVars
<1>2. CASE Crash
  <2>1. pc'[t] \in {"new", "closed"}
    BY <1>2 DEF Crash
  <2> QED
    BY <2>1, TaskElsewhere DEF StatusLocation, RoomLocation, UserLocation, Registered
<1>3. ASSUME NEW s \in Sessions, OthersStay(s), s # t
      PROVE  TaskOK(t)'
  BY <1>3, TaskKept DEF OthersStay
<1>4. ASSUME NEW s \in Sessions, Connection(s)
      PROVE  TaskOK(t)'
  BY <1>3, <1>4, TypeStep, ConnectionLocal, ConnectionTask
<1>5. ASSUME NEW s \in Sessions, Request(s) \/ \E v \in Names : SendDm(s, v)
      PROVE  TaskOK(t)'
  BY <1>3, <1>5, RequestLocal, RequestTask
<1>6. ASSUME NEW s \in Sessions, Handler(s) \/ StatementFails(s) \/ StatusesFail(s)
      PROVE  TaskOK(t)'
  BY <1>3, <1>6, HandlerLocal, HandlerTask
<1> QED
  BY <1>1, <1>2, <1>4, <1>5, <1>6 DEF Next
-----------------------------------------------------------------------------
\* What is queued and shown.

LEMMA FrameKept ==
    ASSUME TypeOK, [Next]_vars, NEW f \in Frame, NEW n \in Names, FrameOK(f, n)
    PROVE  FrameOK(f, n)'
<1>1. /\ f.type \in RoomFrameType => f.room \in Rooms
      /\ JoinedRooms(n) \subseteq JoinedRooms(n)'
  BY FrameCases, Monotone DEF JoinedRooms
<1> QED
  BY <1>1, Monotone DEF FrameOK, RoomFrameType

LEMMA ClientKept ==
    ASSUME TypeOK, TypeOK', [Next]_vars, HubStays, NEW t \in Sessions, TaskOK(t),
           QueueOK(t, outbox'[t]), ViewOK(t, client'[t])
    PROVE  ClientOK(t)'
<1>1. CASE pc[t] \in Registered
  <2>1. user[t] \in Names /\ user'[t] = user[t] /\ pc'[t] \in Registered
    BY <1>1 DEF HubStays, TaskOK
  <2>2. \A i \in DOMAIN outbox'[t] : outbox'[t][i] \in Frame
    BY DEF TypeOK
  <2>3. \A f \in Frame : FrameOK(f, user[t]) => (FrameOK(f, user[t]))'
    <3>1. ASSUME NEW f \in Frame, FrameOK(f, user[t])
          PROVE  FrameOK(f, user[t])'
      <4>1. ASSUME NEW n \in Names, n = user[t], n = user'[t]
            PROVE  FrameOK(f, user[t])'
        <5>1. FrameOK(f, n)'
          BY <3>1, <4>1, FrameKept
        <5> QED
          BY <4>1, <5>1
      <4> QED
        BY <2>1, <4>1
    <3> QED
      BY <3>1
  <2>4. QueueOK(t, outbox[t])'
    BY <1>1, <2>1, <2>2, <2>3 DEF QueueOK
  <2>5. ViewOK(t, client[t])'
    <3>1. /\ JoinedRooms(user[t]) \subseteq JoinedRooms(user[t])'
          /\ AdminRooms(user[t]) \subseteq AdminRooms(user[t])'
      BY <2>1, Monotone DEF JoinedRooms, AdminRooms
    <3> QED
      BY <1>1, <2>1, <3>1 DEF ViewOK
  <2> QED
    BY <2>4, <2>5 DEF ClientOK
<1>2. CASE pc[t] \notin Registered
  BY <1>2 DEF HubStays, ClientOK, QueueOK, ViewOK
<1> QED
  BY <1>1, <1>2

\* A frame that may go to everybody in ns leaves good queues good.
LEMMA PostedOK ==
    ASSUME IndInv, NEW ob \in [Sessions -> Seq(Frame)], NEW ns, NEW f \in Frame,
           \A t \in Sessions : QueueOK(t, ob[t]),
           \A n \in ns \cap Names : FrameOK(f, n),
           ns \subseteq Names
    PROVE  \A t \in Sessions : QueueOK(t, Posted(ob, ns, f)[t])
<1> SUFFICES ASSUME NEW t \in Sessions
             PROVE  QueueOK(t, Posted(ob, ns, f)[t])
  OBVIOUS
<1>1. \A n \in ns : users[n] = t => pc[t] \in Registered /\ user[t] = n
  BY NoSessionIsNoSession DEF IndInv, HubFollowsSessions
<1>2. CASE pc[t] \in Registered
  <2>1. ASSUME NEW i \in DOMAIN Posted(ob, ns, f)[t]
        PROVE  FrameOK(Posted(ob, ns, f)[t][i], user[t])
    BY <1>1, <1>2, PostedElements DEF QueueOK
  <2> QED
    BY <1>2, <2>1 DEF QueueOK
<1>3. CASE pc[t] \notin Registered
  BY <1>1, <1>3, PostedElements DEF QueueOK
<1> QED
  BY <1>2, <1>3

LEMMA ConnectionQueues ==
    ASSUME IndInv, NEW s \in Sessions, Connection(s),
           \A n \in Names : ~Accept(s, n), ~Unregister(s)
    PROVE  \A t \in Sessions : QueueOK(t, outbox'[t]) /\ ViewOK(t, client'[t])
<1> USE DEF IndInv
<1>1. \A t \in Sessions : QueueOK(t, outbox[t]) /\ ViewOK(t, client[t])
  BY DEF ClientOK
<1>2. CASE TurnAway(s) \/ ReadMembers(s) \/ ReadRequests(s) \/ ReadOnline(s) \/ Drop(s)
  <2>1. UNCHANGED <<outbox, client>>
    BY <1>2 DEF TurnAway, ReadMembers, ReadRequests, ReadOnline, Drop, hubVars
  <2> QED
    BY <1>1, <2>1
<1>3. CASE Welcome(s)
  <2>1. /\ pc[s] = "status_send" /\ UNCHANGED outbox
        /\ client' = [client EXCEPT ![s] =
             ShowStatuses([client[s] EXCEPT !.users = Online], task[s].statuses)]
    BY <1>3 DEF Welcome, hubVars
  <2>2. pc[s] \in Registered /\ client[s] \in View
    BY <2>1 DEF Registered, TypeOK
  <2>3. task[s].target = user[s]
    BY <1>3, <2>1 DEF Welcome, TaskOK, StatusLocation
  <2>4. task[s].statuses.joined \subseteq JoinedRooms(user[s])
    BY <2>1, <2>3 DEF TaskOK, StatusLocation
  <2>5. LET v == ShowStatuses([client[s] EXCEPT !.users = Online], task[s].statuses)
        IN  /\ v.joined = task[s].statuses.joined
            /\ v.heard = client[s].heard /\ v.managed = client[s].managed
    BY <2>2 DEF ShowStatuses, View
  <2>6. ViewOK(s, client'[s])
    BY <1>1, <2>1, <2>2, <2>4, <2>5 DEF ViewOK, TypeOK
  <2> QED
    BY <1>1, <2>1, <2>6 DEF TypeOK
<1>4. CASE BroadcastPresence(s)
  <2>1. [type |-> "presence", users |-> task[s].online] \in Frame
    BY DEF TypeOK, Task, Frame
  <2>2. \A n \in Names : FrameOK([type |-> "presence", users |-> task[s].online], n)
    BY DEF FrameOK
  <2>3. /\ outbox' = Posted(outbox, Names, [type |-> "presence", users |-> task[s].online])
        /\ UNCHANGED client
    BY <1>4 DEF BroadcastPresence, Post
  <2>4. \A t \in Sessions : QueueOK(t, outbox'[t])
    BY <1>1, <2>1, <2>2, <2>3, PostedOK DEF TypeOK
  <2> QED
    BY <1>1, <2>3, <2>4
<1>5. CASE Deliver(s)
  <2>1. /\ pc[s] = "idle" /\ outbox[s] # <<>> /\ outbox[s] \in Seq(Frame)
        /\ outbox' = [outbox EXCEPT ![s] = Tail(outbox[s])]
        /\ client' = [client EXCEPT ![s] = Shown(client[s], user[s], Head(outbox[s]))]
    BY <1>5 DEF Deliver, TypeOK
  <2>2. /\ pc[s] \in Registered
        /\ \A i \in DOMAIN outbox[s] : FrameOK(outbox[s][i], user[s])
    BY <1>1, <2>1 DEF Registered, QueueOK
  <2>3. \A i \in DOMAIN Tail(outbox[s]) :
           i + 1 \in DOMAIN outbox[s] /\ Tail(outbox[s])[i] = outbox[s][i + 1]
    BY <2>1
  <2>4. QueueOK(s, outbox'[s])
    BY <2>1, <2>2, <2>3 DEF QueueOK, TypeOK
  <2>5. Head(outbox[s]) \in Frame /\ FrameOK(Head(outbox[s]), user[s])
    BY <2>1, <2>2
  <2>6. ViewOK(s, client'[s])
    <3> DEFINE f == Head(outbox[s])
    <3>1. client[s] \in View /\ client'[s] = Shown(client[s], user[s], f)
      BY <2>1 DEF TypeOK
    <3>2. /\ client[s].heard \cup client[s].joined \subseteq JoinedRooms(user[s])
          /\ client[s].managed \subseteq AdminRooms(user[s])
      BY <1>1, <2>2 DEF ViewOK
    <3>3. f.type \in RoomFrameType => f.room \in Rooms
      BY <2>5, FrameCases
    <3>4. /\ f.type \in {"message", "typing"} => f.room \in JoinedRooms(user[s])
          /\ f.type = "join_approved" /\ f.user = user[s] => f.room \in JoinedRooms(user[s])
          /\ f.type = "room_details" => f.room \in AdminRooms(user[s])
          /\ f.type = "rooms" => f.statuses.joined \subseteq JoinedRooms(user[s])
      BY <2>5, <3>3 DEF FrameOK, JoinedRooms, AdminRooms, RoomFrameType
    <3> HIDE DEF f
    <3>5. client'[s].heard \subseteq JoinedRooms(user[s])
      BY <2>5, <3>1, <3>2, <3>4, ShownOK DEF f
    <3>6. client'[s].joined \subseteq JoinedRooms(user[s])
      BY <2>5, <3>1, <3>2, <3>4, ShownOK DEF f
    <3>7. client'[s].managed \subseteq AdminRooms(user[s])
      BY <2>5, <3>1, <3>2, <3>4, ShownOK DEF f
    <3> QED
      BY <2>2, <3>5, <3>6, <3>7 DEF ViewOK
  <2> QED
    BY <1>1, <2>1, <2>4, <2>6 DEF TypeOK
<1> QED
  BY <1>2, <1>3, <1>4, <1>5 DEF Connection

LEMMA RequestQueues ==
    ASSUME IndInv, NEW s \in Sessions, Request(s) \/ \E v \in Names : SendDm(s, v)
    PROVE  \A t \in Sessions : QueueOK(t, outbox'[t]) /\ ViewOK(t, client'[t])
<1> USE DEF IndInv
<1>1. \A t \in Sessions : QueueOK(t, outbox[t]) /\ ViewOK(t, client[t])
  BY DEF ClientOK
<1>2. pc[s] = "idle" => user[s] \in Names
  BY DEF TaskOK, Registered
<1>3. CASE UNCHANGED <<outbox, client>>
  BY <1>1, <1>3
<1>4. ASSUME NEW r \in Rooms, Typing(s, r)
      PROVE  \A t \in Sessions : QueueOK(t, outbox'[t]) /\ ViewOK(t, client'[t])
  <2> DEFINE f == [type |-> "typing", room |-> r, user |-> user[s]]
  <2>1. /\ outbox' = Posted(outbox, members[r] \ {user[s]}, f)
        /\ UNCHANGED client /\ user[s] \in Names
    BY <1>2, <1>4 DEF Typing, Post, Ask
  <2>2. f \in Frame
    BY <2>1, RoomFrameType1 DEF RoomFrameType
  <2>3. /\ members[r] \ {user[s]} \subseteq Names
        /\ \A n \in members[r] : IsRoomMember(r, n)
    BY DEF TypeOK, RoomsHoldOnlineMembers
  <2>4. \A n \in members[r] : FrameOK(f, n)
    BY <2>3 DEF FrameOK
  <2>5. \A t \in Sessions : QueueOK(t, outbox'[t])
    BY <1>1, <2>1, <2>2, <2>3, <2>4, PostedOK DEF TypeOK
  <2> QED
    BY <1>1, <2>1, <2>5
<1>5. ASSUME NEW v \in Names, SendDm(s, v)
      PROVE  \A t \in Sessions : QueueOK(t, outbox'[t]) /\ ViewOK(t, client'[t])
  <2> DEFINE f == [type |-> "dm", ends |-> {v, user[s]}]
  <2>1. UNCHANGED client /\ user[s] \in Names
    BY <1>2, <1>5 DEF SendDm, Ask
  <2>5. PICK ns \in {{v, user[s]}, {v} \ {user[s]}} : outbox' = Posted(outbox, ns, f)
    BY <1>5 DEF SendDm, Post
  <2>2. f \in Frame
    BY <2>1 DEF Frame
  <2>3. \A n \in Names : FrameOK(f, n)
    BY DEF FrameOK
  <2>4. \A t \in Sessions : QueueOK(t, outbox'[t])
    BY <1>1, <2>1, <2>2, <2>3, <2>5, PostedOK DEF TypeOK
  <2> QED
    BY <1>1, <2>1, <2>4
<1> QED
  BY <1>3, <1>4, <1>5
     DEF Request, Join, Leave, Create, RequestJoin, GetRoomDetails, Send, History,
         ApproveJoin, RejectJoin, PromoteAdmin, AdminAsks, hubVars

LEMMA HandlerQueues ==
    ASSUME IndInv, NEW s \in Sessions,
           Handler(s) \/ StatementFails(s) \/ StatusesFail(s)
    PROVE  \A t \in Sessions : QueueOK(t, outbox'[t]) /\ ViewOK(t, client'[t])
<1> USE DEF IndInv
<1>1. \A t \in Sessions : QueueOK(t, outbox[t]) /\ ViewOK(t, client[t])
  BY DEF ClientOK
<1>2. /\ outbox \in [Sessions -> Seq(Frame)] /\ client \in [Sessions -> View]
      /\ TaskOK(s)
      /\ pc[s] \in Registered => user[s] \in Names
  BY DEF TypeOK, TaskOK
<1>3. ASSUME NEW ns \in SUBSET Names, NEW f \in Frame,
             \A n \in ns : FrameOK(f, n),
             outbox' = Posted(outbox, ns, f), UNCHANGED client
      PROVE  \A t \in Sessions : QueueOK(t, outbox'[t]) /\ ViewOK(t, client'[t])
  BY <1>1, <1>2, <1>3, PostedOK
<1>4. CASE UNCHANGED <<outbox, client>>
  BY <1>1, <1>4
<1>5. CASE EnterRoom(s) \/ OpenRoom(s)
  <2>1. /\ pc[s] \in {"join", "create_hub"} /\ UNCHANGED outbox
        /\ client' = [client EXCEPT ![s] = ShowJoined(client[s], task[s].room)]
    BY <1>5 DEF EnterRoom, OpenRoom
  <2>2. /\ pc[s] \in Registered /\ task[s].room \in Rooms
        /\ IsRoomMember(task[s].room, user[s])
    BY <1>2, <2>1 DEF TaskOK, RoomLocation, Registered
  <2>3. LET v == ShowJoined(client[s], task[s].room)
        IN  /\ v.joined = client[s].joined \cup {task[s].room}
            /\ v.heard = client[s].heard /\ v.managed = client[s].managed
    BY <1>2 DEF ShowJoined, View
  <2>4. ViewOK(s, client'[s])
    BY <1>1, <1>2, <2>1, <2>2, <2>3 DEF ViewOK, JoinedRooms
  <2> QED
    BY <1>1, <1>2, <2>1, <2>4
<1>6. CASE ReplyDetails(s) \/ ReplyHistory(s)
  <2>1. UNCHANGED outbox /\ pc[s] \in {"details_member", "history"}
    BY <1>6 DEF ReplyDetails, ReplyHistory, hubVars
  <2>2. pc[s] \in Registered /\ task[s].room \in Rooms
    BY <1>2, <2>1 DEF TaskOK, RoomLocation, Registered
  <2>3. ViewOK(s, client'[s])
    <3>1. CASE ReplyHistory(s)
      <4>1. /\ client' = [client EXCEPT ![s].heard = @ \cup {task[s].room}]
            /\ task[s].room \in JoinedRooms(user[s])
        BY <1>2, <2>2, <3>1 DEF ReplyHistory, TaskOK, JoinedRooms
      <4> QED
        BY <1>1, <1>2, <2>2, <4>1 DEF ViewOK, View
    <3>2. CASE ReplyDetails(s) /\ task[s].type = "admin_details"
      <4>1. /\ client' = [client EXCEPT ![s].managed = @ \cup {task[s].room}]
            /\ task[s].room \in AdminRooms(user[s])
        BY <1>2, <2>2, <3>2 DEF ReplyDetails, TaskOK, AdminRooms
      <4> QED
        BY <1>1, <1>2, <2>2, <4>1 DEF ViewOK, View
    <3>3. CASE ReplyDetails(s) /\ task[s].type # "admin_details"
      BY <1>1, <3>3 DEF ReplyDetails
    <3> QED
      BY <1>6, <3>1, <3>2, <3>3
  <2>4. \A t \in Sessions \ {s} : client'[t] = client[t]
    BY <1>2, <1>6 DEF ReplyDetails, ReplyHistory
  <2> QED
    BY <1>1, <2>1, <2>3, <2>4
<1>7. CASE SendStatus(s)
  <2> DEFINE f == [type |-> "rooms", statuses |-> task[s].statuses]
  <2>1. /\ pc[s] = "status_send" /\ outbox' = Posted(outbox, {task[s].target}, f)
        /\ UNCHANGED client
    BY <1>7 DEF SendStatus, Post
  <2>2. f \in Frame
    BY DEF TypeOK, Task, Frame
  <2>3. task[s].target \in Names /\ FrameOK(f, task[s].target)
    BY <1>2, <2>1 DEF TaskOK, StatusLocation, FrameOK
  <2> QED
    BY <1>3, <2>1, <2>2, <2>3
<1>8. CASE NotifyUser(s)
  <2>1. /\ pc[s] = "notify" /\ UNCHANGED client
        /\ outbox' = Posted(IF task[s].type = "promote"
                            THEN Posted(outbox, members[task[s].room], Notice(s))
                            ELSE outbox, {task[s].user}, Notice(s))
    BY <1>8 DEF NotifyUser
  <2>2. /\ task[s].room \in Rooms /\ task[s].user \in Names /\ task[s].type \in Answer
        /\ task[s].type = "approve" => IsRoomMember(task[s].room, task[s].user)
    BY <1>2, <2>1 DEF TaskOK, RoomLocation, UserLocation
  <2>3. NoticeType[task[s].type] \in {"join_approved", "join_rejected", "admin_promoted"}
        /\ (NoticeType[task[s].type] = "join_approved" => task[s].type = "approve")
    BY <2>2 DEF NoticeType, Answer
  <2>4. Notice(s) \in Frame
    BY <2>2, <2>3, RoomFrameType1 DEF Notice, RoomFrameType
  <2>5. \A n \in Names : FrameOK(Notice(s), n)
    BY <2>2, <2>3 DEF Notice, FrameOK
  <2>6. members[task[s].room] \subseteq Names
    BY <2>2 DEF TypeOK
  <2>7. /\ Posted(outbox, members[task[s].room], Notice(s)) \in [Sessions -> Seq(Frame)]
        /\ \A t \in Sessions :
              QueueOK(t, Posted(outbox, members[task[s].room], Notice(s))[t])
    BY <1>1, <1>2, <2>4, <2>5, <2>6, PostedOK, PostedType
  <2>8. \A t \in Sessions : QueueOK(t, outbox'[t])
    <3>1. CASE task[s].type = "promote"
      BY <2>1, <2>2, <2>4, <2>5, <2>7, <3>1, PostedOK
    <3>2. CASE task[s].type # "promote"
      BY <1>1, <1>2, <2>1, <2>2, <2>4, <2>5, <3>2, PostedOK
    <3> QED
      BY <3>1, <3>2
  <2> QED
    BY <1>1, <2>1, <2>8
<1>9. CASE ReadAdmins(s) /\ task[s].type = "request"
  <2> DEFINE f == [type |-> "join_requested", room |-> task[s].room, user |-> user[s]]
  <2>1. /\ pc[s] = "admins" /\ outbox' = Posted(outbox, RoomAdmins(task[s].room), f)
        /\ UNCHANGED client
    BY <1>9 DEF ReadAdmins, Post
  <2>2. task[s].room \in Rooms /\ user[s] \in Names
    BY <1>2, <2>1 DEF TaskOK, RoomLocation, Registered
  <2>3. f \in Frame
    BY <2>2, RoomFrameType1 DEF RoomFrameType
  <2>4. /\ RoomAdmins(task[s].room) \subseteq Names
        /\ \A n \in RoomAdmins(task[s].room) : FrameOK(f, n)
    BY DEF RoomAdmins, FrameOK
  <2> HIDE DEF f
  <2> QED
    BY <1>3, <2>1, <2>3, <2>4
<1>10. CASE ReadAdmins(s) /\ task[s].type # "request"
  BY <1>4, <1>10 DEF ReadAdmins
<1>11. CASE SendDetails(s)
  <2>1. PICK ns \in SUBSET task[s].todo :
          /\ outbox' = Posted(outbox, ns, DetailsFrame(s))
          /\ UNCHANGED client /\ pc[s] = "details"
    BY <1>11 DEF SendDetails, Post, DoneWith
  <2>2. /\ task[s].room \in Rooms /\ user[s] \in Names
        /\ task[s].todo \subseteq RoomAdmins(task[s].room)
    BY <1>2, <2>1 DEF TaskOK, RoomLocation, Registered
  <2>3. DetailsFrame(s) \in Frame
    BY <2>2, RoomFrameType1 DEF DetailsFrame, RoomFrameType
  <2>4. ns \subseteq Names /\ \A n \in ns : FrameOK(DetailsFrame(s), n)
    BY <2>1, <2>2 DEF RoomAdmins, FrameOK, DetailsFrame
  <2> QED
    BY <1>3, <2>1, <2>3, <2>4
<1>12. CASE RouteMessage(s)
  <2> DEFINE f == [type |-> "message", room |-> task[s].room, user |-> user[s]]
  <2>1. /\ pc[s] = "route" /\ outbox' = Posted(outbox, members'[task[s].room], f)
        /\ members' = [members EXCEPT ![task[s].room] = @ \cup {user[s]}]
        /\ UNCHANGED client
    BY <1>12 DEF RouteMessage, Post, JoinHub
  <2>2. /\ task[s].room \in Rooms /\ user[s] \in Names
        /\ IsRoomMember(task[s].room, user[s])
    BY <1>2, <2>1 DEF TaskOK, RoomLocation, Registered
  <2>3. f \in Frame
    BY <2>2, RoomFrameType1 DEF RoomFrameType
  <2>4. members'[task[s].room] = members[task[s].room] \cup {user[s]}
    BY <2>1, <2>2 DEF TypeOK
  <2>5. /\ members'[task[s].room] \subseteq Names
        /\ \A n \in members'[task[s].room] : IsRoomMember(task[s].room, n)
    BY <2>2, <2>4 DEF TypeOK, RoomsHoldOnlineMembers
  <2>6. \A n \in members'[task[s].room] : FrameOK(f, n)
    BY <2>5 DEF FrameOK
  <2> HIDE DEF f
  <2> QED
    BY <1>3, <2>1, <2>3, <2>5, <2>6
<1> QED
  BY <1>4, <1>5, <1>6, <1>7, <1>8, <1>9, <1>10, <1>11, <1>12
     DEF Handler, CreateInsertRoom, CreateConflict, CreateInsertMember,
         RequestInsert, ApproveDelete, ApproveInsert, RejectDelete, PromoteUpdate,
         StatementFails, StatusesFail, hubVars

LEMMA ClientStep ==
    ASSUME IndInv, [Next]_vars, NEW t \in Sessions
    PROVE  ClientOK(t)'
<1> USE DEF IndInv
<1>1. TypeOK'
  BY TypeStep
<1>2. QueueOK(t, outbox[t]) /\ ViewOK(t, client[t])
  BY DEF ClientOK
<1>3. CASE UNCHANGED vars
  BY <1>1, <1>2, <1>3, ClientKept DEF vars, hubVars, sessionVars, HubStays
<1>4. CASE Crash
  BY <1>4 DEF Crash, ClientOK, QueueOK, ViewOK, Registered
<1>5. ASSUME NEW s \in Sessions, NEW n \in Names, Accept(s, n)
      PROVE  ClientOK(t)'
  <2>1. /\ pc[s] = "new" /\ UNCHANGED <<outbox, client>>
        /\ UNCHANGED role
    BY <1>5 DEF Accept, storeVars
  <2>2. CASE t = s
    <3>1. outbox'[t] = <<>> /\ client'[t] = EmptyView
      BY <1>2, <2>1, <2>2 DEF Registered, QueueOK, ViewOK
    <3> QED
      BY <3>1 DEF ClientOK, QueueOK, ViewOK, EmptyView
  <2>3. CASE t # s
    <3>1. pc'[t] = pc[t] /\ user'[t] = user[t]
      BY <1>5, <2>3, ConnectionLocal DEF Connection, OthersStay
    <3>2. \A f : FrameOK(f, user[t]) => FrameOK(f, user[t])'
      BY <2>1, <3>1 DEF FrameOK, IsRoomMember, IsRoomAdmin, JoinedRooms
    <3>3. QueueOK(t, outbox[t])'
      BY <1>2, <2>1, <3>1, <3>2 DEF QueueOK
    <3>4. ViewOK(t, client[t])'
      BY <1>2, <2>1, <3>1 DEF ViewOK, JoinedRooms, AdminRooms, IsRoomMember, IsRoomAdmin
    <3> QED
      BY <3>3, <3>4 DEF ClientOK
  <2> QED
    BY <2>2, <2>3
<1>6. ASSUME NEW s \in Sessions, Unregister(s)
      PROVE  ClientOK(t)'
  <2>1. /\ pc'[s] = "farewell" /\ UNCHANGED role
        /\ outbox' = [outbox EXCEPT ![s] = <<>>]
        /\ client' = [client EXCEPT ![s] = EmptyView]
    BY <1>6 DEF Unregister, Goto, storeVars, TypeOK
  <2>2. CASE t = s
    <3>1. outbox'[t] = <<>> /\ client'[t] = EmptyView
      BY <2>1, <2>2 DEF TypeOK
    <3> QED
      BY <2>1, <2>2, <3>1 DEF ClientOK, QueueOK, ViewOK, Registered
  <2>3. CASE t # s
    <3>1. /\ pc'[t] = pc[t] /\ user'[t] = user[t]
          /\ outbox'[t] = outbox[t] /\ client'[t] = client[t]
      BY <1>6, <2>1, <2>3, ConnectionLocal DEF Connection, OthersStay, TypeOK
    <3>2. \A f : FrameOK(f, user[t]) => FrameOK(f, user[t])'
      BY <2>1, <3>1 DEF FrameOK, IsRoomMember, IsRoomAdmin, JoinedRooms
    <3>3. QueueOK(t, outbox[t])'
      BY <1>2, <3>1, <3>2 DEF QueueOK
    <3>4. ViewOK(t, client[t])'
      BY <1>2, <2>1, <3>1 DEF ViewOK, JoinedRooms, AdminRooms, IsRoomMember, IsRoomAdmin
    <3> QED
      BY <3>3, <3>4 DEF ClientOK
  <2> QED
    BY <2>2, <2>3
<1>7. ASSUME NEW s \in Sessions, Connection(s),
             \A n \in Names : ~Accept(s, n), ~Unregister(s)
      PROVE  ClientOK(t)'
  BY <1>1, <1>7, ConnectionLocal, ConnectionQueues, ClientKept
<1>8. ASSUME NEW s \in Sessions, Request(s) \/ \E v \in Names : SendDm(s, v)
      PROVE  ClientOK(t)'
  BY <1>1, <1>8, RequestLocal, RequestQueues, ClientKept
<1>9. ASSUME NEW s \in Sessions, Handler(s) \/ StatementFails(s) \/ StatusesFail(s)
      PROVE  ClientOK(t)'
  BY <1>1, <1>9, HandlerLocal, HandlerQueues, ClientKept
<1> QED
  BY <1>3, <1>4, <1>5, <1>6, <1>7, <1>8, <1>9 DEF Next
-----------------------------------------------------------------------------
\* The inductive invariant holds, and what follows from it.

LEMMA InitInv == Init => IndInv
<1> SUFFICES ASSUME Init PROVE IndInv
  OBVIOUS
<1>1. TypeOK
  <2>1. "new" \in Location /\ EmptyView \in View /\ NoTask \in Task /\ <<>> \in Seq(Frame)
    BY NoTaskType DEF Location, EmptyView, View
  <2> QED
    BY <2>1, BootsAreDatabases DEF Init, Database, HubInit, TypeOK, StoreTypeOK
<1>2. ASSUME NEW s \in Sessions
      PROVE  TaskOK(s) /\ ClientOK(s)
  <2>1. /\ pc[s] = "new" /\ outbox[s] = <<>> /\ client[s] = EmptyView
        /\ "new" \notin Registered \cup RoomLocation \cup StatusLocation
    BY DEF Init, HubInit, Registered, RoomLocation, UserLocation, StatusLocation
  <2> QED
    BY <2>1 DEF TaskOK, ClientOK, QueueOK, ViewOK, RoomLocation, UserLocation
<1>3. HubFollowsSessions /\ RoomsHoldOnlineMembers
  BY DEF Init, HubInit, HubFollowsSessions, RoomsHoldOnlineMembers, Registered
<1> QED
  BY <1>1, <1>2, <1>3 DEF IndInv

LEMMA InvStep == IndInv /\ [Next]_vars => IndInv'
<1> SUFFICES ASSUME IndInv, [Next]_vars PROVE IndInv'
  OBVIOUS
<1>1. TypeOK /\ (\A s \in Sessions : TaskOK(s)) /\ HubFollowsSessions
  BY DEF IndInv
<1>2. TypeOK'
  BY <1>1, TypeStep
<1>3. \A s \in Sessions : TaskOK(s)'
  BY <1>1, TaskStep
<1>4. \A s \in Sessions : ClientOK(s)'
  BY ClientStep
<1>5. HubFollowsSessions' /\ RoomsHoldOnlineMembers'
  BY <1>1, HubFollowsStep, RoomsStep
<1> QED
  BY <1>2, <1>3, <1>4, <1>5 DEF IndInv

\* The inductive invariant holds: a handler's checks are still true when it
\* uses them, and no queue or view holds what its user may not know.
THEOREM Invariance == Spec => []IndInv
  BY InitInv, InvStep, PTL DEF Spec

\* Every variable keeps its type: the handlers only ever queue frames, read
\* rooms and write roles that exist.
THEOREM TypeCorrect == Spec => []TypeOK
<1>1. IndInv => TypeOK
  BY DEF IndInv
<1> QED
  BY <1>1, Invariance, PTL

\* The hub's table of users is exactly the sessions between connect and
\* disconnect, whatever connects, is turned away, drops or crashes.
THEOREM HubSound == Spec => []HubFollowsSessions
<1>1. IndInv => HubFollowsSessions
  BY DEF IndInv
<1> QED
  BY <1>1, Invariance, PTL

\* The hub, which routes without asking the database, never has a room entry
\* for a name that is offline or has no membership.
THEOREM HubRoomsSound == Spec => []RoomsHoldOnlineMembers
<1>1. IndInv => RoomsHoldOnlineMembers
  BY DEF IndInv
<1> QED
  BY <1>1, Invariance, PTL

\* Frames of a type in types queued for a registered session are about rooms
\* for which P holds of its user.
LEMMA QueuedRooms ==
    ASSUME IndInv, NEW s \in Sessions, pc[s] \in Registered,
           NEW types \in SUBSET RoomFrameType, NEW rs,
           \A f \in Frame : FrameOK(f, user[s]) /\ f.type \in types => f.room \in rs
    PROVE  QueuedAbout(s, types) \subseteq rs
<1>1. \A i \in DOMAIN outbox[s] : outbox[s][i] \in Frame /\ FrameOK(outbox[s][i], user[s])
  BY DEF IndInv, TypeOK, ClientOK, QueueOK
<1> QED
  BY <1>1 DEF QueuedAbout, Queued

\* The messages of a group reach its members only: neither a queue nor a
\* client of anyone else ever holds one.
THEOREM Privacy == Spec => []MessagesStayInGroup
<1>1. IndInv => MessagesStayInGroup
  <2> SUFFICES ASSUME IndInv, NEW s \in Sessions, pc[s] \in Registered
               PROVE  client[s].heard \cup QueuedAbout(s, {"message", "typing"})
                        \subseteq JoinedRooms(user[s])
    BY DEF MessagesStayInGroup
  <2>1. client[s].heard \subseteq JoinedRooms(user[s])
    BY DEF IndInv, ClientOK, ViewOK
  <2>2. \A f \in Frame : FrameOK(f, user[s]) /\ f.type \in {"message", "typing"} =>
           f.room \in JoinedRooms(user[s])
    BY FrameCases DEF FrameOK, JoinedRooms, RoomFrameType
  <2>3. {"message", "typing"} \in SUBSET RoomFrameType
    BY DEF RoomFrameType
  <2>4. QueuedAbout(s, {"message", "typing"}) \subseteq JoinedRooms(user[s])
    BY <2>2, <2>3, QueuedRooms
  <2> QED
    BY <2>1, <2>4
<1> QED
  BY <1>1, Invariance, PTL

\* The list of pending requests of a group reaches its admins only.
THEOREM RequestPrivacy == Spec => []RequestsShownToAdmins
<1>1. IndInv => RequestsShownToAdmins
  <2> SUFFICES ASSUME IndInv, NEW s \in Sessions, pc[s] \in Registered
               PROVE  client[s].managed
                        \cup QueuedAbout(s, {"room_details", "join_requested"})
                        \subseteq AdminRooms(user[s])
    BY DEF RequestsShownToAdmins
  <2>1. client[s].managed \subseteq AdminRooms(user[s])
    BY DEF IndInv, ClientOK, ViewOK
  <2>2. \A f \in Frame :
           FrameOK(f, user[s]) /\ f.type \in {"room_details", "join_requested"} =>
              f.room \in AdminRooms(user[s])
    BY FrameCases DEF FrameOK, AdminRooms, RoomFrameType
  <2>3. {"room_details", "join_requested"} \in SUBSET RoomFrameType
    BY DEF RoomFrameType
  <2>4. QueuedAbout(s, {"room_details", "join_requested"}) \subseteq AdminRooms(user[s])
    BY <2>2, <2>3, QueuedRooms
  <2> QED
    BY <2>1, <2>4
<1> QED
  BY <1>1, Invariance, PTL

\* What a client shows as joined is joined, in whatever order frames arrive.
THEOREM ClientsHonest == Spec => []ClientsShowRealMemberships
<1>1. IndInv => ClientsShowRealMemberships
  BY DEF IndInv, ClientOK, ViewOK, ClientsShowRealMemberships
<1> QED
  BY <1>1, Invariance, PTL

\* Nobody loses admin rights.
THEOREM AdminsKept == Spec => AdminsStay
<1>1. TypeOK /\ [Next]_vars =>
        [\A r \in Rooms, n \in Names : IsRoomAdmin(r, n) => IsRoomAdmin(r, n)']_vars
  BY Monotone
<1> QED
  BY <1>1, TypeCorrect, PTL DEF Spec, AdminsStay

-----------------------------------------------------------------------------
\* The creation of groups.

LEMMA ReachesCreateMember ==
    ASSUME IndInv, [Next]_vars, NEW t \in Sessions, pc'[t] = "create_member"
    PROVE  \/ CreateInsertRoom(t)
           \/ pc[t] = "create_member" /\ task'[t] = task[t]
<1> USE DEF IndInv, TypeOK
<1>1. CASE UNCHANGED vars
  BY <1>1 DEF vars, sessionVars
<1>2. CASE Crash
  BY <1>2 DEF Crash
<1>3. ASSUME NEW s \in Sessions, s # t, OthersStay(s)
      PROVE  pc[t] = "create_member" /\ task'[t] = task[t]
  BY <1>3 DEF OthersStay
<1>4. ASSUME Connection(t)
      PROVE  FALSE
  BY <1>4 DEF Connection, Accept, TurnAway, ReadMembers, ReadRequests, Welcome,
              ReadOnline, BroadcastPresence, Deliver, Drop, Unregister, Goto
<1>5. ASSUME Request(t) \/ \E v \in Names : SendDm(t, v)
      PROVE  FALSE
  BY <1>5 DEF Request, Join, Leave, Create, RequestJoin, GetRoomDetails, Send,
              Typing, History, ApproveJoin, RejectJoin, PromoteAdmin, AdminAsks,
              SendDm, Ask, Goto
<1>6. ASSUME Handler(t) \/ StatementFails(t) \/ StatusesFail(t), ~CreateInsertRoom(t)
      PROVE  FALSE
  <2>1. /\ Online \in SUBSET Names /\ task[t].todo \in SUBSET Names
        /\ AfterStatuses(t) \in {"idle", "admins"}
        /\ pc[t] \in Registered => user[t] \in Names
        /\ pc[t] = "notify" => task[t].user \in Names
    BY LocationTypes DEF Online, Task, TaskOK, UserLocation
  <2>2. ~Finish(t)
    BY FinishEffect
  <2>3. \A ts \in SUBSET Names, after \in {"idle", "admins"} : ~UpdateStatuses(t, ts, after)
    BY UpdateStatusesEffect
  <2>4. CASE OpenRoom(t) \/ SendStatus(t) \/ RequestInsert(t) \/ NotifyUser(t)
    BY <2>1, <2>3, <2>4 DEF OpenRoom, SendStatus, RequestInsert, NotifyUser, Registered
  <2>5. CASE StatusesFail(t)
    BY <2>1, <2>3, <2>5 DEF StatusesFail, Goto
  <2> QED
    BY <1>6, <2>2, <2>4, <2>5
       DEF Handler, EnterRoom, CreateConflict, CreateInsertMember, ApproveDelete,
           ApproveInsert, RejectDelete, PromoteUpdate, ReadAdmins, SendDetails,
           ReplyDetails, RouteMessage, ReplyHistory, StatementFails, DoneWith, Goto
<1> QED
  BY <1>1, <1>2, <1>3, <1>4, <1>5, <1>6, ConnectionLocal, RequestLocal, HandlerLocal
     DEF Next

LEMMA RoomsSteps ==
    ASSUME [Next]_vars
    PROVE  UNCHANGED rooms \/ \E s \in Sessions : CreateInsertRoom(s)
<1>1. CASE UNCHANGED vars \/ Crash
  BY <1>1 DEF vars, storeVars, Crash
<1>2. ASSUME NEW s \in Sessions, Connection(s)
      PROVE  UNCHANGED rooms
  BY <1>2 DEF Connection, Accept, TurnAway, ReadMembers, ReadRequests, Welcome,
              ReadOnline, BroadcastPresence, Deliver, Drop, Unregister, storeVars
<1>3. ASSUME NEW s \in Sessions, Request(s) \/ \E v \in Names : SendDm(s, v)
      PROVE  UNCHANGED rooms
  BY <1>3 DEF Request, Join, Leave, Create, RequestJoin, GetRoomDetails, Send,
              Typing, History, ApproveJoin, RejectJoin, PromoteAdmin, AdminAsks,
              SendDm, storeVars
<1>4. ASSUME NEW s \in Sessions, Handler(s) \/ StatementFails(s) \/ StatusesFail(s)
      PROVE  UNCHANGED rooms \/ CreateInsertRoom(s)
  BY <1>4 DEF Handler, EnterRoom, CreateConflict, CreateInsertMember, InsertCreator,
              OpenRoom, SendStatus, RequestInsert, InsertRequest, ApproveDelete,
              DeleteRequest, ApproveInsert, InsertMember, RejectDelete,
              PromoteUpdate, SetAdmin, NotifyUser, ReadAdmins, SendDetails,
              ReplyDetails, RouteMessage, ReplyHistory, StatementFails,
              StatusesFail, storeVars
<1> QED
  BY <1>1, <1>2, <1>3, <1>4 DEF Next

\* The rows of room_members a step can add or change, one at a time.
LEMMA RoleChange ==
    ASSUME IndInv, CreationInv, [Next]_vars, NEW r \in Rooms, NEW n \in Names,
           role'[r][n] # role[r][n]
    PROVE  /\ r \in rooms
           /\ \/ /\ role'[r][n] = "creator"
                 /\ \A m \in Names : role[r][m] = "none"
                 /\ \A m \in Names : m # n => role'[r][m] = "none"
                 /\ \E s \in Sessions : /\ CreateInsertMember(s) /\ pc[s] = "create_member"
                                        /\ task[s].room = r /\ user[s] = n
              \/ /\ role[r][n] = "none" /\ role'[r][n] = "member"
                 /\ \E s \in Sessions : /\ pc[s] = "approve_insert" /\ task[s].room = r
                                        /\ task[s].user = n /\ IsRoomAdmin(r, user[s])
              \/ /\ role[r][n] # "none" /\ role'[r][n] = "admin"
                 /\ \E s \in Sessions : /\ pc[s] = "promote_update" /\ task[s].room = r
                                        /\ task[s].user = n /\ IsRoomAdmin(r, user[s])
<1>1. role \in [Rooms -> [Names -> Role]]
  BY DEF IndInv, TypeOK, StoreTypeOK
<1>2. ASSUME NEW s \in Sessions, CreateInsertMember(s)
      PROVE  /\ r \in rooms /\ role'[r][n] = "creator"
             /\ \A m \in Names : role[r][m] = "none"
             /\ \A m \in Names : m # n => role'[r][m] = "none"
             /\ pc[s] = "create_member" /\ task[s].room = r /\ user[s] = n
  <2>1. /\ role' = [role EXCEPT ![task[s].room][user[s]] = "creator"]
        /\ pc[s] = "create_member"
    BY <1>2 DEF CreateInsertMember, InsertCreator
  <2>2. r = task[s].room
    BY <1>1, <2>1
  <2>3. n = user[s]
    BY <1>1, <2>1, <2>2
  <2> QED
    BY <1>1, <2>1, <2>2, <2>3 DEF CreationInv
<1>3. ASSUME NEW s \in Sessions, ApproveInsert(s)
      PROVE  /\ r \in rooms /\ role[r][n] = "none" /\ role'[r][n] = "member"
             /\ pc[s] = "approve_insert" /\ task[s].room = r
             /\ task[s].user = n /\ IsRoomAdmin(r, user[s])
  <2>1. /\ role' = [role EXCEPT ![task[s].room][task[s].user] =
                      IF @ = "none" THEN "member" ELSE @]
        /\ pc[s] = "approve_insert"
    BY <1>3 DEF ApproveInsert, InsertMember
  <2>2. r = task[s].room
    BY <1>1, <2>1
  <2>3. n = task[s].user
    BY <1>1, <2>1, <2>2
  <2>4. IsRoomAdmin(task[s].room, user[s]) /\ user[s] \in Names
    BY <2>1 DEF IndInv, TaskOK, Registered
  <2>5. r \in rooms
    BY <2>2, <2>4 DEF CreationInv, IsRoomAdmin
  <2> QED
    BY <1>1, <2>1, <2>2, <2>3, <2>4, <2>5
<1>4. ASSUME NEW s \in Sessions, PromoteUpdate(s)
      PROVE  /\ r \in rooms /\ role[r][n] # "none" /\ role'[r][n] = "admin"
             /\ pc[s] = "promote_update" /\ task[s].room = r
             /\ task[s].user = n /\ IsRoomAdmin(r, user[s])
  <2>1. /\ role' = [role EXCEPT ![task[s].room][task[s].user] =
                      IF @ = "none" THEN @ ELSE "admin"]
        /\ pc[s] = "promote_update"
    BY <1>4 DEF PromoteUpdate, SetAdmin
  <2>2. r = task[s].room
    BY <1>1, <2>1
  <2>3. n = task[s].user
    BY <1>1, <2>1, <2>2
  <2>4. role[r][n] # "none"
    BY <1>1, <2>1, <2>2, <2>3
  <2>5. IsRoomAdmin(task[s].room, user[s])
    BY <2>1 DEF IndInv, TaskOK, Registered
  <2> QED
    BY <1>1, <2>1, <2>2, <2>3, <2>4, <2>5 DEF CreationInv
<1> QED
  BY <1>2, <1>3, <1>4, RoleSteps

LEMMA CreationStep == IndInv /\ CreationInv /\ [Next]_vars => CreationInv'
<1> SUFFICES ASSUME IndInv, CreationInv, [Next]_vars PROVE CreationInv'
  OBVIOUS
<1>1. rooms \subseteq rooms'
  BY RoomsSteps DEF CreateInsertRoom, InsertRoom
<1>2. ASSUME NEW r \in Rooms, NEW n \in Names, role'[r][n] # "none"
      PROVE  r \in rooms'
  BY <1>1, <1>2, RoleChange DEF CreationInv
<1>3. ASSUME NEW s \in Sessions, pc'[s] = "create_member"
      PROVE  /\ task'[s].room \in rooms'
             /\ \A n \in Names : role'[task'[s].room][n] = "none"
             /\ \A t \in Sessions :
                   pc'[t] = "create_member" /\ task'[t].room = task'[s].room => t = s
  <2>1. CASE CreateInsertRoom(s)
    <3>1. /\ task[s].room \notin rooms /\ rooms' = rooms \cup {task[s].room}
          /\ UNCHANGED <<role, task>> /\ pc[s] = "create_room"
      BY <2>1 DEF CreateInsertRoom, InsertRoom
    <3>2. task[s].room \in Rooms
      BY <3>1 DEF IndInv, TaskOK, RoomLocation
    <3>3. \A n \in Names : role'[task'[s].room][n] = "none"
      BY <3>1, <3>2 DEF CreationInv
    <3>4. ASSUME NEW t \in Sessions, pc'[t] = "create_member", t # s
          PROVE  task'[t].room # task'[s].room
      <4>1. pc[t] = "create_member"
        BY <2>1, <3>4 DEF CreateInsertRoom, Goto, IndInv, TypeOK
      <4> QED
        BY <3>1, <4>1 DEF CreationInv
    <3> QED
      BY <3>1, <3>3, <3>4
  <2>2. CASE ~CreateInsertRoom(s)
    <3>1. pc[s] = "create_member" /\ task'[s] = task[s]
      BY <1>3, <2>2, ReachesCreateMember
    <3>2. task[s].room \in Rooms /\ task[s].room \in rooms
      BY <3>1 DEF IndInv, TaskOK, RoomLocation, CreationInv
    <3>3. ASSUME NEW n \in Names
          PROVE  role'[task[s].room][n] = "none"
      <4>1. \A m \in Names : role[task[s].room][m] = "none"
        BY <3>1 DEF CreationInv
      <4>2. SUFFICES ASSUME role'[task[s].room][n] # role[task[s].room][n]
                     PROVE  FALSE
        BY <4>1
      <4>3. \A t \in Sessions : ~IsRoomAdmin(task[s].room, user[t]) \/ user[t] \notin Names
        BY <4>1 DEF IsRoomAdmin
      <4>4. PICK t \in Sessions : CreateInsertMember(t) /\ task[t].room = task[s].room
        <5>1. ASSUME NEW t \in Sessions, pc[t] = "approve_insert"
              PROVE  user[t] \in Names
          BY <5>1 DEF IndInv, TaskOK, Registered
        <5> QED
          BY <3>2, <4>1, <4>2, <4>3, <5>1, RoleChange
      <4>5. t = s /\ pc'[t] = "create_hub"
        BY <3>1, <4>4 DEF CreationInv, CreateInsertMember, Goto, IndInv, TypeOK
      <4> QED
        BY <1>3, <4>5
    <3>4. ASSUME NEW t \in Sessions, pc'[t] = "create_member",
                 task'[t].room = task'[s].room
          PROVE  t = s
      <4>1. CASE CreateInsertRoom(t)
        <5>1. task[t].room \notin rooms /\ UNCHANGED task
          BY <4>1 DEF CreateInsertRoom, InsertRoom
        <5> QED
          BY <3>1, <3>2, <3>4, <5>1
      <4>2. CASE ~CreateInsertRoom(t)
        <5>1. pc[t] = "create_member" /\ task'[t] = task[t]
          BY <3>4, <4>2, ReachesCreateMember
        <5> QED
          BY <3>1, <3>4, <5>1 DEF CreationInv
      <4> QED
        BY <4>1, <4>2
    <3> QED
      BY <1>1, <3>1, <3>2, <3>3, <3>4
  <2> QED
    BY <2>1, <2>2
<1>4. ASSUME NEW r \in Rooms, NEW m \in Names, NEW n \in Names,
             role'[r][m] = "creator", role'[r][n] = "creator", m # n
      PROVE  FALSE
  <2>1. CASE role[r][m] = "creator" /\ role[r][n] = "creator"
    BY <1>4, <2>1 DEF CreationInv, OneCreator
  <2>2. CASE role[r][m] # "creator"
    <3>1. \A k \in Names : k # m => role'[r][k] = "none"
      BY <1>4, <2>2, RoleChange
    <3> QED
      BY <1>4, <3>1
  <2>3. CASE role[r][n] # "creator"
    <3>1. \A k \in Names : k # n => role'[r][k] = "none"
      BY <1>4, <2>3, RoleChange
    <3> QED
      BY <1>4, <3>1
  <2> QED
    BY <2>1, <2>2, <2>3
<1> QED
  BY <1>2, <1>3, <1>4 DEF CreationInv, OneCreator

LEMMA InitCreation == Init => CreationInv
  BY BootsAreDatabases DEF Init, Database, CreationInv, OneCreator

\* A group being created by some create_room has no member yet and is being
\* created by no other.
THEOREM CreationInvariance == Spec => []CreationInv
  BY InitInv, InvStep, InitCreation, CreationStep, PTL DEF Spec

\* A group never has two creators, though any number of sessions may try to
\* create it at once.
THEOREM SingleCreator == Spec => []OneCreator
<1>1. CreationInv => OneCreator
  BY DEF CreationInv
<1> QED
  BY <1>1, CreationInvariance, PTL

\* Every change of a role is made by the session that runs the create, the
\* approval or the promotion, and whoever lets in or promotes is an admin of the
\* group when the row is written.
THEOREM AdmissionSound == Spec => AdminsGrantRoles
<1> DEFINE Granted(r, n) ==
      role'[r][n] # role[r][n] =>
         \E s \in Sessions :
            /\ task[s].room = r
            /\ \/ /\ pc[s] = "create_member"
                  /\ user[s] = n
                  /\ role'[r][n] = "creator"
                  /\ \A m \in Names : role[r][m] = "none"
               \/ /\ pc[s] = "approve_insert"
                  /\ task[s].user = n
                  /\ IsRoomAdmin(r, user[s])
                  /\ role[r][n] = "none" /\ role'[r][n] = "member"
               \/ /\ pc[s] = "promote_update"
                  /\ task[s].user = n
                  /\ IsRoomAdmin(r, user[s])
                  /\ role[r][n] # "none" /\ role'[r][n] = "admin"
<1>1. IndInv /\ CreationInv /\ [Next]_vars => [\A r \in Rooms, n \in Names : Granted(r, n)]_vars
  <2> SUFFICES ASSUME IndInv, CreationInv, [Next]_vars,
                      NEW r \in Rooms, NEW n \in Names
               PROVE  Granted(r, n)
    OBVIOUS
  <2> QED
    BY RoleChange
<1> QED
  BY <1>1, Invariance, CreationInvariance, PTL DEF Spec, AdminsGrantRoles
-----------------------------------------------------------------------------
\* The rules of Groups.

\* A step writes at most one row of room_members.
LEMMA OneRow ==
    ASSUME IndInv, [Next]_vars
    PROVE  \/ UNCHANGED role
           \/ \E r \in Rooms, n \in Names, x \in Role :
                 role' = [role EXCEPT ![r][n] = x]
<1>1. ASSUME NEW s \in Sessions, CreateInsertMember(s)
      PROVE  \E r \in Rooms, n \in Names, x \in Role : role' = [role EXCEPT ![r][n] = x]
  BY <1>1 DEF CreateInsertMember, InsertCreator, IndInv, TaskOK, RoomLocation, Registered, Role
<1>2. ASSUME NEW s \in Sessions, ApproveInsert(s)
      PROVE  \E r \in Rooms, n \in Names, x \in Role : role' = [role EXCEPT ![r][n] = x]
  <2>1. task[s].room \in Rooms /\ task[s].user \in Names
    BY <1>2 DEF ApproveInsert, IndInv, TaskOK, RoomLocation, UserLocation
  <2>2. role' = [role EXCEPT ![task[s].room][task[s].user] =
                   IF role[task[s].room][task[s].user] = "none" THEN "member"
                   ELSE role[task[s].room][task[s].user]]
    BY <1>2, <2>1 DEF ApproveInsert, InsertMember, IndInv, TypeOK, StoreTypeOK
  <2>3. role[task[s].room][task[s].user] \in Role
    BY <2>1 DEF IndInv, TypeOK, StoreTypeOK
  <2> QED
    BY <2>1, <2>2, <2>3 DEF Role
<1>3. ASSUME NEW s \in Sessions, PromoteUpdate(s)
      PROVE  \E r \in Rooms, n \in Names, x \in Role : role' = [role EXCEPT ![r][n] = x]
  <2>1. task[s].room \in Rooms /\ task[s].user \in Names
    BY <1>3 DEF PromoteUpdate, IndInv, TaskOK, RoomLocation, UserLocation
  <2>2. role' = [role EXCEPT ![task[s].room][task[s].user] =
                   IF role[task[s].room][task[s].user] = "none" THEN "none" ELSE "admin"]
    BY <1>3, <2>1 DEF PromoteUpdate, SetAdmin, IndInv, TypeOK, StoreTypeOK
  <2> QED
    BY <2>1, <2>2 DEF Role
<1> QED
  BY <1>1, <1>2, <1>3, RoleSteps

\* Whoever makes it, a change of one row is a step of Groups: that a promotion
\* is made by an admin was checked three awaits earlier, and still holds.
LEMMA GroupStep ==
    ASSUME IndInv, CreationInv, [Next]_vars
    PROVE  Group!GroupsNext \/ UNCHANGED role
<1>1. role \in [Rooms -> [Names -> Role]]
  BY DEF IndInv, TypeOK, StoreTypeOK
<1>2. SUFFICES ASSUME NEW r \in Rooms, NEW n \in Names, NEW x \in Role,
                      role' = [role EXCEPT ![r][n] = x], role' # role
               PROVE  Group!GroupsNext
  BY OneRow
<1>3. role'[r][n] = x /\ role'[r][n] # role[r][n]
  BY <1>1, <1>2
<1>4. CASE /\ x = "creator"
           /\ \A m \in Names : role[r][m] = "none"
  BY <1>2, <1>4 DEF Group!GroupsNext, Group!Found
<1>5. ASSUME NEW s \in Sessions, pc[s] = "approve_insert", IsRoomAdmin(r, user[s]),
             role[r][n] = "none", x = "member"
      PROVE  Group!GroupsNext
  <2>1. user[s] \in Names
    BY <1>5 DEF IndInv, TaskOK, Registered
  <2>2. Group!LetIn(r, user[s], n)
    BY <1>2, <1>5 DEF Group!LetIn, Group!IsAdmin, IsRoomAdmin
  <2> QED
    BY <2>1, <2>2 DEF Group!GroupsNext
<1>6. ASSUME NEW s \in Sessions, pc[s] = "promote_update", IsRoomAdmin(r, user[s]),
             role[r][n] # "none", x = "admin"
      PROVE  Group!GroupsNext
  <2>1. user[s] \in Names
    BY <1>6 DEF IndInv, TaskOK, Registered
  <2>2. Group!Promote(r, user[s], n)
    BY <1>2, <1>6 DEF Group!Promote, Group!IsAdmin, IsRoomAdmin
  <2> QED
    BY <2>1, <2>2 DEF Group!GroupsNext
<1> QED
  BY <1>3, <1>4, <1>5, <1>6, RoleChange

\* The server implements Groups, whatever its sessions do and however they
\* interleave, fail and crash.
THEOREM GroupsImplemented == Spec => GroupsKept
<1>1. Init => Group!GroupsInit
  BY BootsAreDatabases DEF Init, Database, Group!GroupsInit, Group!Rank, Role
<1>2. IndInv /\ CreationInv /\ [Next]_vars => [Group!GroupsNext]_role
  BY GroupStep
<1> QED
  BY <1>1, <1>2, Invariance, CreationInvariance, PTL DEF Spec, GroupsKept, Group!GroupsSpec
=============================================================================
