----------------------------- MODULE ChatServer -----------------------------
(***************************************************************************)
(* The chat server: one task per WebSocket (src/src/session.rs) between    *)
(* the shared router (Hub), the group tables (Membership) and the client   *)
(* at the other end of the socket (ClientView).  Tasks run on several      *)
(* threads, so they interleave at every await and at every acquisition of  *)
(* the hub's lock: each action below lies between two such points.  pc     *)
(* says where a task stands, task holds the locals of the handler it is    *)
(* in.                                                                     *)
(*                                                                         *)
(* A request that is refused (invalid name, not a member, not an admin)    *)
(* only writes an Error frame to its own socket: it has no action.         *)
(***************************************************************************)
EXTENDS Hub, Membership, ClientView, Naturals

CONSTANTS
    NoName, NoRoom,  \* "no user", "no room"
    Ops,             \* the client messages sent in this instance
    Boots,           \* the databases the server may find when it starts
    MaxAsked,        \* bounds: client messages handled,
    MaxFaults,       \*   SQL statements that fail,
    MaxCrashes       \*   crashes of the server process

ASSUME NoNameIsNoName == NoName \notin Names
ASSUME NoRoomIsNoRoom == NoRoom \notin Rooms
Database == [rooms: SUBSET Rooms, role: [Rooms -> [Names -> Role]],
             requests: SUBSET (Rooms \X Names)]

\* A database this server wrote: a group with members exists, and it has at
\* most one creator.
ASSUME BootsAreDatabases ==
    \A db \in Boots :
      /\ db \in Database
      /\ \A r \in Rooms : \A m, n \in Names :
            /\ db.role[r][n] # "none" => r \in db.rooms
            /\ db.role[r][m] = "creator" /\ db.role[r][n] = "creator" => m = n

VARIABLES
    pc,         \* session -> where its task stands
    user,       \* session -> the name it is logged in as
    task,       \* session -> locals of run() or of the handler in progress
    client,     \* session -> what the client at the other end shows
    asked, faults, crashes   \* counters for the bounds

sessionVars == <<pc, user, task, client>>
counters == <<asked, faults, crashes>>
vars == <<hubVars, storeVars, sessionVars, counters>>

Op == {"join", "leave", "create", "request", "approve", "reject", "promote",
       "details", "send", "typing", "dm", "history"}
ASSUME OpsAreOps == Ops \subseteq Op

Answer == {"approve", "reject", "promote"}

NoStatuses == [joined |-> {}, pending |-> {}, admin |-> {}]
NoTask == [type |-> "none", room |-> NoRoom, user |-> NoName,
           target |-> NoName,        \* whose statuses are being read
           todo |-> {},              \* users still to be written to
           statuses |-> NoStatuses,  \* what was read of them
           online |-> {}]            \* a copy of hub.online()
Task == [type: Op \cup {"none", "welcome", "admin_details"},
         room: Rooms \cup {NoRoom}, user: Names \cup {NoName},
         target: Names \cup {NoName}, todo: SUBSET Names,
         statuses: Statuses, online: SUBSET Names]

\* Where a task is registered in the hub: from connect to disconnect.
Registered == {"idle", "status_members", "status_requests", "status_send",
               "announce", "announce_send", "closing", "join", "create_room",
               "create_member", "create_hub", "request_insert",
               "approve_delete", "approve_insert", "reject_delete",
               "promote_update", "notify", "admins", "details",
               "details_member", "route", "history"}
Location == Registered \cup {"new", "farewell", "farewell_send", "closed"}

TypeOK ==
    /\ users \in [Names -> Sessions \cup {NoSession}]
    /\ members \in [Rooms -> SUBSET Names]
    /\ outbox \in [Sessions -> Seq(Frame)]
    /\ StoreTypeOK
    /\ pc \in [Sessions -> Location]
    /\ user \in [Sessions -> Names \cup {NoName}]
    /\ task \in [Sessions -> Task]
    /\ client \in [Sessions -> View]
    /\ asked \in Nat /\ faults \in Nat /\ crashes \in Nat

Init ==
    /\ HubInit
    /\ \E db \in Boots :
          rooms = db.rooms /\ role = db.role /\ requests = db.requests
    /\ pc = [s \in Sessions |-> "new"]
    /\ user = [s \in Sessions |-> NoName]
    /\ task = [s \in Sessions |-> NoTask]
    /\ client = [s \in Sessions |-> EmptyView]
    /\ asked = 0 /\ faults = 0 /\ crashes = 0
-----------------------------------------------------------------------------
\* Control flow of one task.

Goto(s, l) == pc' = [pc EXCEPT ![s] = l]

Finish(s) ==
    /\ Goto(s, "idle")
    /\ task' = [task EXCEPT ![s] = NoTask]

\* The loop of send_rooms_update_to_user calls: read the statuses of one user
\* of ts after another, then go on to location after.
UpdateStatuses(s, ts, after) ==
    \/ /\ ts = {}
       /\ Goto(s, after)
       /\ task' = [task EXCEPT ![s] = IF after = "idle" THEN NoTask
                     ELSE [@ EXCEPT !.target = NoName, !.statuses = NoStatuses,
                                    !.todo = {}]]
    \/ \E t \in ts :
         /\ Goto(s, "status_members")
         /\ task' = [task EXCEPT ![s] = [@ EXCEPT !.target = t,
                        !.statuses = NoStatuses, !.todo = ts \ {t}]]

AfterStatuses(s) == IF task[s].type = "create" THEN "idle" ELSE "admins"

\* A client message of type op arrives and is let through by its first check.
Ask(s, op, r, v, l) ==
    /\ pc[s] = "idle"
    /\ asked < MaxAsked
    /\ asked' = asked + 1
    /\ Goto(s, l)
    /\ task' = [task EXCEPT ![s] =
                  IF l = "idle" THEN NoTask
                  ELSE [NoTask EXCEPT !.type = op, !.room = r, !.user = v]]
    /\ UNCHANGED <<user, faults, crashes>>
-----------------------------------------------------------------------------
\* run(): a connection is accepted, greeted, announced, served and ended.

Accept(s, n) ==
    /\ pc[s] = "new"
    /\ Connect(n, s)
    /\ user' = [user EXCEPT ![s] = n]
    /\ Goto(s, "status_members")
    /\ task' = [task EXCEPT ![s] = [NoTask EXCEPT !.type = "welcome",
                                                   !.target = n]]
    /\ UNCHANGED <<members, outbox, storeVars, client, counters>>

\* The name is already online: the session ends without ever having been in
\* the hub, and does not touch the entry of the session that holds the name.
TurnAway(s) ==
    /\ pc[s] = "new"
    /\ \E n \in Names : users[n] # NoSession
    /\ Goto(s, "closed")
    /\ UNCHANGED <<hubVars, storeVars, user, task, client, counters>>

ReadMembers(s) ==
    /\ pc[s] = "status_members"
    /\ task' = [task EXCEPT ![s].statuses =
                  [joined |-> JoinedRooms(task[s].target),
                   pending |-> {},
                   admin |-> AdminRooms(task[s].target)]]
    /\ Goto(s, "status_requests")
    /\ UNCHANGED <<hubVars, storeVars, user, client, counters>>

ReadRequests(s) ==
    /\ pc[s] = "status_requests"
    /\ task' = [task EXCEPT ![s].statuses =
                  [@ EXCEPT !.pending = PendingRooms(task[s].target)]]
    /\ Goto(s, "status_send")
    /\ UNCHANGED <<hubVars, storeVars, user, client, counters>>

\* Welcome goes straight to the socket, ahead of anything in the outbox.
Welcome(s) ==
    /\ pc[s] = "status_send"
    /\ task[s].type = "welcome"
    /\ client' = [client EXCEPT ![s] =
                    ShowStatuses([@ EXCEPT !.users = Online], task[s].statuses)]
    /\ Goto(s, "announce")
    /\ task' = [task EXCEPT ![s] = NoTask]
    /\ UNCHANGED <<hubVars, storeVars, user, counters>>

\* hub.online() and hub.broadcast() take the lock one after the other.
ReadOnline(s) ==
    /\ pc[s] \in {"announce", "farewell"}
    /\ task' = [task EXCEPT ![s].online = Online]
    /\ Goto(s, IF pc[s] = "announce" THEN "announce_send" ELSE "farewell_send")
    /\ UNCHANGED <<hubVars, storeVars, user, client, counters>>

BroadcastPresence(s) ==
    /\ pc[s] \in {"announce_send", "farewell_send"}
    /\ Post(Names, [type |-> "presence", users |-> task[s].online])
    /\ Goto(s, IF pc[s] = "announce_send" THEN "idle" ELSE "closed")
    /\ task' = [task EXCEPT ![s] = NoTask]
    /\ UNCHANGED <<users, members, storeVars, user, client, counters>>

\* The select loop writes a queued frame only between two handlers.
Deliver(s) ==
    /\ pc[s] = "idle"
    /\ outbox[s] # <<>>
    /\ client' = [client EXCEPT ![s] = Shown(@, user[s], Head(outbox[s]))]
    /\ outbox' = [outbox EXCEPT ![s] = Tail(@)]
    /\ UNCHANGED <<users, members, storeVars, pc, user, task, counters>>

\* The loop ends: the client closed or is gone, pings time out, or a write to
\* the socket fails, also inside a handler (what the handler did stays done).
Drop(s) ==
    /\ \/ pc[s] \in {"idle", "join", "create_hub", "details_member", "history"}
       \/ pc[s] = "status_send" /\ task[s].type = "welcome"
    /\ Goto(s, "closing")
    /\ task' = [task EXCEPT ![s] = NoTask]
    /\ UNCHANGED <<hubVars, storeVars, user, client, counters>>

Unregister(s) ==
    /\ pc[s] = "closing"
    /\ Disconnect(user[s])
    /\ outbox' = [outbox EXCEPT ![s] = <<>>]
    /\ client' = [client EXCEPT ![s] = EmptyView]
    /\ Goto(s, "farewell")
    /\ UNCHANGED <<storeVars, user, task, counters>>
-----------------------------------------------------------------------------
\* Join, Leave, CreateRoom.

\* Faulty variant of Join: membership is not asked for.
JoinUnchecked(s, r) ==
    /\ Ask(s, "join", r, NoName, "join")
    /\ UNCHANGED <<hubVars, storeVars, client>>

Join(s, r) ==
    /\ Ask(s, "join", r, NoName, "join")
    /\ IsRoomMember(r, user[s])
    /\ UNCHANGED <<hubVars, storeVars, client>>

\* hub.join, then Joined straight to the socket.
EnterRoom(s) ==
    /\ pc[s] = "join"
    /\ JoinHub(task[s].room, user[s])
    /\ client' = [client EXCEPT ![s] = ShowJoined(@, task[s].room)]
    /\ Finish(s)
    /\ UNCHANGED <<users, outbox, storeVars, user, counters>>

Leave(s, r) ==
    /\ Ask(s, "leave", r, NoName, "idle")
    /\ LeaveHub(r, user[s])
    /\ UNCHANGED <<users, outbox, storeVars, client>>

Create(s, r) ==
    /\ Ask(s, "create", r, NoName, "create_room")
    /\ r # General
    /\ r \notin rooms
    /\ UNCHANGED <<hubVars, storeVars, client>>

CreateInsertRoom(s) ==
    /\ pc[s] = "create_room"
    /\ InsertRoom(task[s].room)
    /\ Goto(s, "create_member")
    /\ UNCHANGED <<hubVars, user, task, client, counters>>

\* Another session inserted the room after this one looked.
CreateConflict(s) ==
    /\ pc[s] = "create_room"
    /\ task[s].room \in rooms
    /\ Finish(s)
    /\ UNCHANGED <<hubVars, storeVars, user, client, counters>>

CreateInsertMember(s) ==
    /\ pc[s] = "create_member"
    /\ InsertCreator(task[s].room, user[s])
    /\ Goto(s, "create_hub")
    /\ UNCHANGED <<hubVars, user, task, client, counters>>

\* hub.add_room, hub.join, Joined; then a rooms update to everyone online.
OpenRoom(s) ==
    /\ pc[s] = "create_hub"
    /\ JoinHub(task[s].room, user[s])
    /\ client' = [client EXCEPT ![s] = ShowJoined(@, task[s].room)]
    /\ UpdateStatuses(s, Online, AfterStatuses(s))
    /\ UNCHANGED <<users, outbox, storeVars, user, counters>>

\* End of one send_rooms_update_to_user.
SendStatus(s) ==
    /\ pc[s] = "status_send"
    /\ task[s].type # "welcome"
    /\ Post({task[s].target}, [type |-> "rooms", statuses |-> task[s].statuses])
    /\ UpdateStatuses(s, task[s].todo, AfterStatuses(s))
    /\ UNCHANGED <<users, members, storeVars, user, client, counters>>
-----------------------------------------------------------------------------
\* RequestJoin, and the answers of admins: ApproveJoin, RejectJoin,
\* PromoteAdmin.

RequestJoin(s, r) ==
    /\ Ask(s, "request", r, user[s], "request_insert")
    /\ ~IsRoomMember(r, user[s])
    /\ UNCHANGED <<hubVars, storeVars, client>>

RequestInsert(s) ==
    /\ pc[s] = "request_insert"
    /\ InsertRequest(task[s].room, user[s])
    /\ UpdateStatuses(s, {user[s]}, "admins")
    /\ UNCHANGED <<hubVars, user, client, counters>>

\* Faulty variant of AdminAsks: anybody may answer.
AnybodyAsks(s, op, r, v, l) ==
    /\ Ask(s, op, r, v, l)
    /\ UNCHANGED <<hubVars, storeVars, client>>

AdminAsks(s, op, r, v, l) ==
    /\ Ask(s, op, r, v, l)
    /\ IsRoomAdmin(r, user[s])
    /\ UNCHANGED <<hubVars, storeVars, client>>

ApproveJoin(s, r, v) == AdminAsks(s, "approve", r, v, "approve_delete")
RejectJoin(s, r, v) == AdminAsks(s, "reject", r, v, "reject_delete")
PromoteAdmin(s, r, v) == AdminAsks(s, "promote", r, v, "promote_update")

\* Faulty variant of ApproveDelete: the user is told before the row is written.
ApproveDeleteThenNotify(s) ==
    /\ pc[s] = "approve_delete"
    /\ DeleteRequest(task[s].room, task[s].user)
    /\ Goto(s, "notify")
    /\ UNCHANGED <<hubVars, user, task, client, counters>>

ApproveDelete(s) ==
    /\ pc[s] = "approve_delete"
    /\ DeleteRequest(task[s].room, task[s].user)
    /\ Goto(s, "approve_insert")
    /\ UNCHANGED <<hubVars, user, task, client, counters>>

ApproveInsert(s) ==
    /\ pc[s] = "approve_insert"
    /\ InsertMember(task[s].room, task[s].user)
    /\ Goto(s, "notify")
    /\ UNCHANGED <<hubVars, user, task, client, counters>>

RejectDelete(s) ==
    /\ pc[s] = "reject_delete"
    /\ DeleteRequest(task[s].room, task[s].user)
    /\ Goto(s, "notify")
    /\ UNCHANGED <<hubVars, user, task, client, counters>>

PromoteUpdate(s) ==
    /\ pc[s] = "promote_update"
    /\ SetAdmin(task[s].room, task[s].user)
    /\ Goto(s, "notify")
    /\ UNCHANGED <<hubVars, user, task, client, counters>>

NoticeType == [approve |-> "join_approved", reject |-> "join_rejected",
               promote |-> "admin_promoted"]
Notice(s) == [type |-> NoticeType[task[s].type],
              room |-> task[s].room, user |-> task[s].user]

\* A promotion is told to the whole room first, then to the user again.
NotifyUser(s) ==
    /\ pc[s] = "notify"
    /\ LET told == IF task[s].type = "promote"
                   THEN Posted(outbox, members[task[s].room], Notice(s))
                   ELSE outbox
       IN  outbox' = Posted(told, {task[s].user}, Notice(s))
    /\ UpdateStatuses(s, {task[s].user}, "admins")
    /\ UNCHANGED <<users, members, storeVars, user, client, counters>>

\* get_room_admins; a request is announced to them at once.
ReadAdmins(s) ==
    /\ pc[s] = "admins"
    /\ LET admins == RoomAdmins(task[s].room) IN
         /\ IF task[s].type = "request"
              THEN Post(admins, [type |-> "join_requested",
                                 room |-> task[s].room, user |-> user[s]])
              ELSE UNCHANGED outbox
         /\ IF admins = {}
              THEN Finish(s)
              ELSE /\ Goto(s, "details")
                   /\ task' = [task EXCEPT ![s].todo = admins]
    /\ UNCHANGED <<users, members, storeVars, user, client, counters>>

DetailsFrame(s) ==
    [type |-> "room_details", room |-> task[s].room, user |-> user[s]]

\* A request has dealt with one of the admins it has to tell.
DoneWith(s, a) ==
    IF task[s].todo = {a}
      THEN Finish(s)
      ELSE /\ task' = [task EXCEPT ![s].todo = @ \ {a}]
           /\ UNCHANGED pc

\* get_room_details, with the pending requests, to every admin: an answer
\* reads them once, a request once per admin.
SendDetails(s) ==
    /\ pc[s] = "details"
    /\ \/ /\ task[s].type \in Answer
          /\ Post(task[s].todo, DetailsFrame(s))
          /\ Finish(s)
       \/ /\ task[s].type = "request"
          /\ \E a \in task[s].todo :
               Post({a}, DetailsFrame(s)) /\ DoneWith(s, a)
    /\ UNCHANGED <<users, members, storeVars, user, client, counters>>
-----------------------------------------------------------------------------
\* GetRoomDetails, Send, Typing, History.

\* is_room_admin is asked first, is_room_member second; without either the
\* answer is "Access denied.", which shows the client as little as the reply to
\* a plain member does: no requests.
GetRoomDetails(s, r) ==
    /\ Ask(s, IF IsRoomAdmin(r, user[s]) THEN "admin_details" ELSE "details",
           r, NoName, "details_member")
    /\ UNCHANGED <<hubVars, storeVars, client>>

\* Only a reply that found an admin carries the pending requests.
ReplyDetails(s) ==
    /\ pc[s] = "details_member"
    /\ client' = IF task[s].type = "admin_details"
                   THEN [client EXCEPT ![s].managed = @ \cup {task[s].room}]
                   ELSE client
    /\ Finish(s)
    /\ UNCHANGED <<hubVars, storeVars, user, counters>>

\* Faulty variant of Send: membership is not asked for.
SendUnchecked(s, r) ==
    /\ Ask(s, "send", r, NoName, "route")
    /\ UNCHANGED <<hubVars, storeVars, client>>

Send(s, r) ==
    /\ Ask(s, "send", r, NoName, "route")
    /\ IsRoomMember(r, user[s])
    /\ UNCHANGED <<hubVars, storeVars, client>>

\* hub.join, then the message to everyone in the room, its sender included;
\* what others do to the hub between the two calls commutes with the join.
\* (save_message only queues the row: module MessageLog.)
RouteMessage(s) ==
    /\ pc[s] = "route"
    /\ JoinHub(task[s].room, user[s])
    /\ Post(members'[task[s].room],
            [type |-> "message", room |-> task[s].room, user |-> user[s]])
    /\ Finish(s)
    /\ UNCHANGED <<users, storeVars, user, client, counters>>

\* A direct message goes to the peer and, unless it is a note to self, back to
\* the sender; a typing notice goes to the peer alone.
SendDm(s, v) ==
    /\ Ask(s, "dm", NoRoom, v, "idle")
    /\ \E ns \in {{v, user[s]}, {v} \ {user[s]}} :
         Post(ns, [type |-> "dm", ends |-> {v, user[s]}])
    /\ UNCHANGED <<users, members, storeVars, client>>

\* Typing trusts the hub, not the store.  Only this session takes its user out
\* of a room, so is_member still holds when send_to_room takes the lock.
Typing(s, r) ==
    /\ Ask(s, "typing", r, NoName, "idle")
    /\ user[s] \in members[r]
    /\ Post(members[r] \ {user[s]},
            [type |-> "typing", room |-> r, user |-> user[s]])
    /\ UNCHANGED <<users, members, storeVars, client>>

History(s, r) ==
    /\ Ask(s, "history", r, NoName, "history")
    /\ IsRoomMember(r, user[s])
    /\ UNCHANGED <<hubVars, storeVars, client>>

ReplyHistory(s) ==
    /\ pc[s] = "history"
    /\ client' = [client EXCEPT ![s].heard = @ \cup {task[s].room}]
    /\ Finish(s)
    /\ UNCHANGED <<hubVars, storeVars, user, counters>>
-----------------------------------------------------------------------------
\* Failures.

\* The error of a statement ends the handler there, with an Error frame if it
\* was to write; the statements before it stay done.  Only the loop of a request
\* goes on, with the next admin.
StatementFails(s) ==
    /\ pc[s] \in {"create_room", "create_member", "request_insert",
                   "approve_delete", "approve_insert", "reject_delete",
                   "promote_update", "admins", "details"}
    /\ faults < MaxFaults
    /\ faults' = faults + 1
    /\ IF pc[s] = "details" /\ task[s].type = "request"
         THEN \E a \in task[s].todo : DoneWith(s, a)
         ELSE Finish(s)
    /\ UNCHANGED <<hubVars, storeVars, user, client, asked, crashes>>

\* user_room_statuses fails: Welcome falls back on general alone, an update is
\* skipped.
StatusesFail(s) ==
    /\ pc[s] \in {"status_members", "status_requests"}
    /\ faults < MaxFaults
    /\ faults' = faults + 1
    /\ \/ /\ task[s].type = "welcome"
          /\ Goto(s, "status_send")
          /\ task' = [task EXCEPT ![s].statuses =
                        [NoStatuses EXCEPT !.joined = {General} \cap Rooms]]
       \/ /\ task[s].type # "welcome"
          /\ UpdateStatuses(s, task[s].todo, AfterStatuses(s))
    /\ UNCHANGED <<hubVars, storeVars, user, client, asked, crashes>>

\* The server process dies and is started again on the same database: every
\* task and the whole hub are gone (create_server).
Crash ==
    /\ crashes < MaxCrashes
    /\ crashes' = crashes + 1
    /\ users' = [n \in Names |-> NoSession]
    /\ members' = [r \in Rooms |-> {}]
    /\ outbox' = [s \in Sessions |-> <<>>]
    /\ pc' = [s \in Sessions |-> IF pc[s] = "new" THEN "new" ELSE "closed"]
    /\ task' = [s \in Sessions |-> NoTask]
    /\ client' = [s \in Sessions |-> EmptyView]
    /\ UNCHANGED <<storeVars, user, asked, faults>>
-----------------------------------------------------------------------------
Connection(s) ==
    \/ \E n \in Names : Accept(s, n)
    \/ TurnAway(s)
    \/ ReadMembers(s) \/ ReadRequests(s) \/ Welcome(s)
    \/ ReadOnline(s) \/ BroadcastPresence(s)
    \/ Deliver(s) \/ Drop(s) \/ Unregister(s)

Request(s) ==
    \E r \in Rooms :
      \/ "join" \in Ops /\ Join(s, r)
      \/ "leave" \in Ops /\ Leave(s, r)
      \/ "create" \in Ops /\ Create(s, r)
      \/ "request" \in Ops /\ RequestJoin(s, r)
      \/ "details" \in Ops /\ GetRoomDetails(s, r)
      \/ "send" \in Ops /\ Send(s, r)
      \/ "typing" \in Ops /\ Typing(s, r)
      \/ "history" \in Ops /\ History(s, r)
      \/ \E v \in Names :
           \/ "approve" \in Ops /\ ApproveJoin(s, r, v)
           \/ "reject" \in Ops /\ RejectJoin(s, r, v)
           \/ "promote" \in Ops /\ PromoteAdmin(s, r, v)

Handler(s) ==
    \/ EnterRoom(s)
    \/ CreateInsertRoom(s) \/ CreateConflict(s) \/ CreateInsertMember(s)
    \/ OpenRoom(s) \/ SendStatus(s) \/ RequestInsert(s)
    \/ ApproveDelete(s) \/ ApproveInsert(s) \/ RejectDelete(s)
    \/ PromoteUpdate(s) \/ NotifyUser(s) \/ ReadAdmins(s) \/ SendDetails(s)
    \/ ReplyDetails(s) \/ RouteMessage(s) \/ ReplyHistory(s)

Next ==
    \/ \E s \in Sessions :
         \/ Connection(s) \/ Request(s) \/ Handler(s)
         \/ \E v \in Names : "dm" \in Ops /\ SendDm(s, v)
         \/ StatementFails(s) \/ StatusesFail(s)
    \/ Crash

Spec == Init /\ [][Next]_vars
-----------------------------------------------------------------------------
\* Properties.

\* The hub's table of users is exactly the live sessions: a name is online if
\* and only if one session, logged in as it, is between connect and
\* disconnect.  A second device that is turned away must not unregister the
\* first (session.rs:28, hub.rs:42).
HubFollowsSessions ==
    /\ \A s \in Sessions : pc[s] \in Registered => users[user[s]] = s
    /\ \A n \in Names : users[n] # NoSession =>
          user[users[n]] = n /\ pc[users[n]] \in Registered

\* The hub delivers a room's traffic by its own table, with no look at the
\* database: that table must never name someone offline, nor someone who is
\* not a member in the database (hub.rs:109, session.rs:170, 388).
RoomsHoldOnlineMembers ==
    \A r \in Rooms : \A n \in members[r] :
        users[n] # NoSession /\ IsRoomMember(r, n)

Queued(s) == {outbox[s][i] : i \in DOMAIN outbox[s]}
QueuedAbout(s, types) == {f.room : f \in {g \in Queued(s) : g.type \in types}}

\* "Messages in restricted groups are accessible only to approved members"
\* (README.md:95): no message or typing frame is on its way to, and nothing of
\* a group's history was shown to, a client whose user has no row in the group.
MessagesStayInGroup ==
    \A s \in Sessions : pc[s] \in Registered =>
        client[s].heard \cup QueuedAbout(s, {"message", "typing"})
            \subseteq JoinedRooms(user[s])

\* Pending requests go to admins only, though who is an admin is read before
\* the requests are, and both before they are sent (session.rs:215, 254, 341).
RequestsShownToAdmins ==
    \A s \in Sessions : pc[s] \in Registered =>
        client[s].managed \cup QueuedAbout(s, {"room_details", "join_requested"})
            \subseteq AdminRooms(user[s])

\* A group has at most one creator, also when several users create it at the
\* same time and all find the name free (db.rs:253).
OneCreator ==
    \A r \in Rooms : \A m, n \in Names :
        role[r][m] = "creator" /\ role[r][n] = "creator" => m = n

\* A client never shows as joined a group its user is not a member of, in
\* whatever order the answers, updates and notices of other sessions reach it
\* (session.rs:174, 251, 316; socket.ts:58, 67, 97).
ClientsShowRealMemberships ==
    \A s \in Sessions : pc[s] \in Registered =>
        client[s].joined \subseteq JoinedRooms(user[s])

\* No request, race or crash takes an admin's rights away: in particular
\* approving someone again does not reset their role (db.rs:397).
AdminsStay ==
    [][\A r \in Rooms, n \in Names :
          IsRoomAdmin(r, n) => IsRoomAdmin(r, n)']_vars

\* A role changes in three ways only: the creator of a group without members
\* gets the first, a session that runs an approval lets its user in, and one that
\* runs a promotion makes its user an admin. The session's own user is an admin of
\* the group when the row is written, though that was checked two or three awaits
\* before (session.rs:239, 297; db.rs:269, 396, 412).
AdminsGrantRoles ==
    [][\A r \in Rooms, n \in Names :
          role'[r][n] # role[r][n] =>
             \E s \in Sessions :
                /\ task[s].room = r
                /\ \/ /\ pc[s] = "create_member"
                      /\ user[s] = n
                      /\ role'[r][n] = "creator"
                      /\ \A m \in Names : role[r][m] = "none"
                   \/ /\ pc[s] = "approve_insert"
                      /\ task[s].user = n
                      /\ IsRoomAdmin(r, user[s])
                      /\ role[r][n] = "none" /\ role'[r][n] = "member"
                   \/ /\ pc[s] = "promote_update"
                      /\ task[s].user = n
                      /\ IsRoomAdmin(r, user[s])
                      /\ role[r][n] # "none" /\ role'[r][n] = "admin"]_vars

Group == INSTANCE Groups WITH rank <- role

\* The sessions keep the rules of Groups, though an answer's check, its two
\* statements and its notices are steps of their own, any of which may fail, and
\* several sessions may create a group or answer a request at once
\* (session.rs:239, 297; db.rs:253, 269, 396, 412).
GroupsKept == Group!GroupsSpec

\* No handler is running and nothing is queued.
Quiet ==
    \A s \in Sessions : /\ pc[s] \in {"new", "idle", "closed"}
                        /\ outbox[s] = <<>>

\* "The creator is automatically assigned the creator admin role"
\* (README.md:90): a group that exists has an admin, or one is being created.
EveryGroupHasAdmin ==
    \A r \in rooms : \/ r = General
                     \/ RoomAdmins(r) # {}
                     \/ \E s \in Sessions : /\ pc[s] = "create_member"
                                            /\ task[s].room = r

\* "Online/offline presence" (README.md:11): when everything has been
\* delivered, every connected client shows who is online.
PresenceSettles ==
    Quiet => \A s \in Sessions : pc[s] = "idle" => client[s].users = Online
=============================================================================
