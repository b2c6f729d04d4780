----------------------------- MODULE ClientView -----------------------------
(***************************************************************************)
(* What the web client shows of the server's state (web/src/socket.ts):    *)
(* the message handlers as one function from a view and a frame to the     *)
(* next view.  heard and managed remember of which rooms the client has    *)
(* been shown messages, and pending requests.                              *)
(***************************************************************************)
EXTENDS ChatNames

View == [users: SUBSET Names,
         joined: SUBSET Rooms, pending: SUBSET Rooms, admin: SUBSET Rooms,
         heard: SUBSET Rooms, managed: SUBSET Rooms]

EmptyView == [users |-> {}, joined |-> {}, pending |-> {}, admin |-> {},
              heard |-> {}, managed |-> {}]

\* Frames about a room name it and, most of them, a user.
RoomFrameType == {"message", "typing", "room_details", "join_requested",
                  "join_approved", "join_rejected", "admin_promoted"}
RoomFrame == [type: RoomFrameType, room: Rooms, user: Names]
Statuses == [joined: SUBSET Rooms, pending: SUBSET Rooms, admin: SUBSET Rooms]
Frame == RoomFrame
           \cup [type: {"presence"}, users: SUBSET Names]
           \cup [type: {"rooms"}, statuses: Statuses]
           \cup [type: {"dm"}, ends: SUBSET Names]

ShowStatuses(v, st) ==
    [v EXCEPT !.joined = st.joined, !.pending = st.pending, !.admin = st.admin]

ShowJoined(v, r) ==
    [v EXCEPT !.joined = @ \cup {r}, !.pending = @ \ {r}]

\* The view of a client logged in as me after it handles frame f.
\* The server sends room_details to others than the asker only with the
\* requests in it, so every such frame is one with requests.
Shown(v, me, f) ==
    LET mine(types) == f.type \in types /\ f.user = me
        room(shown) == IF shown THEN {f.room} ELSE {}
        base == IF f.type = "rooms" THEN ShowStatuses(v, f.statuses) ELSE v
    IN  [users   |-> IF f.type = "presence" THEN f.users ELSE v.users,
         joined  |-> base.joined \cup room(mine({"join_approved"})),
         pending |-> base.pending
                       \ room(mine({"join_approved", "join_rejected"})),
         admin   |-> base.admin \cup room(mine({"admin_promoted"})),
         heard   |-> v.heard \cup room(f.type \in {"message", "typing"}),
         managed |-> v.managed \cup room(f.type = "room_details")]
=============================================================================
