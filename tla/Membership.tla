----------------------------- MODULE Membership -----------------------------
(***************************************************************************)
(* The group tables of the store (src/src/db.rs): rooms, room_members and  *)
(* room_requests.  Each operator with a primed variable is one SQL         *)
(* statement; statements of one method are separate steps, because the     *)
(* methods use no transaction and every statement is awaited.              *)
(***************************************************************************)
EXTENDS ChatNames

VARIABLES
    rooms,      \* rows of the rooms table, as names
    role,       \* room -> name -> role of its room_members row, or "none"
    requests    \* rows of room_requests, as <<room, name>>

storeVars == <<rooms, role, requests>>

Role == {"none", "member", "admin", "creator"}

StoreTypeOK ==
    /\ rooms \subseteq Rooms
    /\ role \in [Rooms -> [Names -> Role]]
    /\ requests \subseteq Rooms \X Names

IsRoomMember(r, n) == r = General \/ role[r][n] # "none"
IsRoomAdmin(r, n) == role[r][n] \in {"creator", "admin"}

\* The three columns of user_room_statuses that depend on the user.
JoinedRooms(n) == {r \in Rooms : IsRoomMember(r, n)}
AdminRooms(n) == {r \in Rooms : IsRoomAdmin(r, n)}
PendingRooms(n) == {r \in Rooms : <<r, n>> \in requests}

\* Faulty variant of RoomAdmins: the query has lost its condition on the role.
RoomMembers(r) == {n \in Names : IsRoomMember(r, n)}

RoomAdmins(r) == {n \in Names : IsRoomAdmin(r, n)}

\* Faulty variant of InsertRoom: INSERT OR IGNORE.
InsertRoomOrIgnore(r) ==
    /\ rooms' = rooms \cup {r}
    /\ UNCHANGED <<role, requests>>

\* create_room, second statement; the primary key lets one insert through.
InsertRoom(r) ==
    /\ r \notin rooms
    /\ rooms' = rooms \cup {r}
    /\ UNCHANGED <<role, requests>>

\* create_room, third statement.
InsertCreator(r, n) ==
    /\ role[r][n] = "none"
    /\ role' = [role EXCEPT ![r][n] = "creator"]
    /\ UNCHANGED <<rooms, requests>>

\* Faulty variant of InsertRequest: the arguments are swapped.
InsertRequestSwapped(r, n) ==
    /\ requests' = requests \cup {<<n, r>>}
    /\ UNCHANGED <<rooms, role>>

\* request_join: INSERT OR IGNORE, for any room name whatever.
InsertRequest(r, n) ==
    /\ requests' = requests \cup {<<r, n>>}
    /\ UNCHANGED <<rooms, role>>

\* reject_join, and the first statement of approve_join.
DeleteRequest(r, n) ==
    /\ requests' = requests \ {<<r, n>>}
    /\ UNCHANGED <<rooms, role>>

\* Faulty variant of InsertMember: INSERT OR REPLACE.
ReplaceMember(r, n) ==
    /\ role' = [role EXCEPT ![r][n] = "member"]
    /\ UNCHANGED <<rooms, requests>>

\* approve_join, second statement: INSERT OR IGNORE keeps an existing row.
InsertMember(r, n) ==
    /\ role' = [role EXCEPT ![r][n] = IF @ = "none" THEN "member" ELSE @]
    /\ UNCHANGED <<rooms, requests>>

\* promote_admin: an UPDATE, so it does nothing for a name with no row.
SetAdmin(r, n) ==
    /\ role' = [role EXCEPT ![r][n] = IF @ = "none" THEN @ ELSE "admin"]
    /\ UNCHANGED <<rooms, requests>>
=============================================================================
