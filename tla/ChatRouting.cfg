\* A group that exists: alice created it, bob is let in; room and direct
\* traffic, a second device, failing statements and a crash of the server.
SPECIFICATION Spec
CONSTANTS
    alice = alice
    bob = bob
    s1 = s1
    s2 = s2
    s3 = s3
    g1 = g1
    General = General
    NoSession = NoSession
    NoName = NoName
    NoRoom = NoRoom
    Names = {alice, bob}
    Sessions = {s1, s2}
    Rooms = {g1}
    Ops = {"join", "leave", "approve", "send", "typing", "dm", "history", "details"}
    Boots <- GroupBoot
    MaxAsked = 2
    MaxFaults = 1
    MaxCrashes = 1
SYMMETRY SessionSymmetry
INVARIANTS
    TypeOK
    HubFollowsSessions
    RoomsHoldOnlineMembers
    MessagesStayInGroup
CHECK_DEADLOCK FALSE
