\* A statement of create_room may fail: the group is left without an admin.
SPECIFICATION Spec
CONSTANTS
    alice = alice
    bob = bob
    s1 = s1
    s2 = s2
    s3 = s3
    g1 = g1
    General = General
    NoSession = NoSession
    NoName = NoName
    NoRoom = NoRoom
    Names = {alice, bob}
    Sessions = {s1, s2}
    Rooms = {g1, General}
    Ops = {"create"}
    Boots <- EmptyBoot
    MaxAsked = 1
    MaxFaults = 1
    MaxCrashes = 0
INVARIANT EveryGroupHasAdmin
CHECK_DEADLOCK FALSE
