\* Two users, each in one session; no group, or one with one member or two and a
\* second request: they create, ask, look at the details,
\* approve, reject and promote.
SPECIFICATION Spec
CONSTANTS
    alice = alice
    bob = bob
    s1 = s1
    s2 = s2
    s3 = s3
    g1 = g1
    General = General
    NoSession = NoSession
    NoName = NoName
    NoRoom = NoRoom
    Names = {alice, bob}
    Sessions = {s1, s2}
    Rooms = {g1}
    Ops = {"create", "request", "approve", "reject", "promote", "details"}
    Boots <- AnyBoot
    MaxAsked = 2
    MaxFaults = 0
    MaxCrashes = 0
SYMMETRY Symmetry
INVARIANTS
    RequestsShownToAdmins
    OneCreator
    ClientsShowRealMemberships
PROPERTIES
    AdminsGrantRoles
    GroupsKept
CHECK_DEADLOCK FALSE
