\* Two users come and go: the last presence list a client gets may be old.
SPECIFICATION Spec
CONSTANTS
    alice = alice
    bob = bob
    s1 = s1
    s2 = s2
    s3 = s3
    g1 = g1
    General = General
    NoSession = NoSession
    NoName = NoName
    NoRoom = NoRoom
    Names = {alice, bob}
    Sessions = {s1, s2}
    Rooms = {g1, General}
    Ops = {}
    Boots <- EmptyBoot
    MaxAsked = 0
    MaxFaults = 0
    MaxCrashes = 0
INVARIANT PresenceSettles
CHECK_DEADLOCK FALSE
