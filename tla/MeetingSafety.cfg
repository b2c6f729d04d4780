\* A host and two guests, who may all be inside at once; apart from that, two
\* machines in a room that share their screens and leave.
SPECIFICATION AllSpec
CONSTANTS
    ann = ann
    ben = ben
    cyd = cyd
    NoPeer = NoPeer
    Peers = {ann, ben, cyd}
    Machines = {ann, ben, cyd}
    MachineOf <- OwnMachine
    MayCreate = {ann}
    Capacity = 3
    MaxLeaves = 1
    MaxLosses = 1
    Microphones = {}
    Speakers = {}
    Entering = {ben, cyd}
    Sharers = {ben, cyd}
    MaxToggles = 3
    MaxExits = 1
SYMMETRY Guests
INVARIANTS
    TypeOK
    RoomsFollowSessions
    NobodyIsMissing
    RejectedStayOut
    CapturedOpenly
    PresenterIsHere
PROPERTIES
    AdmittedByHost
    RoomsAreKept
CHECK_DEADLOCK FALSE
