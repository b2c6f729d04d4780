\* A machine that hosts and then joins its own room again, and a guest; apart
\* from that, the media of one meeting and the queue of a speaker.
SPECIFICATION AllSpec
CONSTANTS
    ann = ann
    ben = ben
    cyd = cyd
    NoPeer = NoPeer
    Peers = {ann, ben, cyd}
    Machines = {ann, ben, cyd}
    MachineOf <- TwoMeetings
    MayCreate = {ann}
    Capacity = 2
    MaxLeaves = 0
    MaxLosses = 1
    Microphones = {ann}
    Speakers = {ann}
    Entering = {ann}
    Sharers = {ann}
    MaxToggles = 3
    MaxExits = 1
    Silence = Silence
    MaxQueued = 3
    Cut = 2
    MaxChunk = 2
    MaxBuffer = 2
    MaxArrived = 8
INVARIANTS
    RoomWithinCapacity
    BacklogIsBounded
PROPERTIES
    LeaversAreReleased
    EveryoneIsIntroduced
    LeavingReleasesMedia
    SharingStops
    HeardInOrder
CHECK_DEADLOCK FALSE
