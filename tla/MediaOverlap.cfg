\* One user joins two rooms at once, or creates one while joining another.
SPECIFICATION MediaSpec
CONSTANTS
    ann = ann
    ben = ben
    cyd = cyd
    NoPeer = NoPeer
    Peers = {ann, ben}
    Machines = {ann}
    MachineOf <- TwoMeetings
    Microphones = {ann}
    Speakers = {ann}
    Entering = {ann, ben}
    Sharers = {}
    MaxToggles = 0
    MaxExits = 1
INVARIANT NoMediaOutsideMeetings
CHECK_DEADLOCK FALSE
