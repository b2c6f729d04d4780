\* A guest is admitted and lost at once: the host keeps counting it.
SPECIFICATION Spec
CONSTANTS
    ann = ann
    ben = ben
    cyd = cyd
    NoPeer = NoPeer
    Peers = {ann, ben, cyd}
    Machines = {ann, ben, cyd}
    MachineOf <- OwnMachine
    MayCreate = {ann}
    Capacity = 3
    MaxLeaves = 0
    MaxLosses = 1
SYMMETRY Guests
INVARIANT AdvertisedCountInStep
CHECK_DEADLOCK FALSE
