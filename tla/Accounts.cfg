\* One name and two devices that register it, sign in, reload and lose connections.
SPECIFICATION FairSpec
CONSTANTS
    ann = ann
    home = home
    work = work
    x = x
    y = y
    NoOne = NoOne
    Names = {ann}
    Passwords = {x, y}
    Devices = {home, work}
    Pasts <- EmptyOrAnn
    Calls = {1, 2}
    Lines = {1, 2}
    MaxActs = 2
    MaxFaults = 1
INVARIANTS
    TypeOK
    OwnersGetIn
    OneDeviceHolds
    ActiveIsSaved
PROPERTIES
    NobodyStaysOffline
CHECK_DEADLOCK FALSE
