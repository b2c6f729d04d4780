\* The host, who has candidates to send, and two guests; one of the three goes.
\* Apart from that, two machines that host meetings and scan for them.
SPECIFICATION AllSpec
CONSTANTS
    ann = ann
    ben = ben
    eve = eve
    NoPeer = NoPeer
    Peers = {ann, ben, eve}
    Host = ann
    Gatherers = {ann}
    MaxEndings = 1
    home = home
    other = other
    Hosts = {home, other}
    MaxScans = 2
    ScannerOf <- HomeScans
    NoRoom = NoRoom
    MaxMeetings = 2
    MaxTakings = 1
SYMMETRY Guests
INVARIANTS
    TypeOK
    OneSideOffers
    EveryPairNegotiates
    RoomsListedOnce
    ListedWasOpen
    HostsAnswer
CHECK_DEADLOCK FALSE
