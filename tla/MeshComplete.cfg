\* The host and one guest, both with a candidate to send.
SPECIFICATION Spec
CONSTANTS
    ann = ann
    ben = ben
    eve = eve
    NoPeer = NoPeer
    Peers = {ann, ben}
    Host = ann
    Gatherers = {ann, ben}
    MaxEndings = 0
INVARIANTS
    MeshIsComplete
CHECK_DEADLOCK FALSE
