\* A sender that attaches a file, and a page that reconnects.
SPECIFICATION FairSpec
CONSTANTS
    ann = ann
    ben = ben
    eve = eve
    NoFile = NoFile
    Users = {ann}
    Viewers = {eve}
    Uploaders = {ann}
    BatchSize = 2
    HistoryLimit = 1
    MaxSaid = 2
    MaxFailures = 2
INVARIANTS
    TypeOK
    AttachmentsResolve
PROPERTIES
    LogIsDurable
    NothingShownIsLost
    SaidIsSaved
CHECK_DEADLOCK FALSE
