SPECIFICATION FairSpec
CONSTANTS
    Clients = {c1, c2}
    Senders = {s1, s2}
    BufferSize = 1
    MaxBroadcasts = 1
INVARIANTS TypeOK NoSendOnClosed Accounted
PROPERTIES BroadcastEnds ClientsAreReleased
CHECK_DEADLOCK FALSE
