SPECIFICATION FairSpec
CONSTANTS
    c1 = c1
    c2 = c2
    c3 = c3
    home = home
    away = away
    Conns = {c1, c2, c3}
    Address <- MCAddress
    Width = 3
    Height = 4
    SpawnX = 1
    SpawnY = 1
    BufSize = 164
    SnapSize = 1024
    Chatty = {c3}
    Askers = {c3}
INVARIANTS TypeOK CountAgrees Mirror FrameFits
PROPERTIES FrameKeeps BroadcastSpec FramesGoOn
CHECK_DEADLOCK FALSE
