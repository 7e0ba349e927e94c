SPECIFICATION Spec
CONSTANTS
    c1 = c1
    c2 = c2
    c3 = c3
    home = home
    away = away
    Conns = {c1, c2, c3}
    Address <- MCAddress
    Width = 3
    Height = 4
    SpawnX = 1
    SpawnY = 1
    BufSize = 164
    SnapSize = 1024
    Chatty = {}
    Askers = {}
INVARIANTS EveryoneListed
CHECK_DEADLOCK FALSE
