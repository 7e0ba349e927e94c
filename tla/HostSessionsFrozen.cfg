SPECIFICATION FairSpec
CONSTANTS
    Conns = {c1, c2}
    NumSlots = 2
    Places = {tile0}
    Spawn = tile0
    NoEntity = NoEntity
    Placeholder = Placeholder
    NoSlot = NoSlot
    Timer = Timer
    Stopper = Stopper
    Hole = Hole
    MayHangUp = {c1}
    MayStop = FALSE
PROPERTIES FramesGoOn
