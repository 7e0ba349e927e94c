SPECIFICATION Spec
CONSTANTS
    Conns = {c1, c2}
    NumSlots = 2
    Places = {tile0, tile1}
    Spawn = tile0
    NoEntity = NoEntity
    Placeholder = Placeholder
    NoSlot = NoSlot
    Timer = Timer
    Stopper = Stopper
    Hole = Hole
    MayHangUp = {c1, c2}
    MayStop = FALSE
SYMMETRY Symmetry
INVARIANTS TypeOK SlotOwnership IndexAgreement FrameSafe UpdatesApart
PROPERTIES PoolSpec
