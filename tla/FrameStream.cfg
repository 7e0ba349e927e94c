SPECIFICATION Spec
CONSTANTS
    Width = 3
    Height = 3
    MaxDepth = 3
    MaxStack = 2
    MinHealth = 0
    Null = Null
    Clients = {c1, c2}
    N = 4
    Scenes <- MCScenes
    SpawnAt <- MCSpawnAt
    PlayerInv <- MCInv
    MaxHealth = 1
    Weak = 1
    Tiles = 2
    MaxEdits = 1
SYMMETRY Symmetry
INVARIANTS TypeOK IndexAgreement Mirror NeverUnderstated
PROPERTIES ItemsConserved BroadcastSpec
