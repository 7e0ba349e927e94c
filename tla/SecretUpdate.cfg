SPECIFICATION FairSpec
CONSTANTS
    Impls = {"java", "js"}
    NumAuths = 2
    Known = {1}
    Main = main
    Managers = {main, m1, m2}
    Users = {u1}
    Near = {u1}
    MaxDraws = 3
    MayCrash = {1}
INVARIANTS TypeOK Agreement CalmLogins
PROPERTIES UpdateEnds
