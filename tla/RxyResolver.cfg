SPECIFICATION Spec
CONSTANTS
    NoVersion = NoVersion
    Names <- MCNames
    Trees <- MCTrees
    NoTree = "gone"
    Owner <- MCOwner
    Declared <- MCDeclared
    RootTree = "app"
    Bundled <- MCBundled
    Worlds <- MCWorlds
INVARIANT GraphIsWhole
INVARIANT NearestWins
INVARIANT HighestAccepted
CHECK_DEADLOCK FALSE
