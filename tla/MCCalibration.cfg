CONSTANTS
    t1 = t1
    t2 = t2
    Threads = {t1, t2}
    Factories = {"paddles", "calo", "epics"}
    Table <- MCTable
    Clears <- MCClears
    Persistent <- MCPersistent
    RunKind <- MCRunKind
    Malformed <- MCMalformed
    Missing <- MCMissing
    Runs = {1, 2}
    MaxEvents = 3
SPECIFICATION Spec
SYMMETRY Symmetry
INVARIANTS
    HandlersSound
    UsesConstantsOfItsRun
    OneReadPerTable
