SPECIFICATION FairTraceSpec
CONSTANTS
    Main = Main
    Worker = Worker
    Waiters = {Main}
    Signallers = {Worker}
    NoOwner = NoOwner
    Stacks <- SomeStacks
    Depth = 3
INVARIANTS
    NoEarlyReturn
    NoLostWakeup
    NoRace
    ContextAlive
    WholeTrace
PROPERTIES
    TestEnds
\* The test ends.
CHECK_DEADLOCK FALSE
