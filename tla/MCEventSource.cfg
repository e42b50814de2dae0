SPECIFICATION Spec
CONSTANTS
    SourceLists <- MCSourceLists
    Runs = {1, 2}
INVARIANTS
    DeliveredInOrder
    SourcesReadOut
    RunOfItsSource
    BooksBalance
PROPERTY
    QuitEndsReading
CHECK_DEADLOCK FALSE
