\* Eight characters in three lines and a rest, two to stderr, every event.
CONSTANTS
    MaxOut = 8
    MaxErr = 2
    OutCap = 3
    ErrCap = 1
    Newlines = {2, 3, 7}
    Events = {"lose", "break", "delete", "kill"}
SPECIFICATION OutputFairSpec
INVARIANTS RowsInOrder NothingMissing
PROPERTIES LinesAppear EndsUnlessFull
CHECK_DEADLOCK FALSE
