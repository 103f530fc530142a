\* An expression with a minute list, in a location that changes its clocks.
SPECIFICATION Spec
CONSTANTS
    EpochYear = 2024
    Cases <- MCHalfHourly
    LastYear = 2025
INVARIANTS ExpiresAtTheEnd
CHECK_DEADLOCK FALSE
