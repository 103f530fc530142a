\* Cron expressions, from starts around the ends of months and the change of the clocks.
SPECIFICATION Spec
CONSTANTS
    EpochYear = 2024
    Cases <- MCCases
    LastYear = 2025
INVARIANTS TypeOK ExpiresAtTheEnd DepartsFromReadmeOnlySo
PROPERTIES FiresNext
CHECK_DEADLOCK FALSE
