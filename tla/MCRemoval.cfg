SPECIFICATION RemovalSpec
CONSTANTS
    Cleaners = {c1, c2}
    Users = {u1}
    MaxTouches = 2
INVARIANTS
    Restorable
PROPERTIES
    UsersAreSpared
CHECK_DEADLOCK FALSE
