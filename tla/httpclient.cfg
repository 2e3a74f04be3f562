SPECIFICATION FairSpec
INVARIANTS HandlesEnd EndIsHonest
PROPERTIES EndsAreSeen
CHECK_DEADLOCK FALSE
