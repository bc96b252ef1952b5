SPECIFICATION TkSpec
CONSTANTS SLOTS = 2  GenBits = 1  MaxGen = 4
INVARIANTS TicketFindsItsCall
CHECK_DEADLOCK FALSE
