CONSTANTS MaxTicket = 4 WindowRequests = FALSE
SPECIFICATION LiveSpec
INVARIANTS AssertionsHold WorldStopped FinalizationInTurn
PROPERTY TicketsServed
