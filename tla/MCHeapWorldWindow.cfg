CONSTANTS MaxTicket = 2 WindowRequests = TRUE
SPECIFICATION Spec
INVARIANT ConnChecked
