SPECIFICATION Spec
CONSTANTS
    Payments = {p1}
    Devices = {d1, d2}
    First = d1
    ObjectMade = TRUE
    MaxRestarts = 1
INVARIANTS TypeOK  
 
CHECK_DEADLOCK FALSE
