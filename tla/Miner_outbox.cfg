\* A payment and a cheque signed by an app, one flush, a switch of accounts and a restart.
CONSTANTS
    Cheques = {c1, c2}
    Payments = {c1}
    Flushes = {f1}
    NoCheque = NoCheque
    Refusals = TRUE
    MaxSwitches = 1
    MaxRestarts = 1
SPECIFICATION FairSpec
INVARIANT TypeOK
 
PROPERTY QueuedIsAnswered
CHECK_DEADLOCK FALSE
