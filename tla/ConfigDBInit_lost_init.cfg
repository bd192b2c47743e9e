\* Does every consumer that waits for the init indicator get past the wait?
\* The system stops when the reload is over, so deadlock is not an error.
CONSTANTS
    c1 = c1  c2 = c2
    Consumers <- MC_Consumers
    MaxReloads = 1
    LoadMayFail = FALSE
SPECIFICATION Spec
CHECK_DEADLOCK FALSE
PROPERTY EveryConsumerReady
