\* The spec's idempotent stop against kernel_stop.
CONSTANTS
    MaxOps = 3
    TimeoutChoices <- MCTimeoutChoices

SPECIFICATION Spec

INVARIANT StopTwiceReportsNotRunning

CHECK_DEADLOCK FALSE
