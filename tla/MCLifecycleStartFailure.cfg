\* The spec's rollback of a failed start against kernel_start's catch block.
CONSTANTS
    MaxOps = 3
    TimeoutChoices <- MCTimeoutChoices

SPECIFICATION Spec

INVARIANT StartFailureLeavesReady

CHECK_DEADLOCK FALSE
