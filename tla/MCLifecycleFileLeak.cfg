\* The spec's cleanup of the connection file against a write that fails after creating it.
CONSTANTS
    MaxOps = 3
    TimeoutChoices <- MCTimeoutChoices

SPECIFICATION Spec

INVARIANT NoFileAfterFree

CHECK_DEADLOCK FALSE
