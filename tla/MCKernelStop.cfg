\* The spec's cancellation of an in-flight poll by kernel_stop.
CONSTANTS
    MaxRequests = 2
    MaxResults = 1
    MaxArgs = 3
    MaxOps = 2
    TimeoutChoices <- MCTimeoutChoices

SPECIFICATION Spec

INVARIANT StopCancelsPoll


\* After kernel_free, or once requests, results and calls are used up, the
\* worker waits in its serve loop and Max in its event loop.
CHECK_DEADLOCK FALSE
