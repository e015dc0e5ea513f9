\* Reads of the freed t_kernel by the legacy worker thread.
CONSTANTS
    MaxOps = 3
    MaxRequests = 2

SPECIFICATION Spec

INVARIANT NoUseAfterFree

\* After kernel_free, or once the messages are used up, nothing more happens.
CHECK_DEADLOCK FALSE
