\* Outlet calls of the legacy execute handler.
CONSTANTS
    MaxOps = 3
    MaxRequests = 2

SPECIFICATION Spec

INVARIANT OutletsOnMainThread

\* After kernel_free, or once the messages are used up, nothing more happens.
CHECK_DEADLOCK FALSE
