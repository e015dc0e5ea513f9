\* A result that reaches the worker after its request's poll loop ended.
CONSTANTS
    MaxRequests = 2
    MaxResults = 3
    MaxArgs = 3
    TimeoutChoices <- MCTimeoutChoices

SPECIFICATION Spec

INVARIANT ResultMatchesRequest

CHECK_DEADLOCK FALSE
