\* Safety and liveness of the execution bridge with a working kernel.
CONSTANTS
    MaxRequests = 2
    MaxResults = 3
    MaxArgs = 3
    TimeoutChoices <- MCTimeoutChoices

SPECIFICATION Spec

INVARIANTS
    TypeOK

PROPERTIES
    ImplementsRequestReply
    DirectiveDelivered

\* Once the frontend's requests and the patch's results are used up, the
\* kernel sits in its serve loop and Max in its event loop: a legitimate end.
CHECK_DEADLOCK FALSE
