\* kernel_eval once the kernel has been started.
CONSTANTS
    MaxOps = 3
    TimeoutChoices <- MCTimeoutChoices

SPECIFICATION Spec

INVARIANT EvalAfterStart

\* After kernel_free the object is gone and nothing more can happen to it.
CHECK_DEADLOCK FALSE
