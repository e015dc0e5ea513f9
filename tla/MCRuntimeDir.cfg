\* Two objects sharing the runtime directory, with one @name between them.
CONSTANTS
    Objects = {o1, o2}
    Names = {n1}
    NoFile = NoFile
    Partial = Partial

SPECIFICATION Spec

SYMMETRY ObjectSymmetry

INVARIANT RunningKernelReachable

\* Once every object is freed nothing more happens.
CHECK_DEADLOCK FALSE
