\* Start, Stop and Wait called by two goroutines, the context cancelled at
\* any time: a channel closed twice panics.
CONSTANTS
    c1 = c1
    c2 = c2
    Callers <- MCCallers
SYMMETRY MCSymmetry
SPECIFICATION Spec
INVARIANT NoDoubleClose
\* The node really may stop: Wait before any Start blocks forever, and a
\* panic ends the process.
CHECK_DEADLOCK FALSE
