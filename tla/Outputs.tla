------------------------------ MODULE Outputs ------------------------------
\* What the parts of the system call a compiled output (internal/ir): the
\* compiler derives IR.Version from the resources it emits, and the store,
\* the deliverers and the state service compare nothing else.
CONSTANTS
    IRs,    \* every output some draft compiles to
    NoIR    \* no output: a reserved version row, nothing expected, none applied

ASSUME IRAssumption == NoIR \notin IRs
=============================================================================
