\* The same instance: a live request may outlive its lease.
CONSTANTS
    Request = {r1, r2, r3}
    Part = {p1}
    Source = source
    NoRequest = none
SYMMETRY Symmetry
SPECIFICATION Spec
INVARIANT QueuedHasSource
\* Every request may have died.
CHECK_DEADLOCK FALSE
