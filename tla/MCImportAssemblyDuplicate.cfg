\* The same instance: a part is uploaded again.
CONSTANTS
    Request = {r1, r2, r3}
    Part = {p1}
    Source = source
    NoRequest = none
SYMMETRY Symmetry
SPECIFICATION Spec
INVARIANT AckedPartsKept
\* Every request may have died.
CHECK_DEADLOCK FALSE
