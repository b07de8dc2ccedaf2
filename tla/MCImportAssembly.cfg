\* Three requests at once on an upload of one part, slow ones and punctual ones.
CONSTANTS
    Request = {r1, r2, r3}
    Part = {p1}
    Source = source
    NoRequest = none
SYMMETRY Symmetry
SPECIFICATION Spec
INVARIANTS RowsCoverFiles TornDownStaysEmpty OneAtATime PunctualQueuedHasSource
PROPERTIES PartsGoWithTheirUpload
\* Every request may have died.
CHECK_DEADLOCK FALSE
