\* Two calls, one review session, one migration, two pushes, one import's end:
\* each behaviour runs one.
SPECIFICATION Spec
CONSTANTS
  Call = {c1, c2}
  Job = {j1, j2}
  MaxConcurrent = 1
  MaxActive = 2
  MaxPerJob = 1
  MaxEdits = 1
  MaxTrouble = 2
  Account = {a1, a2}
  Banks = 2
  Batches = 2
  MaxFaults = 2
  MaxMutations = 1
  User = {u1, u2}
  Operation = {a, b}
  Request = {r1, r2}
  NoRequest = NoRequest
  Limit = 2
  MaxSequence = 4
  Image = {i1}
  Upload = upload
  TTL = 1
  Grace = 1
  MaxFailures = 1
INVARIANTS SlotsFollowConnections CountersFollowRequests NoHandleLeft EditableIsUnsaved SavedIsRecoverable MappedHasFile  NoEventSkipped OncePerOperation RowsCoverFiles ImagesKept
PROPERTIES EventuallySaved EventuallyMigrated ImplementsLog NoUploadAfterRetirement EventuallyGone
