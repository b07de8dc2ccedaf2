SPECIFICATION FairSpec
CONSTANTS
    Job = {j1, j2}
    Worker = {w1, w2}
    Image = {i1}
    Pages = 1
    Clock = {1, 2}
    TTL = 1
    MaxTime = 3
INVARIANTS SingleRound RetryBudget OneBankPerImport ManifestFirst
PROPERTIES FreshTokens LateRoundIsHarmless ImplementsLifecycle EventuallySettled
CHECK_DEADLOCK FALSE
