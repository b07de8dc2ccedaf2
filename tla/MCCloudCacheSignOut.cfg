CONSTANTS
    b1 = b1
    q1 = q1
    Bank = {b1}
    Question = {q1}
    BankOf <- MCBankOf
    Task = {t1, t2}
    Pusher = {t1}
    PullLimit = 2
    BatchLimit = 1
    MaxLog = 3
    MaxSignOuts = 1
SPECIFICATION Spec
INVARIANTS SignedOutCacheStaysEmpty
