SPECIFICATION Spec
CONSTANTS
    Accounts = {bob, Bob}
    Name <- MCName
    Seeds = {bob}
    Passwords = {p1, weak}
    Strong = {p1}
    SeedPassword = p1
    Captchas = {c1}
    Requests = {r1, r2}
    LockoutThreshold = 2
    LockoutDuration = 1
    CaptchaThreshold = 1
    CaptchaTTL = 1
    MaxTime = 1
    MaxFailed = 2
    MaxSessions = 1
    MaxFaults = 1
    None = None
SYMMETRY Symmetry
INVARIANTS
    TypeOK
    OneAccountPerName
    CaptchaOnce
    LockInTime
    CaptchaGate
PROPERTY LockHolds
