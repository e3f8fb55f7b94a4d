-------------------------------- MODULE Auth --------------------------------
(***************************************************************************)
(* Accounts and logins: registration, the captcha gate, the lockout, the   *)
(* change of a password.  Every request reads the users row once and works *)
(* on that copy, while other requests write the row.  An account is one    *)
(* spelling of a user name; Name folds its case, as every lookup does.  A  *)
(* password stands for its bcrypt hash: comparing is equality.             *)
(* Sessions are counted here; the Account module says how they live.       *)
(***************************************************************************)
EXTENDS Integers, FiniteSets

CONSTANTS
    Accounts,          \* spellings of user names
    Name,              \* the lower-case form of each spelling
    Seeds,             \* the accounts seedAdminUser creates at start-up
    Passwords,         \* passwords users try
    Strong,            \* the ones ValidatePassword accepts
    SeedPassword,      \* the generated initial password
    Captchas,          \* challenge tokens that can be minted (a bound)
    Requests,          \* goroutines that serve requests
    LockoutThreshold, LockoutDuration, CaptchaThreshold, CaptchaTTL,
    MaxTime,           \* bound on the clock
    MaxFailed,         \* bound on failed_attempts
    MaxSessions,       \* bound on open sessions per account
    MaxFaults,         \* bound on failed statements and restarts
    None

ASSUME AuthAssumption ==
    /\ {LockoutThreshold, LockoutDuration, CaptchaThreshold, CaptchaTTL} \subseteq Nat \ {0}
    /\ {MaxTime, MaxFailed, MaxSessions, MaxFaults} \subseteq Nat
    /\ Seeds \subseteq Accounts /\ Strong \subseteq Passwords /\ SeedPassword \in Strong
    /\ \A a, b \in Seeds : Name[a] = Name[b] => a = b
    /\ IsFiniteSet(Requests) /\ Requests # {}
    /\ None \notin Accounts \cup Passwords \cup Captchas \cup Nat

VARIABLES
    account,   \* users
    captcha,   \* captcha_challenges
    req,       \* the state of each request
    sessions,  \* open sessions of each account
    clock,
    guesses,   \* history: wrong passwords checked since the last reset
    admits,    \* history: logins each captcha let through
    faults     \* history: failed statements and restarts

vars == <<account, captcha, req, sessions, clock, guesses, admits, faults>>

Time == 0..(MaxTime + LockoutDuration + CaptchaTTL)

NoAccount == [password |-> None, rotate |-> FALSE, failed |-> 0, locked |-> None, raced |-> FALSE]

\* A users row; "raced" is history: another spelling of the name was inserted
\* between this registration's check and its INSERT.
Row == [password : Strong, rotate : BOOLEAN, failed : Nat, locked : Time \cup {None}, raced : BOOLEAN]

Challenge == [state : {"unused", "open", "consumed"}, expires : Time]

\* A request between two statements: the account it read, the password given,
\* the row's password and failed_attempts as it read them, the captcha token and
\* whether its answer is right, and its own "now".  "overtaken" is history: a
\* lock, or another spelling, was written since it read.
Request == [pc : {"register", "captcha", "consume", "verify", "session", "update"},
            acct : Accounts, given : Passwords, hash : Strong \cup {None}, failed : Nat,
            token : Captchas \cup {None}, right : BOOLEAN, now : Time, overtaken : BOOLEAN]

Idle == [pc |-> "idle", acct |-> None, given |-> None, hash |-> None, failed |-> 0,
         token |-> None, right |-> FALSE, now |-> 0, overtaken |-> FALSE]

Exists(a) == account[a].password # None

InForce(a) == account[a].locked # None /\ account[a].locked > clock

-----------------------------------------------------------------------------
(* Plausible faults of the operators defined below, for checking that the  *)
(* properties notice; no specification uses them.                          *)

\* A policy that accepts every password.
ValidatePasswordLax(p) == p \in Passwords

\* A lookup that compares spellings.
GetByUsernameExact(n) == {a \in Accounts : Exists(a) /\ a = n}

\* A captcha from the fourth attempt on.
CaptchaRequiredLate(failed) == failed > CaptchaThreshold

\* A lock one failure late.
LockUntilLate(failed, now) == IF failed + 1 > LockoutThreshold THEN now + LockoutDuration ELSE None

\* A failure that writes locked_until even when it has no lock to set.
RecordFailedLoginPlain(row, until) == [row EXCEPT !.failed = @ + 1, !.locked = until]

\* A Consume without its condition.
ConsumeMatchesAny(t) == TRUE

-----------------------------------------------------------------------------
(* Domain rules and statements.                                            *)

ValidatePassword(p) == p \in Strong

\* The rows LOWER(username) = LOWER($1) matches; QueryRow takes any of them.
GetByUsername(n) == {a \in Accounts : Exists(a) /\ Name[a] = Name[n]}

IsLocked(row, now) == row.locked # None /\ row.locked > now

CaptchaRequired(failed) == failed >= CaptchaThreshold

\* The lock a failed login asks for, from the count it read.
LockUntil(failed, now) == IF failed + 1 >= LockoutThreshold THEN now + LockoutDuration ELSE None

RecordFailedLogin(row, until) ==
    [row EXCEPT !.failed = @ + 1, !.locked = IF until = None THEN @ ELSE until]

ResetFailedLogin(row) == [row EXCEPT !.failed = 0, !.locked = None]

UpdatePasswordHash(row, p) == [row EXCEPT !.password = p, !.rotate = FALSE]

NewUser(p, rotate, raced) == [NoAccount EXCEPT !.password = p, !.rotate = rotate, !.raced = raced]

\* Consume's UPDATE finds the row not consumed yet.
ConsumeMatches(t) == captcha[t].state = "open"

CaptchaUsable(t, now) == captcha[t].state = "open" /\ now <= captcha[t].expires

\* The tables after IssueCaptcha; unchanged when the bound on tokens is reached.
Minted(cs) ==
    LET unused == {t \in Captchas : cs[t].state = "unused"}
        with(t) == [cs EXCEPT ![t] = [state |-> "open", expires |-> clock + CaptchaTTL]]
    IN  IF unused = {} THEN {cs} ELSE {with(t) : t \in unused}

Consumed(t) == [captcha EXCEPT ![t].state = "consumed"]

-----------------------------------------------------------------------------
Init ==
    /\ account = [a \in Accounts |-> NoAccount]
    /\ captcha = [t \in Captchas |-> [state |-> "unused", expires |-> 0]]
    /\ req = [r \in Requests |-> Idle]
    /\ sessions = [a \in Accounts |-> 0]
    /\ clock = 0
    /\ guesses = [a \in Accounts |-> 0]
    /\ admits = [t \in Captchas |-> 0]
    /\ faults = 0

Goto(r, rec) == req' = [req EXCEPT ![r] = rec]

\* The requests after one of them, r, wrote what makes their copies of rows of
\* the given accounts stale.
Overtaken(r, accts, pcs) ==
    [q \in Requests |-> IF q = r THEN Idle
                        ELSE IF req[q].pc \in pcs /\ req[q].acct \in accts
                        THEN [req[q] EXCEPT !.overtaken = TRUE] ELSE req[q]]

Tick ==
    /\ clock < MaxTime
    /\ clock' = clock + 1
    /\ UNCHANGED <<account, captcha, req, sessions, guesses, admits, faults>>

\* Register's policy check and its lookup of the name.
RegisterCheck(r, a, p) ==
    /\ req[r].pc = "idle"
    /\ ValidatePassword(p)
    /\ GetByUsername(a) = {}
    /\ Goto(r, [Idle EXCEPT !.pc = "register", !.acct = a, !.given = p])
    /\ UNCHANGED <<account, captcha, sessions, clock, guesses, admits, faults>>

\* Register's INSERT, which fails only on the very same spelling.
RegisterInsert(r) ==
    LET a == req[r].acct
    IN  /\ req[r].pc = "register"
        /\ IF Exists(a)
           THEN Goto(r, Idle) /\ UNCHANGED account
           ELSE /\ account' = [account EXCEPT ![a] = NewUser(req[r].given, FALSE, req[r].overtaken)]
                /\ req' = Overtaken(r, {b \in Accounts : Name[b] = Name[a]}, {"register"})
        /\ UNCHANGED <<captcha, sessions, clock, guesses, admits, faults>>

\* A login for an unknown name or a locked account ends here and changes nothing.
LoginRefused(n) ==
    /\ \E r \in Requests : req[r].pc = "idle"
    /\ \A a \in GetByUsername(n) : IsLocked(account[a], clock)
    /\ UNCHANGED vars

\* Login up to the captcha gate.
LoginRead(r, n, p, t, right) ==
    /\ req[r].pc = "idle"
    /\ right => t # None
    /\ \E a \in GetByUsername(n) :
           /\ account[a].failed < MaxFailed
           /\ ~IsLocked(account[a], clock)
           /\ CaptchaRequired(account[a].failed) <=> t # None
           /\ Goto(r, [pc |-> IF t = None THEN "verify" ELSE "captcha", acct |-> a, given |-> p,
                       hash |-> account[a].password, failed |-> account[a].failed,
                       token |-> t, right |-> right, now |-> clock, overtaken |-> FALSE])
    /\ UNCHANGED <<account, captcha, sessions, clock, guesses, admits, faults>>

\* A login without the captcha it needs is answered with a fresh one.
LoginChallenged(n) ==
    /\ \E a \in GetByUsername(n) :
           ~IsLocked(account[a], clock) /\ CaptchaRequired(account[a].failed)
    /\ captcha' \in Minted(captcha)
    /\ UNCHANGED <<account, req, sessions, clock, guesses, admits, faults>>

\* GET /api/auth/captcha.
IssueCaptcha ==
    /\ captcha' \in Minted(captcha) \ {captcha}
    /\ UNCHANGED <<account, req, sessions, clock, guesses, admits, faults>>

\* verifyCaptcha's read and its checks; a wrong answer burns the challenge, and
\* a refused login gets a fresh one.
CaptchaRead(r) ==
    LET t == req[r].token
    IN  /\ req[r].pc = "captcha"
        /\ IF CaptchaUsable(t, req[r].now) /\ req[r].right
           THEN Goto(r, [req[r] EXCEPT !.pc = "consume"]) /\ UNCHANGED captcha
           ELSE /\ Goto(r, Idle)
                /\ captcha' \in Minted(IF CaptchaUsable(t, req[r].now) THEN Consumed(t) ELSE captcha)
        /\ UNCHANGED <<account, sessions, clock, guesses, admits, faults>>

\* verifyCaptcha's Consume; the login that finds it consumed fails.
CaptchaConsume(r) ==
    LET t == req[r].token
    IN  /\ req[r].pc = "consume"
        /\ IF ConsumeMatches(t)
           THEN /\ captcha' = Consumed(t)
                /\ admits' = [admits EXCEPT ![t] = @ + 1]
                /\ Goto(r, [req[r] EXCEPT !.pc = "verify", !.token = None, !.right = FALSE])
           ELSE Goto(r, Idle) /\ UNCHANGED <<captcha, admits>>
        /\ UNCHANGED <<account, sessions, clock, guesses, faults>>

\* The password is wrong: the failure is counted and the account perhaps locked,
\* both on the count this login read.
LoginFails(r) ==
    LET a     == req[r].acct
        until == LockUntil(req[r].failed, req[r].now)
    IN  /\ req[r].pc = "verify"
        /\ req[r].given # req[r].hash
        /\ account' = [account EXCEPT ![a] = RecordFailedLogin(@, until)]
        /\ guesses' = [guesses EXCEPT ![a] = @ + 1]
        /\ req' = IF until = None THEN [req EXCEPT ![r] = Idle]
                  ELSE Overtaken(r, {a}, {"captcha", "consume", "verify", "session"})
        /\ UNCHANGED <<captcha, sessions, clock, admits, faults>>

\* The password is right: the counters are reset whatever they are by now.
LoginResets(r) ==
    LET a == req[r].acct
    IN  /\ req[r].pc = "verify"
        /\ req[r].given = req[r].hash
        /\ account' = [account EXCEPT ![a] = ResetFailedLogin(@)]
        /\ guesses' = [guesses EXCEPT ![a] = 0]
        /\ Goto(r, [req[r] EXCEPT !.pc = "session", !.failed = 0])
        /\ UNCHANGED <<captcha, sessions, clock, admits, faults>>

LoginOpensSession(r) ==
    /\ req[r].pc = "session"
    /\ sessions[req[r].acct] < MaxSessions
    /\ sessions' = [sessions EXCEPT ![req[r].acct] = @ + 1]
    /\ Goto(r, Idle)
    /\ UNCHANGED <<account, captcha, clock, guesses, admits, faults>>

Logout(a) ==
    /\ sessions[a] > 0
    /\ sessions' = [sessions EXCEPT ![a] = @ - 1]
    /\ UNCHANGED <<account, captcha, req, clock, guesses, admits, faults>>

\* ChangePassword up to its UPDATE, for a user with a session; wrong current
\* passwords are not counted.
ChangePasswordRead(r, a, p) ==
    /\ req[r].pc = "idle"
    /\ sessions[a] > 0
    /\ ValidatePassword(p)
    /\ Goto(r, [Idle EXCEPT !.pc = "update", !.acct = a, !.given = p])
    /\ UNCHANGED <<account, captcha, sessions, clock, guesses, admits, faults>>

ChangePasswordWrite(r) ==
    /\ req[r].pc = "update"
    /\ account' = [account EXCEPT ![req[r].acct] = UpdatePasswordHash(@, req[r].given)]
    /\ Goto(r, Idle)
    /\ UNCHANGED <<captcha, sessions, clock, guesses, admits, faults>>

-----------------------------------------------------------------------------
(* Failures.                                                               *)

\* A statement fails: the failed login goes uncounted, the right one goes on to
\* its session without the reset, and any other request ends with an error.
StatementError(r) ==
    /\ faults < MaxFaults
    /\ req[r].pc # "idle"
    /\ faults' = faults + 1
    /\ IF req[r].pc = "verify" /\ req[r].given = req[r].hash
       THEN Goto(r, [req[r] EXCEPT !.pc = "session"])
       ELSE Goto(r, Idle)
    /\ guesses' = IF req[r].pc = "verify" /\ req[r].given # req[r].hash
                  THEN [guesses EXCEPT ![req[r].acct] = @ + 1] ELSE guesses
    /\ UNCHANGED <<account, captcha, sessions, clock, admits>>

\* The process restarts: requests are gone, and with RUN_SEED seedAdminUser
\* creates the admin account unless its name is taken.
Restart ==
    /\ faults < MaxFaults
    /\ faults' = faults + 1
    /\ req' = [r \in Requests |-> Idle]
    /\ \/ UNCHANGED account
       \/ account' = [a \in Accounts |-> IF a \in Seeds /\ GetByUsername(a) = {}
                                         THEN NewUser(SeedPassword, TRUE, FALSE) ELSE account[a]]
    /\ UNCHANGED <<captcha, sessions, clock, guesses, admits>>

Next ==
    \/ Tick
    \/ \E r \in Requests, a \in Accounts, p \in Passwords : RegisterCheck(r, a, p)
    \/ \E r \in Requests : RegisterInsert(r)
    \/ \E r \in Requests, n \in Accounts, p \in Passwords, t \in Captchas \cup {None},
          right \in BOOLEAN : LoginRead(r, n, p, t, right)
    \/ \E n \in Accounts : LoginRefused(n)
    \/ \E n \in Accounts : LoginChallenged(n)
    \/ IssueCaptcha
    \/ \E r \in Requests : CaptchaRead(r)
    \/ \E r \in Requests : CaptchaConsume(r)
    \/ \E r \in Requests : LoginFails(r)
    \/ \E r \in Requests : LoginResets(r)
    \/ \E r \in Requests : LoginOpensSession(r)
    \/ \E a \in Accounts : Logout(a)
    \/ \E r \in Requests, a \in Accounts, p \in Passwords : ChangePasswordRead(r, a, p)
    \/ \E r \in Requests : ChangePasswordWrite(r)
    \/ \E r \in Requests : StatementError(r)
    \/ Restart

Spec == Init /\ [][Next]_vars

-----------------------------------------------------------------------------
(* Properties.                                                             *)

\* Rows, challenges and requests hold values of their types, and every stored
\* password obeys the policy.
TypeOK ==
    /\ account \in [Accounts -> {NoAccount} \cup Row]
    /\ captcha \in [Captchas -> Challenge]
    /\ req \in [Requests -> {Idle} \cup Request]
    /\ sessions \in [Accounts -> Nat]
    /\ clock \in Time
    /\ guesses \in [Accounts -> Nat]
    /\ admits \in [Captchas -> Nat]
    /\ faults \in Nat

\* "username is already taken": two accounts share a name, up to case, only when
\* their registrations overlapped, for the table's constraint compares spellings.
OneAccountPerName ==
    \A a, b \in Accounts :
        a # b /\ Exists(a) /\ Exists(b) /\ Name[a] = Name[b] => account[a].raced \/ account[b].raced

\* One solved challenge lets one login through, however many verify it at once.
CaptchaOnce == \A t \in Captchas : admits[t] <= 1

\* "Lockout (5 failed attempts)": an account without a lock has had fewer wrong
\* passwords checked since its last reset than the threshold, plus one for each
\* further request that may hold an old count and for each failure left uncounted.
LockInTime ==
    \A a \in Accounts : account[a].locked = None =>
        guesses[a] <= LockoutThreshold - 2 + Cardinality(Requests) + faults

\* "CAPTCHA from the 3rd attempt": wrong passwords beyond the free ones have cost
\* a solved challenge each, with the same allowance for overlapping requests.
CaptchaGate ==
    \A a \in Accounts :
        guesses[a] <= CaptchaThreshold - 1 + Cardinality(Requests) + faults
                        + Cardinality({t \in Captchas : admits[t] > 0})

\* "15 minute block": while a lock is in force nothing lifts it and no session is
\* opened, except by a login that had read the row before the lock was written and
\* either knew the password or had been under way for as long as a lock lasts.
LockHolds ==
    [][\A a \in Accounts :
          InForce(a) /\ clock' = clock /\ (~InForce(a)' \/ sessions'[a] > sessions[a]) =>
              \E r \in Requests : /\ req[r].acct = a
                                  /\ req[r].pc \in {"verify", "session"}
                                  /\ req[r].overtaken
                                  /\ \/ req[r].given = req[r].hash
                                     \/ req[r].now + LockoutDuration <= clock]_vars
=============================================================================
