----------------------------- MODULE AuthProofs -----------------------------
(***************************************************************************)
(* Lockout, captcha gate and user names for any number of requests on any  *)
(* number of accounts.  The gates act on the count a login read before it  *)
(* checked the password, so the argument counts the logins that may still  *)
(* hold an old count: each can exceed a gate once.                         *)
(***************************************************************************)
EXTENDS Auth, FiniteSetTheorems, TLAPS

\* A login between its read of the row and the end of its password check, and one
\* that may still write the row or open a session.
Checking == {"captcha", "consume", "verify"}
LoggingIn == Checking \cup {"session"}

\* What a request in each step knows.
Informed(r) ==
    /\ req[r].pc \in {"register", "update"} => req[r].given \in Strong
    /\ req[r].pc \in LoggingIn \cup {"update"} => Exists(req[r].acct)
    /\ req[r].pc \in LoggingIn => req[r].now <= clock /\ req[r].hash \in Strong
    /\ req[r].pc \in {"captcha", "consume"} => req[r].token \in Captchas
    /\ req[r].pc = "session" => req[r].given = req[r].hash

ReqInv == \A r \in Requests : Informed(r)

\* Types, the clock within its bound, and sessions only of accounts that exist.
Shape == TypeOK /\ clock <= MaxTime /\ \A a \in Accounts : sessions[a] > 0 => Exists(a)

\* User names: a registration that another spelling of its name overtook knows it.
NameInv ==
    \A r \in Requests, b \in Accounts :
        req[r].pc = "register" /\ Exists(b) /\ b # req[r].acct /\ Name[b] = Name[req[r].acct] => req[r].overtaken

\* Captchas: one that has let a login through is consumed.
Spent == {t \in Captchas : admits[t] > 0}

SpentInv ==
    /\ IsFiniteSet(Spent)
    /\ \A t \in Captchas : admits[t] > 0 => captcha[t].state = "consumed"

\* The lock: a login under way while a lock is in force had read the row before.
ForceInv ==
    \A r \in Requests : req[r].pc \in LoggingIn /\ InForce(req[r].acct) => req[r].overtaken

\* Wrong passwords are counted but for the statements that failed.
GuessInv == \A a \in Accounts : guesses[a] <= account[a].failed + faults

\* The logins on an account whose failure will set no lock.
Unlocking(a) ==
    {r \in Requests : req[r].pc \in Checking /\ req[r].acct = a /\ req[r].failed + 1 < LockoutThreshold}

LockInv ==
    \A a \in Accounts :
        account[a].locked = None /\ account[a].failed + 1 >= LockoutThreshold =>
            account[a].failed + Cardinality(Unlocking(a)) <= LockoutThreshold - 2 + Cardinality(Requests)

\* The logins on an account that are through the captcha gate.
Verifying(a) == {r \in Requests : req[r].pc = "verify" /\ req[r].acct = a}

GateInv ==
    \A a \in Accounts :
        account[a].failed >= CaptchaThreshold =>
            account[a].failed + Cardinality(Verifying(a))
                <= CaptchaThreshold - 1 + Cardinality(Requests) + Cardinality(Spent)

IInv == /\ Shape /\ ReqInv /\ NameInv /\ OneAccountPerName /\ SpentInv /\ CaptchaOnce /\ ForceInv
        /\ GuessInv /\ LockInv /\ GateInv

-----------------------------------------------------------------------------
(* Rows, requests and statements.                                          *)

\* A request between two statements, and none.
LEMMA ReqFields ==
    ASSUME Shape, NEW r \in Requests
    PROVE  /\ req[r].pc = "idle" <=> req[r] = Idle
           /\ req[r].pc # "idle" => req[r] \in Request
           /\ req[r].pc # "idle" => /\ req[r].acct \in Accounts /\ req[r].given \in Passwords
                                    /\ req[r].failed \in Nat /\ req[r].now \in Time
                                    /\ req[r].token \in Captchas \cup {None}
                                    /\ req[r].overtaken \in BOOLEAN
  <1>1. req[r] \in {Idle} \cup Request
    BY DEF Shape, TypeOK
  <1>2. CASE req[r] = Idle
    BY <1>2 DEF Idle
  <1>3. CASE req[r] \in Request
    <2>1. req[r].pc # "idle"
      BY <1>3 DEF Request
    <2>2. req[r] # Idle
      BY <2>1 DEF Idle
    <2>3. /\ req[r].acct \in Accounts /\ req[r].given \in Passwords
          /\ req[r].failed \in Nat /\ req[r].now \in Time
          /\ req[r].token \in Captchas \cup {None}
          /\ req[r].overtaken \in BOOLEAN
      BY <1>3 DEF Request
    <2>4. QED BY <1>3, <2>1, <2>2, <2>3
  <1>4. QED BY <1>1, <1>2, <1>3

\* An account that exists has a users row.
LEMMA AccountFields ==
    ASSUME Shape, NEW a \in Accounts
    PROVE  /\ Exists(a) <=> account[a] \in Row
           /\ ~Exists(a) => account[a] = NoAccount /\ account[a].failed = 0 /\ account[a].locked = None
           /\ account[a].failed \in Nat /\ account[a].locked \in Time \cup {None}
           /\ account[a].raced \in BOOLEAN
           /\ Exists(a) => account[a].password \in Strong
  <1>1. account[a] \in {NoAccount} \cup Row
    BY DEF Shape, TypeOK
  <1>2. CASE account[a] = NoAccount
    <2>1. /\ account[a].password = None /\ account[a].failed = 0 /\ account[a].locked = None
          /\ account[a].raced = FALSE
      BY <1>2 DEF NoAccount
    <2>2. account[a] \notin Row
      BY <2>1, AuthAssumption DEF Row
    <2>3. account[a].raced \in BOOLEAN
      BY <2>1
    <2>4. account[a].failed \in Nat /\ account[a].locked \in Time \cup {None}
      BY <2>1
    <2>5. ~Exists(a)
      BY <2>1 DEF Exists
    <2>6. QED BY <1>2, <2>1, <2>2, <2>3, <2>4, <2>5
  <1>3. CASE account[a] \in Row
    <2>1. /\ account[a].password \in Strong /\ account[a].failed \in Nat /\ account[a].locked \in Time \cup {None}
          /\ account[a].raced \in BOOLEAN
      BY <1>3 DEF Row
    <2>2. account[a].password # None
      BY <2>1, AuthAssumption
    <2>3. QED BY <1>3, <2>1, <2>2 DEF Exists
  <1>4. QED BY <1>1, <1>2, <1>3

\* What one more failed login makes of a row.
LEMMA RecordFacts ==
    ASSUME NEW row \in Row, NEW until \in Time \cup {None}
    PROVE  /\ RecordFailedLogin(row, until) \in Row
           /\ RecordFailedLogin(row, until).password = row.password
           /\ RecordFailedLogin(row, until).failed = row.failed + 1
           /\ RecordFailedLogin(row, until).locked = IF until = None THEN row.locked ELSE until
           /\ RecordFailedLogin(row, until).raced = row.raced
  <1> DEFINE l == IF until = None THEN row.locked ELSE until
             n == row.failed + 1
             new == [row EXCEPT !.failed = n, !.locked = l]
  <1>1. l \in Time \cup {None} /\ n \in Nat
    BY DEF Row
  <1>2. RecordFailedLogin(row, until) = new
    BY DEF RecordFailedLogin, Row
  <1> HIDE DEF l, n
  <1>3. new \in Row
    BY <1>1 DEF Row
  <1>4. new.password = row.password /\ new.failed = n /\ new.locked = l /\ new.raced = row.raced
    BY DEF Row
  <1>5. QED BY <1>2, <1>3, <1>4 DEF l, n

\* What a successful login makes of a row.
LEMMA ResetFacts ==
    ASSUME NEW row \in Row
    PROVE  /\ ResetFailedLogin(row) \in Row
           /\ ResetFailedLogin(row).password = row.password
           /\ ResetFailedLogin(row).failed = 0
           /\ ResetFailedLogin(row).locked = None
           /\ ResetFailedLogin(row).raced = row.raced
  BY DEF ResetFailedLogin, Row

\* A change of password touches the password only.
LEMMA PasswordFacts ==
    ASSUME NEW row \in Row, NEW p \in Strong
    PROVE  /\ UpdatePasswordHash(row, p) \in Row
           /\ UpdatePasswordHash(row, p).password = p
           /\ UpdatePasswordHash(row, p).failed = row.failed
           /\ UpdatePasswordHash(row, p).locked = row.locked
           /\ UpdatePasswordHash(row, p).raced = row.raced
  BY DEF UpdatePasswordHash, Row

\* A new row has no failures and no lock.
LEMMA NewUserFacts ==
    ASSUME NEW p \in Strong, NEW rotate \in BOOLEAN, NEW raced \in BOOLEAN
    PROVE  /\ NewUser(p, rotate, raced) \in Row
           /\ NewUser(p, rotate, raced).password = p
           /\ NewUser(p, rotate, raced).failed = 0
           /\ NewUser(p, rotate, raced).locked = None
           /\ NewUser(p, rotate, raced).raced = raced
  <1>1. NoAccount \in [password : {None}, rotate : BOOLEAN, failed : Nat, locked : Time \cup {None}, raced : BOOLEAN]
          /\ NoAccount.failed = 0 /\ NoAccount.locked = None
    BY DEF NoAccount
  <1>2. QED BY <1>1 DEF NewUser, Row

\* Minting a challenge keeps the consumed ones as they are.
LEMMA MintedFacts ==
    ASSUME Shape, NEW cs \in [Captchas -> Challenge], NEW m \in Minted(cs)
    PROVE  /\ m \in [Captchas -> Challenge]
           /\ \A t \in Captchas : cs[t].state = "consumed" => m[t].state = "consumed"
  <1>1. CASE m = cs
    BY <1>1
  <1>2. CASE m # cs
    <2>1. PICK t \in Captchas : /\ cs[t].state = "unused"
                                /\ m = [cs EXCEPT ![t] = [state |-> "open", expires |-> clock + CaptchaTTL]]
      BY <1>2 DEF Minted
    <2>2. clock + CaptchaTTL \in Time
      BY AuthAssumption DEF Shape, TypeOK, Time
    <2>3. [state |-> "open", expires |-> clock + CaptchaTTL] \in Challenge
      BY <2>2 DEF Challenge
    <2>4. m \in [Captchas -> Challenge]
      BY <2>1, <2>3
    <2>5. QED BY <2>1, <2>4
  <1>3. QED BY <1>1, <1>2

\* Consume touches the one challenge.
LEMMA ConsumedFacts ==
    ASSUME Shape, NEW t \in Captchas
    PROVE  /\ Consumed(t) \in [Captchas -> Challenge] /\ Consumed(t)[t].state = "consumed"
           /\ \A s \in Captchas : s # t => Consumed(t)[s] = captcha[s]
  <1>1. captcha \in [Captchas -> Challenge]
    BY DEF Shape, TypeOK
  <1>2. [captcha[t] EXCEPT !.state = "consumed"] \in Challenge /\ [captcha[t] EXCEPT !.state = "consumed"].state = "consumed"
    BY <1>1 DEF Challenge
  <1>3. Consumed(t) = [captcha EXCEPT ![t] = [captcha[t] EXCEPT !.state = "consumed"]]
    BY DEF Consumed
  <1>4. QED BY <1>1, <1>2, <1>3

\* The requests after r wrote a lock or a users row.
LEMMA OvertakenFacts ==
    ASSUME Shape, NEW r \in Requests, NEW accts, NEW pcs, "idle" \notin pcs,
           req' = Overtaken(r, accts, pcs)
    PROVE  /\ req' \in [Requests -> {Idle} \cup Request] /\ req'[r] = Idle
           /\ \A q \in Requests : q # r =>
                  /\ req'[q].pc = req[q].pc /\ req'[q].acct = req[q].acct /\ req'[q].given = req[q].given
                  /\ req'[q].hash = req[q].hash /\ req'[q].failed = req[q].failed
                  /\ req'[q].token = req[q].token /\ req'[q].now = req[q].now
                  /\ req[q].overtaken => req'[q].overtaken
                  /\ req[q].pc \in pcs /\ req[q].acct \in accts => req'[q].overtaken
  <1>1. ASSUME NEW q \in Requests, q # r
        PROVE  /\ req'[q] \in {Idle} \cup Request
               /\ req'[q].pc = req[q].pc /\ req'[q].acct = req[q].acct /\ req'[q].given = req[q].given
               /\ req'[q].hash = req[q].hash /\ req'[q].failed = req[q].failed
               /\ req'[q].token = req[q].token /\ req'[q].now = req[q].now
               /\ req[q].overtaken => req'[q].overtaken
               /\ req[q].pc \in pcs /\ req[q].acct \in accts => req'[q].overtaken
    <2>1. CASE req[q].pc \in pcs /\ req[q].acct \in accts
      <3>1. req[q] \in Request
        BY <2>1, ReqFields
      <3>2. req'[q] = [req[q] EXCEPT !.overtaken = TRUE]
        BY <1>1, <2>1 DEF Overtaken
      <3>3. QED BY <3>1, <3>2 DEF Request
    <2>2. CASE ~(req[q].pc \in pcs /\ req[q].acct \in accts)
      <3>1. req'[q] = req[q]
        BY <1>1, <2>2 DEF Overtaken
      <3>2. req[q] \in {Idle} \cup Request
        BY DEF Shape, TypeOK
      <3>3. QED BY <2>2, <3>1, <3>2
    <2>3. QED BY <2>1, <2>2
  <1>2. req'[r] = Idle
    BY DEF Overtaken
  <1>3. req' \in [Requests -> {Idle} \cup Request]
    <2>1. req' = [q \in Requests |-> req'[q]]
      BY DEF Overtaken
    <2>2. \A q \in Requests : req'[q] \in {Idle} \cup Request
      BY <1>1, <1>2
    <2>3. QED BY <2>1, <2>2
  <1>4. QED BY <1>1, <1>2, <1>3

-----------------------------------------------------------------------------
(* Steps that change one request and no account.                           *)

\* A smaller set of logins counts for less.
LEMMA FewerLogins ==
    ASSUME NEW A \in SUBSET Requests, NEW B \in SUBSET Requests, A \subseteq B
    PROVE  Cardinality(A) <= Cardinality(B) /\ Cardinality(A) \in Nat /\ Cardinality(B) \in Nat
           /\ Cardinality(Requests) \in Nat /\ Cardinality(B) <= Cardinality(Requests)
  <1>1. IsFiniteSet(A) /\ IsFiniteSet(B) /\ IsFiniteSet(Requests) /\ Cardinality(B) <= Cardinality(Requests)
    BY FS_Subset, AuthAssumption
  <1>2. QED BY <1>1, FS_Subset, FS_CardinalityType

\* A login leaves the set.
LEMMA LoginLeaves ==
    ASSUME NEW A \in SUBSET Requests, NEW B \in SUBSET Requests, NEW r \in B, A \subseteq B \ {r}
    PROVE  Cardinality(A) + 1 <= Cardinality(B) /\ Cardinality(A) \in Nat /\ Cardinality(B) \in Nat
  <1>1. IsFiniteSet(B) /\ IsFiniteSet(B \ {r})
    BY FS_Subset, AuthAssumption
  <1>2. Cardinality(B \ {r}) = Cardinality(B) - 1 /\ Cardinality(B) \in Nat
    BY <1>1, FS_RemoveElement, FS_CardinalityType
  <1>3. IsFiniteSet(A) /\ Cardinality(A) <= Cardinality(B \ {r})
    BY <1>1, FS_Subset
  <1>4. Cardinality(A) \in Nat
    BY <1>3, FS_CardinalityType
  <1>5. QED BY <1>2, <1>3, <1>4

OnlyReq(r) == \A q \in Requests : q # r => req'[q] = req[q]

\* A login that is not let through the gate leaves the logins that are as they were.
LEMMA SameGate ==
    ASSUME IInv, NEW r \in Requests, OnlyReq(r), UNCHANGED admits,
           req'[r].pc = "verify" =>
               account[req'[r].acct].failed < CaptchaThreshold \/ (req[r].pc = "verify" /\ req'[r].acct = req[r].acct),
           NEW a \in Accounts, account[a].failed >= CaptchaThreshold
    PROVE  Cardinality(Verifying(a)') + Cardinality(Spent) <= Cardinality(Verifying(a)) + Cardinality(Spent')
  <1>1. Spent' = Spent
    BY DEF Spent
  <1>2. CaptchaThreshold \in Nat /\ account[a].failed \in Nat
    BY AuthAssumption, AccountFields DEF IInv
  <1>3. Verifying(a)' \subseteq Verifying(a)
    BY <1>2 DEF Verifying, OnlyReq
  <1>4. Verifying(a)' \in SUBSET Requests /\ Verifying(a) \in SUBSET Requests
    BY DEF Verifying
  <1>5. /\ Cardinality(Verifying(a)') <= Cardinality(Verifying(a))
        /\ Cardinality(Verifying(a)') \in Nat /\ Cardinality(Verifying(a)) \in Nat
    BY <1>3, <1>4, FewerLogins
  <1>6. Cardinality(Spent) \in Nat
    BY FS_CardinalityType DEF IInv, SpentInv
  <1>7. QED BY <1>1, <1>5, <1>6

\* What is left to show of a step that changes one request and no account.
LEMMA Frame ==
    ASSUME IInv, Shape', NEW r \in Requests, OnlyReq(r), UNCHANGED <<account, clock>>,
           faults' >= faults, \A a \in Accounts : guesses'[a] + faults <= guesses[a] + faults',
           Informed(r)', SpentInv', CaptchaOnce',
           req'[r].pc = "register" => GetByUsername(req'[r].acct) = {},
           req'[r].pc \in LoggingIn =>
               \/ ~InForce(req'[r].acct)
               \/ req[r].pc \in LoggingIn /\ req'[r].acct = req[r].acct /\ req'[r].overtaken = req[r].overtaken,
           req'[r].pc \in Checking =>
               \/ account[req'[r].acct].failed + 1 < LockoutThreshold
               \/ req'[r].failed + 1 >= LockoutThreshold
               \/ req[r].pc \in Checking /\ req'[r].acct = req[r].acct /\ req'[r].failed = req[r].failed,
           \A a \in Accounts : account[a].failed >= CaptchaThreshold =>
               Cardinality(Verifying(a)') + Cardinality(Spent) <= Cardinality(Verifying(a)) + Cardinality(Spent')
    PROVE  IInv'
  <1>1. Shape /\ LockoutThreshold \in Nat /\ CaptchaThreshold \in Nat
    BY AuthAssumption DEF IInv
  <1>2. \A a \in Accounts : account[a].failed \in Nat /\ guesses[a] \in Nat /\ guesses'[a] \in Nat
    BY <1>1, AccountFields DEF Shape, TypeOK
  <1>3. faults \in Nat /\ faults' \in Nat
    BY DEF IInv, Shape, TypeOK
  <1>4. \A a : Exists(a)' <=> Exists(a)
    BY DEF Exists
  <1>5. \A a : InForce(a)' <=> InForce(a)
    BY DEF InForce
  <1>6. ReqInv'
    <2>1. ASSUME NEW q \in Requests, q # r
          PROVE  Informed(q)'
      <3>1. req'[q] = req[q] /\ Informed(q)
        BY <2>1 DEF OnlyReq, IInv, ReqInv
      <3>2. QED BY <3>1 DEF Informed, Exists
    <2>2. QED BY <2>1 DEF ReqInv
  <1>7. NameInv'
    <2>1. ASSUME NEW q \in Requests, NEW b \in Accounts, req'[q].pc = "register", Exists(b),
                 b # req'[q].acct, Name[b] = Name[req'[q].acct]
          PROVE  req'[q].overtaken
      <3>1. CASE q = r
        BY <2>1, <3>1 DEF GetByUsername
      <3>2. CASE q # r
        BY <2>1, <3>2 DEF OnlyReq, IInv, NameInv
      <3>3. QED BY <3>1, <3>2
    <2>2. QED BY <1>4, <2>1 DEF NameInv, Exists
  <1>8. OneAccountPerName'
    BY DEF IInv, OneAccountPerName, Exists
  <1>9. ForceInv'
    <2>1. ASSUME NEW q \in Requests, req'[q].pc \in LoggingIn, InForce(req'[q].acct)
          PROVE  req'[q].overtaken
      <3>1. CASE q = r
        BY <2>1, <3>1 DEF IInv, ForceInv
      <3>2. CASE q # r
        BY <2>1, <3>2 DEF OnlyReq, IInv, ForceInv
      <3>3. QED BY <3>1, <3>2
    <2>2. QED BY <2>1 DEF ForceInv, InForce
  <1>10. GuessInv'
    <2>1. ASSUME NEW a \in Accounts
          PROVE  guesses'[a] <= account'[a].failed + faults'
      <3>1. guesses[a] <= account[a].failed + faults /\ guesses'[a] + faults <= guesses[a] + faults'
        BY DEF IInv, GuessInv
      <3>2. QED BY <1>2, <1>3, <3>1
    <2>2. QED BY <2>1 DEF GuessInv
  <1>11. LockInv'
    <2>1. ASSUME NEW a \in Accounts, account[a].locked = None, account[a].failed + 1 >= LockoutThreshold
          PROVE  account[a].failed + Cardinality(Unlocking(a)') <= LockoutThreshold - 2 + Cardinality(Requests)
      <3>1. Unlocking(a)' \subseteq Unlocking(a)
        <4>1. ASSUME NEW q \in Unlocking(a)'
              PROVE  q \in Unlocking(a)
          <5>1. q \in Requests /\ req'[q].pc \in Checking /\ req'[q].acct = a /\ req'[q].failed + 1 < LockoutThreshold
            BY DEF Unlocking
          <5>2. req'[q].failed \in Nat
            <6>1. req'[q] \in {Idle} \cup Request /\ req'[q].pc # "idle"
              BY <5>1 DEF Shape, TypeOK, Checking
            <6>2. QED BY <6>1 DEF Idle, Request
          <5>3. CASE q = r
            BY <1>1, <1>2, <2>1, <5>1, <5>2, <5>3 DEF Unlocking
          <5>4. CASE q # r
            BY <5>1, <5>4 DEF Unlocking, OnlyReq
          <5>5. QED BY <5>3, <5>4
        <4>2. QED BY <4>1
      <3>2. Unlocking(a)' \in SUBSET Requests /\ Unlocking(a) \in SUBSET Requests
        BY DEF Unlocking
      <3>3. account[a].failed + Cardinality(Unlocking(a)) <= LockoutThreshold - 2 + Cardinality(Requests)
        BY <2>1 DEF IInv, LockInv
      <3>4. /\ Cardinality(Unlocking(a)') <= Cardinality(Unlocking(a)) /\ Cardinality(Unlocking(a)') \in Nat
            /\ Cardinality(Unlocking(a)) \in Nat /\ Cardinality(Requests) \in Nat
        BY <3>1, <3>2, FewerLogins
      <3>5. QED BY <1>1, <1>2, <3>3, <3>4
    <2>2. QED BY <2>1 DEF LockInv
  <1>12. GateInv'
    <2>1. ASSUME NEW a \in Accounts, account[a].failed >= CaptchaThreshold
          PROVE  account[a].failed + Cardinality(Verifying(a)')
                     <= CaptchaThreshold - 1 + Cardinality(Requests) + Cardinality(Spent')
      <3>1. Verifying(a)' \in SUBSET Requests /\ Verifying(a) \in SUBSET Requests
        BY DEF Verifying
      <3>2. Cardinality(Verifying(a)') \in Nat /\ Cardinality(Verifying(a)) \in Nat /\ Cardinality(Requests) \in Nat
        BY <3>1, FewerLogins
      <3>3. Cardinality(Spent) \in Nat /\ Cardinality(Spent') \in Nat
        BY FS_CardinalityType DEF IInv, SpentInv
      <3>4. account[a].failed + Cardinality(Verifying(a))
                <= CaptchaThreshold - 1 + Cardinality(Requests) + Cardinality(Spent)
        BY <2>1 DEF IInv, GateInv
      <3>5. Cardinality(Verifying(a)') + Cardinality(Spent) <= Cardinality(Verifying(a)) + Cardinality(Spent')
        BY <2>1
      <3>6. QED BY <1>1, <1>2, <3>2, <3>3, <3>4, <3>5
    <2>2. QED BY <2>1 DEF GateInv
  <1>13. QED BY <1>6, <1>7, <1>8, <1>9, <1>10, <1>11, <1>12 DEF IInv

\* A request that ends, or moves on, within its type.
LEMMA GotoFacts ==
    ASSUME Shape, NEW r \in Requests, NEW rec \in {Idle} \cup Request, Goto(r, rec)
    PROVE  req'[r] = rec /\ OnlyReq(r) /\ req' \in [Requests -> {Idle} \cup Request]
  <1>1. req \in [Requests -> {Idle} \cup Request] /\ req' = [req EXCEPT ![r] = rec]
    BY DEF Shape, TypeOK, Goto
  <1>2. QED BY <1>1 DEF OnlyReq

\* A request ends.
LEMMA Ends ==
    ASSUME IInv, Shape', NEW r \in Requests, OnlyReq(r), req'[r] = Idle, UNCHANGED <<account, clock, admits>>,
           faults' >= faults, \A a \in Accounts : guesses'[a] + faults <= guesses[a] + faults',
           SpentInv', CaptchaOnce'
    PROVE  IInv'
  <1>1. req'[r].pc = "idle"
    BY DEF Idle
  <1>2. Informed(r)'
    BY <1>1 DEF Informed, LoggingIn, Checking
  <1>3. req'[r].pc # "register" /\ req'[r].pc \notin LoggingIn /\ req'[r].pc \notin Checking /\ req'[r].pc # "verify"
    BY <1>1 DEF LoggingIn, Checking
  <1>4. \A a \in Accounts : account[a].failed >= CaptchaThreshold =>
            Cardinality(Verifying(a)') + Cardinality(Spent) <= Cardinality(Verifying(a)) + Cardinality(Spent')
    BY <1>3, SameGate
  <1>5. QED BY <1>2, <1>3, <1>4, Frame

\* The captchas are left alone.
LEMMA SameCaptchas ==
    ASSUME IInv, UNCHANGED <<captcha, admits>>
    PROVE  SpentInv' /\ CaptchaOnce'
  BY DEF IInv, SpentInv, CaptchaOnce, Spent

\* A request that starts with an account and a password only.
LEMMA StartFacts ==
    ASSUME NEW x \in {"register", "update"}, NEW a \in Accounts, NEW p \in Passwords
    PROVE  /\ [Idle EXCEPT !.pc = x, !.acct = a, !.given = p] \in Request
           /\ [Idle EXCEPT !.pc = x, !.acct = a, !.given = p].pc = x
           /\ [Idle EXCEPT !.pc = x, !.acct = a, !.given = p].acct = a
           /\ [Idle EXCEPT !.pc = x, !.acct = a, !.given = p].given = p
  <1>1. 0 \in Time
    BY AuthAssumption DEF Time
  <1>2. Idle \in [pc : {"idle"}, acct : {None}, given : {None}, hash : {None}, failed : Nat,
                  token : {None}, right : BOOLEAN, now : Time, overtaken : BOOLEAN]
    BY <1>1 DEF Idle
  <1>3. QED BY <1>2 DEF Request

\* A registration that finds its spelling free goes on to the INSERT.
LEMMA StepRegisterCheck ==
    ASSUME IInv, NEW r \in Requests, NEW a \in Accounts, NEW p \in Passwords, RegisterCheck(r, a, p)
    PROVE  IInv'
  <1> DEFINE rec == [Idle EXCEPT !.pc = "register", !.acct = a, !.given = p]
  <1>1. UNCHANGED <<account, captcha, sessions, clock, guesses, admits, faults>> /\ p \in Strong
          /\ GetByUsername(a) = {} /\ Goto(r, rec) /\ Shape
    BY DEF RegisterCheck, ValidatePassword, IInv
  <1>2. rec \in Request /\ rec.pc = "register" /\ rec.acct = a /\ rec.given = p
    BY StartFacts
  <1> HIDE DEF rec
  <1>3. req'[r] = rec /\ OnlyReq(r) /\ req' \in [Requests -> {Idle} \cup Request]
    BY <1>1, <1>2, GotoFacts
  <1>4. Shape'
    BY <1>1, <1>3 DEF Shape, TypeOK, Exists
  <1>5. Informed(r)'
    BY <1>1, <1>2, <1>3 DEF Informed, LoggingIn, Checking
  <1>6. SpentInv' /\ CaptchaOnce'
    BY <1>1, SameCaptchas
  <1>7. req'[r].pc = "register" /\ req'[r].pc # "verify" /\ req'[r].pc \notin LoggingIn /\ req'[r].pc \notin Checking
    BY <1>2, <1>3 DEF LoggingIn, Checking
  <1>8. faults' >= faults /\ \A b \in Accounts : guesses'[b] + faults <= guesses[b] + faults'
    BY <1>1 DEF Shape, TypeOK
  <1>9. \A b \in Accounts : account[b].failed >= CaptchaThreshold =>
            Cardinality(Verifying(b)') + Cardinality(Spent) <= Cardinality(Verifying(b)) + Cardinality(Spent')
    BY <1>1, <1>3, <1>7, SameGate
  <1>10. QED BY <1>1, <1>2, <1>3, <1>4, <1>5, <1>6, <1>7, <1>8, <1>9, Frame

\* A login copies the row, and with it what the row's count implies.
LEMMA StepLoginRead ==
    ASSUME IInv, NEW r \in Requests, NEW n \in Accounts, NEW p \in Passwords, NEW t \in Captchas \cup {None},
           NEW right \in BOOLEAN, LoginRead(r, n, p, t, right)
    PROVE  IInv'
  <1>1. UNCHANGED <<account, captcha, sessions, clock, guesses, admits, faults>> /\ Shape
    BY DEF LoginRead, IInv
  <1>2. PICK a \in GetByUsername(n) :
           /\ ~IsLocked(account[a], clock)
           /\ CaptchaRequired(account[a].failed) <=> t # None
           /\ Goto(r, [pc |-> IF t = None THEN "verify" ELSE "captcha", acct |-> a, given |-> p,
                       hash |-> account[a].password, failed |-> account[a].failed,
                       token |-> t, right |-> right, now |-> clock, overtaken |-> FALSE])
    BY DEF LoginRead
  <1>3. a \in Accounts /\ Exists(a)
    BY DEF GetByUsername
  <1>4. account[a].password \in Strong /\ account[a].failed \in Nat /\ clock \in Time /\ clock \in Nat
    BY <1>1, <1>3, AccountFields, AuthAssumption DEF Shape, TypeOK, Time
  <1> DEFINE pc == IF t = None THEN "verify" ELSE "captcha"
             rec == [pc |-> pc, acct |-> a, given |-> p,
                     hash |-> account[a].password, failed |-> account[a].failed,
                     token |-> t, right |-> right, now |-> clock, overtaken |-> FALSE]
  <1>5. pc \in Checking /\ pc \in LoggingIn /\ (pc = "verify" => t = None) /\ (pc = "captcha" => t \in Captchas)
          /\ pc \in {"verify", "captcha"}
    BY DEF Checking, LoggingIn
  <1>6. Goto(r, rec)
    BY <1>2
  <1> HIDE DEF pc
  <1>7. rec \in Request
    BY <1>3, <1>4, <1>5 DEF Request
  <1>8. /\ rec.pc = pc /\ rec.acct = a /\ rec.hash = account[a].password
        /\ rec.failed = account[a].failed /\ rec.token = t /\ rec.now = clock
    OBVIOUS
  <1> HIDE DEF rec
  <1>9. req'[r] = rec /\ OnlyReq(r) /\ req' \in [Requests -> {Idle} \cup Request]
    BY <1>1, <1>6, <1>7, GotoFacts
  <1>10. Shape'
    BY <1>1, <1>9 DEF Shape, TypeOK, Exists
  <1>11. Informed(r)'
    <2>1. Exists(a)'
      BY <1>1, <1>3 DEF Exists
    <2>2. req'[r].pc \notin {"register", "update", "session", "consume"}
      BY <1>5, <1>8, <1>9
    <2>3. req'[r].now <= clock' /\ req'[r].hash \in Strong
      BY <1>1, <1>4, <1>8, <1>9
    <2>4. req'[r].pc = "captcha" => req'[r].token \in Captchas
      BY <1>5, <1>8, <1>9
    <2>5. req'[r].acct = a
      BY <1>8, <1>9
    <2>6. QED BY <2>1, <2>2, <2>3, <2>4, <2>5 DEF Informed, Exists
  <1>12. SpentInv' /\ CaptchaOnce'
    BY <1>1, SameCaptchas
  <1>13. ~InForce(a)
    BY <1>2 DEF InForce, IsLocked
  <1>14. req'[r].pc = "verify" => account[req'[r].acct].failed < CaptchaThreshold
    <2>1. CaptchaThreshold \in Nat
      BY AuthAssumption
    <2>2. QED BY <1>2, <1>4, <1>5, <1>8, <1>9, <2>1 DEF CaptchaRequired
  <1>15. faults' >= faults /\ \A b \in Accounts : guesses'[b] + faults <= guesses[b] + faults'
    BY <1>1 DEF Shape, TypeOK
  <1>16. \A b \in Accounts : account[b].failed >= CaptchaThreshold =>
            Cardinality(Verifying(b)') + Cardinality(Spent) <= Cardinality(Verifying(b)) + Cardinality(Spent')
    BY <1>1, <1>9, <1>14, SameGate
  <1>17. account[req'[r].acct].failed + 1 < LockoutThreshold \/ req'[r].failed + 1 >= LockoutThreshold
    BY <1>4, <1>8, <1>9, AuthAssumption
  <1>18. req'[r].pc # "register" /\ ~InForce(req'[r].acct)
    BY <1>5, <1>8, <1>9, <1>13
  <1>19. QED BY <1>1, <1>9, <1>10, <1>11, <1>12, <1>15, <1>16, <1>17, <1>18, Frame

\* A challenge is issued.
LEMMA StepMint ==
    ASSUME IInv, captcha' \in Minted(captcha), UNCHANGED <<account, req, sessions, clock, guesses, admits, faults>>
    PROVE  IInv'
  <1>1. Shape /\ captcha \in [Captchas -> Challenge]
    BY DEF IInv, Shape, TypeOK
  <1>2. /\ captcha' \in [Captchas -> Challenge]
        /\ \A t \in Captchas : captcha[t].state = "consumed" => captcha'[t].state = "consumed"
    BY <1>1, MintedFacts
  <1>3. Shape'
    BY <1>1, <1>2 DEF Shape, TypeOK, Exists
  <1>4. SpentInv' /\ CaptchaOnce'
    BY <1>2 DEF IInv, SpentInv, CaptchaOnce, Spent
  <1>5. QED BY <1>3, <1>4
    DEF IInv, ReqInv, Informed, NameInv, OneAccountPerName, ForceInv, GuessInv, LockInv, GateInv, Exists, InForce,
        Unlocking, Verifying, Spent

\* The step of a request that ends, whatever it leaves in the other tables.
LEMMA StepEnds ==
    ASSUME IInv, NEW r \in Requests, Goto(r, Idle), UNCHANGED <<account, clock, admits>>,
           captcha' \in [Captchas -> Challenge],
           \A t \in Captchas : captcha[t].state = "consumed" => captcha'[t].state = "consumed",
           sessions' \in [Accounts -> Nat], \A a \in Accounts : sessions'[a] > 0 => Exists(a),
           guesses' \in [Accounts -> Nat], faults' \in Nat, faults' >= faults,
           \A a \in Accounts : guesses'[a] + faults <= guesses[a] + faults'
    PROVE  IInv'
  <1>1. Shape
    BY DEF IInv
  <1>2. req'[r] = Idle /\ OnlyReq(r) /\ req' \in [Requests -> {Idle} \cup Request]
    BY <1>1, GotoFacts
  <1>3. Shape'
    BY <1>1, <1>2 DEF Shape, TypeOK, Exists
  <1>4. SpentInv' /\ CaptchaOnce'
    BY DEF IInv, SpentInv, CaptchaOnce, Spent
  <1>5. QED BY <1>2, <1>3, <1>4, Ends

\* What a step that leaves the histories and the sessions alone may tell StepEnds.
LEMMA SameCounts ==
    ASSUME IInv, UNCHANGED <<guesses, faults>>
    PROVE  /\ guesses' \in [Accounts -> Nat] /\ faults' \in Nat /\ faults' >= faults
           /\ \A a \in Accounts : guesses'[a] + faults <= guesses[a] + faults'
  BY DEF IInv, Shape, TypeOK

\* A step that leaves the sessions alone keeps what is said of them.
LEMMA SameSessions ==
    ASSUME IInv, UNCHANGED sessions
    PROVE  sessions' \in [Accounts -> Nat] /\ \A a \in Accounts : sessions'[a] > 0 => Exists(a)
  BY DEF IInv, Shape, TypeOK

\* A step that leaves the challenges alone revives none.
LEMMA SameChallenges ==
    ASSUME IInv, UNCHANGED captcha
    PROVE  /\ captcha' \in [Captchas -> Challenge]
           /\ \A t \in Captchas : captcha[t].state = "consumed" => captcha'[t].state = "consumed"
  BY DEF IInv, Shape, TypeOK

\* A registration that finds its spelling taken.
LEMMA StepRegisterTaken ==
    ASSUME IInv, NEW r \in Requests, RegisterInsert(r), Exists(req[r].acct)
    PROVE  IInv'
  <1>1. Goto(r, Idle) /\ UNCHANGED <<account, captcha, sessions, clock, guesses, admits, faults>>
    BY DEF RegisterInsert
  <1>2. QED BY <1>1, SameCounts, SameSessions, SameChallenges, StepEnds

\* A login that the password let in opens its session.
LEMMA StepLoginOpensSession ==
    ASSUME IInv, NEW r \in Requests, LoginOpensSession(r)
    PROVE  IInv'
  <1>1. /\ req[r].pc = "session" /\ sessions' = [sessions EXCEPT ![req[r].acct] = @ + 1]
        /\ Goto(r, Idle) /\ UNCHANGED <<account, captcha, clock, guesses, admits, faults>>
    BY DEF LoginOpensSession
  <1>2. Shape /\ sessions \in [Accounts -> Nat]
    BY DEF IInv, Shape, TypeOK
  <1>3. req[r].acct \in Accounts /\ Exists(req[r].acct)
    BY <1>1, <1>2, ReqFields DEF IInv, ReqInv, Informed, LoggingIn
  <1>4. sessions' \in [Accounts -> Nat]
    BY <1>1, <1>2, <1>3
  <1>5. \A a \in Accounts : sessions'[a] > 0 => Exists(a)
    BY <1>1, <1>2, <1>3 DEF Shape
  <1>6. QED BY <1>1, <1>4, <1>5, SameCounts, SameChallenges, StepEnds

\* Ending a session changes nothing a login has read.
LEMMA StepLogout ==
    ASSUME IInv, NEW a \in Accounts, Logout(a)
    PROVE  IInv'
  <1>1. /\ sessions[a] > 0 /\ sessions' = [sessions EXCEPT ![a] = @ - 1]
        /\ UNCHANGED <<account, captcha, req, clock, guesses, admits, faults>>
    BY DEF Logout
  <1>2. Shape /\ sessions \in [Accounts -> Nat]
    BY DEF IInv, Shape, TypeOK
  <1>3. sessions' \in [Accounts -> Nat] /\ \A b \in Accounts : sessions'[b] > 0 => sessions[b] > 0
    BY <1>1, <1>2
  <1>4. Shape'
    BY <1>1, <1>2, <1>3 DEF Shape, TypeOK, Exists
  <1>5. QED BY <1>1, <1>4
    DEF IInv, ReqInv, Informed, NameInv, OneAccountPerName, ForceInv, GuessInv, LockInv, GateInv, Exists, InForce,
        Unlocking, Verifying, Spent, SpentInv, CaptchaOnce

\* The clock moves: locks only run out.
LEMMA StepTick ==
    ASSUME IInv, Tick
    PROVE  IInv'
  <1>1. clock < MaxTime /\ clock' = clock + 1 /\ UNCHANGED <<account, captcha, req, sessions, guesses, admits, faults>>
    BY DEF Tick
  <1>2. clock \in Nat /\ MaxTime \in Nat /\ LockoutDuration \in Nat /\ CaptchaTTL \in Nat
    BY AuthAssumption DEF IInv, Shape, TypeOK, Time
  <1>3. clock' \in Time /\ clock' <= MaxTime
    BY <1>1, <1>2 DEF Time
  <1>4. Shape'
    BY <1>1, <1>3 DEF IInv, Shape, TypeOK, Exists
  <1>5. ReqInv'
    <2>1. ASSUME NEW r \in Requests
          PROVE  Informed(r)'
      <3>1. Informed(r)
        BY DEF IInv, ReqInv
      <3>2. req[r].pc \in LoggingIn => req[r].now \in Nat
        BY <1>2, ReqFields DEF IInv, LoggingIn, Checking, Time
      <3>3. QED BY <1>1, <1>2, <3>1, <3>2 DEF Informed, Exists
    <2>2. QED BY <2>1 DEF ReqInv
  <1>6. ForceInv'
    <2>1. \A r \in Requests : req[r].pc \in LoggingIn => req[r].acct \in Accounts
      BY ReqFields DEF IInv, LoggingIn, Checking
    <2>2. \A a \in Accounts : InForce(a)' => InForce(a)
      <3>1. ASSUME NEW a \in Accounts, InForce(a)'
            PROVE  InForce(a)
        <4>1. account[a].locked # None /\ account[a].locked > clock + 1
          BY <1>1, <3>1 DEF InForce
        <4>2. account[a].locked \in Nat
          BY <1>2, <4>1, AccountFields DEF IInv, Time
        <4>3. QED BY <1>2, <4>1, <4>2 DEF InForce
      <3>2. QED BY <3>1
    <2>3. QED BY <1>1, <2>1, <2>2 DEF IInv, ForceInv
  <1>7. QED BY <1>1, <1>4, <1>5, <1>6
    DEF IInv, NameInv, OneAccountPerName, GuessInv, LockInv, GateInv, Exists,
        Unlocking, Verifying, Spent, SpentInv, CaptchaOnce

\* verifyCaptcha's read; a wrong answer burns the challenge.
LEMMA StepCaptchaRead ==
    ASSUME IInv, NEW r \in Requests, CaptchaRead(r)
    PROVE  IInv'
  <1> DEFINE t == req[r].token
  <1>1. req[r].pc = "captcha" /\ UNCHANGED <<account, sessions, clock, guesses, admits, faults>> /\ Shape
    BY DEF CaptchaRead, IInv
  <1>2. Informed(r) /\ t \in Captchas /\ captcha \in [Captchas -> Challenge]
    BY <1>1 DEF IInv, ReqInv, Informed, Shape, TypeOK
  <1>3. CASE CaptchaUsable(t, req[r].now) /\ req[r].right
    <2> DEFINE rec == [req[r] EXCEPT !.pc = "consume"]
    <2>1. Goto(r, rec) /\ UNCHANGED captcha
      BY <1>3 DEF CaptchaRead
    <2>2. req[r] \in Request
      BY <1>1, ReqFields
    <2>3. /\ rec \in Request /\ rec.pc = "consume" /\ rec.acct = req[r].acct /\ rec.hash = req[r].hash
          /\ rec.failed = req[r].failed /\ rec.token = req[r].token /\ rec.now = req[r].now
          /\ rec.overtaken = req[r].overtaken
      BY <2>2 DEF Request
    <2> HIDE DEF rec
    <2>4. req'[r] = rec /\ OnlyReq(r) /\ req' \in [Requests -> {Idle} \cup Request]
      BY <1>1, <2>1, <2>3, GotoFacts
    <2>5. Shape'
      BY <1>1, <2>1, <2>4 DEF Shape, TypeOK, Exists
    <2>6. Informed(r)'
      BY <1>1, <1>2, <2>3, <2>4 DEF Informed, LoggingIn, Checking, Exists
    <2>7. SpentInv' /\ CaptchaOnce'
      BY <1>1, <2>1, SameCaptchas
    <2>8. \A b \in Accounts : account[b].failed >= CaptchaThreshold =>
              Cardinality(Verifying(b)') + Cardinality(Spent) <= Cardinality(Verifying(b)) + Cardinality(Spent')
      BY <1>1, <2>3, <2>4, SameGate
    <2>9. faults' >= faults /\ \A b \in Accounts : guesses'[b] + faults <= guesses[b] + faults'
      BY <1>1, SameCounts
    <2>10. req'[r].pc # "register" /\ req[r].pc \in LoggingIn /\ req[r].pc \in Checking
      BY <1>1, <2>3, <2>4 DEF LoggingIn, Checking
    <2>11. QED BY <1>1, <2>3, <2>4, <2>5, <2>6, <2>7, <2>8, <2>9, <2>10, Frame
  <1>4. CASE ~(CaptchaUsable(t, req[r].now) /\ req[r].right)
    <2> DEFINE cs == IF CaptchaUsable(t, req[r].now) THEN Consumed(t) ELSE captcha
    <2>1. Goto(r, Idle) /\ captcha' \in Minted(cs)
      BY <1>4 DEF CaptchaRead
    <2>2. cs \in [Captchas -> Challenge] /\ \A s \in Captchas : captcha[s].state = "consumed" => cs[s].state = "consumed"
      BY <1>1, <1>2, ConsumedFacts
    <2> HIDE DEF cs
    <2>3. /\ captcha' \in [Captchas -> Challenge]
          /\ \A s \in Captchas : cs[s].state = "consumed" => captcha'[s].state = "consumed"
      BY <1>1, <2>1, <2>2, MintedFacts
    <2>4. \A s \in Captchas : captcha[s].state = "consumed" => captcha'[s].state = "consumed"
      BY <2>2, <2>3
    <2>5. QED BY <1>1, <2>1, <2>3, <2>4, SameCounts, SameSessions, StepEnds
  <1>5. QED BY <1>3, <1>4

\* verifyCaptcha's Consume: the challenge that lets the login through joins the
\* spent ones, which pays for the login at the gate.
LEMMA StepCaptchaConsume ==
    ASSUME IInv, NEW r \in Requests, CaptchaConsume(r)
    PROVE  IInv'
  <1> DEFINE t == req[r].token
  <1>1. req[r].pc = "consume" /\ UNCHANGED <<account, sessions, clock, guesses, faults>> /\ Shape
    BY DEF CaptchaConsume, IInv
  <1>2. Informed(r) /\ t \in Captchas /\ captcha \in [Captchas -> Challenge] /\ admits \in [Captchas -> Nat]
    BY <1>1 DEF IInv, ReqInv, Informed, Shape, TypeOK
  <1>3. CASE ConsumeMatches(t)
    <2> DEFINE rec == [req[r] EXCEPT !.pc = "verify", !.token = None, !.right = FALSE]
    <2>1. Goto(r, rec) /\ captcha' = Consumed(t) /\ admits' = [admits EXCEPT ![t] = @ + 1]
      BY <1>3 DEF CaptchaConsume
    <2>2. req[r] \in Request
      BY <1>1, ReqFields
    <2>3. /\ rec \in Request /\ rec.pc = "verify" /\ rec.acct = req[r].acct /\ rec.hash = req[r].hash
          /\ rec.failed = req[r].failed /\ rec.now = req[r].now /\ rec.overtaken = req[r].overtaken
      BY <2>2 DEF Request
    <2> HIDE DEF rec
    <2>4. req'[r] = rec /\ OnlyReq(r) /\ req' \in [Requests -> {Idle} \cup Request]
      BY <1>1, <2>1, <2>3, GotoFacts
    <2>5. /\ captcha' \in [Captchas -> Challenge] /\ captcha'[t].state = "consumed"
          /\ \A s \in Captchas : s # t => captcha'[s] = captcha[s]
      BY <1>1, <1>2, <2>1, ConsumedFacts
    <2>6. admits[t] = 0
      <3>1. captcha[t].state # "consumed"
        BY <1>3 DEF ConsumeMatches
      <3>2. ~(admits[t] > 0)
        BY <1>2, <3>1 DEF IInv, SpentInv
      <3>3. QED BY <1>2, <3>2
    <2>7. /\ admits' \in [Captchas -> Nat] /\ admits'[t] = 1
          /\ \A s \in Captchas : s # t => admits'[s] = admits[s]
      BY <1>2, <2>1, <2>6
    <2>8. Shape'
      BY <1>1, <2>4, <2>5, <2>7 DEF Shape, TypeOK, Exists
    <2>9. Spent' = Spent \cup {t} /\ t \notin Spent
      BY <1>2, <2>6, <2>7 DEF Spent
    <2>10. IsFiniteSet(Spent) /\ IsFiniteSet(Spent')
      BY <2>9, FS_AddElement DEF IInv, SpentInv
    <2>11. Cardinality(Spent') = Cardinality(Spent) + 1 /\ Cardinality(Spent) \in Nat
      BY <2>9, <2>10, FS_AddElement, FS_CardinalityType
    <2>12. SpentInv'
      BY <2>5, <2>7, <2>10 DEF IInv, SpentInv
    <2>13. CaptchaOnce'
      <3>1. \A s \in Captchas : admits'[s] <= 1
        BY <1>2, <2>7 DEF IInv, CaptchaOnce
      <3>2. QED BY <3>1 DEF CaptchaOnce
    <2>14. Informed(r)'
      BY <1>1, <1>2, <2>3, <2>4 DEF Informed, LoggingIn, Checking, Exists
    <2>15. ASSUME NEW b \in Accounts
           PROVE  Cardinality(Verifying(b)') + Cardinality(Spent) <= Cardinality(Verifying(b)) + Cardinality(Spent')
      <3>1. Verifying(b)' \subseteq Verifying(b) \cup {r} /\ r \notin Verifying(b)
        BY <1>1 , <2>4 DEF Verifying, OnlyReq
      <3>2. IsFiniteSet(Verifying(b)) /\ IsFiniteSet(Verifying(b) \cup {r})
        BY FS_Subset, FS_AddElement, AuthAssumption DEF Verifying
      <3>3. Cardinality(Verifying(b) \cup {r}) = Cardinality(Verifying(b)) + 1
        BY <3>1, <3>2, FS_AddElement
      <3>4. IsFiniteSet(Verifying(b)') /\ Cardinality(Verifying(b)') <= Cardinality(Verifying(b) \cup {r})
        BY <3>1, <3>2, FS_Subset
      <3>5. Cardinality(Verifying(b)') \in Nat /\ Cardinality(Verifying(b)) \in Nat
        BY <3>2, <3>4, FS_CardinalityType
      <3>6. QED BY <2>11, <3>3, <3>4, <3>5
    <2>16. faults' >= faults /\ \A b \in Accounts : guesses'[b] + faults <= guesses[b] + faults'
      BY <1>1, SameCounts
    <2>17. req'[r].pc # "register" /\ req[r].pc \in LoggingIn /\ req[r].pc \in Checking
      BY <1>1, <2>3, <2>4 DEF LoggingIn, Checking
    <2>18. QED BY <1>1, <2>3, <2>4, <2>8, <2>12, <2>13, <2>14, <2>15, <2>16, <2>17, Frame
  <1>4. CASE ~ConsumeMatches(t)
    <2>1. Goto(r, Idle) /\ UNCHANGED <<captcha, admits>>
      BY <1>4 DEF CaptchaConsume
    <2>2. QED BY <1>1, <2>1, SameCounts, SameSessions, SameChallenges, StepEnds
  <1>5. QED BY <1>3, <1>4

\* The new password meets the policy before the UPDATE.
LEMMA StepChangePasswordRead ==
    ASSUME IInv, NEW r \in Requests, NEW a \in Accounts, NEW p \in Passwords, ChangePasswordRead(r, a, p)
    PROVE  IInv'
  <1> DEFINE rec == [Idle EXCEPT !.pc = "update", !.acct = a, !.given = p]
  <1>1. UNCHANGED <<account, captcha, sessions, clock, guesses, admits, faults>> /\ p \in Strong
          /\ sessions[a] > 0 /\ Goto(r, rec) /\ Shape
    BY DEF ChangePasswordRead, ValidatePassword, IInv
  <1>2. rec \in Request /\ rec.pc = "update" /\ rec.acct = a /\ rec.given = p
    BY StartFacts
  <1> HIDE DEF rec
  <1>3. req'[r] = rec /\ OnlyReq(r) /\ req' \in [Requests -> {Idle} \cup Request]
    BY <1>1, <1>2, GotoFacts
  <1>4. Shape'
    BY <1>1, <1>3 DEF Shape, TypeOK, Exists
  <1>5. Informed(r)'
    BY <1>1, <1>2, <1>3 DEF Informed, LoggingIn, Checking, Shape, Exists
  <1>6. SpentInv' /\ CaptchaOnce'
    BY <1>1, SameCaptchas
  <1>7. req'[r].pc # "register" /\ req'[r].pc # "verify" /\ req'[r].pc \notin LoggingIn /\ req'[r].pc \notin Checking
    BY <1>2, <1>3 DEF LoggingIn, Checking
  <1>8. faults' >= faults /\ \A b \in Accounts : guesses'[b] + faults <= guesses[b] + faults'
    BY <1>1, SameCounts
  <1>9. \A b \in Accounts : account[b].failed >= CaptchaThreshold =>
            Cardinality(Verifying(b)') + Cardinality(Spent) <= Cardinality(Verifying(b)) + Cardinality(Spent')
    BY <1>1, <1>3, <1>7, SameGate
  <1>10. QED BY <1>1, <1>2, <1>3, <1>4, <1>5, <1>6, <1>7, <1>8, <1>9, Frame

\* A failed statement: a wrong password that goes uncounted is paid for by the fault.
LEMMA StepStatementError ==
    ASSUME IInv, NEW r \in Requests, StatementError(r)
    PROVE  IInv'
  <1>1. /\ req[r].pc # "idle" /\ faults' = faults + 1 /\ UNCHANGED <<account, captcha, sessions, clock, admits>>
        /\ guesses' = IF req[r].pc = "verify" /\ req[r].given # req[r].hash
                      THEN [guesses EXCEPT ![req[r].acct] = @ + 1] ELSE guesses
    BY DEF StatementError
  <1>2. Shape /\ faults \in Nat /\ guesses \in [Accounts -> Nat] /\ req[r] \in Request /\ req[r].acct \in Accounts
    BY <1>1, ReqFields DEF IInv, Shape, TypeOK
  <1>3. guesses' \in [Accounts -> Nat] /\ faults' \in Nat /\ faults' >= faults
    BY <1>1, <1>2
  <1>4. \A b \in Accounts : guesses'[b] + faults <= guesses[b] + faults'
    <2>1. \A b \in Accounts : guesses'[b] <= guesses[b] + 1
      BY <1>1, <1>2
    <2>2. QED BY <1>1, <1>2, <1>3, <2>1
  <1>5. CASE req[r].pc = "verify" /\ req[r].given = req[r].hash
    <2> DEFINE rec == [req[r] EXCEPT !.pc = "session"]
    <2>1. Goto(r, rec)
      BY <1>5 DEF StatementError
    <2>2. /\ rec \in Request /\ rec.pc = "session" /\ rec.acct = req[r].acct /\ rec.hash = req[r].hash
          /\ rec.given = req[r].given /\ rec.now = req[r].now /\ rec.overtaken = req[r].overtaken
      BY <1>2 DEF Request
    <2> HIDE DEF rec
    <2>3. req'[r] = rec /\ OnlyReq(r) /\ req' \in [Requests -> {Idle} \cup Request]
      BY <1>2, <2>1, <2>2, GotoFacts
    <2>4. Shape'
      BY <1>1, <1>2, <1>3, <2>3 DEF Shape, TypeOK, Exists
    <2>5. Informed(r)'
      <3>1. Informed(r)
        BY DEF IInv, ReqInv
      <3>2. QED BY <1>1, <1>5, <2>2, <2>3, <3>1 DEF Informed, LoggingIn, Checking, Exists
    <2>6. SpentInv' /\ CaptchaOnce'
      BY <1>1, SameCaptchas
    <2>7. \A b \in Accounts : account[b].failed >= CaptchaThreshold =>
              Cardinality(Verifying(b)') + Cardinality(Spent) <= Cardinality(Verifying(b)) + Cardinality(Spent')
      BY <1>1, <2>2, <2>3, SameGate
    <2>8. req'[r].pc # "register" /\ req[r].pc \in LoggingIn /\ req'[r].pc \notin Checking
      BY <1>5, <2>2, <2>3 DEF LoggingIn, Checking
    <2>9. QED BY <1>1, <1>3, <1>4, <2>2, <2>3, <2>4, <2>5, <2>6, <2>7, <2>8, Frame
  <1>6. CASE ~(req[r].pc = "verify" /\ req[r].given = req[r].hash)
    <2>1. Goto(r, Idle)
      BY <1>6 DEF StatementError
    <2>2. QED BY <1>1, <1>3, <1>4, <2>1, SameSessions, SameChallenges, StepEnds
  <1>7. QED BY <1>5, <1>6

-----------------------------------------------------------------------------
(* Steps that write a users row.                                           *)

\* A request that the step of another leaves where it is; its copy of the row may
\* become stale.
Keeps(q) ==
    /\ req'[q].pc = req[q].pc /\ req'[q].acct = req[q].acct /\ req'[q].given = req[q].given
    /\ req'[q].hash = req[q].hash /\ req'[q].failed = req[q].failed
    /\ req'[q].token = req[q].token /\ req'[q].now = req[q].now
    /\ req[q].overtaken => req'[q].overtaken

\* A step of one request leaves the others' knowledge true as long as no account goes.
LEMMA InformedStay ==
    ASSUME IInv, NEW r \in Requests, Informed(r)', \A q \in Requests : q # r => Keeps(q),
           \A a \in Accounts : Exists(a) => Exists(a)', clock' = clock
    PROVE  ReqInv'
  <1>1. ASSUME NEW q \in Requests, q # r
        PROVE  Informed(q)'
    <2>1. Keeps(q) /\ Informed(q)
      BY <1>1 DEF IInv, ReqInv
    <2>2. req[q].pc \in LoggingIn \cup {"update"} => req[q].acct \in Accounts
      BY ReqFields DEF IInv, LoggingIn, Checking
    <2>3. req'[q].pc \in LoggingIn \cup {"update"} => Exists(req[q].acct)'
      BY <2>1, <2>2 DEF Keeps, Informed, Exists
    <2>4. QED BY <2>1, <2>3 DEF Keeps, Informed
  <1>2. QED BY <1>1 DEF ReqInv

\* Logins of others that held a lock in force against them still know it.
LEMMA ForceStays ==
    ASSUME IInv, NEW r \in Requests, \A q \in Requests : q # r => Keeps(q),
           req'[r].pc \in LoggingIn => ~InForce(req[r].acct)',
           \A q \in Requests : q # r /\ req[q].pc \in LoggingIn /\ InForce(req[q].acct)' =>
               InForce(req[q].acct) \/ req'[q].overtaken
    PROVE  ForceInv'
  <1>1. ASSUME NEW q \in Requests, req'[q].pc \in LoggingIn, InForce(req[q].acct)'
        PROVE  req'[q].overtaken
    <2>1. q # r
      BY <1>1
    <2>2. Keeps(q)
      BY <2>1
    <2>3. req[q].pc \in LoggingIn /\ InForce(req[q].acct)'
      BY <1>1, <2>2 DEF Keeps, InForce
    <2>4. QED BY <2>1, <2>2, <2>3 DEF Keeps, IInv, ForceInv
  <1>2. QED BY <1>1 DEF ForceInv

\* User names stay as they are when the same accounts exist.
LEMMA NamesStay ==
    ASSUME IInv, NEW r \in Requests, \A q \in Requests : q # r => Keeps(q), req'[r].pc # "register",
           \A a \in Accounts : (Exists(a)' <=> Exists(a)) /\ account'[a].raced = account[a].raced
    PROVE  NameInv' /\ OneAccountPerName'
  <1>1. ASSUME NEW q \in Requests, NEW b \in Accounts, req'[q].pc = "register", Exists(b)', b # req'[q].acct,
               Name[b] = Name[req'[q].acct]
        PROVE  req'[q].overtaken
    <2>1. Keeps(q)
      BY <1>1
    <2>2. QED BY <1>1, <2>1 DEF Keeps, IInv, NameInv
  <1>2. NameInv'
    BY <1>1 DEF NameInv
  <1>3. OneAccountPerName'
    <2>1. ASSUME NEW a \in Accounts, NEW b \in Accounts, a # b, Exists(a)', Exists(b)', Name[a] = Name[b]
          PROVE  account'[a].raced \/ account'[b].raced
      BY <2>1 DEF IInv, OneAccountPerName
    <2>2. QED BY <2>1 DEF OneAccountPerName
  <1>4. QED BY <1>2, <1>3

\* A request that is no longer checking a password is out of the counted sets.
LEMMA LeavesCounts ==
    ASSUME NEW r \in Requests, \A q \in Requests : q # r => Keeps(q), req'[r].pc \notin Checking, NEW b \in Accounts
    PROVE  Unlocking(b)' \subseteq Unlocking(b) \ {r} /\ Verifying(b)' \subseteq Verifying(b) \ {r}
  BY DEF Keeps, Unlocking, Verifying, Checking

\* The counts of one account: its row is as it was, or new or reset, or counts one
\* more failure of a login that was in the counted sets.
LEMMA RowCounts ==
    ASSUME IInv, Shape', UNCHANGED admits, NEW r \in Requests, NEW b \in Accounts,
           Unlocking(b)' \subseteq Unlocking(b) \ {r}, Verifying(b)' \subseteq Verifying(b) \ {r},
           \/ account'[b].failed = account[b].failed /\ account'[b].locked = account[b].locked
           \/ account'[b].failed = 0
           \/ /\ account'[b].failed = account[b].failed + 1 /\ r \in Verifying(b)
              /\ account'[b].locked = None => account[b].locked = None /\ r \in Unlocking(b)
    PROVE  /\ account'[b].locked = None /\ account'[b].failed + 1 >= LockoutThreshold =>
                  account'[b].failed + Cardinality(Unlocking(b)') <= LockoutThreshold - 2 + Cardinality(Requests)
           /\ account'[b].failed >= CaptchaThreshold =>
                  account'[b].failed + Cardinality(Verifying(b)')
                      <= CaptchaThreshold - 1 + Cardinality(Requests) + Cardinality(Spent')
  <1>1. /\ LockoutThreshold \in Nat /\ CaptchaThreshold \in Nat /\ LockoutThreshold >= 1 /\ CaptchaThreshold >= 1
        /\ account[b].failed \in Nat /\ account'[b].failed \in Nat
    <2>1. account[b].failed \in Nat
      BY AccountFields DEF IInv
    <2>2. account'[b].failed \in Nat
      <3>1. account'[b] \in {NoAccount} \cup Row
        BY DEF Shape, TypeOK
      <3>2. QED BY <3>1 DEF NoAccount, Row
    <2>3. QED BY <2>1, <2>2, AuthAssumption
  <1>2. /\ Unlocking(b) \in SUBSET Requests /\ Unlocking(b)' \in SUBSET Requests
        /\ Verifying(b) \in SUBSET Requests /\ Verifying(b)' \in SUBSET Requests
    BY DEF Unlocking, Verifying
  <1>3. /\ Cardinality(Unlocking(b)') <= Cardinality(Unlocking(b)) /\ Cardinality(Verifying(b)') <= Cardinality(Verifying(b))
        /\ Cardinality(Unlocking(b)') \in Nat /\ Cardinality(Verifying(b)') \in Nat
        /\ Cardinality(Unlocking(b)) \in Nat /\ Cardinality(Verifying(b)) \in Nat
    BY <1>2, FewerLogins
  <1>4. /\ Cardinality(Unlocking(b)') + 1 <= Cardinality(Requests) /\ Cardinality(Requests) \in Nat
        /\ Cardinality(Verifying(b)') + 1 <= Cardinality(Requests)
    <2>1. Unlocking(b)' \subseteq Requests \ {r} /\ Verifying(b)' \subseteq Requests \ {r} /\ Requests \in SUBSET Requests
      BY <1>2
    <2>2. QED BY <1>2, <2>1, LoginLeaves
  <1>5. /\ r \in Unlocking(b) => Cardinality(Unlocking(b)') + 1 <= Cardinality(Unlocking(b))
        /\ r \in Verifying(b) => Cardinality(Verifying(b)') + 1 <= Cardinality(Verifying(b))
    BY <1>2, LoginLeaves
  <1>6. Spent' = Spent /\ Cardinality(Spent) \in Nat
    <2>1. Spent' = Spent
      BY DEF Spent
    <2>2. QED BY <2>1, FS_CardinalityType DEF IInv, SpentInv
  <1>7. /\ account[b].locked = None /\ account[b].failed + 1 >= LockoutThreshold =>
               account[b].failed + Cardinality(Unlocking(b)) <= LockoutThreshold - 2 + Cardinality(Requests)
        /\ account[b].failed >= CaptchaThreshold =>
               account[b].failed + Cardinality(Verifying(b))
                   <= CaptchaThreshold - 1 + Cardinality(Requests) + Cardinality(Spent)
    BY DEF IInv, LockInv, GateInv
  <1> DEFINE u == Cardinality(Unlocking(b))  u1 == Cardinality(Unlocking(b)')
             v == Cardinality(Verifying(b))  v1 == Cardinality(Verifying(b)')
             n == Cardinality(Requests)      s == Cardinality(Spent)
             f == account[b].failed          f1 == account'[b].failed
  <1>8. ASSUME account'[b].locked = None, f1 + 1 >= LockoutThreshold
        PROVE  f1 + u1 <= LockoutThreshold - 2 + n
    <2>1. CASE f1 = f /\ account'[b].locked = account[b].locked
      <3>1. f + u <= LockoutThreshold - 2 + n
        BY <1>7, <1>8, <2>1
      <3> HIDE DEF u, u1, n, f, f1
      <3>2. QED BY <1>1, <1>3, <1>4, <2>1, <3>1 DEF u, u1, n, f, f1
    <2>2. CASE f1 = 0
      BY <1>1, <1>3, <1>4, <1>8, <2>2
    <2>3. CASE f1 = f + 1 /\ r \in Unlocking(b) /\ account[b].locked = None
      <3>1. u1 + 1 <= u
        BY <1>5, <2>3
      <3>2. CASE f + 1 >= LockoutThreshold
        <4>1. f + u <= LockoutThreshold - 2 + n
          BY <1>7, <2>3, <3>2
        <4>2. QED BY <1>1, <1>3, <1>4, <2>3, <3>1, <4>1
      <3>3. CASE ~(f + 1 >= LockoutThreshold)
        BY <1>1, <1>3, <1>4, <1>8, <2>3, <3>3
      <3>4. QED BY <3>2, <3>3
    <2>4. QED BY <1>8, <2>1, <2>2, <2>3
  <1>9. ASSUME f1 >= CaptchaThreshold
        PROVE  f1 + v1 <= CaptchaThreshold - 1 + n + s
    <2>1. CASE f1 = f
      <3>1. f + v <= CaptchaThreshold - 1 + n + s
        BY <1>7, <1>9, <2>1
      <3>2. QED BY <1>1, <1>3, <1>4, <1>6, <2>1, <3>1
    <2>2. CASE f1 = 0
      BY <1>1, <1>9, <2>2
    <2>3. CASE f1 = f + 1 /\ r \in Verifying(b)
      <3>1. v1 + 1 <= v
        BY <1>5, <2>3
      <3>2. CASE f >= CaptchaThreshold
        <4>1. f + v <= CaptchaThreshold - 1 + n + s
          BY <1>7, <3>2
        <4>2. QED BY <1>1, <1>3, <1>4, <1>6, <2>3, <3>1, <4>1
      <3>3. CASE ~(f >= CaptchaThreshold)
        BY <1>1, <1>3, <1>4, <1>6, <1>9, <2>3, <3>3
      <3>4. QED BY <3>2, <3>3
    <2>4. QED BY <2>1, <2>2, <2>3
  <1>10. QED BY <1>6, <1>8, <1>9

\* One users row is written.
LEMMA RowWritten ==
    ASSUME Shape, NEW a \in Accounts, NEW row \in Row, account' = [account EXCEPT ![a] = row]
    PROVE  /\ account' \in [Accounts -> {NoAccount} \cup Row] /\ account'[a] = row
           /\ \A b \in Accounts : b # a => account'[b] = account[b]
           /\ Exists(a)' /\ \A b \in Accounts : b # a => (Exists(b)' <=> Exists(b))
           /\ \A b \in Accounts : Exists(b) => Exists(b)'
  <1>1. account \in [Accounts -> {NoAccount} \cup Row]
    BY DEF Shape, TypeOK
  <1>2. account' \in [Accounts -> {NoAccount} \cup Row] /\ account'[a] = row
          /\ \A b \in Accounts : b # a => account'[b] = account[b]
    BY <1>1
  <1>3. row.password # None
    BY AuthAssumption DEF Row
  <1>4. QED BY <1>2, <1>3 DEF Exists

\* What is left to show of a step that writes users rows.
LEMMA Written ==
    ASSUME IInv, Shape', UNCHANGED <<captcha, admits>>, ReqInv', NameInv', OneAccountPerName', ForceInv', GuessInv',
           NEW r \in Requests,
           \A b \in Accounts :
               /\ Unlocking(b)' \subseteq Unlocking(b) \ {r} /\ Verifying(b)' \subseteq Verifying(b) \ {r}
               /\ \/ account'[b].failed = account[b].failed /\ account'[b].locked = account[b].locked
                  \/ account'[b].failed = 0
                  \/ /\ account'[b].failed = account[b].failed + 1 /\ r \in Verifying(b)
                     /\ account'[b].locked = None => account[b].locked = None /\ r \in Unlocking(b)
    PROVE  IInv'
  <1>1. SpentInv' /\ CaptchaOnce'
    BY SameCaptchas
  <1>2. ASSUME NEW b \in Accounts
        PROVE  /\ account'[b].locked = None /\ account'[b].failed + 1 >= LockoutThreshold =>
                      account'[b].failed + Cardinality(Unlocking(b)') <= LockoutThreshold - 2 + Cardinality(Requests)
               /\ account'[b].failed >= CaptchaThreshold =>
                      account'[b].failed + Cardinality(Verifying(b)')
                          <= CaptchaThreshold - 1 + Cardinality(Requests) + Cardinality(Spent')
    BY RowCounts
  <1>3. LockInv' /\ GateInv'
    BY <1>2 DEF LockInv, GateInv
  <1>4. QED BY <1>1, <1>3 DEF IInv

\* The new password is strong, and no count or lock changes with it.
LEMMA StepChangePasswordWrite ==
    ASSUME IInv, NEW r \in Requests, ChangePasswordWrite(r)
    PROVE  IInv'
  <1> DEFINE a == req[r].acct
             row == UpdatePasswordHash(account[a], req[r].given)
  <1>1. /\ req[r].pc = "update" /\ account' = [account EXCEPT ![a] = row] /\ Goto(r, Idle)
        /\ UNCHANGED <<captcha, sessions, clock, guesses, admits, faults>> /\ Shape
    BY DEF ChangePasswordWrite, IInv
  <1>2. a \in Accounts /\ Exists(a) /\ req[r].given \in Strong
    BY <1>1, ReqFields DEF IInv, ReqInv, Informed
  <1>3. account[a] \in Row
    BY <1>1, <1>2, AccountFields
  <1>4. /\ row \in Row /\ row.failed = account[a].failed /\ row.locked = account[a].locked /\ row.raced = account[a].raced
    BY <1>2, <1>3, PasswordFacts
  <1> HIDE DEF row
  <1>5. /\ account' \in [Accounts -> {NoAccount} \cup Row] /\ account'[a] = row
        /\ \A b \in Accounts : b # a => account'[b] = account[b]
        /\ \A b \in Accounts : Exists(b) <=> Exists(b)'
    BY <1>1, <1>2, <1>4, RowWritten
  <1>6. req'[r] = Idle /\ OnlyReq(r) /\ req' \in [Requests -> {Idle} \cup Request]
    BY <1>1, GotoFacts
  <1>7. req'[r].pc = "idle" /\ req'[r].pc \notin LoggingIn /\ req'[r].pc \notin Checking
    BY <1>6 DEF Idle, LoggingIn, Checking
  <1>8. \A q \in Requests : q # r => Keeps(q)
    BY <1>6 DEF OnlyReq, Keeps
  <1>9. Shape'
    BY <1>1, <1>5, <1>6 DEF Shape, TypeOK
  <1>10. ReqInv'
    <2>1. Informed(r)'
      BY <1>7 DEF Informed, LoggingIn, Checking
    <2>2. QED BY <1>1, <1>5, <1>8, <2>1, InformedStay
  <1>11. \A b \in Accounts : /\ account'[b].failed = account[b].failed /\ account'[b].locked = account[b].locked
                             /\ account'[b].raced = account[b].raced
    BY <1>4, <1>5
  <1>12. NameInv' /\ OneAccountPerName'
    BY <1>5, <1>7, <1>8, <1>11, NamesStay
  <1>13. ForceInv'
    <2>1. ASSUME NEW q \in Requests, q # r, req[q].pc \in LoggingIn, InForce(req[q].acct)'
          PROVE  InForce(req[q].acct)
      <3>1. req'[q].acct = req[q].acct /\ req[q].acct \in Accounts
        BY <1>1, <1>8, <2>1, ReqFields DEF Keeps, LoggingIn, Checking
      <3>2. QED BY <1>1, <1>11, <2>1, <3>1 DEF InForce
    <2>2. QED BY <1>7, <1>8, <2>1, ForceStays
  <1>14. GuessInv'
    BY <1>1, <1>11 DEF IInv, GuessInv
  <1>15. QED BY <1>1, <1>7, <1>8, <1>9, <1>10, <1>11, <1>12, <1>13, <1>14, LeavesCounts, Written

\* A right password resets the counters, whatever they are by now.
LEMMA StepLoginResets ==
    ASSUME IInv, NEW r \in Requests, LoginResets(r)
    PROVE  IInv'
  <1> DEFINE a == req[r].acct
             row == ResetFailedLogin(account[a])
             rec == [req[r] EXCEPT !.pc = "session", !.failed = 0]
  <1>1. /\ req[r].pc = "verify" /\ req[r].given = req[r].hash /\ account' = [account EXCEPT ![a] = row]
        /\ guesses' = [guesses EXCEPT ![a] = 0] /\ Goto(r, rec)
        /\ UNCHANGED <<captcha, sessions, clock, admits, faults>> /\ Shape
    BY DEF LoginResets, IInv
  <1>2. a \in Accounts /\ Exists(a) /\ req[r] \in Request /\ Informed(r)
    BY <1>1, ReqFields DEF IInv, ReqInv, Informed, LoggingIn, Checking
  <1>3. account[a] \in Row
    BY <1>1, <1>2, AccountFields
  <1>4. row \in Row /\ row.failed = 0 /\ row.locked = None /\ row.raced = account[a].raced
    BY <1>3, ResetFacts
  <1>5. /\ rec \in Request /\ rec.pc = "session" /\ rec.acct = a /\ rec.given = req[r].given
        /\ rec.hash = req[r].hash /\ rec.now = req[r].now
    BY <1>2 DEF Request
  <1> HIDE DEF row, rec
  <1>6. /\ account' \in [Accounts -> {NoAccount} \cup Row] /\ account'[a] = row
        /\ \A b \in Accounts : b # a => account'[b] = account[b]
        /\ \A b \in Accounts : Exists(b) <=> Exists(b)'
    BY <1>1, <1>2, <1>4, RowWritten
  <1>7. req'[r] = rec /\ OnlyReq(r) /\ req' \in [Requests -> {Idle} \cup Request]
    BY <1>1, <1>5, GotoFacts
  <1>8. req'[r].pc = "session" /\ req'[r].acct = a /\ req'[r].pc \notin Checking
    BY <1>5, <1>7 DEF Checking
  <1>9. \A q \in Requests : q # r => Keeps(q)
    BY <1>7 DEF OnlyReq, Keeps
  <1>10. guesses \in [Accounts -> Nat] /\ guesses' \in [Accounts -> Nat] /\ guesses'[a] = 0
          /\ \A b \in Accounts : b # a => guesses'[b] = guesses[b]
    BY <1>1, <1>2 DEF Shape, TypeOK
  <1>11. Shape'
    BY <1>1, <1>6, <1>7, <1>10 DEF Shape, TypeOK
  <1>12. ReqInv'
    <2>1. Exists(req[r].acct)'
      BY <1>2, <1>6, <1>8 DEF Exists
    <2>2. Informed(r)'
      BY <1>1, <1>2, <1>5, <1>7, <1>8, <2>1 DEF Informed, LoggingIn, Checking
    <2>3. QED BY <1>1, <1>6, <1>9, <2>2, InformedStay
  <1>13. NameInv' /\ OneAccountPerName'
    BY <1>4, <1>6, <1>8, <1>9, NamesStay
  <1>14. ForceInv'
    <2>1. ASSUME NEW q \in Requests, q # r, req[q].pc \in LoggingIn, InForce(req[q].acct)'
          PROVE  InForce(req[q].acct)
      <3>1. req'[q].acct = req[q].acct /\ req[q].acct \in Accounts
        BY <1>1, <1>9, <2>1, ReqFields DEF Keeps, LoggingIn, Checking
      <3>2. account'[req[q].acct].locked # None /\ account'[req[q].acct].locked > clock
        BY <1>1, <2>1, <3>1 DEF InForce
      <3>3. QED BY <1>4, <1>6, <3>1, <3>2 DEF InForce
    <2>2. ~InForce(req[r].acct)'
      BY <1>4, <1>6, <1>8 DEF InForce
    <2>3. QED BY <1>9, <2>1, <2>2, ForceStays
  <1>15. GuessInv'
    <2>1. faults \in Nat /\ faults' = faults
      BY <1>1 DEF Shape, TypeOK
    <2>2. ASSUME NEW b \in Accounts
          PROVE  guesses'[b] <= account'[b].failed + faults'
      <3>1. CASE b = a
        BY <1>4, <1>6, <1>10, <2>1, <3>1
      <3>2. CASE b # a
        BY <1>6, <1>10, <2>1, <3>2 DEF IInv, GuessInv
      <3>3. QED BY <3>1, <3>2
    <2>3. QED BY <2>2 DEF GuessInv
  <1>16. \A b \in Accounts : \/ account'[b].failed = account[b].failed /\ account'[b].locked = account[b].locked
                             \/ account'[b].failed = 0
    BY <1>4, <1>6
  <1>17. QED BY <1>1, <1>8, <1>9, <1>11, <1>12, <1>13, <1>14, <1>15, <1>16, LeavesCounts, Written

\* A wrong password: the failure is counted, and the lock it may set is known to
\* every login under way on the account.
LEMMA StepLoginFails ==
    ASSUME IInv, NEW r \in Requests, LoginFails(r)
    PROVE  IInv'
  <1> DEFINE a == req[r].acct
             until == LockUntil(req[r].failed, req[r].now)
             row == RecordFailedLogin(account[a], until)
             pcs == {"captcha", "consume", "verify", "session"}
  <1>1. /\ req[r].pc = "verify" /\ account' = [account EXCEPT ![a] = row]
        /\ guesses' = [guesses EXCEPT ![a] = @ + 1]
        /\ req' = IF until = None THEN [req EXCEPT ![r] = Idle] ELSE Overtaken(r, {a}, pcs)
        /\ UNCHANGED <<captcha, sessions, clock, admits, faults>> /\ Shape
    BY DEF LoginFails, IInv
  <1>2. a \in Accounts /\ Exists(a) /\ req[r].failed \in Nat /\ req[r].now \in Time /\ req[r].now <= clock
    BY <1>1, ReqFields DEF IInv, ReqInv, Informed, LoggingIn, Checking
  <1>3. until \in Time \cup {None} /\ (until = None => req[r].failed + 1 < LockoutThreshold)
    <2>1. /\ LockoutDuration \in Nat /\ LockoutThreshold \in Nat /\ MaxTime \in Nat /\ CaptchaTTL \in Nat
          /\ clock <= MaxTime /\ clock \in Nat /\ req[r].now \in Nat
      BY <1>1, <1>2, AuthAssumption DEF Shape, TypeOK, Time
    <2>2. req[r].now + LockoutDuration \in Time /\ req[r].now + LockoutDuration \in Nat
      BY <1>2, <2>1 DEF Time
    <2>3. req[r].now + LockoutDuration # None
      BY <2>2, AuthAssumption
    <2>4. QED BY <1>2, <2>1, <2>2, <2>3 DEF LockUntil
  <1>4. account[a] \in Row /\ account[a].failed \in Nat
    BY <1>1, <1>2, AccountFields
  <1> HIDE DEF until
  <1>5. /\ row \in Row /\ row.failed = account[a].failed + 1 /\ row.raced = account[a].raced
        /\ row.locked = IF until = None THEN account[a].locked ELSE until
    BY <1>3, <1>4, RecordFacts
  <1> HIDE DEF row
  <1>6. /\ account' \in [Accounts -> {NoAccount} \cup Row] /\ account'[a] = row
        /\ \A b \in Accounts : b # a => account'[b] = account[b]
        /\ \A b \in Accounts : Exists(b) <=> Exists(b)'
    BY <1>1, <1>2, <1>5, RowWritten
  <1>7. /\ req'[r] = Idle /\ req' \in [Requests -> {Idle} \cup Request]
        /\ \A q \in Requests : q # r => Keeps(q)
        /\ until # None => \A q \in Requests : q # r /\ req[q].pc \in LoggingIn /\ req[q].acct = a => req'[q].overtaken
    <2>1. CASE until = None
      <3>1. Goto(r, Idle)
        BY <1>1, <2>1 DEF Goto
      <3>2. req'[r] = Idle /\ OnlyReq(r) /\ req' \in [Requests -> {Idle} \cup Request]
        BY <1>1, <3>1, GotoFacts
      <3>3. QED BY <2>1, <3>2 DEF OnlyReq, Keeps
    <2>2. CASE until # None
      <3>1. req' = Overtaken(r, {a}, pcs) /\ "idle" \notin pcs
        BY <1>1, <2>2
      <3> HIDE DEF a, pcs
      <3>2. /\ req' \in [Requests -> {Idle} \cup Request] /\ req'[r] = Idle
            /\ \A q \in Requests : q # r =>
                  /\ req'[q].pc = req[q].pc /\ req'[q].acct = req[q].acct /\ req'[q].given = req[q].given
                  /\ req'[q].hash = req[q].hash /\ req'[q].failed = req[q].failed
                  /\ req'[q].token = req[q].token /\ req'[q].now = req[q].now
                  /\ req[q].overtaken => req'[q].overtaken
                  /\ req[q].pc \in pcs /\ req[q].acct \in {a} => req'[q].overtaken
        BY <1>1, <3>1, OvertakenFacts
      <3>3. pcs = LoggingIn
        BY DEF pcs, LoggingIn, Checking
      <3>4. QED BY <3>2, <3>3 DEF Keeps
    <2>3. QED BY <2>1, <2>2
  <1>8. req'[r].pc = "idle" /\ req'[r].pc \notin LoggingIn /\ req'[r].pc \notin Checking
    BY <1>7 DEF Idle, LoggingIn, Checking
  <1>9. guesses \in [Accounts -> Nat] /\ guesses' \in [Accounts -> Nat] /\ guesses'[a] = guesses[a] + 1
          /\ \A b \in Accounts : b # a => guesses'[b] = guesses[b]
    BY <1>1, <1>2 DEF Shape, TypeOK
  <1>10. Shape'
    BY <1>1, <1>6, <1>7, <1>9 DEF Shape, TypeOK
  <1>11. ReqInv'
    <2>1. Informed(r)'
      BY <1>8 DEF Informed, LoggingIn, Checking
    <2>2. QED BY <1>1, <1>6, <1>7, <2>1, InformedStay
  <1>12. NameInv' /\ OneAccountPerName'
    BY <1>5, <1>6, <1>7, <1>8, NamesStay
  <1>13. ForceInv'
    <2>1. ASSUME NEW q \in Requests, q # r, req[q].pc \in LoggingIn, InForce(req[q].acct)'
          PROVE  InForce(req[q].acct) \/ req'[q].overtaken
      <3>1. req'[q].acct = req[q].acct /\ req[q].acct \in Accounts
        BY <1>1, <1>7, <2>1, ReqFields DEF Keeps, LoggingIn, Checking
      <3>2. account'[req[q].acct].locked # None /\ account'[req[q].acct].locked > clock
        BY <1>1, <2>1, <3>1 DEF InForce
      <3>3. CASE account'[req[q].acct].locked = account[req[q].acct].locked
        BY <3>2, <3>3 DEF InForce
      <3>4. CASE account'[req[q].acct].locked # account[req[q].acct].locked
        <4>1. req[q].acct = a /\ until # None
          BY <1>5, <1>6, <3>1, <3>4
        <4>2. QED BY <1>7, <2>1, <4>1
      <3>5. QED BY <3>3, <3>4
    <2>2. QED BY <1>7, <1>8, <2>1, ForceStays
  <1>14. GuessInv'
    <2>1. faults \in Nat /\ faults' = faults
      BY <1>1 DEF Shape, TypeOK
    <2>2. ASSUME NEW b \in Accounts
          PROVE  guesses'[b] <= account'[b].failed + faults'
      <3>1. guesses[b] <= account[b].failed + faults
        BY DEF IInv, GuessInv
      <3>2. CASE b = a
        BY <1>4, <1>5, <1>6, <1>9, <2>1, <3>1, <3>2
      <3>3. CASE b # a
        BY <1>6, <1>9, <2>1, <3>1, <3>3
      <3>4. QED BY <3>2, <3>3
    <2>3. QED BY <2>2 DEF GuessInv
  <1>15. r \in Verifying(a) /\ (until = None => r \in Unlocking(a))
    BY <1>1, <1>3 DEF Verifying, Unlocking, Checking
  <1>16. ASSUME NEW b \in Accounts
         PROVE  \/ account'[b].failed = account[b].failed /\ account'[b].locked = account[b].locked
                \/ account'[b].failed = 0
                \/ /\ account'[b].failed = account[b].failed + 1 /\ r \in Verifying(b)
                   /\ account'[b].locked = None => account[b].locked = None /\ r \in Unlocking(b)
    <2>1. CASE b = a
      <3>1. account'[b].failed = account[b].failed + 1 /\ r \in Verifying(b)
        BY <1>5, <1>6, <1>15, <2>1
      <3>2. account'[b].locked = None => account[b].locked = None /\ r \in Unlocking(b)
        BY <1>5, <1>6, <1>15, <2>1
      <3>3. QED BY <3>1, <3>2
    <2>2. CASE b # a
      BY <1>6, <2>2
    <2>3. QED BY <2>1, <2>2
  <1>17. \A b \in Accounts : Unlocking(b)' \subseteq Unlocking(b) \ {r} /\ Verifying(b)' \subseteq Verifying(b) \ {r}
    BY <1>7, <1>8, LeavesCounts
  <1>18. QED BY <1>1, <1>10, <1>11, <1>12, <1>13, <1>14, <1>16, <1>17, Written

\* A registration's INSERT: the row knows when another spelling came first, and
\* the registrations it comes before learn of it.
LEMMA StepRegisterInsert ==
    ASSUME IInv, NEW r \in Requests, RegisterInsert(r), ~Exists(req[r].acct)
    PROVE  IInv'
  <1> DEFINE a == req[r].acct
             row == NewUser(req[r].given, FALSE, req[r].overtaken)
             same == {b \in Accounts : Name[b] = Name[a]}
  <1>1. /\ req[r].pc = "register" /\ account' = [account EXCEPT ![a] = row]
        /\ req' = Overtaken(r, same, {"register"})
        /\ UNCHANGED <<captcha, sessions, clock, guesses, admits, faults>> /\ Shape
    BY DEF RegisterInsert, IInv
  <1>2. a \in Accounts /\ req[r].given \in Strong /\ req[r].overtaken \in BOOLEAN
    BY <1>1, ReqFields DEF IInv, ReqInv, Informed
  <1>3. row \in Row /\ row.failed = 0 /\ row.locked = None /\ row.raced = req[r].overtaken
    BY <1>2, NewUserFacts
  <1> HIDE DEF row
  <1>4. /\ account' \in [Accounts -> {NoAccount} \cup Row] /\ account'[a] = row
        /\ \A b \in Accounts : b # a => account'[b] = account[b]
        /\ \A b \in Accounts : b # a => (Exists(b)' <=> Exists(b))
        /\ \A b \in Accounts : Exists(b) => Exists(b)'
    BY <1>1, <1>2, <1>3, RowWritten
  <1>5. /\ req'[r] = Idle /\ req' \in [Requests -> {Idle} \cup Request]
        /\ \A q \in Requests : q # r => Keeps(q)
        /\ \A q \in Requests : q # r /\ req[q].pc = "register" /\ req[q].acct \in same => req'[q].overtaken
    <2>1. "idle" \notin {"register"}
      OBVIOUS
    <2> HIDE DEF same
    <2>2. /\ req' \in [Requests -> {Idle} \cup Request] /\ req'[r] = Idle
          /\ \A q \in Requests : q # r =>
                /\ req'[q].pc = req[q].pc /\ req'[q].acct = req[q].acct /\ req'[q].given = req[q].given
                /\ req'[q].hash = req[q].hash /\ req'[q].failed = req[q].failed
                /\ req'[q].token = req[q].token /\ req'[q].now = req[q].now
                /\ req[q].overtaken => req'[q].overtaken
                /\ req[q].pc \in {"register"} /\ req[q].acct \in same => req'[q].overtaken
      BY <1>1, <2>1, OvertakenFacts
    <2>3. QED BY <2>2 DEF Keeps
  <1>6. req'[r].pc = "idle" /\ req'[r].pc \notin LoggingIn /\ req'[r].pc \notin Checking
    BY <1>5 DEF Idle, LoggingIn, Checking
  <1>7. Shape'
    BY <1>1, <1>4, <1>5 DEF Shape, TypeOK
  <1>8. ReqInv'
    <2>1. Informed(r)'
      BY <1>6 DEF Informed, LoggingIn, Checking
    <2>2. QED BY <1>1, <1>4, <1>5, <2>1, InformedStay
  <1>9. NameInv'
    <2>1. ASSUME NEW q \in Requests, NEW b \in Accounts, req'[q].pc = "register", Exists(b)', b # req'[q].acct,
                 Name[b] = Name[req'[q].acct]
          PROVE  req'[q].overtaken
      <3>1. q # r
        BY <1>6, <2>1
      <3>2. Keeps(q)
        BY <1>5, <3>1
      <3>3. req[q].pc = "register" /\ req'[q].acct = req[q].acct /\ req[q].acct \in Accounts
        BY <1>1, <2>1, <3>2, ReqFields DEF Keeps
      <3>4. CASE b = a
        <4>1. req[q].acct \in same
          BY <2>1, <3>3, <3>4
        <4>2. QED BY <1>5, <3>1, <3>3, <4>1
      <3>5. CASE b # a
        <4>1. Exists(b)
          BY <1>4, <2>1, <3>5
        <4>2. req[q].overtaken
          BY <2>1, <3>3, <4>1 DEF IInv, NameInv
        <4>3. QED BY <3>2, <4>2 DEF Keeps
      <3>6. QED BY <3>4, <3>5
    <2>2. QED BY <2>1 DEF NameInv
  <1>10. OneAccountPerName'
    <2>1. \A b \in Accounts : b # a /\ Exists(b)' /\ Name[b] = Name[a] => account'[a].raced
      BY <1>1, <1>3, <1>4 DEF IInv, NameInv
    <2>2. ASSUME NEW b \in Accounts, NEW c \in Accounts, b # c, Exists(b)', Exists(c)', Name[b] = Name[c]
          PROVE  account'[b].raced \/ account'[c].raced
      <3>1. CASE b = a
        BY <2>1, <2>2, <3>1
      <3>2. CASE c = a
        BY <2>1, <2>2, <3>2
      <3>3. CASE b # a /\ c # a
        BY <1>4, <2>2, <3>3 DEF IInv, OneAccountPerName
      <3>4. QED BY <3>1, <3>2, <3>3
    <2>3. QED BY <2>2 DEF OneAccountPerName
  <1>11. ForceInv'
    <2>1. ASSUME NEW q \in Requests, q # r, req[q].pc \in LoggingIn, InForce(req[q].acct)'
          PROVE  InForce(req[q].acct)
      <3>1. req'[q].acct = req[q].acct /\ req[q].acct \in Accounts
        BY <1>1, <1>5, <2>1, ReqFields DEF Keeps, LoggingIn, Checking
      <3>2. account'[req[q].acct].locked # None /\ account'[req[q].acct].locked > clock
        BY <1>1, <2>1, <3>1 DEF InForce
      <3>3. QED BY <1>3, <1>4, <3>1, <3>2 DEF InForce
    <2>2. QED BY <1>5, <1>6, <2>1, ForceStays
  <1>12. account[a].failed = 0
    BY <1>1, <1>2, AccountFields
  <1>13. GuessInv'
    BY <1>1, <1>3, <1>4, <1>12 DEF IInv, GuessInv
  <1>14. \A b \in Accounts : \/ account'[b].failed = account[b].failed /\ account'[b].locked = account[b].locked
                             \/ account'[b].failed = 0
    BY <1>3, <1>4
  <1>15. QED BY <1>1, <1>5, <1>6, <1>7, <1>8, <1>9, <1>10, <1>11, <1>13, <1>14, LeavesCounts, Written

\* A restart: no request survives, and a seed account is created only when no
\* spelling of its name is taken.
LEMMA StepRestart ==
    ASSUME IInv, Restart
    PROVE  IInv'
  <1>1. /\ faults' = faults + 1 /\ req' = [q \in Requests |-> Idle]
        /\ UNCHANGED <<captcha, sessions, clock, guesses, admits>> /\ Shape
    BY DEF Restart, IInv
  <1> DEFINE new(a) == a \in Seeds /\ GetByUsername(a) = {}
             row == NewUser(SeedPassword, TRUE, FALSE)
  <1>2. row \in Row /\ row.failed = 0 /\ row.locked = None /\ row.password # None
    <2>1. SeedPassword \in Strong /\ SeedPassword # None /\ TRUE \in BOOLEAN /\ FALSE \in BOOLEAN
      BY AuthAssumption
    <2>2. QED BY <2>1, NewUserFacts
  <1>3. /\ account' \in [Accounts -> {NoAccount} \cup Row]
        /\ \A b \in Accounts : account'[b] = account[b] \/ (new(b) /\ account'[b] = row)
    <2>1. account \in [Accounts -> {NoAccount} \cup Row]
      BY <1>1 DEF Shape, TypeOK
    <2>2. CASE account' = account
      BY <2>1, <2>2
    <2>3. CASE account' = [a \in Accounts |-> IF new(a) THEN row ELSE account[a]]
      BY <1>2, <2>1, <2>3
    <2>4. QED BY <2>2, <2>3 DEF Restart
  <1> HIDE DEF row
  <1>4. \A q \in Requests : req'[q].pc = "idle"
    BY <1>1 DEF Idle
  <1>5. \A b \in Accounts : Exists(b) => Exists(b)'
    BY <1>2, <1>3 DEF Exists
  <1>6. \A b \in Accounts : Exists(b)' => (Exists(b) /\ account'[b] = account[b]) \/ new(b)
    BY <1>3 DEF Exists
  <1>7. faults \in Nat /\ faults' \in Nat
    BY <1>1 DEF Shape, TypeOK
  <1>8. Shape'
    BY <1>1, <1>3, <1>5, <1>7 DEF Shape, TypeOK
  <1>9. ReqInv' /\ NameInv' /\ ForceInv'
    BY <1>4 DEF ReqInv, Informed, NameInv, ForceInv, LoggingIn, Checking
  <1>10. OneAccountPerName'
    <2>1. ASSUME NEW b \in Accounts, NEW c \in Accounts, b # c, Exists(b)', Exists(c)', Name[b] = Name[c]
          PROVE  account'[b].raced \/ account'[c].raced
      <3>1. ~(new(b) /\ new(c))
        BY <2>1, AuthAssumption
      <3>2. ~(new(b) /\ Exists(c)) /\ ~(new(c) /\ Exists(b))
        BY <2>1 DEF GetByUsername
      <3>3. Exists(b) /\ Exists(c) /\ account'[b] = account[b] /\ account'[c] = account[c]
        BY <1>6, <2>1, <3>1, <3>2
      <3>4. QED BY <2>1, <3>3 DEF IInv, OneAccountPerName
    <2>2. QED BY <2>1 DEF OneAccountPerName
  <1>11. \A b \in Accounts : \/ account'[b].failed = account[b].failed /\ account'[b].locked = account[b].locked
                             \/ account'[b].failed = 0
    BY <1>2, <1>3
  <1>12. GuessInv'
    <2>1. ASSUME NEW b \in Accounts
          PROVE  guesses'[b] <= account'[b].failed + faults'
      <3>1. guesses[b] <= account[b].failed + faults /\ guesses[b] \in Nat /\ account[b].failed \in Nat
        BY <1>1, AccountFields DEF IInv, GuessInv, Shape, TypeOK
      <3>2. CASE account'[b] = account[b]
        BY <1>1, <1>7, <3>1, <3>2
      <3>3. CASE new(b) /\ account'[b] = row
        <4>1. ~Exists(b)
          BY <3>3 DEF GetByUsername
        <4>2. account[b].failed = 0
          BY <1>1, <4>1, AccountFields
        <4>3. QED BY <1>1, <1>2, <1>7, <3>1, <3>3, <4>2
      <3>4. QED BY <1>3, <3>2, <3>3
    <2>2. QED BY <2>1 DEF GuessInv
  <1>13. PICK r \in Requests : TRUE
    BY AuthAssumption
  <1>14. \A b \in Accounts : Unlocking(b)' \subseteq Unlocking(b) \ {r} /\ Verifying(b)' \subseteq Verifying(b) \ {r}
    BY <1>4 DEF Unlocking, Verifying, Checking
  <1>15. QED BY <1>1, <1>8, <1>9, <1>10, <1>11, <1>12, <1>14, Written

-----------------------------------------------------------------------------
(* The invariant.                                                          *)

\* The seed accounts have no failures and no locks, and no request runs.
LEMMA Initially ==
    Init => IInv
  <1> SUFFICES ASSUME Init PROVE IInv
    OBVIOUS
  <1>1. 0 \in Time /\ 0 <= MaxTime
    BY AuthAssumption DEF Time
  <1>2. /\ \A a \in Accounts : account[a] = NoAccount /\ sessions[a] = 0 /\ guesses[a] = 0
        /\ \A r \in Requests : req[r] = Idle
        /\ \A t \in Captchas : admits[t] = 0
        /\ faults = 0 /\ clock = 0
    BY DEF Init
  <1>3. \A a \in Accounts : ~Exists(a) /\ account[a].failed = 0
    BY <1>2 DEF NoAccount, Exists
  <1>4. \A r \in Requests : req[r].pc = "idle"
    BY <1>2 DEF Idle
  <1>5. [state |-> "unused", expires |-> 0] \in Challenge
    BY <1>1 DEF Challenge
  <1>6. TypeOK
    BY <1>1, <1>5 DEF Init, TypeOK
  <1>7. Shape
    BY <1>1, <1>2, <1>6 DEF Shape
  <1>8. ReqInv /\ NameInv /\ ForceInv /\ OneAccountPerName
    BY <1>3, <1>4 DEF ReqInv, Informed, NameInv, ForceInv, OneAccountPerName, LoggingIn, Checking
  <1>9. Spent = {} /\ IsFiniteSet({}) /\ Cardinality({}) = 0
    <2>1. Spent = {}
      BY <1>2 DEF Spent
    <2>2. QED BY <2>1, FS_EmptySet
  <1>10. SpentInv /\ CaptchaOnce
    BY <1>2, <1>9 DEF SpentInv, CaptchaOnce
  <1>11. GuessInv
    BY <1>2, <1>3 DEF GuessInv
  <1>12. LockInv
    <2>1. \A a \in Accounts : Unlocking(a) = {}
      BY <1>4 DEF Unlocking, Checking
    <2>2. Cardinality(Requests) \in Nat /\ Cardinality(Requests) >= 1
      <3>1. Cardinality(Requests) \in Nat /\ Cardinality(Requests) # 0
        BY FS_CardinalityType, FS_EmptySet, AuthAssumption
      <3>2. QED BY <3>1
    <2>3. LockoutThreshold \in Nat /\ LockoutThreshold >= 1
      BY AuthAssumption
    <2>4. ASSUME NEW a \in Accounts, account[a].failed + 1 >= LockoutThreshold
          PROVE  account[a].failed + Cardinality(Unlocking(a)) <= LockoutThreshold - 2 + Cardinality(Requests)
      <3>1. account[a].failed = 0 /\ Cardinality(Unlocking(a)) = 0
        BY <1>3, <1>9, <2>1
      <3>2. QED BY <2>2, <2>3, <2>4, <3>1
    <2>5. QED BY <2>4 DEF LockInv
  <1>13. GateInv
    <2>1. CaptchaThreshold \in Nat /\ CaptchaThreshold >= 1
      BY AuthAssumption
    <2>2. \A a \in Accounts : ~(account[a].failed >= CaptchaThreshold)
      BY <1>3, <2>1
    <2>3. QED BY <2>2 DEF GateInv
  <1>14. QED BY <1>7, <1>8, <1>10, <1>11, <1>12, <1>13 DEF IInv

\* What changes nothing preserves everything.
LEMMA Stutters ==
    ASSUME IInv, UNCHANGED vars
    PROVE  IInv'
  BY DEF vars, IInv, Shape, TypeOK, ReqInv, Informed, NameInv, OneAccountPerName, ForceInv, GuessInv, LockInv, GateInv,
         Exists, InForce, Unlocking, Verifying, Spent, SpentInv, CaptchaOnce

\* Every step preserves the inductive invariant.
LEMMA Preserved ==
    ASSUME IInv, [Next]_vars
    PROVE  IInv'
  <1>1. CASE Tick
    BY <1>1, StepTick
  <1>2. CASE \E r \in Requests, a \in Accounts, p \in Passwords : RegisterCheck(r, a, p)
    BY <1>2, StepRegisterCheck
  <1>3. CASE \E r \in Requests : RegisterInsert(r)
    BY <1>3, StepRegisterTaken, StepRegisterInsert
  <1>4. CASE \E r \in Requests, n \in Accounts, p \in Passwords, t \in Captchas \cup {None}, right \in BOOLEAN :
                LoginRead(r, n, p, t, right)
    BY <1>4, StepLoginRead
  <1>5. CASE \E n \in Accounts : LoginRefused(n)
    BY <1>5, Stutters DEF LoginRefused
  <1>6. CASE (\E n \in Accounts : LoginChallenged(n)) \/ IssueCaptcha
    BY <1>6, StepMint DEF LoginChallenged, IssueCaptcha
  <1>7. CASE \E r \in Requests : CaptchaRead(r) \/ CaptchaConsume(r)
    BY <1>7, StepCaptchaRead, StepCaptchaConsume
  <1>8. CASE \E r \in Requests : LoginFails(r) \/ LoginResets(r) \/ LoginOpensSession(r)
    BY <1>8, StepLoginFails, StepLoginResets, StepLoginOpensSession
  <1>9. CASE \E a \in Accounts : Logout(a)
    BY <1>9, StepLogout
  <1>10. CASE \E r \in Requests, a \in Accounts, p \in Passwords : ChangePasswordRead(r, a, p)
    BY <1>10, StepChangePasswordRead
  <1>11. CASE \E r \in Requests : ChangePasswordWrite(r) \/ StatementError(r)
    BY <1>11, StepChangePasswordWrite, StepStatementError
  <1>12. CASE Restart
    BY <1>12, StepRestart
  <1>13. CASE UNCHANGED vars
    BY <1>13, Stutters
  <1>14. QED BY <1>1, <1>2, <1>3, <1>4, <1>5, <1>6, <1>7, <1>8, <1>9, <1>10, <1>11, <1>12, <1>13 DEF Next

\* The inductive invariant holds in every state of every behaviour.
THEOREM Inductive == Spec => []IInv
  <1>1. Init => IInv
    BY Initially
  <1>2. IInv /\ [Next]_vars => IInv'
    BY Preserved
  <1>3. QED BY <1>1, <1>2, PTL DEF Spec

\* Every stored password obeys the policy, and tables and requests hold values of
\* their types, for any number of accounts, challenges and requests.
THEOREM TypeCorrect == Spec => []TypeOK
  <1>1. IInv => TypeOK
    BY DEF IInv, Shape
  <1>2. QED BY <1>1, Inductive, PTL

\* Register: two spellings of one name both have an account only when one of the
\* two rows was inserted by a registration whose check another had overtaken.
THEOREM UniqueNames == Spec => []OneAccountPerName
  <1>1. IInv => OneAccountPerName
    BY DEF IInv
  <1>2. QED BY <1>1, Inductive, PTL

\* verifyCaptcha: Consume lets one login through per challenge, however many
\* requests verify it at once.
THEOREM OneLoginPerCaptcha == Spec => []CaptchaOnce
  <1>1. IInv => CaptchaOnce
    BY DEF IInv
  <1>2. QED BY <1>1, Inductive, PTL

\* Login and RecordFailedLogin: an account that no lock protects has had at most
\* LockoutThreshold - 1 wrong passwords checked, plus one per further concurrent
\* request and per failed statement.
THEOREM LockedInTime == Spec => []LockInTime
  <1>1. ASSUME IInv
        PROVE  LockInTime
    <2>1. ASSUME NEW a \in Accounts, account[a].locked = None
          PROVE  guesses[a] <= LockoutThreshold - 2 + Cardinality(Requests) + faults
      <3>1. /\ guesses[a] \in Nat /\ faults \in Nat /\ account[a].failed \in Nat
            /\ guesses[a] <= account[a].failed + faults
        BY <1>1, AccountFields DEF IInv, Shape, TypeOK, GuessInv
      <3>2. Unlocking(a) \in SUBSET Requests
        BY DEF Unlocking
      <3>3. Cardinality(Unlocking(a)) \in Nat /\ Cardinality(Requests) \in Nat /\ LockoutThreshold \in Nat
        BY <3>2, FewerLogins, AuthAssumption
      <3>4. account[a].failed <= LockoutThreshold - 2 + Cardinality(Requests)
        <4>1. CASE account[a].failed + 1 >= LockoutThreshold
          <5>1. account[a].failed + Cardinality(Unlocking(a)) <= LockoutThreshold - 2 + Cardinality(Requests)
            BY <1>1, <2>1, <4>1 DEF IInv, LockInv
          <5>2. QED BY <3>1, <3>3, <5>1
        <4>2. CASE ~(account[a].failed + 1 >= LockoutThreshold)
          BY <3>1, <3>3, <4>2
        <4>3. QED BY <4>1, <4>2
      <3>5. QED BY <3>1, <3>3, <3>4
    <2>2. QED BY <2>1 DEF LockInTime
  <1>2. QED BY <1>1, Inductive, PTL

\* CaptchaRequired: wrong passwords beyond the free ones have cost a spent
\* challenge each, but for concurrent requests and failed statements.
THEOREM GateHolds == Spec => []CaptchaGate
  <1>1. ASSUME IInv
        PROVE  CaptchaGate
    <2>1. ASSUME NEW a \in Accounts
          PROVE  guesses[a] <= CaptchaThreshold - 1 + Cardinality(Requests) + faults + Cardinality(Spent)
      <3>1. /\ guesses[a] \in Nat /\ faults \in Nat /\ account[a].failed \in Nat
            /\ guesses[a] <= account[a].failed + faults
        BY <1>1, AccountFields DEF IInv, Shape, TypeOK, GuessInv
      <3>2. Verifying(a) \in SUBSET Requests
        BY DEF Verifying
      <3>3. Cardinality(Verifying(a)) \in Nat /\ Cardinality(Requests) \in Nat /\ CaptchaThreshold \in Nat
        BY <3>2, FewerLogins, AuthAssumption
      <3>4. Cardinality(Spent) \in Nat
        BY <1>1, FS_CardinalityType DEF IInv, SpentInv
      <3>5. account[a].failed <= CaptchaThreshold - 1 + Cardinality(Requests) + Cardinality(Spent)
        <4>1. CASE account[a].failed >= CaptchaThreshold
          <5>1. account[a].failed + Cardinality(Verifying(a))
                    <= CaptchaThreshold - 1 + Cardinality(Requests) + Cardinality(Spent)
            BY <1>1, <4>1 DEF IInv, GateInv
          <5>2. QED BY <3>1, <3>3, <3>4, <5>1
        <4>2. CASE ~(account[a].failed >= CaptchaThreshold)
          BY <3>1, <3>3, <3>4, <4>2
        <4>3. QED BY <4>1, <4>2
      <3>6. QED BY <3>1, <3>3, <3>4, <3>5
    <2>2. QED BY <2>1 DEF CaptchaGate, Spent
  <1>2. QED BY <1>1, Inductive, PTL

-----------------------------------------------------------------------------
(* The lock holds.                                                         *)

\* The one request that may lift a lock in force, or open a session under it.
Excused(a, r) ==
    /\ req[r].acct = a /\ req[r].pc \in {"verify", "session"} /\ req[r].overtaken
    /\ req[r].given = req[r].hash \/ req[r].now + LockoutDuration <= clock

\* A login under way on a locked account knows that it was overtaken.
LEMMA KnowsLock ==
    ASSUME IInv, NEW a \in Accounts, InForce(a), NEW r \in Requests, req[r].pc \in LoggingIn, req[r].acct = a
    PROVE  req[r].overtaken
  BY DEF IInv, ForceInv

\* A step that leaves the lock and the sessions of an account alone.
LEMMA LockLeft ==
    ASSUME NEW a \in Accounts, InForce(a), clock' = clock, account'[a].locked = account[a].locked,
           ~(sessions'[a] > sessions[a])
    PROVE  ~(~InForce(a)' \/ sessions'[a] > sessions[a])
  BY DEF InForce

\* The sessions of an account that are left as they are do not grow.
LEMMA NoneOpened ==
    ASSUME IInv, NEW a \in Accounts, sessions'[a] = sessions[a]
    PROVE  ~(sessions'[a] > sessions[a])
  <1>1. sessions[a] \in Nat
    BY DEF IInv, Shape, TypeOK
  <1>2. QED BY <1>1

\* A step at which a lock goes, or a session opens under it, is one that LockHolds excuses.
LEMMA LockStep ==
    ASSUME IInv, [Next]_vars, NEW a \in Accounts, InForce(a), clock' = clock,
           ~InForce(a)' \/ sessions'[a] > sessions[a]
    PROVE  \E r \in Requests : Excused(a, r)
  <1>1. Shape /\ Exists(a) /\ clock \in Nat /\ account \in [Accounts -> {NoAccount} \cup Row] /\ sessions \in [Accounts -> Nat]
    <2>1. Shape /\ clock \in Nat /\ account \in [Accounts -> {NoAccount} \cup Row] /\ sessions \in [Accounts -> Nat]
      BY AuthAssumption DEF IInv, Shape, TypeOK, Time
    <2>2. QED BY <2>1, AccountFields DEF InForce
  <1>2. ~(UNCHANGED <<account, sessions>>)
    BY LockLeft, NoneOpened
  <1>3. ASSUME NEW r \in Requests, RegisterInsert(r)
        PROVE  FALSE
    <2>1. UNCHANGED sessions /\ req[r].pc = "register"
      BY <1>3 DEF RegisterInsert
    <2>2. account'[a] = account[a]
      <3>1. CASE Exists(req[r].acct)
        BY <1>3, <3>1 DEF RegisterInsert
      <3>2. CASE ~Exists(req[r].acct)
        <4>1. req[r].acct # a
          BY <1>1, <3>2
        <4>2. account' = [account EXCEPT ![req[r].acct] = NewUser(req[r].given, FALSE, req[r].overtaken)]
          BY <1>3, <3>2 DEF RegisterInsert
        <4>3. QED BY <1>1, <4>1, <4>2
      <3>3. QED BY <3>1, <3>2
    <2>3. QED BY <2>1, <2>2, LockLeft, NoneOpened
  <1>4. ASSUME NEW r \in Requests, LoginFails(r)
        PROVE  Excused(a, r)
    <2> DEFINE until == LockUntil(req[r].failed, req[r].now)
    <2>1. /\ req[r].pc = "verify" /\ UNCHANGED sessions
          /\ account' = [account EXCEPT ![req[r].acct] = RecordFailedLogin(account[req[r].acct], until)]
      BY <1>4 DEF LoginFails
    <2>2. account'[a].locked # account[a].locked
      BY <2>1, LockLeft, NoneOpened
    <2>3. req[r].acct = a
      BY <1>1, <2>1, <2>2
    <2>4. account'[a] = RecordFailedLogin(account[a], until)
      BY <1>1, <2>1, <2>3
    <2>5. account[a] \in Row
      BY <1>1, AccountFields
    <2>6. account'[a].locked = IF until = None THEN account[a].locked ELSE until
      <3> HIDE DEF until
      <3>1. account'[a] = [account[a] EXCEPT !.failed = @ + 1, !.locked = IF until = None THEN @ ELSE until]
        BY <2>4 DEF RecordFailedLogin
      <3>2. QED BY <2>5, <3>1 DEF Row
    <2>7. until # None /\ account'[a].locked = until
      BY <2>2, <2>6
    <2>8. until = req[r].now + LockoutDuration
      BY <2>7 DEF LockUntil
    <2>9. req[r].now \in Nat /\ LockoutDuration \in Nat
      BY <1>1, <2>1, ReqFields, AuthAssumption DEF Time
    <2>10. ~InForce(a)'
      BY <2>1, NoneOpened
    <2>11. ~(until > clock)
      BY <2>7, <2>10 DEF InForce
    <2>12. req[r].now + LockoutDuration <= clock
      <3> HIDE DEF until
      <3>1. QED BY <1>1, <2>8, <2>9, <2>11
    <2>13. req[r].overtaken
      BY <2>1, <2>3, KnowsLock DEF LoggingIn, Checking
    <2>14. QED BY <2>1, <2>3, <2>12, <2>13 DEF Excused
  <1>5. ASSUME NEW r \in Requests, LoginResets(r)
        PROVE  Excused(a, r)
    <2>1. /\ req[r].pc = "verify" /\ req[r].given = req[r].hash /\ UNCHANGED sessions
          /\ account' = [account EXCEPT ![req[r].acct] = ResetFailedLogin(account[req[r].acct])]
      BY <1>5 DEF LoginResets
    <2>2. req[r].acct = a
      <3>1. account'[a] # account[a]
        BY <2>1, LockLeft, NoneOpened
      <3>2. QED BY <1>1, <2>1, <3>1
    <2>3. req[r].overtaken
      BY <2>1, <2>2, KnowsLock DEF LoggingIn, Checking
    <2>4. QED BY <2>1, <2>2, <2>3 DEF Excused
  <1>6. ASSUME NEW r \in Requests, LoginOpensSession(r)
        PROVE  Excused(a, r)
    <2>1. /\ req[r].pc = "session" /\ UNCHANGED account
          /\ sessions' = [sessions EXCEPT ![req[r].acct] = @ + 1]
      BY <1>6 DEF LoginOpensSession
    <2>2. req[r].given = req[r].hash
      BY <2>1 DEF IInv, ReqInv, Informed
    <2>3. req[r].acct = a
      <3>1. sessions'[a] # sessions[a]
        BY <2>1, LockLeft, NoneOpened
      <3>2. QED BY <1>1, <2>1, <3>1
    <2>4. req[r].overtaken
      BY <2>1, <2>3, KnowsLock DEF LoggingIn, Checking
    <2>5. QED BY <2>1, <2>2, <2>3, <2>4 DEF Excused
  <1>7. ASSUME NEW b \in Accounts, Logout(b)
        PROVE  FALSE
    <2>1. UNCHANGED account /\ sessions' = [sessions EXCEPT ![b] = @ - 1]
      BY <1>7 DEF Logout
    <2>2. ~(sessions'[a] > sessions[a])
      BY <1>1, <2>1
    <2>3. QED BY <2>1, <2>2, LockLeft
  <1>8. ASSUME NEW r \in Requests, ChangePasswordWrite(r)
        PROVE  FALSE
    <2>1. /\ UNCHANGED sessions
          /\ account' = [account EXCEPT ![req[r].acct] = UpdatePasswordHash(account[req[r].acct], req[r].given)]
      BY <1>8 DEF ChangePasswordWrite
    <2>2. account'[a].locked = account[a].locked
      <3>1. CASE req[r].acct = a
        <4>1. account[a] \in Row
          BY <1>1, AccountFields
        <4>2. account'[a] = [account[a] EXCEPT !.password = req[r].given, !.rotate = FALSE]
          BY <1>1, <2>1, <3>1 DEF UpdatePasswordHash
        <4>3. QED BY <4>1, <4>2 DEF Row
      <3>2. CASE req[r].acct # a
        BY <1>1, <2>1, <3>2
      <3>3. QED BY <3>1, <3>2
    <2>3. QED BY <2>1, <2>2, LockLeft, NoneOpened
  <1>9. ASSUME Restart
        PROVE  FALSE
    <2>1. UNCHANGED sessions
      BY <1>9 DEF Restart
    <2>2. GetByUsername(a) # {}
      BY <1>1 DEF GetByUsername
    <2>3. account'[a] = account[a]
      BY <1>9, <2>2 DEF Restart
    <2>4. QED BY <2>1, <2>3, LockLeft, NoneOpened
  <1>10. ~Tick
    BY <1>1 DEF Tick
  <1>11. \A r \in Requests, b \in Accounts, p \in Passwords : ~RegisterCheck(r, b, p) /\ ~ChangePasswordRead(r, b, p)
    BY <1>2 DEF RegisterCheck, ChangePasswordRead
  <1>12. \A r \in Requests, n \in Accounts, p \in Passwords, t \in Captchas \cup {None}, right \in BOOLEAN :
             ~LoginRead(r, n, p, t, right)
    BY <1>2 DEF LoginRead
  <1>13. ~IssueCaptcha /\ \A n \in Accounts : ~LoginRefused(n) /\ ~LoginChallenged(n)
    BY <1>2 DEF IssueCaptcha, LoginRefused, LoginChallenged, vars
  <1>14. \A r \in Requests : ~CaptchaRead(r) /\ ~CaptchaConsume(r) /\ ~StatementError(r)
    BY <1>2 DEF CaptchaRead, CaptchaConsume, StatementError
  <1>15. ~(UNCHANGED vars)
    BY <1>2 DEF vars
  <1>16. QED BY <1>3, <1>4, <1>5, <1>6, <1>7, <1>8, <1>9, <1>10, <1>11, <1>12, <1>13, <1>14, <1>15 DEF Next

\* Login: a lock in force is lifted, and a session opened under it, only by a login
\* that had read the row before the lock was written and either knew the password
\* or had been under way for as long as a lock lasts.
THEOREM LockKept == Spec => LockHolds
  <1>1. IInv /\ [Next]_vars =>
            \A a \in Accounts :
                InForce(a) /\ clock' = clock /\ (~InForce(a)' \/ sessions'[a] > sessions[a]) =>
                    \E r \in Requests : /\ req[r].acct = a
                                        /\ req[r].pc \in {"verify", "session"}
                                        /\ req[r].overtaken
                                        /\ \/ req[r].given = req[r].hash
                                           \/ req[r].now + LockoutDuration <= clock
    BY LockStep DEF Excused
  <1>2. QED BY <1>1, Inductive, PTL DEF Spec, LockHolds
=============================================================================
