-------------------------- MODULE EmailVerification --------------------------
(***************************************************************************)
(* Registration by mailed code, for one email address: every query of      *)
(* EmailVerificationService and of AuthService.register filters by it, so  *)
(* addresses do not interact.  `created', `expires', `attempts',           *)
(* `consumed' and `accounts' are committed rows; a registration keeps what *)
(* its open transaction has written in `tx' and holds the row lock of that *)
(* code.  PostgreSQL and Python read one clock.  Passwords, tokens and the *)
(* text of the mail are left out.                                          *)
(***************************************************************************)
EXTENDS Integers, FiniteSets

CONSTANTS
    Codes,          \* rows of email_verification_codes, each with its own code
    NoCode,         \* no row; as what a user typed, a code that was never mailed
    Senders,        \* coroutines of POST /auth/email-verification-code
    Registrants,    \* coroutines of POST /auth/register
    Resend,         \* EMAIL_CODE_RESEND_INTERVAL_SECONDS
    Expire,         \* EMAIL_CODE_EXPIRE_MINUTES
    Day, DailyLimit,    \* EMAIL_CODE_DAILY_LIMIT codes a day
    MaxAttempts,    \* EMAIL_CODE_MAX_ATTEMPTS
    MaxTime         \* bound on the clock

ASSUME NumbersAssumption ==
    /\ Resend \in Nat /\ Expire \in Nat /\ Day \in Nat /\ DailyLimit \in Nat
    /\ MaxAttempts \in Nat /\ MaxTime \in Nat

ASSUME NoCodeAssumption == NoCode \notin Codes

ASSUME SendersAssumption == IsFiniteSet(Senders) /\ Senders # {}

VARIABLES
    clock,
    created,    \* created_at of a committed row, -1 while there is none
    expires,    \* its expires_at
    attempts,   \* attempt_count
    consumed,   \* is consumed_at set?
    accounts,   \* users rows of the address, named by who inserted them
    begun,      \* sender -> when its transaction began, -1: not sending
    checked,    \* sender -> `now' of the check it has passed, -1: none yet
    stage,      \* registrant -> where it stands
    tx,         \* registrant -> the row it read, with its uncommitted changes
    tries       \* history: wrong codes compared with each row, up to the bound

emailVars == <<clock, created, expires, attempts, consumed, accounts, begun, checked, stage, tx, tries>>
rows == <<created, expires, attempts, consumed, accounts>>
sending == <<begun, checked>>
registering == <<stage, tx, tries>>

(* "found": no user yet; "wrong", "right": compared with the newest code;  *)
(* "counted", "consumed": its row updated; "inserted": the users row too.  *)
Stages == {"idle", "found", "wrong", "right", "counted", "consumed", "inserted"}
NoTx == [code |-> NoCode, attempts |-> 0, consumed |-> FALSE]

Exists(c) == created[c] >= 0
Usable == {c \in Codes : Exists(c) /\ ~consumed[c]}
Newest(S) == {c \in S : \A d \in S : created[d] <= created[c]}
Since(t) == {c \in Codes : Exists(c) /\ created[c] >= t}

(* An UPDATE holds its row, an INSERT its unique key, to the transaction's end. *)
RowFree(q) ==
    \A p \in Registrants \ {q} :
        stage[p] \in {"counted", "consumed", "inserted"} => tx[p].code # tx[q].code
EmailFree(q) == \A p \in Registrants \ {q} : stage[p] # "inserted"

EmailInit ==
    /\ clock = 0
    /\ created = [c \in Codes |-> -1]
    /\ expires = [c \in Codes |-> 0]
    /\ attempts = [c \in Codes |-> 0]
    /\ consumed = [c \in Codes |-> FALSE]
    /\ accounts = {}
    /\ begun = [s \in Senders |-> -1]
    /\ checked = [s \in Senders |-> -1]
    /\ stage = [q \in Registrants |-> "idle"]
    /\ tx = [q \in Registrants |-> NoTx]
    /\ tries = [c \in Codes |-> 0]

Tick ==
    /\ clock < MaxTime
    /\ clock' = clock + 1
    /\ UNCHANGED <<rows, sending, registering>>

-----------------------------------------------------------------------------
(* EmailVerificationService.send_register_code.                            *)

(* SELECT users begins the transaction; NOW() is this instant to its end.  *)
(* A user that exists is answered 400.                                     *)
SendStart(s) ==
    /\ begun[s] = -1
    /\ accounts = {}
    /\ begun' = [begun EXCEPT ![s] = clock]
    /\ UNCHANGED <<clock, rows, checked, registering>>

\* Mutant: one code too many a day.
SendCheckOffByOne(s) ==
    /\ begun[s] >= 0 /\ checked[s] = -1
    /\ \A c \in Newest({d \in Codes : Exists(d)}) : created[c] < clock - Resend
    /\ Cardinality(Since(clock - Day)) <= DailyLimit
    /\ checked' = [checked EXCEPT ![s] = clock]
    /\ UNCHANGED <<clock, rows, begun, registering>>

(* `now', any time later, and the two SELECTs that are compared with it.   *)
(* Rows are only added, so one that appears between `now' and a SELECT     *)
(* does no more than turn this into a refusal; a refusal (429) is          *)
(* SendAbort.                                                              *)
SendCheck(s) ==
    /\ begun[s] >= 0 /\ checked[s] = -1
    /\ \A c \in Newest({d \in Codes : Exists(d)}) : created[c] < clock - Resend
    /\ Cardinality(Since(clock - Day)) < DailyLimit
    /\ checked' = [checked EXCEPT ![s] = clock]
    /\ UNCHANGED <<clock, rows, begun, registering>>

\* Mutant: created_at is given the time of expires_at.
SendCommitAtExpiry(s, c) ==
    /\ checked[s] >= 0
    /\ ~Exists(c)
    /\ created' = [created EXCEPT ![c] = checked[s] + Expire]
    /\ expires' = [expires EXCEPT ![c] = checked[s] + Expire]
    /\ begun' = [begun EXCEPT ![s] = -1]
    /\ checked' = [checked EXCEPT ![s] = -1]
    /\ UNCHANGED <<clock, attempts, consumed, accounts, registering>>

(* INSERT, the mail goes out, send_status is "sent", COMMIT.  created_at   *)
(* is NOW(), the instant the transaction began; expires_at counts from     *)
(* `now'.                                                                  *)
SendCommit(s, c) ==
    /\ checked[s] >= 0
    /\ ~Exists(c)
    /\ created' = [created EXCEPT ![c] = begun[s]]
    /\ expires' = [expires EXCEPT ![c] = checked[s] + Expire]
    /\ begun' = [begun EXCEPT ![s] = -1]
    /\ checked' = [checked EXCEPT ![s] = -1]
    /\ UNCHANGED <<clock, attempts, consumed, accounts, registering>>

(* A refusal; or SMTP fails: mark_failed, then the 502 rolls the row back; *)
(* or the database fails, at the COMMIT with the mail already out.         *)
SendAbort(s) ==
    /\ begun[s] >= 0
    /\ begun' = [begun EXCEPT ![s] = -1]
    /\ checked' = [checked EXCEPT ![s] = -1]
    /\ UNCHANGED <<clock, rows, registering>>

-----------------------------------------------------------------------------
(* AuthService.register.                                                   *)

(* SELECT users; a user that exists is answered 400. *)
RegisterStart(q) ==
    /\ stage[q] = "idle"
    /\ accounts = {}
    /\ stage' = [stage EXCEPT ![q] = "found"]
    /\ UNCHANGED <<clock, rows, sending, tx, tries>>

(* verify_register_code reads the newest unconsumed row and compares: the  *)
(* user typed the code of row `typed', or none of them.  The 400s for no   *)
(* row, an expired and an exhausted one are RegisterAbort.                 *)
Compare(q, typed) ==
    /\ stage[q] = "found"
    /\ \E c \in Newest(Usable) :
          /\ clock < expires[c]
          /\ attempts[c] < MaxAttempts
          /\ tx' = [tx EXCEPT ![q] = [code |-> c, attempts |-> attempts[c], consumed |-> FALSE]]
          /\ IF typed = c
             THEN /\ stage' = [stage EXCEPT ![q] = "right"]
                  /\ UNCHANGED tries
             ELSE /\ stage' = [stage EXCEPT ![q] = "wrong"]
                  /\ tries' = [tries EXCEPT ![c] = IF @ > MaxAttempts THEN @ ELSE @ + 1]
    /\ UNCHANGED <<clock, rows, sending>>

(* increment_attempts: flushed, never committed, for the 400 that follows  *)
(* (RegisterAbort) makes get_db_session roll back.                         *)
IncrementAttempts(q) ==
    /\ stage[q] = "wrong"
    /\ RowFree(q)
    /\ tx' = [tx EXCEPT ![q] = [code |-> @.code, attempts |-> @.attempts + 1,
                                consumed |-> @.attempts + 1 >= MaxAttempts]]
    /\ stage' = [stage EXCEPT ![q] = "counted"]
    /\ UNCHANGED <<clock, rows, sending, tries>>

(* consume: an UPDATE by primary key, whether or not consumed_at is set.   *)
Consume(q) ==
    /\ stage[q] = "right"
    /\ RowFree(q)
    /\ tx' = [tx EXCEPT ![q].consumed = TRUE]
    /\ stage' = [stage EXCEPT ![q] = "consumed"]
    /\ UNCHANGED <<clock, rows, sending, tries>>

(* INSERT users: waits for another INSERT of the address; once that one is *)
(* committed the unique index fails this one (RegisterAbort).              *)
CreateUser(q) ==
    /\ stage[q] = "consumed"
    /\ EmailFree(q)
    /\ accounts = {}
    /\ stage' = [stage EXCEPT ![q] = "inserted"]
    /\ UNCHANGED <<clock, rows, sending, tx, tries>>

(* COMMIT: the account, and the row of the code. *)
RegisterCommit(q) ==
    /\ stage[q] = "inserted"
    /\ accounts' = accounts \cup {q}
    /\ consumed' = [consumed EXCEPT ![tx[q].code] = tx[q].consumed]
    /\ stage' = [stage EXCEPT ![q] = "idle"]
    /\ UNCHANGED <<clock, created, expires, attempts, sending, tx, tries>>

\* Mutant: the session is committed on an HTTPException too.
RegisterAbortCommits(q) ==
    /\ stage[q] # "idle"
    /\ IF stage[q] \in {"counted", "consumed", "inserted"}
       THEN /\ attempts' = [attempts EXCEPT ![tx[q].code] = tx[q].attempts]
            /\ consumed' = [consumed EXCEPT ![tx[q].code] = tx[q].consumed]
       ELSE UNCHANGED <<attempts, consumed>>
    /\ stage' = [stage EXCEPT ![q] = "idle"]
    /\ tx' = [tx EXCEPT ![q] = NoTx]
    /\ UNCHANGED <<clock, created, expires, accounts, sending, tries>>

(* Any exception after the first statement: HTTPException, IntegrityError, *)
(* a lost connection, a restart.  get_db_session rolls back.               *)
RegisterAbort(q) ==
    /\ stage[q] # "idle"
    /\ stage' = [stage EXCEPT ![q] = "idle"]
    /\ tx' = [tx EXCEPT ![q] = NoTx]
    /\ UNCHANGED <<clock, rows, sending, tries>>

RegisterStep(q) ==
    \/ RegisterStart(q)
    \/ \E typed \in Codes \cup {NoCode} : Compare(q, typed)
    \/ IncrementAttempts(q) \/ Consume(q) \/ CreateUser(q) \/ RegisterCommit(q)
    \/ RegisterAbort(q)

EmailNext ==
    \/ Tick
    \/ \E s \in Senders :
          SendStart(s) \/ SendCheck(s) \/ SendAbort(s) \/ \E c \in Codes : SendCommit(s, c)
    \/ \E q \in Registrants : RegisterStep(q)

EmailSpec == EmailInit /\ [][EmailNext]_emailVars

-----------------------------------------------------------------------------
(* Properties.                                                             *)

Transactions == [code : Codes \cup {NoCode}, attempts : Nat, consumed : BOOLEAN]

EmailTypeOK ==
    /\ clock \in 0..MaxTime
    /\ created \in [Codes -> -1..MaxTime]
    /\ expires \in [Codes -> 0..MaxTime + Expire]
    /\ attempts \in [Codes -> Nat]
    /\ consumed \in [Codes -> BOOLEAN]
    /\ accounts \subseteq Registrants
    /\ begun \in [Senders -> -1..MaxTime]
    /\ checked \in [Senders -> -1..MaxTime]
    /\ stage \in [Registrants -> Stages]
    /\ tx \in [Registrants -> Transactions]
    /\ tries \in [Codes -> Nat]

(* However many registrations run at once, with the same code or with two, *)
(* and whichever of them fail: one account at most, and the code that is   *)
(* spent is the account's own.  A registration that lost the race gives    *)
(* its code back.                                                          *)
OneCodeBuysOneAccount ==
    /\ \A p, q \in accounts : p = q
    /\ {c \in Codes : consumed[c]} = {tx[q].code : q \in accounts}

(* send_register_code reads, then inserts, and created_at is older than    *)
(* the `now' it was compared with.  So of the codes stored the interval    *)
(* and the daily limit hold only up to the number of requests in flight,   *)
(* and only of those that were checked before the interval or the day,     *)
(* counted from a code's created_at, was over.  Of those they do, at every *)
(* boundary, whichever of the sends fail.                                  *)
StoredIsBounded ==
    \A c \in Codes : Exists(c) =>
        LET Stored(time) == {d \in Since(created[c]) : expires[d] - Expire <= created[c] + time}
        IN  /\ Cardinality(Stored(Resend)) <= Cardinality(Senders)
            /\ Cardinality(Stored(Day)) <= DailyLimit + Cardinality(Senders) - 1

(* docs/TECH_DESIGN.md: a code is compared MaxAttempts times at most.      *)
AttemptsAreLimited == \A c \in Codes : tries[c] <= MaxAttempts
=============================================================================
