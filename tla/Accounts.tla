------------------------------ MODULE Accounts ------------------------------
(***************************************************************************)
(* One account of the portal (auth/service.py, auth/admin.py,              *)
(* auth/throttle.py, auth/repositories.py): its row in users, its sessions *)
(* and backup codes, the counter of failed attempts of its login; requests *)
(* of its owner beside actions of an administrator.                        *)
(*                                                                         *)
(* A request is one transaction.  The lock of the login and the row of the *)
(* user are held to its end, so what follows the lock of the row is one    *)
(* action.  What a request has read before it waits is in its record: the  *)
(* hash a password is compared with, the counter, and the row of its       *)
(* session, which SELECT ... FOR UPDATE OF users takes from the snapshot   *)
(* it had before it waited for the row of the user.                        *)
(*                                                                         *)
(* Time is abstract: a session ends, a lock of the login ends, the counter *)
(* is forgotten; which steps of the clock a code may be of is left open.   *)
(* The counter of an address and the audit decide nothing here.            *)
(***************************************************************************)
EXTENDS Naturals

CONSTANTS
    Sessions,      \* identifiers; one is reused once nothing refers to it
    OwnerRequests,      \* of the owner, at one time
    BackupCodes,
    MaxFailures,   \* auth.lockout.max_failures
    MaxPasswords,  \* bound of this instance: passwords the account ever has
    MaxKeys,       \* bound of this instance: keys of the second factor it ever has
    MaxStep,       \* bound of this instance: steps of the clock
    Absent

ASSUME LimitAssumption == MaxFailures \in Nat \ {0}
ASSUME BoundsAssumption ==
    MaxPasswords \in Nat \ {0} /\ MaxKeys \in Nat \ {0} /\ MaxStep \in Nat \ {0}

VARIABLES
    user,       \* the row of the account; hashes and keys are numbered as they come
    sessions,
    backup,     \* codes that were not used
    attempts,   \* auth_throttle of the login; failed counts what it should hold
    requests,   \* what a request is at and what it has read
    loginLock,  \* the request that holds pg_advisory_xact_lock of the login
    spent       \* history: codes of the application that were accepted

accountVars == <<user, sessions, backup, attempts, requests, loginLock, spent>>

User == [hash : 1..MaxPasswords, mustChange : BOOLEAN, blocked : BOOLEAN,
         key : 0..MaxKeys, keys : 0..MaxKeys, enabled : BOOLEAN, lastStep : 0..MaxStep]

(* Of a session the table has passed only.  hash: the password it was opened by; key: the *)
(* key it went on with; late: its predecessor was gone when it was made.                  *)
Session == [passed : BOOLEAN, hash : 1..MaxPasswords, key : 0..MaxKeys, late : BOOLEAN]

LoginSteps == {"second_factor", "password_change", "second_factor_setup", "ready"}
Operations == {"login", "second factor", "password", "setup", "confirm"}
RequestPlaces == {"lock", "check", "record", "read", "decide"}
OwnerRequest == [op : Operations, at : RequestPlaces, session : Sessions \union {Absent},
            step : LoginSteps \union {Absent}, hash : 1..MaxPasswords,
            row : Session \union {Absent}, count : 0..MaxFailures]

ASSUME AbsentAssumption == Absent \notin Sessions \union OwnerRequests \union LoginSteps
ASSUME RecordAssumption == Absent \notin Session \union OwnerRequest

AccountTypeOK ==
    /\ user \in User
    /\ sessions \in [Sessions -> Session \union {Absent}]
    /\ backup \subseteq BackupCodes
    /\ attempts \in [count : 0..MaxFailures, locked : BOOLEAN, failed : 0..MaxFailures]
    /\ requests \in [OwnerRequests -> OwnerRequest \union {Absent}]
    /\ loginLock \in OwnerRequests \union {Absent}
    /\ spent \subseteq (1..MaxKeys) \X (1..MaxStep)

-----------------------------------------------------------------------------
(* login_step: the step is computed, a session does not store it. *)
LoginStep(u, session) ==
    IF u.enabled /\ ~session.passed THEN "second_factor"
    ELSE IF u.mustChange THEN "password_change"
    ELSE IF ~u.enabled THEN "second_factor_setup"
    ELSE "ready"

Allowed(op) ==
    CASE op = "second factor" -> {"second_factor"}
      [] op = "password" -> {"password_change", "ready"}
      [] op \in {"setup", "confirm"} -> {"second_factor_setup"}

Opened == {s \in Sessions : sessions[s] # Absent}

(* uuid4: an identifier nothing refers to. *)
Fresh(s) ==
    /\ s \notin Opened
    /\ \A q \in OwnerRequests : requests[q] # Absent => requests[q].session # s

NoSessions == [s \in Sessions |-> Absent]

(* Throttle.reset_login and AdminService._unlock_login: the row is deleted. *)
NoFailures == [count |-> 0, locked |-> FALSE, failed |-> 0]

Counted(n) == IF n < MaxFailures THEN n + 1 ELSE n

(* Mutated form: the failure of the address is counted in the row of the login as well. *)
FailedTwice(count) ==
    [count |-> count + 2, locked |-> count + 2 >= MaxFailures,
     failed |-> Counted(attempts.failed)]

(* Throttle.record_failure after the counter was read.  Over the limit the count only *)
(* chooses how long the lock is.                                                      *)
Failed(count) ==
    [count |-> Counted(count), locked |-> count + 1 >= MaxFailures,
     failed |-> Counted(attempts.failed)]

IsAt(q, place) == requests[q] # Absent /\ requests[q].at = place
IsOf(q, op) == requests[q].op = op

(* The transaction ends and with it what it holds. *)
End(q) ==
    /\ requests' = [requests EXCEPT ![q] = Absent]
    /\ loginLock' = IF loginLock = q THEN Absent ELSE loginLock

StepsTo(q, place) ==
    /\ requests' = [requests EXCEPT ![q].at = place]
    /\ UNCHANGED loginLock

-----------------------------------------------------------------------------
(* Requests of the owner. *)

(* Mutated form: parallel attempts do not wait for each other. *)
LockFreeAlways == TRUE

(* SqlThrottleRepository.lock_login *)
LockFree == loginLock = Absent

(* Mutated form: only the password is refused under the lock. *)
LockedForPasswords(q) == attempts.locked /\ ~IsOf(q, "second factor")

(* Throttle.login_locked_for *)
LockedOut(q) == attempts.locked

(* AuthService.login up to its wait for the lock: the hash that will be compared. *)
Login(q) ==
    /\ requests[q] = Absent
    /\ requests' = [requests EXCEPT ![q] =
                       [op |-> "login", at |-> "lock", session |-> Absent, step |-> Absent,
                        hash |-> user.hash, row |-> Absent, count |-> 0]]
    /\ UNCHANGED <<user, sessions, backup, attempts, loginLock, spent>>

(* A request with a session: authenticate, session_on and, for the code and the password, *)
(* the first _load.  A change asked for on the step ready checks the password first.      *)
AskWith(q, op, s) ==
    /\ requests[q] = Absent
    /\ s \in Opened
    /\ ~user.blocked
    /\ LET step == LoginStep(user, sessions[s])
           waits == op = "second factor" \/ (op = "password" /\ step = "ready")
       IN  /\ step \in Allowed(op)
           /\ requests' = [requests EXCEPT ![q] =
                              [op |-> op, at |-> IF waits THEN "lock" ELSE "read",
                               session |-> s, step |-> step, hash |-> user.hash,
                               row |-> Absent, count |-> 0]]
    /\ UNCHANGED <<user, sessions, backup, attempts, loginLock, spent>>

(* lock_login.  The code of a locked login is refused later, with its session. *)
TakeLoginLock(q) ==
    /\ IsAt(q, "lock")
    /\ LockFree
    /\ IF LockedOut(q) /\ ~IsOf(q, "second factor")
       THEN End(q)
       ELSE /\ requests' = [requests EXCEPT ![q].at =
                               IF IsOf(q, "second factor") THEN "read" ELSE "check"]
            /\ loginLock' = q
    /\ UNCHANGED <<user, sessions, backup, attempts, spent>>

(* Mutated form: the row is not read again after the long check. *)
SamePasswordUnread(q) == TRUE

SamePassword(q) == user.hash = requests[q].hash

(* AuthService.login after the check of a right password, under the row of the user. *)
OpenSession(q) ==
    /\ IsAt(q, "check")
    /\ IsOf(q, "login")
    /\ SamePassword(q)
    /\ IF user.blocked
       THEN UNCHANGED <<sessions, attempts>>
       ELSE /\ \E s \in Sessions :
                /\ Fresh(s)
                /\ sessions' = [sessions EXCEPT ![s] =
                        [passed |-> FALSE, hash |-> requests[q].hash, key |-> 0, late |-> FALSE]]
            /\ attempts' = IF user.enabled THEN attempts ELSE NoFailures
    /\ End(q)
    /\ UNCHANGED <<user, backup, spent>>

(* _check_current_password: right. *)
ConfirmPassword(q) ==
    /\ IsAt(q, "check")
    /\ IsOf(q, "password")
    /\ StepsTo(q, "read")
    /\ UNCHANGED <<user, sessions, backup, attempts, spent>>

(* A wrong password, or one that is not the password any more: the counter is read. *)
RejectPassword(q) ==
    /\ IsAt(q, "check")
    /\ requests' = [requests EXCEPT ![q].at = "record", ![q].count = attempts.count]
    /\ UNCHANGED <<user, sessions, backup, attempts, loginLock, spent>>

(* The rest of record_failure; an administrator may have deleted the row meanwhile. *)
RecordFailure(q) ==
    /\ IsAt(q, "record")
    /\ attempts' = Failed(requests[q].count)
    /\ End(q)
    /\ UNCHANGED <<user, sessions, backup, spent>>

(* sessions.get(lock_user=True): the row of the session is of this moment, the row of the *)
(* user of the moment when it is free (the place "decide").                               *)
ReadSession(q) ==
    /\ IsAt(q, "read")
    /\ LET s == requests[q].session
       IN  IF s \in Opened
           THEN /\ requests' = [requests EXCEPT ![q].at = "decide", ![q].row = sessions[s]]
                /\ UNCHANGED loginLock
           ELSE End(q)
    /\ UNCHANGED <<user, sessions, backup, attempts, spent>>

StepNow(q) == LoginStep(user, requests[q].row)

(* UPDATE sessions ... WHERE id: no row, no change. *)
Passes(q) ==
    LET s == requests[q].session
    IN  IF s \in Opened
        THEN [sessions EXCEPT ![s].passed = TRUE, ![s].key = user.key]
        ELSE sessions

(* Mutated form: the step of the code accepted last is accepted again. *)
FreshCodeOrLast(t) == t >= user.lastStep /\ t > 0

(* _accept_totp: codes of the window whose step is after the last one. *)
FreshCode(t) == t > user.lastStep

(* AuthService.second_factor under both locks. *)
SecondFactor(q) ==
    /\ IsAt(q, "decide")
    /\ IsOf(q, "second factor")
    /\ LET s == requests[q].session IN
       \/ /\ StepNow(q) # "second_factor"
          /\ UNCHANGED <<user, sessions, backup, attempts, spent>>
       \/ /\ StepNow(q) = "second_factor"
          /\ LockedOut(q)
          /\ sessions' = [sessions EXCEPT ![s] = Absent]
          /\ UNCHANGED <<user, backup, attempts, spent>>
       \/ /\ StepNow(q) = "second_factor"
          /\ ~LockedOut(q)
          /\ \/ \E t \in 1..MaxStep :
                   /\ FreshCode(t)
                   /\ user' = [user EXCEPT !.lastStep = t]
                   /\ spent' = spent \union {<<user.key, t>>}
                   /\ sessions' = Passes(q)
                   /\ attempts' = NoFailures
                   /\ UNCHANGED backup
             \/ \E c \in backup :
                   /\ backup' = backup \ {c}
                   /\ sessions' = Passes(q)
                   /\ attempts' = NoFailures
                   /\ UNCHANGED <<user, spent>>
             \/ /\ attempts' = Failed(attempts.count)
                /\ sessions' = IF attempts'.locked
                               THEN [sessions EXCEPT ![s] = Absent]
                               ELSE sessions
                /\ UNCHANGED <<user, backup, spent>>
    /\ End(q)

(* AuthService.change_password under the row of the user: a change asked for on the step *)
(* ready ends every session, a forced one goes on with a new session.                     *)
ChangePassword(q) ==
    /\ IsAt(q, "decide")
    /\ IsOf(q, "password")
    /\ IF StepNow(q) # requests[q].step \/ ~SamePassword(q)
       THEN UNCHANGED <<user, sessions>>
       ELSE /\ user.hash < MaxPasswords
            /\ user' = [user EXCEPT !.hash = @ + 1, !.mustChange = FALSE]
            /\ IF requests[q].step = "ready"
               THEN sessions' = NoSessions
               ELSE \E s \in Sessions :
                       /\ Fresh(s)
                       /\ sessions' = [NoSessions EXCEPT ![s] =
                              [requests[q].row EXCEPT
                                 !.hash = user.hash + 1,
                                 !.late = @ \/ requests[q].session \notin Opened]]
    /\ End(q)
    /\ UNCHANGED <<backup, attempts, spent>>

(* start_second_factor_setup: the key that was not confirmed is given again. *)
Setup(q) ==
    /\ IsAt(q, "decide")
    /\ IsOf(q, "setup")
    /\ IF StepNow(q) = "second_factor_setup" /\ user.key = 0
       THEN /\ user.keys < MaxKeys
            /\ user' = [user EXCEPT !.key = user.keys + 1, !.keys = @ + 1]
       ELSE UNCHANGED user
    /\ End(q)
    /\ UNCHANGED <<sessions, backup, attempts, spent>>

(* confirm_second_factor_setup: a wrong code is not a failure of the login. *)
Confirm(q) ==
    /\ IsAt(q, "decide")
    /\ IsOf(q, "confirm")
    /\ \/ UNCHANGED <<user, sessions, backup, spent>>
       \/ /\ StepNow(q) = "second_factor_setup"
          /\ user.key # 0
          /\ \E t \in 1..MaxStep :
                /\ FreshCode(t)
                /\ user' = [user EXCEPT !.enabled = TRUE, !.lastStep = t]
                /\ spent' = spent \union {<<user.key, t>>}
          /\ sessions' = Passes(q)
          /\ backup' = BackupCodes
    /\ End(q)
    /\ UNCHANGED attempts

(* The request is refused for its data, or the database ends its transaction. *)
RefuseRequest(q) ==
    /\ requests[q] # Absent
    /\ End(q)
    /\ UNCHANGED <<user, sessions, backup, attempts, spent>>

-----------------------------------------------------------------------------
(* Sessions and counters by themselves. *)

(* logout; authenticate and delete_expired of a session whose time is over. *)
EndSession(s) ==
    /\ s \in Opened
    /\ sessions' = [sessions EXCEPT ![s] = Absent]
    /\ UNCHANGED <<user, backup, attempts, requests, loginLock, spent>>

(* The time of a lock is over; reset_after_minutes since the last failure. *)
LockEnds ==
    /\ attempts.locked
    /\ attempts' = [attempts EXCEPT !.locked = FALSE]
    /\ UNCHANGED <<user, sessions, backup, requests, loginLock, spent>>

ForgetFailures ==
    /\ attempts.count > 0
    /\ ~attempts.locked
    /\ attempts' = NoFailures
    /\ UNCHANGED <<user, sessions, backup, requests, loginLock, spent>>

-----------------------------------------------------------------------------
(* Actions of an administrator, each a transaction under the row of the user. *)

ResetPassword ==
    /\ user.hash < MaxPasswords
    /\ user' = [user EXCEPT !.hash = @ + 1, !.mustChange = TRUE]
    /\ sessions' = NoSessions
    /\ attempts' = NoFailures
    /\ UNCHANGED <<backup, requests, loginLock, spent>>

WithoutKey == [user EXCEPT !.key = 0, !.enabled = FALSE, !.lastStep = 0]

(* Mutated form: the sessions of the user are kept. *)
ResetSecondFactorKeepingSessions ==
    /\ user.key # 0
    /\ user' = WithoutKey
    /\ backup' = {}
    /\ attempts' = NoFailures
    /\ UNCHANGED <<sessions, requests, loginLock, spent>>

ResetSecondFactor ==
    /\ user.key # 0
    /\ user' = WithoutKey
    /\ backup' = {}
    /\ sessions' = NoSessions
    /\ attempts' = NoFailures
    /\ UNCHANGED <<requests, loginLock, spent>>

(* set_blocked *)
Block ==
    /\ ~user.blocked
    /\ user' = [user EXCEPT !.blocked = TRUE]
    /\ sessions' = NoSessions
    /\ UNCHANGED <<backup, attempts, requests, loginLock, spent>>

Unblock ==
    /\ user.blocked
    /\ user' = [user EXCEPT !.blocked = FALSE]
    /\ UNCHANGED <<sessions, backup, attempts, requests, loginLock, spent>>

(* update_user with another role, which nothing here reads. *)
ChangeRole ==
    /\ Opened # {}
    /\ sessions' = NoSessions
    /\ UNCHANGED <<user, backup, attempts, requests, loginLock, spent>>

(* unlock_login *)
Unlock ==
    /\ attempts.locked
    /\ attempts' = NoFailures
    /\ UNCHANGED <<user, sessions, backup, requests, loginLock, spent>>

-----------------------------------------------------------------------------
AccountInit ==
    /\ user = [hash |-> 1, mustChange |-> TRUE, blocked |-> FALSE, key |-> 0, keys |-> 0,
               enabled |-> FALSE, lastStep |-> 0]
    /\ sessions = NoSessions
    /\ backup = {}
    /\ attempts = NoFailures
    /\ requests = [q \in OwnerRequests |-> Absent]
    /\ loginLock = Absent
    /\ spent = {}

RequestStep(q) ==
    \/ Login(q)
    \/ \E op \in Operations \ {"login"}, s \in Sessions : AskWith(q, op, s)
    \/ TakeLoginLock(q) \/ OpenSession(q) \/ ConfirmPassword(q)
    \/ RejectPassword(q) \/ RecordFailure(q) \/ ReadSession(q)
    \/ SecondFactor(q) \/ ChangePassword(q) \/ Setup(q) \/ Confirm(q) \/ RefuseRequest(q)

AccountNext ==
    \/ \E q \in OwnerRequests : RequestStep(q)
    \/ \E s \in Sessions : EndSession(s)
    \/ LockEnds \/ ForgetFailures
    \/ ResetPassword \/ ResetSecondFactor \/ Block \/ Unblock \/ ChangeRole \/ Unlock

AccountSpec == AccountInit /\ [][AccountNext]_accountVars

-----------------------------------------------------------------------------
(* A change of the password whose session was ended meanwhile by a block does not go on: a *)
(* session in its place under the lock of the row shows that nobody blocked the account    *)
(* (the comment in AuthService.change_password).  The code breaks it: the row of the       *)
(* session is read before the wait for the row of the user, and a successor is opened.     *)
GoesOn(q) ==
    IsAt(q, "decide") /\ IsOf(q, "password") /\ requests'[q] = Absent /\ user'.hash # user.hash

BlockCallsOffTheChange ==
    [][\A q \in OwnerRequests : GoesOn(q) => ~user.blocked]_accountVars

(* A session is of the password the account has now, and of an account that is not         *)
(* blocked: whoever checked a password while it was changed, reset or the account blocked  *)
(* opens nothing.  But for late sessions, which a forced change gave instead of one that   *)
(* had been ended meanwhile (BlockCallsOffTheChange): they are of the password only.       *)
SessionsAreOfTheAccount ==
    \A s \in Opened :
        /\ sessions[s].hash = user.hash
        /\ user.blocked => sessions[s].late

(* A session that gives access has passed the second factor the account has now, not one   *)
(* that was reset since; but for late sessions.                                            *)
ReadyPassedThisFactor ==
    \A s \in Opened :
        LoginStep(user, sessions[s]) = "ready" => sessions[s].key = user.key \/ sessions[s].late

(* No failure of parallel attempts is lost, whatever their order; a counter an             *)
(* administrator has deleted may come back with the failure that had read it.              *)
FailuresAreCounted ==
    attempts.count >= attempts.failed

(* A session passes the second factor by a code no session has passed by: one code of the  *)
(* application or one backup code is used up for each, by parallel requests too.           *)
PassesNow(s) ==
    s \in Opened /\ sessions'[s] # Absent /\ ~sessions[s].passed /\ sessions'[s].passed

SecondFactorSpendsACode ==
    [][\A s \in Sessions : PassesNow(s) => spent' # spent \/ backup \ backup' # {}]_accountVars

(* Whoever is in, but by a late session, has shown what the account asks for now; whoever  *)
(* passes the second factor pays for it with a code.                                       *)
SessionsFitTheAccount ==
    [](SessionsAreOfTheAccount /\ ReadyPassedThisFactor) /\ SecondFactorSpendsACode

(* While the login is locked nobody goes further by a password or by a code: no session is *)
(* opened but instead of another by a change of the password, and none passes a second     *)
(* factor that is on.                                                                      *)
LockedGoesNoFurther ==
    [][attempts.locked =>
        \A s \in Sessions :
            /\ s \notin Opened /\ sessions'[s] # Absent => user'.hash # user.hash
            /\ PassesNow(s) => ~user.enabled]_accountVars

(* Attempts in parallel cannot be more than the limit allows: all of them are counted, and *)
(* nobody goes on behind it.                                                               *)
AttemptsAreLimited == []FailuresAreCounted /\ LockedGoesNoFurther

=============================================================================
