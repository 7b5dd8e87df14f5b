--------------------------- MODULE AccountsProofs ---------------------------
(***************************************************************************)
(* Proofs about an account: its sessions fit it, a second factor is passed *)
(* by a code that nobody passed by before, parallel attempts are limited.  *)
(***************************************************************************)
EXTENDS Accounts, TLAPS

(* The lock of the login is held from its taking to the end of the transaction. *)
Locks(request) ==
    \/ request.at \in {"check", "record"}
    \/ request.op = "second factor" /\ request.at \in {"read", "decide"}
UnderLock(q) == requests[q] # Absent /\ Locks(requests[q])

LockIsHeld ==
    \A q \in OwnerRequests :
        /\ UnderLock(q) => loginLock = q
        /\ IsAt(q, "check") => ~attempts.locked
        /\ IsAt(q, "record") => requests[q].count >= attempts.failed

(* What a request is of: a session, and at its decision the row it has read. *)
RequestsAreWhole ==
    \A q \in OwnerRequests :
        /\ requests[q] # Absent /\ ~IsOf(q, "login") => requests[q].session \in Sessions
        /\ IsAt(q, "decide") => requests[q].row # Absent

(* A code of a key the account had was of one of its keys, of the present one not behind *)
(* its last step.                                                                        *)
CodesAreBehind ==
    /\ user.key <= user.keys
    /\ user.enabled => user.key # 0
    /\ \A code \in spent : /\ code[1] <= user.keys
                           /\ code[1] = user.key => code[2] <= user.lastStep

(* A row that passed is of a second factor that is on, but for a late one. *)
PassedNow(row) == row.passed /\ ~row.late => user.enabled /\ row.key = user.key

(* A row a request has read still says of its session what decides. *)
RowsFit ==
    /\ \A s \in Opened : PassedNow(sessions[s])
    /\ \A q \in OwnerRequests :
           IsAt(q, "decide") /\ requests[q].session \in Opened =>
               /\ PassedNow(requests[q].row)
               /\ user.blocked => requests[q].row.late

(* The inductive invariant. *)
AccountInv ==
    /\ AccountTypeOK
    /\ LockIsHeld
    /\ RequestsAreWhole
    /\ CodesAreBehind
    /\ SessionsAreOfTheAccount
    /\ RowsFit
    /\ FailuresAreCounted

(* What a step does to the requests: those of others go on as they are, or all do. *)
Kept(q) == \A p \in OwnerRequests : p # q => requests'[p] = requests[p]

SomeEnd == \A p \in OwnerRequests : requests'[p] \in {requests[p], Absent}

Fewer == \A s \in Sessions : sessions'[s] \in {sessions[s], Absent}

(* The action properties, for one step. *)
SpendsACode ==
    \A s \in Sessions : PassesNow(s) => spent' # spent \/ backup \ backup' # {}

NoFurther ==
    attempts.locked =>
        \A s \in Sessions :
            /\ s \notin Opened /\ sessions'[s] # Absent => user'.hash # user.hash
            /\ PassesNow(s) => ~user.enabled

Heeded == SpendsACode /\ NoFurther

-----------------------------------------------------------------------------
(* Requests. *)

LEMMA Numbers ==
    MaxFailures \in Nat /\ MaxFailures >= 1 /\ MaxPasswords \in Nat /\ MaxPasswords >= 1
                 /\ MaxKeys \in Nat /\ MaxKeys >= 1 /\ MaxStep \in Nat /\ MaxStep >= 1
  BY LimitAssumption, BoundsAssumption

(* The counter after a failure and after its row is deleted. *)
LEMMA FailedCounts ==
  ASSUME AccountInv, NEW count \in 0..MaxFailures, count >= attempts.failed
  PROVE  /\ Failed(count) \in [count : 0..MaxFailures, locked : BOOLEAN, failed : 0..MaxFailures]
         /\ Failed(count).count >= Failed(count).failed
<1>1. attempts.failed \in 0..MaxFailures  BY DEF AccountInv, AccountTypeOK
<1>2. /\ Counted(count) \in 0..MaxFailures /\ Counted(attempts.failed) \in 0..MaxFailures
      /\ Counted(count) >= Counted(attempts.failed)
  BY <1>1, Numbers DEF Counted
<1>3. (count + 1 >= MaxFailures) \in BOOLEAN  OBVIOUS
<1> QED  BY <1>2, <1>3 DEF Failed

LEMMA NoFailuresCounts ==
  /\ NoFailures \in [count : 0..MaxFailures, locked : BOOLEAN, failed : 0..MaxFailures]
  /\ NoFailures.count >= NoFailures.failed /\ ~NoFailures.locked /\ NoFailures.failed = 0
  BY Numbers DEF NoFailures

LEMMA EndRequests ==
  ASSUME AccountInv, NEW q \in OwnerRequests, End(q),
         \/ attempts' = attempts
         \/ attempts' = NoFailures
         \/ loginLock = q
  PROVE  /\ requests' \in [OwnerRequests -> OwnerRequest \union {Absent}]
         /\ loginLock' \in OwnerRequests \union {Absent}
         /\ LockIsHeld' /\ RequestsAreWhole' /\ SomeEnd
<1>1. /\ requests' \in [OwnerRequests -> OwnerRequest \union {Absent}]
      /\ requests'[q] = Absent /\ Kept(q)
      /\ loginLock' = IF loginLock = q THEN Absent ELSE loginLock
  BY DEF End, AccountInv, AccountTypeOK, Kept
<1>2. requests \in [OwnerRequests -> OwnerRequest \union {Absent}]  BY DEF AccountInv, AccountTypeOK
<1>3. LockIsHeld'
  <2>1. ASSUME NEW p \in OwnerRequests, UnderLock(p)'
        PROVE  p # q /\ UnderLock(p) /\ requests'[p] = requests[p]
    BY <1>1, <2>1 DEF UnderLock, IsAt, IsOf, Kept
  <2>2. ASSUME NEW p \in OwnerRequests, UnderLock(p)'
        PROVE  loginLock' = p /\ attempts' \in {attempts, NoFailures}
    BY <1>1, <2>1, <2>2 DEF AccountInv, LockIsHeld
  <2>3. ASSUME NEW p \in OwnerRequests, IsAt(p, "check")'
        PROVE  ~attempts'.locked
    BY <2>1, <2>2, <2>3, NoFailuresCounts DEF AccountInv, LockIsHeld, UnderLock, Locks, IsAt
  <2>4. ASSUME NEW p \in OwnerRequests, IsAt(p, "record")'
        PROVE  requests'[p].count >= attempts'.failed
    <3>1. /\ p # q /\ requests'[p] = requests[p] /\ IsAt(p, "record")
          /\ attempts' \in {attempts, NoFailures}
      BY <2>1, <2>2, <2>4 DEF UnderLock, Locks, IsAt
    <3>2. requests[p].count \in Nat  BY <1>2, <3>1 DEF IsAt, OwnerRequest
    <3> QED  BY <3>1, <3>2, NoFailuresCounts DEF AccountInv, LockIsHeld
  <2> QED  BY <2>2, <2>3, <2>4 DEF LockIsHeld
<1>4. RequestsAreWhole'
  BY <1>1 DEF RequestsAreWhole, AccountInv, IsAt, IsOf, Kept
<1> QED  BY <1>1, <1>3, <1>4 DEF SomeEnd, Kept, AccountInv, AccountTypeOK

(* A request goes on to another place, or starts. *)
LEMMA GoesRequests ==
  ASSUME AccountInv, NEW q \in OwnerRequests, NEW record \in OwnerRequest,
         requests' = [requests EXCEPT ![q] = record], UNCHANGED attempts,
         loginLock' \in {loginLock, q}, loginLock' # loginLock => loginLock = Absent,
         Locks(record) => loginLock' = q,
         record.at = "check" => ~attempts.locked,
         record.at = "record" => record.count >= attempts.failed,
         record.op # "login" => record.session \in Sessions,
         record.at = "decide" => record.row # Absent
  PROVE  /\ requests' \in [OwnerRequests -> OwnerRequest \union {Absent}]
         /\ loginLock' \in OwnerRequests \union {Absent}
         /\ requests'[q] = record /\ Kept(q)
         /\ LockIsHeld' /\ RequestsAreWhole'
<1>1. /\ requests' \in [OwnerRequests -> OwnerRequest \union {Absent}]
      /\ requests'[q] = record /\ Kept(q)
  BY DEF AccountInv, AccountTypeOK, Kept
<1>2. record # Absent  BY RecordAssumption
<1>3. loginLock' \in OwnerRequests \union {Absent}  BY DEF AccountInv, AccountTypeOK
<1>4. ASSUME NEW p \in OwnerRequests, p # q
      PROVE  /\ (IsAt(p, "check") <=> IsAt(p, "check")')
             /\ (IsAt(p, "record") <=> IsAt(p, "record")')
             /\ UnderLock(p)' => UnderLock(p) /\ loginLock' = p
  BY <1>1, <1>4, AbsentAssumption DEF Kept, IsAt, UnderLock, AccountInv, LockIsHeld
<1>5. LockIsHeld'
  BY <1>1, <1>2, <1>4 DEF AccountInv, LockIsHeld, UnderLock, IsAt, Kept
<1>6. RequestsAreWhole'
  BY <1>1, <1>2 DEF AccountInv, RequestsAreWhole, IsAt, IsOf, Kept
<1> QED  BY <1>1, <1>3, <1>5, <1>6

-----------------------------------------------------------------------------
(* Sessions. *)

(* All sessions end; the account may change in any way. *)
LEMMA NoneIsOpen ==
  ASSUME sessions' = NoSessions
  PROVE  /\ Opened' = {} /\ sessions' \in [Sessions -> Session \union {Absent}]
         /\ SessionsAreOfTheAccount' /\ RowsFit' /\ Heeded
<1>1. \A s \in Sessions : sessions'[s] = Absent  BY DEF NoSessions
<1>2. Opened' = {}  BY <1>1 DEF Opened
<1>3. sessions' \in [Sessions -> Session \union {Absent}]  BY DEF NoSessions
<1>4. SessionsAreOfTheAccount'  BY <1>2 DEF SessionsAreOfTheAccount
<1>5. RowsFit'  BY <1>2 DEF RowsFit
<1>6. Heeded  BY <1>1 DEF Heeded, SpendsACode, NoFurther, PassesNow
<1> QED  BY <1>2, <1>3, <1>4, <1>5, <1>6

(* Some sessions end, or none; what decides about the others is as it was. *)
LEMMA FewerAreOpen ==
  ASSUME AccountInv, sessions' \in [Sessions -> Session \union {Absent}], Fewer,
         user'.hash = user.hash, user'.key = user.key, user'.enabled = user.enabled,
         user'.blocked => user.blocked,
         \A q \in OwnerRequests : IsAt(q, "decide")' =>
             \/ requests'[q] = requests[q]
             \/ /\ requests'[q].session \in Opened =>
                     requests'[q].row = sessions[requests'[q].session]
  PROVE  SessionsAreOfTheAccount' /\ RowsFit' /\ Heeded
<1>1. \A s \in Sessions : s \in Opened' => s \in Opened /\ sessions'[s] = sessions[s]
  BY DEF Opened, Fewer
<1>2. Opened' \subseteq Sessions  BY DEF Opened
<1>3. SessionsAreOfTheAccount'
  BY <1>1, <1>2 DEF AccountInv, SessionsAreOfTheAccount
<1>4. \A s \in Opened' : PassedNow(sessions[s])'
  BY <1>1, <1>2 DEF AccountInv, RowsFit, PassedNow
<1>5. ASSUME NEW q \in OwnerRequests, IsAt(q, "decide")', requests'[q].session \in Opened'
      PROVE  PassedNow(requests[q].row)' /\ (user'.blocked => requests'[q].row.late)
  <2>1. CASE requests'[q] = requests[q]
    BY <1>1, <1>2, <1>5, <2>1 DEF AccountInv, RowsFit, PassedNow, IsAt
  <2>2. CASE requests'[q].row = sessions[requests'[q].session]
    BY <1>1, <1>2, <1>5, <2>2 DEF AccountInv, RowsFit, PassedNow, SessionsAreOfTheAccount
  <2> QED  BY <1>1, <1>2, <1>5, <2>1, <2>2
<1>6. RowsFit'  BY <1>4, <1>5 DEF RowsFit
<1>7. Heeded  BY DEF Heeded, SpendsACode, NoFurther, PassesNow, Opened, Fewer
<1> QED  BY <1>3, <1>6, <1>7

-----------------------------------------------------------------------------
(* Every action keeps the invariant, and passes nobody without a code. *)

(* A step of a request that changes nothing else. *)
LEMMA StepsOn ==
  ASSUME AccountInv, NEW q \in OwnerRequests, NEW record \in OwnerRequest,
         requests' = [requests EXCEPT ![q] = record],
         UNCHANGED <<user, sessions, backup, attempts, spent>>,
         loginLock' \in {loginLock, q}, loginLock' # loginLock => loginLock = Absent,
         Locks(record) => loginLock' = q,
         record.at = "check" => ~attempts.locked,
         record.at = "record" => record.count >= attempts.failed,
         record.op # "login" => record.session \in Sessions,
         record.at = "decide" =>
             /\ record.row # Absent
             /\ record.session \in Opened => record.row = sessions[record.session]
  PROVE  AccountInv' /\ Heeded
<1>1. /\ requests' \in [OwnerRequests -> OwnerRequest \union {Absent}]
      /\ loginLock' \in OwnerRequests \union {Absent}
      /\ requests'[q] = record /\ Kept(q)
      /\ LockIsHeld' /\ RequestsAreWhole'
  BY GoesRequests
<1>2. \A p \in OwnerRequests : IsAt(p, "decide")' =>
             \/ requests'[p] = requests[p]
             \/ requests'[p].session \in Opened => requests'[p].row = sessions[requests'[p].session]
  BY <1>1 DEF Kept, IsAt
<1>3. /\ SessionsAreOfTheAccount' /\ RowsFit' /\ Heeded
  BY <1>2, FewerAreOpen DEF Fewer, AccountInv, AccountTypeOK
<1>4. AccountTypeOK' /\ CodesAreBehind' /\ FailuresAreCounted'
  BY <1>1 DEF AccountInv, AccountTypeOK, CodesAreBehind, FailuresAreCounted
<1> QED  BY <1>1, <1>3, <1>4 DEF AccountInv

(* The end of a request that changes nothing else. *)
LEMMA EndsOnly ==
  ASSUME AccountInv, NEW q \in OwnerRequests, End(q),
         UNCHANGED <<user, sessions, backup, attempts, spent>>
  PROVE  AccountInv' /\ Heeded
<1>1. /\ requests' \in [OwnerRequests -> OwnerRequest \union {Absent}]
      /\ loginLock' \in OwnerRequests \union {Absent}
      /\ LockIsHeld' /\ RequestsAreWhole' /\ SomeEnd
  BY EndRequests
<1>2. \A p \in OwnerRequests : IsAt(p, "decide")' => requests'[p] = requests[p]
  BY <1>1 DEF SomeEnd, IsAt
<1>3. /\ SessionsAreOfTheAccount' /\ RowsFit' /\ Heeded
  BY <1>2, FewerAreOpen DEF Fewer, AccountInv, AccountTypeOK
<1>4. AccountTypeOK' /\ CodesAreBehind' /\ FailuresAreCounted'
  BY <1>1 DEF AccountInv, AccountTypeOK, CodesAreBehind, FailuresAreCounted
<1> QED  BY <1>1, <1>3, <1>4 DEF AccountInv

(* A request that is going on, with some of its fields set anew. *)
LEMMA RequestFields ==
  ASSUME AccountInv, NEW q \in OwnerRequests, requests[q] # Absent
  PROVE  /\ requests[q] \in OwnerRequest
         /\ \A place \in RequestPlaces : [requests[q] EXCEPT !.at = place] \in OwnerRequest
         /\ requests[q].op # "login" => requests[q].session \in Sessions
  BY DEF AccountInv, AccountTypeOK, RequestsAreWhole, IsOf, OwnerRequest

LEMMA LoginKeeps ==
  ASSUME AccountInv, NEW q \in OwnerRequests, Login(q)
  PROVE  AccountInv' /\ Heeded
<1> DEFINE record == [op |-> "login", at |-> "lock", session |-> Absent, step |-> Absent,
                      hash |-> user.hash, row |-> Absent, count |-> 0]
<1>1. user.hash \in 1..MaxPasswords /\ 0 \in 0..MaxFailures
  BY Numbers DEF AccountInv, AccountTypeOK, User
<1>2. record \in OwnerRequest  BY <1>1 DEF OwnerRequest, Operations, RequestPlaces
<1>3. record.op = "login" /\ record.at = "lock"  OBVIOUS
<1>4. /\ requests' = [requests EXCEPT ![q] = record]
      /\ UNCHANGED <<user, sessions, backup, attempts, loginLock, spent>>
  BY DEF Login
<1> HIDE DEF record
<1> QED  BY <1>2, <1>3, <1>4, StepsOn DEF Locks

LEMMA AskKeeps ==
  ASSUME AccountInv, NEW q \in OwnerRequests, NEW op \in Operations \ {"login"},
         NEW s \in Sessions, AskWith(q, op, s)
  PROVE  AccountInv' /\ Heeded
<1> DEFINE step == LoginStep(user, sessions[s])
           waits == op = "second factor" \/ (op = "password" /\ step = "ready")
           record == [op |-> op, at |-> IF waits THEN "lock" ELSE "read", session |-> s,
                      step |-> step, hash |-> user.hash, row |-> Absent, count |-> 0]
<1>1. user.hash \in 1..MaxPasswords /\ 0 \in 0..MaxFailures
  BY Numbers DEF AccountInv, AccountTypeOK, User
<1>2. step \in LoginSteps  BY DEF LoginStep, LoginSteps
<1>3. /\ requests' = [requests EXCEPT ![q] = record]
      /\ UNCHANGED <<user, sessions, backup, attempts, loginLock, spent>>
  BY DEF AskWith
<1> HIDE DEF step
<1>4. record \in OwnerRequest  BY <1>1, <1>2 DEF OwnerRequest, RequestPlaces
<1>5. /\ record.at \in {"lock", "read"} /\ record.session \in Sessions
      /\ record.op = "second factor" => record.at = "lock"
  OBVIOUS
<1> HIDE DEF record
<1> QED  BY <1>3, <1>4, <1>5, StepsOn DEF Locks

LEMMA TakeLockKeeps ==
  ASSUME AccountInv, NEW q \in OwnerRequests, TakeLoginLock(q)
  PROVE  AccountInv' /\ Heeded
<1>1. CASE LockedOut(q) /\ ~IsOf(q, "second factor")
  BY <1>1, EndsOnly DEF TakeLoginLock
<1>2. CASE ~(LockedOut(q) /\ ~IsOf(q, "second factor"))
  <2> DEFINE place == IF IsOf(q, "second factor") THEN "read" ELSE "check"
             record == [requests[q] EXCEPT !.at = place]
  <2>1. /\ requests[q] # Absent /\ requests[q] \in OwnerRequest
        /\ requests[q].op # "login" => requests[q].session \in Sessions
    BY RequestFields DEF TakeLoginLock, IsAt
  <2>2. /\ requests' = [requests EXCEPT ![q] = record] /\ loginLock = Absent /\ loginLock' = q
        /\ UNCHANGED <<user, sessions, backup, attempts, spent>>
    BY <1>2 DEF TakeLoginLock, LockFree
  <2>3. record \in OwnerRequest  BY <2>1, RequestFields DEF RequestPlaces
  <2>4. record.at = place /\ record.op = requests[q].op /\ record.session = requests[q].session
    BY <2>1 DEF OwnerRequest
  <2> HIDE DEF record
  <2>5. record.at = "check" => ~IsOf(q, "second factor")  BY <2>4
  <2>6. record.at = "check" => ~attempts.locked  BY <1>2, <2>5 DEF LockedOut
  <2> QED  BY <2>1, <2>2, <2>3, <2>4, <2>6, StepsOn
<1> QED  BY <1>1, <1>2

LEMMA ConfirmPasswordKeeps ==
  ASSUME AccountInv, NEW q \in OwnerRequests, ConfirmPassword(q)
  PROVE  AccountInv' /\ Heeded
<1> DEFINE record == [requests[q] EXCEPT !.at = "read"]
<1>1. /\ requests[q] # Absent /\ requests[q].op = "password" /\ requests[q] \in OwnerRequest
      /\ requests[q].session \in Sessions
  BY RequestFields DEF ConfirmPassword, IsAt, IsOf
<1>2. /\ requests' = [requests EXCEPT ![q] = record]
      /\ UNCHANGED <<user, sessions, backup, attempts, spent, loginLock>>
  BY DEF ConfirmPassword, StepsTo
<1>3. record \in OwnerRequest  BY <1>1, RequestFields DEF RequestPlaces
<1>4. record.at = "read" /\ record.op = "password" /\ record.session \in Sessions
  BY <1>1 DEF OwnerRequest
<1> HIDE DEF record
<1> QED  BY <1>2, <1>3, <1>4, StepsOn DEF Locks

LEMMA RejectPasswordKeeps ==
  ASSUME AccountInv, NEW q \in OwnerRequests, RejectPassword(q)
  PROVE  AccountInv' /\ Heeded
<1> DEFINE record == [requests[q] EXCEPT !.at = "record", !.count = attempts.count]
<1>1. /\ requests[q] # Absent /\ requests[q].at = "check" /\ requests[q] \in OwnerRequest
      /\ requests[q].op # "login" => requests[q].session \in Sessions
  BY RequestFields DEF RejectPassword, IsAt
<1>2. attempts.count \in 0..MaxFailures /\ attempts.count >= attempts.failed
  BY DEF AccountInv, AccountTypeOK, FailuresAreCounted
<1>3. loginLock = q  BY <1>1 DEF AccountInv, LockIsHeld, UnderLock, Locks
<1>4. /\ requests' = [requests EXCEPT ![q] = record]
      /\ UNCHANGED <<user, sessions, backup, attempts, spent, loginLock>>
  BY DEF RejectPassword
<1>5. record \in OwnerRequest  BY <1>1, <1>2 DEF OwnerRequest, RequestPlaces
<1>6. /\ record.at = "record" /\ record.op = requests[q].op /\ record.session = requests[q].session
      /\ record.count = attempts.count
  BY <1>1 DEF OwnerRequest
<1> HIDE DEF record
<1> QED  BY <1>1, <1>2, <1>3, <1>4, <1>5, <1>6, StepsOn

LEMMA ReadSessionKeeps ==
  ASSUME AccountInv, NEW q \in OwnerRequests, ReadSession(q)
  PROVE  AccountInv' /\ Heeded
<1> DEFINE s == requests[q].session
           record == [requests[q] EXCEPT !.at = "decide", !.row = sessions[s]]
<1>1. CASE s \notin Opened  BY <1>1, EndsOnly DEF ReadSession
<1>2. CASE s \in Opened
  <2>1. /\ requests[q] # Absent /\ requests[q].at = "read" /\ requests[q] \in OwnerRequest
        /\ requests[q].op # "login" => requests[q].session \in Sessions
    BY RequestFields DEF ReadSession, IsAt
  <2>2. /\ requests' = [requests EXCEPT ![q] = record]
        /\ UNCHANGED <<user, sessions, backup, attempts, spent, loginLock>>
    BY <1>2 DEF ReadSession
  <2>3. sessions[s] \in Session /\ sessions[s] # Absent
    BY <1>2 DEF Opened, AccountInv, AccountTypeOK
  <2>4. record \in OwnerRequest  BY <2>1, <2>3 DEF OwnerRequest, RequestPlaces
  <2>5. /\ record.at = "decide" /\ record.op = requests[q].op /\ record.session = s
        /\ record.row = sessions[s]
    BY <2>1 DEF OwnerRequest
  <2>6. record.op = "second factor" => loginLock = q
    BY <2>1, <2>5 DEF AccountInv, LockIsHeld, UnderLock, Locks
  <2> HIDE DEF record
  <2> QED  BY <2>1, <2>2, <2>3, <2>4, <2>5, <2>6, StepsOn DEF Locks
<1> QED  BY <1>1, <1>2

LEMMA RefuseKeeps ==
  ASSUME AccountInv, NEW q \in OwnerRequests, RefuseRequest(q)
  PROVE  AccountInv' /\ Heeded
  BY EndsOnly DEF RefuseRequest

LEMMA RecordFailureKeeps ==
  ASSUME AccountInv, NEW q \in OwnerRequests, RecordFailure(q)
  PROVE  AccountInv' /\ Heeded
<1>1. /\ requests[q] # Absent /\ requests[q].at = "record" /\ requests[q] \in OwnerRequest
      /\ loginLock = q /\ requests[q].count >= attempts.failed
  BY RequestFields DEF RecordFailure, IsAt, AccountInv, LockIsHeld, UnderLock, Locks
<1>2. requests[q].count \in 0..MaxFailures  BY <1>1 DEF OwnerRequest
<1>3. /\ attempts' \in [count : 0..MaxFailures, locked : BOOLEAN, failed : 0..MaxFailures]
      /\ FailuresAreCounted'
  BY <1>1, <1>2, FailedCounts DEF RecordFailure, FailuresAreCounted
<1>4. /\ requests' \in [OwnerRequests -> OwnerRequest \union {Absent}]
      /\ loginLock' \in OwnerRequests \union {Absent}
      /\ LockIsHeld' /\ RequestsAreWhole' /\ SomeEnd
  BY <1>1, EndRequests DEF RecordFailure
<1>5. UNCHANGED <<user, sessions, backup, spent>>  BY DEF RecordFailure
<1>6. \A p \in OwnerRequests : IsAt(p, "decide")' => requests'[p] = requests[p]
  BY <1>4 DEF SomeEnd, IsAt
<1>7. /\ SessionsAreOfTheAccount' /\ RowsFit' /\ Heeded
  BY <1>5, <1>6, FewerAreOpen DEF Fewer, AccountInv, AccountTypeOK
<1>8. AccountTypeOK' /\ CodesAreBehind'
  BY <1>3, <1>4, <1>5 DEF AccountInv, AccountTypeOK, CodesAreBehind
<1> QED  BY <1>3, <1>4, <1>7, <1>8 DEF AccountInv

LEMMA OpenSessionKeeps ==
  ASSUME AccountInv, NEW q \in OwnerRequests, OpenSession(q)
  PROVE  AccountInv' /\ Heeded
<1>1. /\ requests[q] # Absent /\ requests[q].at = "check" /\ requests[q].hash = user.hash
      /\ loginLock = q /\ ~attempts.locked
      /\ UNCHANGED <<user, backup, spent>> /\ attempts' \in {attempts, NoFailures}
  BY DEF OpenSession, IsAt, SamePassword, AccountInv, LockIsHeld, UnderLock, Locks
<1>2. /\ requests' \in [OwnerRequests -> OwnerRequest \union {Absent}]
      /\ loginLock' \in OwnerRequests \union {Absent}
      /\ LockIsHeld' /\ RequestsAreWhole' /\ SomeEnd
  BY <1>1, EndRequests DEF OpenSession
<1>3. \A p \in OwnerRequests : IsAt(p, "decide")' => requests'[p] = requests[p] /\ IsAt(p, "decide")
  BY <1>2 DEF SomeEnd, IsAt
<1>4. FailuresAreCounted' /\ CodesAreBehind'
      /\ attempts' \in [count : 0..MaxFailures, locked : BOOLEAN, failed : 0..MaxFailures]
  BY <1>1, NoFailuresCounts DEF AccountInv, AccountTypeOK, FailuresAreCounted, CodesAreBehind
<1>5. CASE UNCHANGED sessions
  <2>1. /\ SessionsAreOfTheAccount' /\ RowsFit' /\ Heeded
    BY <1>1, <1>3, <1>5, FewerAreOpen DEF Fewer, AccountInv, AccountTypeOK
  <2>2. AccountTypeOK'  BY <1>1, <1>2, <1>4, <1>5 DEF AccountInv, AccountTypeOK
  <2> QED  BY <1>2, <1>4, <2>1, <2>2 DEF AccountInv
<1>6. ASSUME ~user.blocked, NEW s \in Sessions, Fresh(s),
             sessions' = [sessions EXCEPT ![s] =
                 [passed |-> FALSE, hash |-> requests[q].hash, key |-> 0, late |-> FALSE]]
      PROVE  AccountInv' /\ Heeded
  <2> DEFINE row == [passed |-> FALSE, hash |-> requests[q].hash, key |-> 0, late |-> FALSE]
  <2>1. user.hash \in 1..MaxPasswords /\ 0 \in 0..MaxKeys
    BY Numbers DEF AccountInv, AccountTypeOK, User
  <2>2. row \in Session /\ row.hash = user.hash /\ ~row.passed
    BY <1>1, <2>1 DEF Session
  <2>3. /\ sessions' \in [Sessions -> Session \union {Absent}] /\ sessions'[s] = row
        /\ \A t \in Sessions \ {s} : sessions'[t] = sessions[t]
    BY <1>6, <2>2 DEF AccountInv, AccountTypeOK
  <2> HIDE DEF row
  <2>4. s \notin Opened /\ Opened' = Opened \union {s}
    BY <1>6, <2>2, <2>3, RecordAssumption DEF Fresh, Opened
  <2>5. SessionsAreOfTheAccount'
    BY <1>1, <1>6, <2>2, <2>3, <2>4 DEF AccountInv, SessionsAreOfTheAccount, Opened
  <2>6. \A t \in Opened' : PassedNow(sessions[t])'
    BY <1>1, <2>2, <2>3, <2>4 DEF AccountInv, RowsFit, PassedNow, Opened
  <2>7. ASSUME NEW p \in OwnerRequests, IsAt(p, "decide")', requests'[p].session \in Opened'
        PROVE  PassedNow(requests[p].row)' /\ (user'.blocked => requests'[p].row.late)
    <3>1. requests'[p] = requests[p] /\ IsAt(p, "decide") /\ requests[p].session # s
      BY <1>3, <1>6, <2>7 DEF Fresh, IsAt
    <3>2. PassedNow(requests[p].row) /\ (user.blocked => requests[p].row.late)
      BY <2>4, <2>7, <3>1 DEF AccountInv, RowsFit
    <3> QED  BY <1>1, <3>1, <3>2 DEF PassedNow
  <2>8. RowsFit'  BY <2>6, <2>7 DEF RowsFit
  <2>9. Heeded  BY <1>1, <2>3, <2>4 DEF Heeded, SpendsACode, NoFurther, PassesNow, Opened
  <2>10. AccountTypeOK'  BY <1>1, <1>2, <1>4, <2>3 DEF AccountInv, AccountTypeOK
  <2> QED  BY <1>2, <1>4, <2>5, <2>8, <2>9, <2>10 DEF AccountInv
<1> QED  BY <1>5, <1>6 DEF OpenSession

(* The session of a request passes the second factor the account has now. *)
LEMMA SessionPasses ==
  ASSUME AccountInv, NEW q \in OwnerRequests, IsAt(q, "decide"), sessions' = Passes(q), SomeEnd,
         user'.hash = user.hash, user'.key = user.key, user'.blocked = user.blocked,
         user'.enabled, user.key \in 0..MaxKeys
  PROVE  /\ sessions' \in [Sessions -> Session \union {Absent}]
         /\ Opened' = Opened
         /\ \A s \in Sessions : sessions'[s] # sessions[s] => s = requests[q].session
         /\ SessionsAreOfTheAccount' /\ RowsFit'
<1> DEFINE s == requests[q].session
<1>1. CASE s \notin Opened
  <2>1. sessions' = sessions  BY <1>1 DEF Passes
  <2> QED
    BY <2>1 DEF AccountInv, AccountTypeOK, SessionsAreOfTheAccount, RowsFit, PassedNow, Opened,
                SomeEnd, IsAt
<1>2. CASE s \in Opened
  <2> DEFINE row == [sessions[s] EXCEPT !.passed = TRUE, !.key = user.key]
  <2>1. s \in Sessions /\ sessions[s] \in Session  BY <1>2 DEF Opened, AccountInv, AccountTypeOK
  <2>2. /\ row \in Session /\ row.key = user.key /\ row.hash = sessions[s].hash
        /\ row.late = sessions[s].late
    BY <2>1 DEF Session
  <2>3. sessions' = [sessions EXCEPT ![s] = row]
    BY <1>2, <2>1 DEF Passes, AccountInv, AccountTypeOK
  <2> HIDE DEF row
  <2>4. /\ sessions' \in [Sessions -> Session \union {Absent}] /\ sessions'[s] = row
        /\ \A t \in Sessions \ {s} : sessions'[t] = sessions[t]
    BY <2>1, <2>2, <2>3 DEF AccountInv, AccountTypeOK
  <2>5. Opened' = Opened  BY <1>2, <2>2, <2>4, RecordAssumption DEF Opened
  <2>6. SessionsAreOfTheAccount'
    BY <1>2, <2>2, <2>4, <2>5 DEF AccountInv, SessionsAreOfTheAccount, Opened
  <2>7. \A t \in Opened' : PassedNow(sessions[t])'
    BY <2>2, <2>4, <2>5 DEF AccountInv, RowsFit, PassedNow, Opened
  <2>8. ASSUME NEW p \in OwnerRequests, IsAt(p, "decide")', requests'[p].session \in Opened'
        PROVE  PassedNow(requests[p].row)' /\ (user'.blocked => requests'[p].row.late)
    <3>1. requests'[p] = requests[p] /\ IsAt(p, "decide")  BY <2>8 DEF SomeEnd, IsAt
    <3> QED  BY <2>5, <2>8, <3>1 DEF AccountInv, RowsFit, PassedNow
  <2>9. RowsFit'  BY <2>7, <2>8 DEF RowsFit
  <2> QED  BY <2>4, <2>5, <2>6, <2>9
<1> QED  BY <1>1, <1>2

(* A code of the application that was not accepted yet. *)
LEMMA CodeIsNew ==
  ASSUME AccountInv, NEW t \in 1..MaxStep, FreshCode(t), user.key # 0,
         spent' = spent \union {<<user.key, t>>},
         NEW enabled \in BOOLEAN,
         user' = [user EXCEPT !.enabled = enabled, !.lastStep = t]
  PROVE  /\ user' \in User /\ spent' # spent
         /\ spent' \subseteq (1..MaxKeys) \X (1..MaxStep)
         /\ CodesAreBehind'
         /\ user'.hash = user.hash /\ user'.key = user.key /\ user'.blocked = user.blocked
         /\ user'.enabled = enabled
<1>1. /\ user \in User /\ user.lastStep \in 0..MaxStep /\ user.key \in 1..MaxKeys
      /\ user.keys \in 0..MaxKeys
  BY Numbers DEF AccountInv, AccountTypeOK, User
<1>2. /\ user' \in User /\ user'.hash = user.hash /\ user'.key = user.key
      /\ user'.blocked = user.blocked /\ user'.enabled = enabled /\ user'.lastStep = t
      /\ user'.keys = user.keys
  <2>1. t \in 0..MaxStep  BY Numbers
  <2> QED  BY <1>1, <2>1 DEF User
<1>3. <<user.key, t>> \notin spent
  <2>1. SUFFICES ASSUME <<user.key, t>> \in spent PROVE FALSE  OBVIOUS
  <2>2. t <= user.lastStep  BY <2>1 DEF AccountInv, CodesAreBehind
  <2> QED  BY <1>1, <2>2, Numbers DEF FreshCode
<1>4. spent' \subseteq (1..MaxKeys) \X (1..MaxStep)
  BY <1>1 DEF AccountInv, AccountTypeOK
<1>5. CodesAreBehind'
  <2>1. ASSUME NEW code \in spent'
        PROVE  code[1] <= user.keys /\ (code[1] = user.key => code[2] <= t)
    <3>1. CASE code \in spent
      <4>1. /\ code[2] \in 1..MaxStep
            /\ code[1] <= user.keys /\ (code[1] = user.key => code[2] <= user.lastStep)
        BY <3>1 DEF AccountInv, AccountTypeOK, CodesAreBehind
      <4> QED  BY <1>1, <4>1, Numbers DEF FreshCode
    <3>2. CASE code = <<user.key, t>>
      BY <1>1, <3>2, Numbers DEF AccountInv, CodesAreBehind
    <3> QED  BY <2>1, <3>1, <3>2
  <2> QED  BY <1>2, <2>1 DEF AccountInv, CodesAreBehind
<1> QED  BY <1>2, <1>3, <1>4, <1>5

LEMMA SecondFactorKeeps ==
  ASSUME AccountInv, NEW q \in OwnerRequests, SecondFactor(q)
  PROVE  AccountInv' /\ Heeded
<1> DEFINE s == requests[q].session
<1>1. /\ requests[q] # Absent /\ requests[q] \in OwnerRequest /\ requests[q].row # Absent
      /\ loginLock = q /\ s \in Sessions /\ IsAt(q, "decide")
  BY RequestFields DEF SecondFactor, IsAt, IsOf, AccountInv, LockIsHeld, UnderLock, Locks,
     RequestsAreWhole
<1>2. /\ requests' \in [OwnerRequests -> OwnerRequest \union {Absent}]
      /\ loginLock' \in OwnerRequests \union {Absent}
      /\ LockIsHeld' /\ RequestsAreWhole' /\ SomeEnd
  BY <1>1, EndRequests DEF SecondFactor
<1>3. \A p \in OwnerRequests : IsAt(p, "decide")' => requests'[p] = requests[p]
  BY <1>2 DEF SomeEnd, IsAt
<1>4. sessions \in [Sessions -> Session \union {Absent}]  BY DEF AccountInv, AccountTypeOK
<1>5. CASE UNCHANGED <<user, sessions, backup, attempts, spent>>
  BY <1>5, EndsOnly DEF SecondFactor
<1>6. CASE /\ sessions' = [sessions EXCEPT ![s] = Absent]
           /\ UNCHANGED <<user, backup, attempts, spent>>
  <2>1. sessions' \in [Sessions -> Session \union {Absent}] /\ Fewer
    BY <1>4, <1>6 DEF Fewer
  <2>2. /\ SessionsAreOfTheAccount' /\ RowsFit' /\ Heeded
    BY <1>3, <1>6, <2>1, FewerAreOpen
  <2>3. AccountTypeOK' /\ CodesAreBehind' /\ FailuresAreCounted'
    BY <1>2, <1>6, <2>1 DEF AccountInv, AccountTypeOK, CodesAreBehind, FailuresAreCounted
  <2> QED  BY <1>2, <2>2, <2>3 DEF AccountInv
<1>7. CASE /\ attempts' = Failed(attempts.count)
           /\ sessions' = IF attempts'.locked THEN [sessions EXCEPT ![s] = Absent] ELSE sessions
           /\ UNCHANGED <<user, backup, spent>>
  <2>1. sessions' \in [Sessions -> Session \union {Absent}] /\ Fewer
    BY <1>4, <1>7 DEF Fewer
  <2>2. /\ SessionsAreOfTheAccount' /\ RowsFit' /\ Heeded
    BY <1>3, <1>7, <2>1, FewerAreOpen
  <2>3. attempts.count \in 0..MaxFailures /\ attempts.count >= attempts.failed
    BY DEF AccountInv, AccountTypeOK, FailuresAreCounted
  <2>4. /\ attempts' \in [count : 0..MaxFailures, locked : BOOLEAN, failed : 0..MaxFailures]
        /\ FailuresAreCounted'
    BY <1>7, <2>3, FailedCounts DEF FailuresAreCounted
  <2>5. AccountTypeOK' /\ CodesAreBehind'
    BY <1>2, <1>7, <2>1, <2>4 DEF AccountInv, AccountTypeOK, CodesAreBehind
  <2> QED  BY <1>2, <2>2, <2>4, <2>5 DEF AccountInv
<1>8. CASE /\ StepNow(q) = "second_factor"
           /\ ~LockedOut(q)
           /\ sessions' = Passes(q)
           /\ attempts' = NoFailures
           /\ \/ \E t \in 1..MaxStep :
                    /\ FreshCode(t)
                    /\ user' = [user EXCEPT !.lastStep = t]
                    /\ spent' = spent \union {<<user.key, t>>}
                    /\ UNCHANGED backup
              \/ \E c \in backup :
                    /\ backup' = backup \ {c}
                    /\ UNCHANGED <<user, spent>>
  <2>1. user \in User /\ user.enabled /\ user.key # 0 /\ user.key \in 0..MaxKeys
    BY <1>8 DEF StepNow, LoginStep, AccountInv, AccountTypeOK, User, CodesAreBehind
  <2>2. ~attempts.locked  BY <1>8 DEF LockedOut
  <2>3. /\ user' \in User /\ CodesAreBehind'
        /\ user'.hash = user.hash /\ user'.key = user.key /\ user'.blocked = user.blocked
        /\ user'.enabled
        /\ spent' \subseteq (1..MaxKeys) \X (1..MaxStep) /\ backup' \subseteq BackupCodes
        /\ spent' # spent \/ backup \ backup' # {}
    <3>1. CASE \E t \in 1..MaxStep : /\ FreshCode(t)
                                     /\ user' = [user EXCEPT !.lastStep = t]
                                     /\ spent' = spent \union {<<user.key, t>>}
                                     /\ UNCHANGED backup
      <4>1. PICK t \in 1..MaxStep : /\ FreshCode(t)
                                    /\ user' = [user EXCEPT !.lastStep = t]
                                    /\ spent' = spent \union {<<user.key, t>>}
                                    /\ UNCHANGED backup
        BY <3>1
      <4>2. [user EXCEPT !.lastStep = t] = [user EXCEPT !.enabled = TRUE, !.lastStep = t]
        BY <2>1 DEF User
      <4> QED  BY <2>1, <4>1, <4>2, CodeIsNew DEF AccountInv, AccountTypeOK
    <3>2. CASE \E c \in backup : backup' = backup \ {c} /\ UNCHANGED <<user, spent>>
      BY <2>1, <3>2 DEF AccountInv, AccountTypeOK, CodesAreBehind
    <3> QED  BY <1>8, <3>1, <3>2
  <2>4. /\ sessions' \in [Sessions -> Session \union {Absent}]
        /\ SessionsAreOfTheAccount' /\ RowsFit'
    BY <1>1, <1>2, <1>8, <2>1, <2>3, SessionPasses
  <2>5. Opened' = Opened  BY <1>1, <1>2, <1>8, <2>1, <2>3, SessionPasses
  <2>6. Heeded
    BY <2>2, <2>3, <2>5 DEF Heeded, SpendsACode, NoFurther, Opened
  <2>7. AccountTypeOK' /\ FailuresAreCounted'
    BY <1>2, <1>8, <2>3, <2>4, NoFailuresCounts DEF AccountTypeOK, FailuresAreCounted
  <2> QED  BY <1>2, <2>3, <2>4, <2>6, <2>7 DEF AccountInv
<1> QED  BY <1>5, <1>6, <1>7, <1>8 DEF SecondFactor

LEMMA ChangePasswordKeeps ==
  ASSUME AccountInv, NEW q \in OwnerRequests, ChangePassword(q)
  PROVE  AccountInv' /\ Heeded
<1> DEFINE s == requests[q].session
           row == requests[q].row
<1>1. /\ requests[q] # Absent /\ requests[q] \in OwnerRequest /\ row \in Session
      /\ IsAt(q, "decide") /\ UNCHANGED <<backup, attempts, spent>>
  BY RequestFields DEF ChangePassword, IsAt, AccountInv, RequestsAreWhole, OwnerRequest
<1>2. /\ requests' \in [OwnerRequests -> OwnerRequest \union {Absent}]
      /\ loginLock' \in OwnerRequests \union {Absent}
      /\ LockIsHeld' /\ RequestsAreWhole' /\ SomeEnd
  BY <1>1, EndRequests DEF ChangePassword
<1>3. CASE UNCHANGED <<user, sessions>>
  BY <1>1, <1>3, EndsOnly DEF ChangePassword
<1>4. CASE /\ user.hash < MaxPasswords
           /\ user' = [user EXCEPT !.hash = @ + 1, !.mustChange = FALSE]
  <2>1. /\ user \in User /\ user.hash \in 1..MaxPasswords  BY DEF AccountInv, AccountTypeOK, User
  <2>2. user.hash + 1 \in 1..MaxPasswords  BY <1>4, <2>1, Numbers
  <2>3. /\ user' \in User /\ user'.hash = user.hash + 1 /\ user'.hash # user.hash
        /\ user'.key = user.key /\ user'.blocked = user.blocked /\ user'.enabled = user.enabled
        /\ user'.keys = user.keys /\ user'.lastStep = user.lastStep
    <3>1. user' = [user EXCEPT !.hash = user.hash + 1, !.mustChange = FALSE]  BY <1>4
    <3>2. user' \in User  BY <2>1, <2>2, <3>1 DEF User
    <3>3. user.hash + 1 # user.hash  BY <2>1, Numbers
    <3>4. user'.hash = user.hash + 1  BY <2>1, <3>1 DEF User
    <3>5. /\ user'.key = user.key /\ user'.blocked = user.blocked
          /\ user'.enabled = user.enabled /\ user'.keys = user.keys
          /\ user'.lastStep = user.lastStep
      BY <2>1, <3>1 DEF User
    <3> QED  BY <3>2, <3>3, <3>4, <3>5
  <2>4. CodesAreBehind' /\ FailuresAreCounted'
    BY <1>1, <2>3 DEF AccountInv, CodesAreBehind, FailuresAreCounted
  <2>5. CASE sessions' = NoSessions
    <3>1. AccountTypeOK'  BY <1>1, <1>2, <2>3, <2>5, NoneIsOpen DEF AccountInv, AccountTypeOK
    <3> QED  BY <1>2, <2>4, <2>5, <3>1, NoneIsOpen DEF AccountInv
  <2>6. ASSUME NEW t \in Sessions, Fresh(t),
               sessions' = [NoSessions EXCEPT ![t] =
                   [row EXCEPT !.hash = user.hash + 1, !.late = @ \/ s \notin Opened]]
        PROVE  AccountInv' /\ Heeded
    <3> DEFINE new == [row EXCEPT !.hash = user.hash + 1, !.late = @ \/ s \notin Opened]
    <3>1. row.late \in BOOLEAN  BY <1>1 DEF Session
    <3>2. /\ new \in Session /\ new.hash = user'.hash
          /\ new.late = (row.late \/ s \notin Opened)
          /\ new.passed = row.passed /\ new.key = row.key
      BY <1>1, <2>2, <2>3, <3>1 DEF Session
    <3> HIDE DEF new
    <3>3. /\ sessions' \in [Sessions -> Session \union {Absent}] /\ sessions'[t] = new
          /\ \A u \in Sessions \ {t} : sessions'[u] = Absent
      BY <2>6, <3>2 DEF NoSessions, new
    <3>4. Opened' = {t} /\ t \notin Opened
      BY <2>6, <3>2, <3>3, RecordAssumption DEF Opened, Fresh
    <3>5. SessionsAreOfTheAccount'
      BY <1>1, <2>3, <3>2, <3>3, <3>4 DEF AccountInv, SessionsAreOfTheAccount, RowsFit
    <3>6. PassedNow(sessions[t])'
      BY <1>1, <2>3, <3>2, <3>3 DEF AccountInv, RowsFit, PassedNow
    <3>7. \A p \in OwnerRequests : IsAt(p, "decide")' => requests'[p].session \notin Opened'
      BY <1>2, <2>6, <3>4 DEF SomeEnd, IsAt, Fresh
    <3>8. RowsFit'  BY <3>4, <3>6, <3>7 DEF RowsFit
    <3>9. Heeded
      BY <2>3, <3>3, <3>4 DEF Heeded, SpendsACode, NoFurther, PassesNow, Opened
    <3>10. AccountTypeOK'  BY <1>1, <1>2, <2>3, <3>3 DEF AccountInv, AccountTypeOK
    <3> QED  BY <1>2, <2>4, <3>5, <3>8, <3>9, <3>10 DEF AccountInv
  <2>7. sessions' = NoSessions \/
        \E t \in Sessions :
            /\ Fresh(t)
            /\ sessions' = [NoSessions EXCEPT ![t] =
                   [row EXCEPT !.hash = user.hash + 1, !.late = @ \/ s \notin Opened]]
    BY <1>4, <2>3 DEF ChangePassword
  <2> QED  BY <2>5, <2>6, <2>7
<1> QED  BY <1>3, <1>4 DEF ChangePassword

LEMMA SetupKeeps ==
  ASSUME AccountInv, NEW q \in OwnerRequests, Setup(q)
  PROVE  AccountInv' /\ Heeded
<1>1. UNCHANGED <<sessions, backup, attempts, spent>>  BY DEF Setup
<1>2. /\ requests' \in [OwnerRequests -> OwnerRequest \union {Absent}]
      /\ loginLock' \in OwnerRequests \union {Absent}
      /\ LockIsHeld' /\ RequestsAreWhole' /\ SomeEnd
  BY <1>1, EndRequests DEF Setup
<1>3. CASE UNCHANGED user
  BY <1>1, <1>3, EndsOnly DEF Setup
<1>4. CASE /\ StepNow(q) = "second_factor_setup" /\ user.key = 0 /\ user.keys < MaxKeys
           /\ user' = [user EXCEPT !.key = user.keys + 1, !.keys = @ + 1]
  <2>1. user \in User /\ user.keys \in 0..MaxKeys /\ user.enabled \in BOOLEAN
    BY DEF AccountInv, AccountTypeOK, User
  <2>2. ~user.enabled  BY <1>4 DEF StepNow, LoginStep
  <2>3. user.keys + 1 \in 0..MaxKeys  BY <1>4, <2>1, Numbers
  <2>4. /\ user' \in User /\ user'.hash = user.hash /\ user'.blocked = user.blocked
        /\ user'.enabled = user.enabled /\ user'.key = user.keys + 1 /\ user'.keys = user.keys + 1
        /\ user'.lastStep = user.lastStep
    BY <1>4, <2>1, <2>3 DEF User
  <2>5. CodesAreBehind'
    <3>1. ASSUME NEW code \in spent
          PROVE  code[1] <= user'.keys /\ code[1] # user'.key
      <4>1. code[1] \in 1..MaxKeys /\ code[1] <= user.keys
        BY DEF AccountInv, AccountTypeOK, CodesAreBehind
      <4> QED  BY <2>1, <2>4, <4>1, Numbers
    <3> QED  BY <1>1, <2>1, <2>2, <2>4, <3>1, Numbers DEF CodesAreBehind
  <2>6. SessionsAreOfTheAccount'
    BY <1>1, <2>4 DEF AccountInv, SessionsAreOfTheAccount, Opened
  <2>7. RowsFit'
    <3>1. \A t \in Opened : ~(sessions[t].passed /\ ~sessions[t].late)
      BY <2>2 DEF AccountInv, RowsFit, PassedNow
    <3>2. \A p \in OwnerRequests : IsAt(p, "decide") /\ requests[p].session \in Opened =>
              ~(requests[p].row.passed /\ ~requests[p].row.late)
      BY <2>2 DEF AccountInv, RowsFit, PassedNow
    <3>3. \A p \in OwnerRequests :
             IsAt(p, "decide")' => requests'[p] = requests[p] /\ IsAt(p, "decide")
      BY <1>2 DEF SomeEnd, IsAt
    <3> QED  BY <1>1, <2>4, <3>1, <3>2, <3>3 DEF AccountInv, RowsFit, PassedNow, Opened
  <2>8. Heeded  BY <1>1 DEF Heeded, SpendsACode, NoFurther, PassesNow, Opened
  <2>9. AccountTypeOK' /\ FailuresAreCounted'
    BY <1>1, <1>2, <2>4 DEF AccountInv, AccountTypeOK, FailuresAreCounted
  <2> QED  BY <1>2, <2>5, <2>6, <2>7, <2>8, <2>9 DEF AccountInv
<1> QED  BY <1>3, <1>4 DEF Setup

LEMMA ConfirmKeeps ==
  ASSUME AccountInv, NEW q \in OwnerRequests, Confirm(q)
  PROVE  AccountInv' /\ Heeded
<1>1. IsAt(q, "decide") /\ UNCHANGED attempts  BY DEF Confirm
<1>2. /\ requests' \in [OwnerRequests -> OwnerRequest \union {Absent}]
      /\ loginLock' \in OwnerRequests \union {Absent}
      /\ LockIsHeld' /\ RequestsAreWhole' /\ SomeEnd
  BY <1>1, EndRequests DEF Confirm
<1>3. CASE UNCHANGED <<user, sessions, backup, spent>>
  BY <1>1, <1>3, EndsOnly DEF Confirm
<1>4. ASSUME StepNow(q) = "second_factor_setup", user.key # 0, NEW t \in 1..MaxStep,
             FreshCode(t), user' = [user EXCEPT !.enabled = TRUE, !.lastStep = t],
             spent' = spent \union {<<user.key, t>>},
             sessions' = Passes(q), backup' = BackupCodes
      PROVE  AccountInv' /\ Heeded
  <2>1. ~user.enabled /\ user.key \in 0..MaxKeys
    BY <1>4 DEF StepNow, LoginStep, AccountInv, AccountTypeOK, User
  <2>2. /\ user' \in User /\ spent' # spent
        /\ spent' \subseteq (1..MaxKeys) \X (1..MaxStep)
        /\ CodesAreBehind'
        /\ user'.hash = user.hash /\ user'.key = user.key /\ user'.blocked = user.blocked
        /\ user'.enabled
    BY <1>4, CodeIsNew
  <2>3. /\ sessions' \in [Sessions -> Session \union {Absent}]
        /\ Opened' = Opened /\ SessionsAreOfTheAccount' /\ RowsFit'
    BY <1>1, <1>2, <1>4, <2>1, <2>2, SessionPasses
  <2>4. Heeded  BY <2>1, <2>2, <2>3 DEF Heeded, SpendsACode, NoFurther, Opened
  <2>5. AccountTypeOK' /\ FailuresAreCounted'
    BY <1>1, <1>2, <1>4, <2>2, <2>3 DEF AccountInv, AccountTypeOK, FailuresAreCounted
  <2> QED  BY <1>2, <2>2, <2>3, <2>4, <2>5 DEF AccountInv
<1> QED  BY <1>3, <1>4 DEF Confirm

-----------------------------------------------------------------------------
(* Steps of nobody's request. *)

(* The requests are as they were; a counter is as it was, deleted, or unlocked. *)
LEMMA SameRequests ==
  ASSUME AccountInv, UNCHANGED <<requests, loginLock>>,
         attempts' \in {attempts, NoFailures, [attempts EXCEPT !.locked = FALSE]}
  PROVE  /\ LockIsHeld' /\ RequestsAreWhole' /\ FailuresAreCounted'
         /\ attempts' \in [count : 0..MaxFailures, locked : BOOLEAN, failed : 0..MaxFailures]
<1>1. attempts \in [count : 0..MaxFailures, locked : BOOLEAN, failed : 0..MaxFailures]
  BY DEF AccountInv, AccountTypeOK
<1>2. /\ attempts' \in [count : 0..MaxFailures, locked : BOOLEAN, failed : 0..MaxFailures]
      /\ attempts'.locked => attempts.locked
      /\ attempts'.failed \in {0, attempts.failed}
      /\ \/ attempts' = NoFailures
         \/ attempts'.count = attempts.count /\ attempts'.failed = attempts.failed
  <2>1. CASE attempts' = attempts  BY <1>1, <2>1
  <2>2. CASE attempts' = NoFailures  BY <2>2, NoFailuresCounts
  <2>3. CASE attempts' = [attempts EXCEPT !.locked = FALSE]  BY <1>1, <2>3
  <2> QED  BY <2>1, <2>2, <2>3
<1>3. FailuresAreCounted'
  BY <1>2, NoFailuresCounts DEF AccountInv, FailuresAreCounted
<1>4. \A q \in OwnerRequests : IsAt(q, "record") => requests[q].count \in Nat
  BY DEF AccountInv, AccountTypeOK, OwnerRequest, IsAt
<1>5. LockIsHeld'
  <2>1. ASSUME NEW q \in OwnerRequests, IsAt(q, "record")
        PROVE  requests[q].count >= attempts'.failed
    BY <1>2, <1>4, <2>1 DEF AccountInv, LockIsHeld
  <2> QED  BY <1>2, <2>1 DEF AccountInv, LockIsHeld, UnderLock, Locks, IsAt
<1>6. RequestsAreWhole'  BY DEF AccountInv, RequestsAreWhole, IsAt, IsOf
<1> QED  BY <1>2, <1>3, <1>5, <1>6

(* All sessions of the account end. *)
LEMMA AllEnd ==
  ASSUME AccountInv, UNCHANGED <<requests, loginLock, spent>>, sessions' = NoSessions,
         attempts' \in {attempts, NoFailures}, backup' \in {backup, {}},
         user' \in User, CodesAreBehind'
  PROVE  AccountInv' /\ Heeded
<1>1. /\ LockIsHeld' /\ RequestsAreWhole' /\ FailuresAreCounted'
      /\ attempts' \in [count : 0..MaxFailures, locked : BOOLEAN, failed : 0..MaxFailures]
  BY SameRequests
<1>2. AccountTypeOK'  BY <1>1, NoneIsOpen DEF AccountInv, AccountTypeOK
<1> QED  BY <1>1, <1>2, NoneIsOpen DEF AccountInv

LEMMA SomeSessionsEnd ==
  ASSUME AccountInv, UNCHANGED <<requests, loginLock, spent, backup>>, Fewer,
         sessions' \in [Sessions -> Session \union {Absent}],
         attempts' \in {attempts, NoFailures, [attempts EXCEPT !.locked = FALSE]},
         user' \in User, CodesAreBehind',
         user'.hash = user.hash, user'.key = user.key, user'.enabled = user.enabled,
         user'.blocked => user.blocked
  PROVE  AccountInv' /\ Heeded
<1>1. /\ LockIsHeld' /\ RequestsAreWhole' /\ FailuresAreCounted'
      /\ attempts' \in [count : 0..MaxFailures, locked : BOOLEAN, failed : 0..MaxFailures]
  BY SameRequests
<1>2. AccountTypeOK'  BY <1>1 DEF AccountInv, AccountTypeOK
<1>3. \A q \in OwnerRequests : requests'[q] = requests[q]  OBVIOUS
<1>4. SessionsAreOfTheAccount' /\ RowsFit' /\ Heeded  BY <1>3, FewerAreOpen
<1> QED  BY <1>1, <1>2, <1>4 DEF AccountInv

LEMMA OthersKeep ==
  ASSUME AccountInv,
         \/ \E s \in Sessions : EndSession(s)
         \/ LockEnds \/ ForgetFailures
         \/ ResetPassword \/ ResetSecondFactor \/ Block \/ Unblock \/ ChangeRole \/ Unlock
  PROVE  AccountInv' /\ Heeded
<1>1. /\ user \in User /\ user.hash \in 1..MaxPasswords
      /\ sessions \in [Sessions -> Session \union {Absent}]
  BY DEF AccountInv, AccountTypeOK, User
<1>2. UNCHANGED <<user, spent>> => CodesAreBehind'  BY DEF AccountInv, CodesAreBehind
<1>3. ASSUME NEW s \in Sessions, EndSession(s)
      PROVE  AccountInv' /\ Heeded
  <2>1. sessions' \in [Sessions -> Session \union {Absent}] /\ Fewer
    BY <1>1, <1>3 DEF EndSession, Fewer
  <2> QED  BY <1>1, <1>2, <1>3, <2>1, SomeSessionsEnd DEF EndSession
<1>4. CASE LockEnds \/ ForgetFailures \/ Unlock
  BY <1>1, <1>2, <1>4, SomeSessionsEnd DEF LockEnds, ForgetFailures, Unlock, Fewer
<1>5. CASE ResetPassword
  <2>1. user.hash + 1 \in 1..MaxPasswords  BY <1>1, <1>5, Numbers DEF ResetPassword
  <2>2. /\ user' \in User /\ user'.key = user.key /\ user'.keys = user.keys
        /\ user'.enabled = user.enabled /\ user'.lastStep = user.lastStep
    BY <1>1, <1>5, <2>1 DEF ResetPassword, User
  <2>3. CodesAreBehind'  BY <1>5, <2>2 DEF AccountInv, CodesAreBehind, ResetPassword
  <2> QED  BY <1>5, <2>2, <2>3, AllEnd DEF ResetPassword
<1>6. CASE ResetSecondFactor
  <2>1. /\ user' \in User /\ user'.key = 0 /\ user'.keys = user.keys /\ ~user'.enabled
        /\ user.keys \in 0..MaxKeys
    <3>1. 0 \in 0..MaxKeys /\ 0 \in 0..MaxStep  BY Numbers
    <3>2. user' = [user EXCEPT !.key = 0, !.enabled = FALSE, !.lastStep = 0]
      BY <1>6 DEF ResetSecondFactor, WithoutKey
    <3> QED  BY <1>1, <3>1, <3>2 DEF User
  <2>2. ASSUME NEW code \in spent
        PROVE  code[1] <= user.keys /\ code[1] # 0
    BY Numbers DEF AccountInv, AccountTypeOK, CodesAreBehind
  <2>3. CodesAreBehind'
    BY <1>6, <2>1, <2>2, Numbers DEF CodesAreBehind, ResetSecondFactor
  <2> QED  BY <1>6, <2>1, <2>3, AllEnd DEF ResetSecondFactor
<1>7. CASE Block
  <2>1. /\ user' \in User /\ user'.key = user.key /\ user'.keys = user.keys
        /\ user'.enabled = user.enabled /\ user'.lastStep = user.lastStep
    BY <1>1, <1>7 DEF Block, User
  <2>2. CodesAreBehind'  BY <1>7, <2>1 DEF AccountInv, CodesAreBehind, Block
  <2> QED  BY <1>7, <2>1, <2>2, AllEnd DEF Block
<1>8. CASE Unblock
  <2>1. /\ user' \in User /\ user'.key = user.key /\ user'.keys = user.keys
        /\ user'.enabled = user.enabled /\ user'.lastStep = user.lastStep
        /\ user'.hash = user.hash /\ ~user'.blocked
    BY <1>1, <1>8 DEF Unblock, User
  <2>2. CodesAreBehind'  BY <1>8, <2>1 DEF AccountInv, CodesAreBehind, Unblock
  <2> QED  BY <1>1, <1>8, <2>1, <2>2, SomeSessionsEnd DEF Unblock, Fewer
<1>9. CASE ChangeRole
  BY <1>1, <1>2, <1>9, AllEnd DEF ChangeRole
<1> QED  BY <1>3, <1>4, <1>5, <1>6, <1>7, <1>8, <1>9

-----------------------------------------------------------------------------
LEMMA InitHolds ==
  ASSUME AccountInit
  PROVE  AccountInv
<1>1. /\ Opened = {} /\ sessions \in [Sessions -> Session \union {Absent}]
      /\ SessionsAreOfTheAccount
  BY DEF AccountInit, NoSessions, Opened, SessionsAreOfTheAccount
<1>2. \A q \in OwnerRequests : requests[q] = Absent  BY DEF AccountInit
<1>3. user \in User /\ CodesAreBehind
  BY Numbers DEF AccountInit, User, CodesAreBehind
<1>4. /\ attempts \in [count : 0..MaxFailures, locked : BOOLEAN, failed : 0..MaxFailures]
      /\ FailuresAreCounted
  BY NoFailuresCounts DEF AccountInit, FailuresAreCounted
<1>5. AccountTypeOK  BY <1>1, <1>3, <1>4 DEF AccountTypeOK, AccountInit
<1>6. LockIsHeld /\ RequestsAreWhole
  BY <1>2 DEF LockIsHeld, RequestsAreWhole, UnderLock, IsAt
<1>7. RowsFit  BY <1>1, <1>2 DEF RowsFit, IsAt
<1> QED  BY <1>1, <1>3, <1>4, <1>5, <1>6, <1>7 DEF AccountInv

LEMMA StepKeeps ==
  ASSUME AccountInv, [AccountNext]_accountVars
  PROVE  AccountInv' /\ Heeded
<1>1. ASSUME NEW q \in OwnerRequests, RequestStep(q)
      PROVE  AccountInv' /\ Heeded
  BY <1>1, LoginKeeps, AskKeeps, TakeLockKeeps, OpenSessionKeeps, ConfirmPasswordKeeps,
     RejectPasswordKeeps, RecordFailureKeeps, ReadSessionKeeps, SecondFactorKeeps,
     ChangePasswordKeeps, SetupKeeps, ConfirmKeeps, RefuseKeeps
  DEF RequestStep
<1>2. CASE UNCHANGED accountVars
  BY <1>2, SomeSessionsEnd DEF accountVars, Fewer, AccountInv, AccountTypeOK, CodesAreBehind
<1> QED  BY <1>1, <1>2, OthersKeep DEF AccountNext

THEOREM AccountInvHolds == AccountSpec => []AccountInv
<1>1. AccountInit => AccountInv  BY InitHolds
<1>2. AccountInv /\ [AccountNext]_accountVars => AccountInv'  BY StepKeeps
<1> QED  BY <1>1, <1>2, PTL DEF AccountSpec

-----------------------------------------------------------------------------
(* Every variable has its type, however many sessions, requests, codes, passwords and  *)
(* keys there are (auth/service.py, auth/admin.py).                                      *)
THEOREM AccountTypes == AccountSpec => []AccountTypeOK
<1>1. AccountInv => AccountTypeOK  BY DEF AccountInv
<1> QED  BY <1>1, AccountInvHolds, PTL

(* However many requests run in parallel: a session is of the password the account has    *)
(* now; unless a forced change opened it instead of one that had been ended meanwhile      *)
(* (late), also of an account that is not blocked and of the second factor of now.  Each   *)
(* that passes the second factor uses up a code (AuthService.login, second_factor,         *)
(* change_password; AdminService).                                                         *)
THEOREM SessionsFit == AccountSpec => SessionsFitTheAccount
<1>1. AccountInv => SessionsAreOfTheAccount /\ ReadyPassedThisFactor
  BY DEF AccountInv, RowsFit, PassedNow, ReadyPassedThisFactor, LoginStep
<1>2. AccountInv /\ [AccountNext]_accountVars => SpendsACode  BY StepKeeps DEF Heeded
<1>3. SessionsFitTheAccount <=>
        []SessionsAreOfTheAccount /\ []ReadyPassedThisFactor /\ [][SpendsACode]_accountVars
  BY PTL DEF SessionsFitTheAccount, SecondFactorSpendsACode, SpendsACode
<1> QED  BY <1>1, <1>2, <1>3, AccountInvHolds, PTL DEF AccountSpec

(* No failure of parallel attempts is lost, and while the login is locked nobody goes     *)
(* further by a password or a code (Throttle.record_failure, lock_login).                *)
THEOREM AttemptsStayLimited == AccountSpec => AttemptsAreLimited
<1>1. AccountInv => FailuresAreCounted  BY DEF AccountInv
<1>2. AccountInv /\ [AccountNext]_accountVars => NoFurther  BY StepKeeps DEF Heeded
<1>3. AttemptsAreLimited <=> []FailuresAreCounted /\ [][NoFurther]_accountVars
  BY DEF AttemptsAreLimited, LockedGoesNoFurther, NoFurther
<1> QED  BY <1>1, <1>2, <1>3, AccountInvHolds, PTL DEF AccountSpec

=============================================================================
