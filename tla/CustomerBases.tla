---------------------------- MODULE CustomerBases ----------------------------
(***************************************************************************)
(* A connection to a database of the customer: its row and the snapshot of *)
(* its schema (databases/service.py, databases/repositories.py), and the   *)
(* accesses to the database itself (databases/customer.py).                *)
(*                                                                         *)
(* An access works with a copy of the row that was read when it was asked  *)
(* for.  Meanwhile the administrator changes the parameters of the login,  *)
(* other accesses record what they found, and the rights of the account    *)
(* change in the database of the customer.  What the tables hold, which of *)
(* them are selected or excluded, and the reasons of failures are left     *)
(* out.  Time is a flag: the interval between two snapshots has passed or  *)
(* has not.                                                                *)
(***************************************************************************)
EXTENDS Naturals, FiniteSets

CONSTANTS
    Requests,      \* routes of the administrator and of employees, SQL checks
    Users,
    UserOf,
    Servers,       \* host and port
    MaxConfig,     \* bound of the changes of login parameters
    ServerOf,      \* of the parameters of a login
    MaxPlaces,     \* db.max_connections_per_server
    None

Configs == 1..MaxConfig

ASSUME UsersAssumption == UserOf \in [Requests -> Users]
ASSUME ConfigsAssumption == MaxConfig \in Nat \ {0} /\ ServerOf \in [Configs -> Servers]
ASSUME PlacesAssumption == MaxPlaces \in Nat \ {0}
ASSUME NoneAssumption == None \notin Requests

VARIABLES
    conn,        \* the row of db_connections, None once it is deleted
    snapshot,    \* the row of db_snapshots
    admin,       \* update holds the row: what it is going to write
    req,         \* what each request is at
    refreshing,  \* _refreshing: who holds the lock of the connection
    previewing,  \* _previewing
    places       \* _places: the counter of each semaphore

rows == <<conn, snapshot, admin>>
memory == <<refreshing, previewing, places>>
vars == <<rows, req, memory>>

Kinds == {"check", "refresh", "sample", "preview"}
Findings == {"read_only", "excess"}
(* "lock", "row": a refresh waits for its lock, holds it.  "begin": has its copy of the row. *)
(* "wait": for a place.  "rights", "data", "close": the transaction at the customer's.       *)
(* "record": the outcome is to be written.  "save": the snapshot is.                         *)
Stages == {"idle", "lock", "row", "begin", "wait", "rights", "data", "close", "record", "save"}
AtWork == {"rights", "data", "close"}
UnderLock == Stages \ {"idle", "lock"}

(* config stands for config_changed_at; of is history: with which login the rights were   *)
(* measured.  Of a snapshot: the login it was read with, the one in force at taken_at, and *)
(* whether the interval since then has not passed; late is history: a change of the login  *)
(* was dated before taken_at although the refresh had read the row of the former one.      *)
Connection == [config : Configs, rights : Findings \union {"unknown"}, of : Configs]
Snapshot == [of : Configs, after : Configs, recent : BOOLEAN, late : BOOLEAN]
Request == [at : Stages, kind : Kinds, config : Configs, barred : BOOLEAN,
            after : Configs, late : BOOLEAN,
            report : Findings \union {"none"}, data : BOOLEAN]

ASSUME RowAssumption == None \notin Connection \union Snapshot

TypeOK ==
    /\ conn \in Connection \union {None}
    /\ snapshot \in Snapshot \union {None}
    /\ admin \in Connection \union {None}
    /\ req \in [Requests -> Request]
    /\ refreshing \in Requests \union {None}
    /\ previewing \subseteq Users
    /\ places \in [Servers -> 0..MaxPlaces]

-----------------------------------------------------------------------------
Idle == [at |-> "idle", kind |-> "check", config |-> 1, barred |-> FALSE, after |-> 1,
         late |-> FALSE, report |-> "none", data |-> FALSE]

At(r, stage) == req[r].at = stage
Is(r, kind) == req[r].kind = kind
Server(r) == ServerOf[req[r].config]

Goes(r, record) == req' = [req EXCEPT ![r] = record]
Moves(r, stage) == Goes(r, [req[r] EXCEPT !.at = stage])

(* Mutated form: the lock is not given back by a refresh that raised. *)
UnlockedBySave(r) == IF refreshing = r /\ At(r, "save") THEN None ELSE refreshing
(* Every exit of `async with lock`. *)
Unlocked(r) == IF refreshing = r THEN None ELSE refreshing

Ends(r) == Goes(r, Idle) /\ refreshing' = Unlocked(r)

(* Mutated form: the place of the server the row names by now. *)
PlaceBackByRow(r) ==
    LET server == IF conn = None THEN Server(r) ELSE ServerOf[conn.config]
    IN  IF places[server] < MaxPlaces THEN [places EXCEPT ![server] = @ + 1] ELSE places
(* place.release() of the semaphore that was acquired. *)
PlaceBack(r) == [places EXCEPT ![Server(r)] = @ + 1]

MarkDropped(r) == IF Is(r, "preview") THEN previewing \ {UserOf[r]} ELSE previewing

(* refresh_available_at: config_changed_at > taken_at, or the interval has passed. *)
TooSoon == snapshot # None /\ conn.config <= snapshot.after /\ snapshot.recent

(* Mutated form: update reads the row without FOR UPDATE. *)
RowFreeAlways == TRUE
(* The row is not locked by update. *)
RowFree == admin = None

(* Mutated form: record does not ask for config_changed_at. *)
SameLoginUnasked(r) == conn # None
(* The WHERE of record. *)
SameLogin(r) == conn # None /\ conn.config = req[r].config

-----------------------------------------------------------------------------
Init ==
    /\ conn = [config |-> 1, rights |-> "unknown", of |-> 1]
    /\ snapshot = None
    /\ admin = None
    /\ req = [r \in Requests |-> Idle]
    /\ refreshing = None
    /\ previewing = {}
    /\ places = [s \in Servers |-> MaxPlaces]

Copy(kind) == [Idle EXCEPT !.at = "begin", !.kind = kind, !.config = conn.config,
                           !.barred = conn.rights = "excess"]

(* check, or source for a test of SQL and for a layer; refresh asks for the row again later. *)
Ask(r) ==
    /\ At(r, "idle")
    /\ conn # None
    /\ \/ Goes(r, [Idle EXCEPT !.at = "lock", !.kind = "refresh"])
       \/ Goes(r, Copy("check"))
       \/ snapshot # None /\ \E kind \in {"sample", "preview"} : Goes(r, Copy(kind))
    /\ UNCHANGED <<rows, memory>>

(* Mutated form: the lock is not waited for. *)
TakeLockAnyway(r) ==
    /\ At(r, "lock")
    /\ refreshing' = r
    /\ Moves(r, "row")
    /\ UNCHANGED <<rows, previewing, places>>

TakeLock(r) ==
    /\ At(r, "lock")
    /\ refreshing = None
    /\ refreshing' = r
    /\ Moves(r, "row")
    /\ UNCHANGED <<rows, previewing, places>>

(* Under the lock: the connection is gone, it is too soon, or the refresh goes on. *)
ReadRow(r) ==
    /\ At(r, "row")
    /\ \/ /\ conn = None \/ TooSoon
          /\ Ends(r)
       \/ /\ conn # None /\ ~TooSoon
          /\ Goes(r, Copy("refresh"))
          /\ UNCHANGED refreshing
    /\ UNCHANGED <<rows, previewing, places>>

Refused(r) ==
    \/ ~Is(r, "check") /\ req[r].barred
    \/ Is(r, "preview") /\ UserOf[r] \in previewing

(* Mutated form: the finally covers the refusal of a second layer. *)
RefuseDropping(r) ==
    /\ At(r, "begin")
    /\ Refused(r)
    /\ Ends(r)
    /\ previewing' = MarkDropped(r)
    /\ UNCHANGED <<rows, places>>

(* Step 0: an excess that is recorded needs no connection; a user loads one layer. *)
Refuse(r) ==
    /\ At(r, "begin")
    /\ Refused(r)
    /\ Ends(r)
    /\ UNCHANGED <<rows, previewing, places>>

(* config_changed_at of the last change, which may not be committed yet. *)
Dated(config) == IF admin # None THEN admin.config ELSE IF conn # None THEN conn.config ELSE config

(* taken_at is of this moment; the mark is made; the semaphore gives a place or not. *)
Enter(r) ==
    /\ At(r, "begin")
    /\ ~Refused(r)
    /\ LET after == IF Is(r, "refresh") THEN Dated(req[r].config) ELSE req[r].config
           record == [req[r] EXCEPT !.barred = FALSE, !.after = after,
                                      !.late = after # req[r].config]
       IN  \/ /\ places[Server(r)] > 0
              /\ places' = [places EXCEPT ![Server(r)] = @ - 1]
              /\ Goes(r, [record EXCEPT !.at = "rights"])
           \/ /\ places[Server(r)] = 0
              /\ UNCHANGED places
              /\ Goes(r, [record EXCEPT !.at = "wait"])
    /\ previewing' = IF Is(r, "preview") THEN previewing \union {UserOf[r]} ELSE previewing
    /\ UNCHANGED <<rows, refreshing>>

(* Mutated form: a waiter that was woken does not look whether the place is still there. *)
TakePlaceUnasked(r) ==
    /\ At(r, "wait")
    /\ places' = [places EXCEPT ![Server(r)] = @ - 1]
    /\ Moves(r, "rights")
    /\ UNCHANGED <<rows, refreshing, previewing>>

TakePlace(r) ==
    /\ At(r, "wait")
    /\ places[Server(r)] > 0
    /\ places' = [places EXCEPT ![Server(r)] = @ - 1]
    /\ Moves(r, "rights")
    /\ UNCHANGED <<rows, refreshing, previewing>>

(* db.wait_seconds are over: reason busy. *)
Busy(r) ==
    /\ At(r, "wait")
    /\ Moves(r, "record")
    /\ previewing' = MarkDropped(r)
    /\ UNCHANGED <<rows, refreshing, places>>

(* _rights: of a check they are the result, of the others the condition.  The owner of the *)
(* database may change them at any time.                                                  *)
Measure(r) ==
    /\ At(r, "rights")
    /\ \E report \in Findings :
           Goes(r, [req[r] EXCEPT !.report = report,
                        !.at = IF Is(r, "check") \/ report = "excess" THEN "close" ELSE "data"])
    /\ UNCHANGED <<rows, memory>>

(* The schema or the rows are read in the same transaction. *)
ReadData(r) ==
    /\ At(r, "data")
    /\ Goes(r, [req[r] EXCEPT !.at = "close", !.data = TRUE])
    /\ UNCHANGED <<rows, memory>>

(* No connection, a refusal, a timeout: what was measured is not reported. *)
AccessFails(r) ==
    /\ req[r].at \in {"rights", "data"}
    /\ Goes(r, [req[r] EXCEPT !.at = "close", !.report = "none"])
    /\ UNCHANGED <<rows, memory>>

(* ROLLBACK and close, or terminate; the finally of _access and of work. *)
Close(r) ==
    /\ At(r, "close")
    /\ Moves(r, "record")
    /\ places' = PlaceBack(r)
    /\ previewing' = MarkDropped(r)
    /\ UNCHANGED <<rows, refreshing>>

Recorded(r) ==
    IF SameLogin(r) /\ req[r].report # "none"
    THEN [conn EXCEPT !.rights = req[r].report, !.of = req[r].config]
    ELSE conn

Record(r) ==
    /\ At(r, "record")
    /\ RowFree
    /\ conn' = Recorded(r)
    /\ IF Is(r, "refresh") /\ req[r].data
       THEN Moves(r, "save") /\ UNCHANGED refreshing
       ELSE Ends(r)
    /\ UNCHANGED <<snapshot, admin, previewing, places>>

Taken(r, after) == [of |-> req[r].config, after |-> after, recent |-> TRUE, late |-> req[r].late]

(* Mutated form: taken_at is of the moment the snapshot is saved. *)
SaveTakenNow(r) ==
    /\ At(r, "save")
    /\ snapshot' = IF conn = None THEN None ELSE Taken(r, conn.config)
    /\ Ends(r)
    /\ UNCHANGED <<conn, admin, previewing, places>>

(* save_snapshot, unless the connection is gone. *)
Save(r) ==
    /\ At(r, "save")
    /\ snapshot' = IF conn = None THEN None ELSE Taken(r, req[r].after)
    /\ Ends(r)
    /\ UNCHANGED <<conn, admin, previewing, places>>

(* The database of the portal does not answer. *)
Fails(r) ==
    /\ req[r].at \in {"row", "record", "save"}
    /\ Ends(r)
    /\ UNCHANGED <<rows, previewing, places>>

(* A check of SQL is stopped or out of time: the connection is cut, the place goes back. *)
Cancel(r) ==
    /\ Is(r, "sample")
    /\ req[r].at \in Stages \ {"idle"}
    /\ places' = IF req[r].at \in AtWork THEN PlaceBack(r) ELSE places
    /\ Ends(r)
    /\ UNCHANGED <<rows, previewing>>

-----------------------------------------------------------------------------
(* update: SELECT ... FOR UPDATE, and the row to be written: with a field of the login it  *)
(* is dated anew and its rights are unknown, else they are what was read.  An update that  *)
(* is refused is one that changes nothing.                                                 *)
UpdateReads ==
    /\ conn # None /\ admin = None
    /\ \/ admin' = conn
       \/ /\ conn.config < MaxConfig
          /\ admin' = [config |-> conn.config + 1, rights |-> "unknown", of |-> 1]
    /\ UNCHANGED <<conn, snapshot, req, memory>>

(* Every column is written. *)
UpdateSaves ==
    /\ admin # None
    /\ conn' = admin
    /\ admin' = None
    /\ UNCHANGED <<snapshot, req, memory>>

Delete ==
    /\ conn # None /\ admin = None
    /\ conn' = None
    /\ snapshot' = None
    /\ UNCHANGED <<admin, req, memory>>

(* db.snapshot_refresh_minutes have passed. *)
SnapshotAges ==
    /\ snapshot # None /\ snapshot.recent
    /\ snapshot' = [snapshot EXCEPT !.recent = FALSE]
    /\ UNCHANGED <<conn, admin, req, memory>>

(* A change that is rolled back is not dated before taken_at any more. *)
Redated ==
    IF snapshot # None /\ conn # None /\ snapshot.after > conn.config
    THEN [snapshot EXCEPT !.after = conn.config] ELSE snapshot

Restart ==
    /\ \E r \in Requests : ~At(r, "idle")
    /\ req' = [r \in Requests |-> Idle]
    /\ admin' = None
    /\ refreshing' = None
    /\ previewing' = {}
    /\ places' = [s \in Servers |-> MaxPlaces]
    /\ snapshot' = Redated
    /\ UNCHANGED conn

Access(r) ==
    \/ Refuse(r) \/ Enter(r) \/ TakePlace(r) \/ Busy(r)
    \/ Measure(r) \/ ReadData(r) \/ AccessFails(r) \/ Close(r) \/ Record(r)

Next ==
    \/ \E r \in Requests : \/ Ask(r) \/ TakeLock(r) \/ ReadRow(r) \/ Save(r)
                           \/ Access(r) \/ Fails(r) \/ Cancel(r)
    \/ UpdateReads \/ UpdateSaves \/ Delete
    \/ SnapshotAges \/ Restart

Spec == Init /\ [][Next]_vars

-----------------------------------------------------------------------------
(* Recorded rights were measured with the login of now (record, update). *)
RightsAreOfNow == conn # None /\ conn.rights # "unknown" => conn.of = conn.config

(* What an access recorded is not lost to an update that read the row before. *)
RecordsAreKept ==
    [][conn # None /\ conn' # None /\ conn'.rights # conn.rights =>
         conn'.config # conn.config \/ \E r \in Requests : Record(r)]_conn

(* The rights an administrator is told are those of the login the row names, and what an *)
(* access found stays until the login is changed or another access found something else.  *)
RightsAreOfTheLogin == []RightsAreOfNow /\ RecordsAreKept

(* A schema is read only when a refresh is allowed by what the snapshot is at that moment, *)
(* also for one that waited for another: never two in an interval for one login.           *)
RefreshIsAllowed ==
    \A r \in Requests :
        Is(r, "refresh") /\ req[r].at \in {"begin", "wait"} \union AtWork /\ snapshot # None =>
            ~snapshot.recent \/ snapshot.after < req[r].config

(* A snapshot is not replaced by one of a former login. *)
SnapshotsGoForward ==
    [][snapshot # None /\ snapshot' # None => snapshot'.of >= snapshot.of]_snapshot

(* docs/portal-api.md, 7.6.3: after a change of the login the schema may be read again at  *)
(* once, also when the change came while a refresh was reading with the former login.      *)
FormerGivesWay ==
    conn # None /\ snapshot # None /\ snapshot.of < conn.config /\ ~snapshot.late => ~TooSoon

(* Refreshes of a connection take turns, none too early and none held up by a former login. *)
RefreshesTakeTurns == [](RefreshIsAllowed /\ FormerGivesWay) /\ SnapshotsGoForward

(* However an access ends, its place comes back to the server it was taken from, its mark  *)
(* and its lock go, and no other's do: a server never has more connections than it may.    *)
Connected(s) == {r \in Requests : req[r].at \in AtWork /\ Server(r) = s}
Loading(u) == {r \in Requests : Is(r, "preview") /\ req[r].at \in AtWork \union {"wait"}
                                 /\ UserOf[r] = u}
EverythingComesBack ==
    /\ \A s \in Servers : places[s] + Cardinality(Connected(s)) = MaxPlaces
    /\ \A u \in Users : Cardinality(Loading(u)) = IF u \in previewing THEN 1 ELSE 0
    /\ \A r \in Requests : refreshing = r <=> Is(r, "refresh") /\ req[r].at \in UnderLock
=============================================================================
