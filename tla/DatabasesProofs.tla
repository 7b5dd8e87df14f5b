--------------------------- MODULE DatabasesProofs ---------------------------
(***************************************************************************)
(* Proofs about the two parts of the portal that connect to databases by   *)
(* a limited number of places: the bases of customers (CustomerBases) and  *)
(* the checks of SQL blocks (SqlSandbox).                                  *)
(*                                                                         *)
(* The safety of CustomerBases holds for every number of requests, users,  *)
(* servers and places and any number of changes of the login.  Of the      *)
(* checks: the pool gives a place to one of them at a time and loses none, *)
(* nobody sleeps in vain, and a run that ended leaves nothing unfinished   *)
(* in its report.                                                          *)
(***************************************************************************)
EXTENDS CustomerBases, SqlSandbox, FiniteSetTheorems, WellFoundedInduction, TLAPS

-----------------------------------------------------------------------------
(* The bases of customers.                                                 *)

(* Every place is at its semaphore or with a request that is connected. *)
PlacesCounted ==
    \A s \in Servers :
        /\ IsFiniteSet(Connected(s))
        /\ places[s] + Cardinality(Connected(s)) = MaxPlaces

(* A user is marked while one request of theirs loads a layer. *)
Loads(r) == Is(r, "preview") /\ req[r].at \in AtWork \union {"wait"}

MarksAreOfLayers ==
    /\ \A r \in Requests : Loads(r) => UserOf[r] \in previewing
    /\ \A u \in previewing : \E r \in Requests : Loads(r) /\ UserOf[r] = u
    /\ \A r, q \in Requests : Loads(r) /\ Loads(q) /\ UserOf[r] = UserOf[q] => r = q

(* Only a refresh comes to these stages, and it holds the lock there. *)
LockIsOfRefresh ==
    /\ \A r \in Requests : refreshing = r <=> Is(r, "refresh") /\ req[r].at \in UnderLock
    /\ \A r \in Requests : req[r].at \in {"lock", "row", "save"} => Is(r, "refresh")

(* The row that update is going to write is the one it has read, or of the next login. *)
UpdateHoldsRow ==
    admin # None =>
        /\ conn # None
        /\ admin = conn \/ (admin.config > conn.config /\ admin.rights = "unknown")

(* What requests and the snapshot were read with is not after the row. *)
NothingIsAhead ==
    /\ conn # None => \A r \in Requests : req[r].config <= conn.config
    /\ snapshot # None => conn # None /\ snapshot.of <= conn.config

(* The snapshot does not change under a refresh, but for the worse. *)
SnapshotAwaitsRefresh ==
    \A r \in Requests :
        Is(r, "refresh") /\ req[r].at \in UnderLock \ {"row"} /\ snapshot # None =>
            snapshot.of <= req[r].config

(* taken_at is of the login that was read, unless that is noted. *)
LateIsNoted ==
    /\ \A r \in Requests :
        req[r].at \in {"wait", "record", "save"} \union AtWork /\ ~req[r].late =>
            req[r].after = req[r].config
    /\ snapshot # None /\ ~snapshot.late => snapshot.after = snapshot.of

(* The inductive invariant. *)
BasesInv ==
    /\ TypeOK
    /\ PlacesCounted
    /\ MarksAreOfLayers
    /\ LockIsOfRefresh
    /\ UpdateHoldsRow
    /\ NothingIsAhead
    /\ RightsAreOfNow
    /\ RefreshIsAllowed
    /\ SnapshotAwaitsRefresh
    /\ LateIsNoted
-----------------------------------------------------------------------------
(* What the actions are built from. *)

(* Every request but r is where it was. *)
OthersStay(r) == \A q \in Requests \ {r} : req'[q] = req[q]

LEMMA IdleRequest == Idle \in Request /\ Idle.config = 1 /\ 1 \in Configs
<1>1. 1 \in Configs  BY ConfigsAssumption DEF Configs
<1> QED  BY <1>1 DEF Idle, Request, Stages, Kinds, Findings

LEMMA CopyRequest ==
  ASSUME TypeOK, conn # None, NEW kind \in Kinds
  PROVE  /\ Copy(kind) \in Request
         /\ Copy(kind).at = "begin" /\ Copy(kind).kind = kind /\ Copy(kind).config = conn.config
<1>1. conn.config \in Configs  BY DEF TypeOK, Connection
<1>2. (conn.rights = "excess") \in BOOLEAN  OBVIOUS
<1>3. "begin" \in Stages  BY DEF Stages
<1> HIDE DEF Idle
<1> QED  BY <1>1, <1>2, <1>3, IdleRequest DEF Copy, Request

LEMMA GoesRequest ==
  ASSUME TypeOK, NEW r \in Requests, NEW record \in Request, Goes(r, record)
  PROVE  req' \in [Requests -> Request] /\ req'[r] = record /\ OthersStay(r)
  BY DEF TypeOK, Goes, OthersStay

LEMMA MovesRequest ==
  ASSUME TypeOK, NEW r \in Requests, NEW stage \in Stages, Moves(r, stage)
  PROVE  /\ req' \in [Requests -> Request] /\ OthersStay(r)
         /\ req'[r].at = stage /\ req'[r].kind = req[r].kind /\ req'[r].config = req[r].config
         /\ req'[r].after = req[r].after /\ req'[r].late = req[r].late
<1> DEFINE record == [req[r] EXCEPT !.at = stage]
<1>1. req[r] \in Request  BY DEF TypeOK
<1>2. /\ record \in Request /\ record.at = stage /\ record.kind = req[r].kind
      /\ record.config = req[r].config /\ record.after = req[r].after
      /\ record.late = req[r].late
  BY <1>1 DEF Request
<1>3. Goes(r, record)  BY DEF Moves
<1> QED  BY <1>2, <1>3, GoesRequest

(* Nobody begins or ends an access. *)
LEMMA PlacesSame ==
  ASSUME PlacesCounted, places' = places,
         \A q \in Requests : req'[q].at \in AtWork <=> req[q].at \in AtWork,
         \A q \in Requests : req[q].at \in AtWork => req'[q].config = req[q].config
  PROVE  PlacesCounted'
<1>1. \A s \in Servers : Connected(s)' = Connected(s)  BY DEF Connected, Server
<1> QED  BY <1>1 DEF PlacesCounted

LEMMA PlaceTaken ==
  ASSUME PlacesCounted, TypeOK, NEW r \in Requests, OthersStay(r),
         req[r].at \notin AtWork, req'[r].at \in AtWork, req'[r].config = req[r].config,
         places[Server(r)] > 0, places' = [places EXCEPT ![Server(r)] = @ - 1]
  PROVE  PlacesCounted' /\ places' \in [Servers -> 0..MaxPlaces]
<1>1. Server(r) \in Servers  BY ConfigsAssumption DEF Server, TypeOK, Request
<1>2. \A s \in Servers :
        IF s = Server(r)
        THEN r \notin Connected(s) /\ Connected(s)' = Connected(s) \union {r}
        ELSE Connected(s)' = Connected(s)
  BY DEF Connected, Server, OthersStay
<1>3. places' \in [Servers -> 0..MaxPlaces]  BY <1>1, PlacesAssumption DEF TypeOK
<1>4. ASSUME NEW s \in Servers
      PROVE  IsFiniteSet(Connected(s)') /\ places'[s] + Cardinality(Connected(s)') = MaxPlaces
  <2>1. CASE s = Server(r)
    <3>1. Cardinality(Connected(s)') = Cardinality(Connected(s)) + 1 /\ IsFiniteSet(Connected(s)')
      BY <1>2, <2>1, FS_AddElement DEF PlacesCounted
    <3>2. places'[s] = places[s] - 1  BY <1>1, <2>1 DEF TypeOK
    <3>3. Cardinality(Connected(s)) \in Nat  BY FS_CardinalityType DEF PlacesCounted
    <3>4. places[s] \in Nat  BY DEF TypeOK
    <3> QED  BY <3>1, <3>2, <3>3, <3>4 DEF PlacesCounted
  <2>2. CASE s # Server(r)
    <3>1. places'[s] = places[s]  BY <2>2 DEF TypeOK
    <3> QED  BY <1>2, <2>2, <3>1 DEF PlacesCounted
  <2> QED  BY <2>1, <2>2
<1> QED  BY <1>3, <1>4 DEF PlacesCounted

LEMMA PlaceReturned ==
  ASSUME PlacesCounted, TypeOK, NEW r \in Requests, OthersStay(r),
         req[r].at \in AtWork, req'[r].at \notin AtWork, places' = PlaceBack(r)
  PROVE  PlacesCounted' /\ places' \in [Servers -> 0..MaxPlaces]
<1>1. Server(r) \in Servers  BY ConfigsAssumption DEF Server, TypeOK, Request
<1>2. \A s \in Servers :
        IF s = Server(r)
        THEN r \in Connected(s) /\ Connected(s)' = Connected(s) \ {r}
        ELSE Connected(s)' = Connected(s)
  BY DEF Connected, Server, OthersStay
<1>3. ASSUME NEW s \in Servers
      PROVE  /\ IsFiniteSet(Connected(s)') /\ places'[s] + Cardinality(Connected(s)') = MaxPlaces
             /\ places'[s] \in 0..MaxPlaces
  <2>1. CASE s = Server(r)
    <3>1. Cardinality(Connected(s)') = Cardinality(Connected(s)) - 1 /\ IsFiniteSet(Connected(s)')
      BY <1>2, <2>1, FS_RemoveElement DEF PlacesCounted
    <3>2. places'[s] = places[s] + 1  BY <1>1, <2>1 DEF TypeOK, PlaceBack
    <3>3. Cardinality(Connected(s)) \in Nat /\ Cardinality(Connected(s)') \in Nat
      BY <3>1, FS_CardinalityType DEF PlacesCounted
    <3>4. places[s] \in Nat  BY DEF TypeOK
    <3> QED  BY <3>1, <3>2, <3>3, <3>4, PlacesAssumption DEF PlacesCounted
  <2>2. CASE s # Server(r)
    <3>1. places'[s] = places[s]  BY <2>2 DEF TypeOK, PlaceBack
    <3> QED  BY <1>2, <2>2, <3>1 DEF PlacesCounted, TypeOK
  <2> QED  BY <2>1, <2>2
<1>4. places' \in [Servers -> 0..MaxPlaces]  BY <1>3 DEF PlaceBack, TypeOK
<1> QED  BY <1>3, <1>4 DEF PlacesCounted

LEMMA EndsRequest ==
  ASSUME TypeOK, NEW r \in Requests, Ends(r)
  PROVE  /\ req' \in [Requests -> Request] /\ OthersStay(r)
         /\ req'[r].at = "idle" /\ req'[r].kind = "check" /\ req'[r].config = 1
         /\ refreshing' = IF refreshing = r THEN None ELSE refreshing
<1>1. Goes(r, Idle)  BY DEF Ends
<1> QED  BY <1>1, IdleRequest, GoesRequest DEF Ends, Unlocked, Idle

-----------------------------------------------------------------------------
(* Every action keeps the invariant. *)

LEMMA AskKeeps ==
  ASSUME BasesInv, NEW r \in Requests, Ask(r)
  PROVE  BasesInv'
<1> USE DEF BasesInv, rows, memory, Is, AtWork, UnderLock, Stages, OthersStay
<1>1. conn # None /\ req[r].at = "idle" /\ UNCHANGED <<rows, memory>>  BY DEF Ask, At
<1>2. /\ req' \in [Requests -> Request] /\ OthersStay(r)
      /\ \/ req'[r].at = "lock" /\ req'[r].kind = "refresh" /\ req'[r].config = 1
         \/ req'[r].at = "begin" /\ req'[r].kind # "refresh" /\ req'[r].config = conn.config
  <2>1. CASE Goes(r, [Idle EXCEPT !.at = "lock", !.kind = "refresh"])
    <3> DEFINE record == [Idle EXCEPT !.at = "lock", !.kind = "refresh"]
    <3>1. record \in Request  BY IdleRequest DEF Request, Kinds
    <3>2. record.at = "lock" /\ record.kind = "refresh" /\ record.config = 1  BY DEF Idle
    <3> QED  BY <2>1, <3>1, <3>2, GoesRequest
  <2>2. ASSUME NEW kind \in Kinds \ {"refresh"}, Goes(r, Copy(kind))
        PROVE  /\ req' \in [Requests -> Request] /\ OthersStay(r)
               /\ req'[r].at = "begin" /\ req'[r].kind # "refresh" /\ req'[r].config = conn.config
    BY <1>1, <2>2, CopyRequest, GoesRequest
  <2> QED  BY <2>1, <2>2 DEF Ask, Kinds
<1>3. TypeOK'  BY <1>1, <1>2 DEF TypeOK
<1>4. PlacesCounted'  BY <1>1, <1>2, PlacesSame
<1>5. MarksAreOfLayers'  BY <1>1, <1>2 DEF MarksAreOfLayers, Loads
<1>6. LockIsOfRefresh'  BY <1>1, <1>2 DEF LockIsOfRefresh
<1>7. NothingIsAhead'  BY <1>1, <1>2 DEF NothingIsAhead, TypeOK, Connection, Configs
<1>8. RefreshIsAllowed' /\ SnapshotAwaitsRefresh'
  BY <1>1, <1>2 DEF RefreshIsAllowed, SnapshotAwaitsRefresh
<1>9. LateIsNoted'  BY <1>1, <1>2 DEF LateIsNoted
<1>10. UpdateHoldsRow' /\ RightsAreOfNow'  BY <1>1 DEF UpdateHoldsRow, RightsAreOfNow
<1> QED  BY <1>3, <1>4, <1>5, <1>6, <1>7, <1>8, <1>9, <1>10

(* The end of a request that holds neither a place nor a mark. *)
LEMMA EndKeeps ==
  ASSUME BasesInv, NEW r \in Requests, Ends(r), req[r].at \notin AtWork \union {"wait"},
         UNCHANGED <<rows, previewing, places>>
  PROVE  BasesInv'
<1> USE DEF BasesInv, rows, Is, AtWork, UnderLock, Stages, OthersStay
<1>1. /\ req' \in [Requests -> Request] /\ OthersStay(r)
      /\ req'[r].at = "idle" /\ req'[r].config = 1
      /\ refreshing' = IF refreshing = r THEN None ELSE refreshing
  BY EndsRequest
<1>2. TypeOK'  BY <1>1 DEF TypeOK
<1>3. PlacesCounted'  BY <1>1, PlacesSame
<1>4. MarksAreOfLayers'  BY <1>1 DEF MarksAreOfLayers, Loads
<1>5. LockIsOfRefresh'  BY <1>1, NoneAssumption DEF LockIsOfRefresh
<1>6. NothingIsAhead'  BY <1>1 DEF NothingIsAhead, TypeOK, Connection, Configs
<1>7. RefreshIsAllowed' /\ SnapshotAwaitsRefresh'
  BY <1>1 DEF RefreshIsAllowed, SnapshotAwaitsRefresh
<1>8. LateIsNoted'  BY <1>1 DEF LateIsNoted
<1>9. UpdateHoldsRow' /\ RightsAreOfNow'  BY DEF UpdateHoldsRow, RightsAreOfNow
<1> QED  BY <1>2, <1>3, <1>4, <1>5, <1>6, <1>7, <1>8, <1>9

LEMMA TakeLockKeeps ==
  ASSUME BasesInv, NEW r \in Requests, TakeLock(r)
  PROVE  BasesInv'
<1> USE DEF BasesInv, rows, Is, AtWork, UnderLock, Stages, OthersStay
<1>1. /\ req[r].at = "lock" /\ req[r].kind = "refresh" /\ refreshing = None /\ refreshing' = r
      /\ UNCHANGED <<rows, previewing, places>>
  BY DEF TakeLock, At, LockIsOfRefresh
<1>2. /\ req' \in [Requests -> Request] /\ OthersStay(r)
      /\ req'[r].at = "row" /\ req'[r].kind = "refresh" /\ req'[r].config = req[r].config
  BY <1>1, MovesRequest DEF TakeLock
<1>3. TypeOK'  BY <1>1, <1>2 DEF TypeOK
<1>4. PlacesCounted'  BY <1>1, <1>2, PlacesSame
<1>5. MarksAreOfLayers'  BY <1>1, <1>2 DEF MarksAreOfLayers, Loads
<1>6. LockIsOfRefresh'  BY <1>1, <1>2, NoneAssumption DEF LockIsOfRefresh
<1>7. NothingIsAhead'  BY <1>1, <1>2 DEF NothingIsAhead
<1>8. RefreshIsAllowed' /\ SnapshotAwaitsRefresh'
  BY <1>1, <1>2 DEF RefreshIsAllowed, SnapshotAwaitsRefresh
<1>9. LateIsNoted'  BY <1>1, <1>2 DEF LateIsNoted
<1>10. UpdateHoldsRow' /\ RightsAreOfNow'  BY <1>1 DEF UpdateHoldsRow, RightsAreOfNow
<1> QED  BY <1>3, <1>4, <1>5, <1>6, <1>7, <1>8, <1>9, <1>10

LEMMA ReadRowKeeps ==
  ASSUME BasesInv, NEW r \in Requests, ReadRow(r)
  PROVE  BasesInv'
<1>1. CASE Ends(r)
  BY <1>1, EndKeeps DEF ReadRow, At, AtWork
<1>2. CASE /\ conn # None /\ ~TooSoon /\ Goes(r, Copy("refresh")) /\ UNCHANGED refreshing
  <2> USE DEF BasesInv, rows, Is, AtWork, UnderLock, Stages, OthersStay
  <2>1. /\ req[r].at = "row" /\ req[r].kind = "refresh"
        /\ UNCHANGED <<rows, refreshing, previewing, places>>
    BY <1>2 DEF ReadRow, At, LockIsOfRefresh
  <2>2. /\ req' \in [Requests -> Request] /\ OthersStay(r)
        /\ req'[r].at = "begin" /\ req'[r].kind = "refresh" /\ req'[r].config = conn.config
    BY <1>2, CopyRequest, GoesRequest DEF Kinds
  <2>3. TypeOK'  BY <2>1, <2>2 DEF TypeOK
  <2>4. PlacesCounted'  BY <2>1, <2>2, PlacesSame
  <2>5. MarksAreOfLayers'  BY <2>1, <2>2 DEF MarksAreOfLayers, Loads
  <2>6. LockIsOfRefresh'  BY <2>1, <2>2 DEF LockIsOfRefresh
  <2>7. NothingIsAhead'
    BY <1>2, <2>1, <2>2 DEF NothingIsAhead, TypeOK, Connection, Configs
  <2>8. RefreshIsAllowed'
    BY <1>2, <2>1, <2>2 DEF RefreshIsAllowed, TooSoon, TypeOK, Connection, Snapshot, Configs
  <2>9. SnapshotAwaitsRefresh'
    BY <1>2, <2>1, <2>2 DEF SnapshotAwaitsRefresh, NothingIsAhead
  <2>10. LateIsNoted'  BY <2>1, <2>2 DEF LateIsNoted
  <2>11. UpdateHoldsRow' /\ RightsAreOfNow'  BY <2>1 DEF UpdateHoldsRow, RightsAreOfNow
  <2> QED  BY <2>3, <2>4, <2>5, <2>6, <2>7, <2>8, <2>9, <2>10, <2>11
<1> QED  BY <1>1, <1>2 DEF ReadRow

LEMMA RefuseKeeps ==
  ASSUME BasesInv, NEW r \in Requests, Refuse(r)
  PROVE  BasesInv'
  BY EndKeeps DEF Refuse, At, AtWork

LEMMA FailsKeeps ==
  ASSUME BasesInv, NEW r \in Requests, Fails(r)
  PROVE  BasesInv'
  BY EndKeeps DEF Fails, AtWork

LEMMA EnterKeeps ==
  ASSUME BasesInv, NEW r \in Requests, Enter(r)
  PROVE  BasesInv'
<1> USE DEF BasesInv, rows, Is, AtWork, UnderLock, Stages, OthersStay
<1>1. /\ req[r].at = "begin" /\ ~Refused(r) /\ UNCHANGED <<rows, refreshing>>
      /\ previewing' = IF Is(r, "preview") THEN previewing \union {UserOf[r]} ELSE previewing
  BY DEF Enter, At
<1> DEFINE after == IF Is(r, "refresh") THEN Dated(req[r].config) ELSE req[r].config
           record(stage) == [req[r] EXCEPT !.barred = FALSE, !.after = after,
                               !.late = after # req[r].config, !.at = stage]
<1>2. after \in Configs  BY DEF TypeOK, Dated, Connection, Request
<1>3. ASSUME NEW stage \in {"rights", "wait"}, Goes(r, record(stage))
      PROVE  /\ req' \in [Requests -> Request] /\ OthersStay(r)
             /\ req'[r].at = stage
             /\ req'[r].kind = req[r].kind /\ req'[r].config = req[r].config
             /\ ~req'[r].late => req'[r].after = req'[r].config
  <2>1. req[r] \in Request  BY DEF TypeOK
  <2>2. record(stage) \in Request  BY <1>2, <2>1 DEF Request
  <2>3. /\ record(stage).at = stage
        /\ record(stage).kind = req[r].kind /\ record(stage).config = req[r].config
        /\ ~record(stage).late => record(stage).after = record(stage).config
    BY <2>1 DEF Request
  <2> HIDE DEF record
  <2> QED  BY <1>3, <2>2, <2>3, GoesRequest
<1>4. \/ /\ places[Server(r)] > 0 /\ places' = [places EXCEPT ![Server(r)] = @ - 1]
         /\ Goes(r, record("rights"))
      \/ UNCHANGED places /\ Goes(r, record("wait"))
  BY DEF Enter
<1>5. /\ req' \in [Requests -> Request] /\ OthersStay(r)
      /\ req'[r].at \in {"rights", "wait"}
      /\ req'[r].kind = req[r].kind /\ req'[r].config = req[r].config
      /\ ~req'[r].late => req'[r].after = req'[r].config
  BY <1>3, <1>4
<1>6. PlacesCounted' /\ places' \in [Servers -> 0..MaxPlaces]
  <2>1. CASE Goes(r, record("rights")) /\ places[Server(r)] > 0
             /\ places' = [places EXCEPT ![Server(r)] = @ - 1]
    BY <1>1, <1>3, <2>1, PlaceTaken
  <2>2. CASE Goes(r, record("wait")) /\ UNCHANGED places
    BY <1>1, <1>3, <2>2, PlacesSame DEF TypeOK
  <2> QED  BY <1>4, <2>1, <2>2
<1> HIDE DEF record
<1>7. TypeOK'  BY <1>1, <1>5, <1>6, UsersAssumption DEF TypeOK
<1>8. MarksAreOfLayers'  BY <1>1, <1>5 DEF MarksAreOfLayers, Loads, Refused
<1>9. LockIsOfRefresh'  BY <1>1, <1>5 DEF LockIsOfRefresh
<1>10. NothingIsAhead'  BY <1>1, <1>5 DEF NothingIsAhead
<1>11. RefreshIsAllowed' /\ SnapshotAwaitsRefresh'
  BY <1>1, <1>5 DEF RefreshIsAllowed, SnapshotAwaitsRefresh
<1>12. LateIsNoted'  BY <1>1, <1>5 DEF LateIsNoted
<1>13. UpdateHoldsRow' /\ RightsAreOfNow'  BY <1>1 DEF UpdateHoldsRow, RightsAreOfNow
<1> QED  BY <1>6, <1>7, <1>8, <1>9, <1>10, <1>11, <1>12, <1>13

LEMMA TakePlaceKeeps ==
  ASSUME BasesInv, NEW r \in Requests, TakePlace(r)
  PROVE  BasesInv'
<1> USE DEF BasesInv, rows, Is, AtWork, UnderLock, Stages, OthersStay
<1>1. /\ req[r].at = "wait" /\ places[Server(r)] > 0
      /\ places' = [places EXCEPT ![Server(r)] = @ - 1]
      /\ UNCHANGED <<rows, refreshing, previewing>>
  BY DEF TakePlace, At
<1>2. /\ req' \in [Requests -> Request] /\ OthersStay(r)
      /\ req'[r].at = "rights" /\ req'[r].kind = req[r].kind /\ req'[r].config = req[r].config
      /\ req'[r].after = req[r].after /\ req'[r].late = req[r].late
  BY MovesRequest DEF TakePlace
<1>3. PlacesCounted' /\ places' \in [Servers -> 0..MaxPlaces]
  BY <1>1, <1>2, PlaceTaken
<1>4. TypeOK'  BY <1>1, <1>2, <1>3 DEF TypeOK
<1>5. MarksAreOfLayers'  BY <1>1, <1>2 DEF MarksAreOfLayers, Loads
<1>6. LockIsOfRefresh'  BY <1>1, <1>2 DEF LockIsOfRefresh
<1>7. NothingIsAhead'  BY <1>1, <1>2 DEF NothingIsAhead
<1>8. RefreshIsAllowed' /\ SnapshotAwaitsRefresh'
  BY <1>1, <1>2 DEF RefreshIsAllowed, SnapshotAwaitsRefresh
<1>9. LateIsNoted'  BY <1>1, <1>2 DEF LateIsNoted
<1>10. UpdateHoldsRow' /\ RightsAreOfNow'  BY <1>1 DEF UpdateHoldsRow, RightsAreOfNow
<1> QED  BY <1>3, <1>4, <1>5, <1>6, <1>7, <1>8, <1>9, <1>10

(* A request goes from one stage to another outside or inside its transaction. *)
LEMMA StageKeeps ==
  ASSUME BasesInv, NEW r \in Requests, OthersStay(r), req' \in [Requests -> Request],
         req'[r].kind = req[r].kind, req'[r].config = req[r].config,
         req'[r].after = req[r].after, req'[r].late = req[r].late,
         req[r].at \in AtWork, req'[r].at \in AtWork, UNCHANGED <<rows, memory>>
  PROVE  BasesInv'
<1> USE DEF BasesInv, rows, memory, Is, AtWork, UnderLock, Stages, OthersStay
<1>1. TypeOK'  BY DEF TypeOK
<1>2. PlacesCounted'  BY PlacesSame
<1>3. MarksAreOfLayers'  BY DEF MarksAreOfLayers, Loads
<1>4. LockIsOfRefresh'  BY DEF LockIsOfRefresh
<1>5. NothingIsAhead'  BY DEF NothingIsAhead
<1>6. RefreshIsAllowed' /\ SnapshotAwaitsRefresh'
  BY DEF RefreshIsAllowed, SnapshotAwaitsRefresh
<1>7. LateIsNoted'  BY DEF LateIsNoted
<1>8. UpdateHoldsRow' /\ RightsAreOfNow'  BY DEF UpdateHoldsRow, RightsAreOfNow
<1> QED  BY <1>1, <1>2, <1>3, <1>4, <1>5, <1>6, <1>7, <1>8

LEMMA MeasureKeeps ==
  ASSUME BasesInv, NEW r \in Requests, Measure(r)
  PROVE  BasesInv'
<1> DEFINE record(report, stage) == [req[r] EXCEPT !.report = report, !.at = stage]
<1>1. PICK report \in Findings, stage \in {"close", "data"} : Goes(r, record(report, stage))
  BY DEF Measure
<1>2. req[r] \in Request  BY DEF BasesInv, TypeOK
<1>3. record(report, stage) \in Request  BY <1>2 DEF Request, Stages
<1>4. /\ record(report, stage).at = stage
      /\ record(report, stage).kind = req[r].kind /\ record(report, stage).config = req[r].config
      /\ record(report, stage).after = req[r].after /\ record(report, stage).late = req[r].late
  BY <1>2 DEF Request
<1> HIDE DEF record
<1> QED  BY <1>1, <1>3, <1>4, GoesRequest, StageKeeps DEF Measure, At, BasesInv, AtWork

LEMMA ReadDataKeeps ==
  ASSUME BasesInv, NEW r \in Requests, ReadData(r)
  PROVE  BasesInv'
<1> DEFINE record == [req[r] EXCEPT !.at = "close", !.data = TRUE]
<1>1. req[r] \in Request  BY DEF BasesInv, TypeOK
<1>2. record \in Request  BY <1>1 DEF Request, Stages
<1>3. /\ record.at = "close" /\ record.kind = req[r].kind /\ record.config = req[r].config
      /\ record.after = req[r].after /\ record.late = req[r].late
  BY <1>1 DEF Request
<1>4. Goes(r, record)  BY DEF ReadData
<1> HIDE DEF record
<1> QED  BY <1>2, <1>3, <1>4, GoesRequest, StageKeeps DEF ReadData, At, BasesInv, AtWork

LEMMA AccessFailsKeeps ==
  ASSUME BasesInv, NEW r \in Requests, AccessFails(r)
  PROVE  BasesInv'
<1> DEFINE record == [req[r] EXCEPT !.at = "close", !.report = "none"]
<1>1. req[r] \in Request  BY DEF BasesInv, TypeOK
<1>2. record \in Request  BY <1>1 DEF Request, Stages
<1>3. /\ record.at = "close" /\ record.kind = req[r].kind /\ record.config = req[r].config
      /\ record.after = req[r].after /\ record.late = req[r].late
  BY <1>1 DEF Request
<1>4. Goes(r, record)  BY DEF AccessFails
<1> HIDE DEF record
<1> QED  BY <1>2, <1>3, <1>4, GoesRequest, StageKeeps DEF AccessFails, BasesInv, AtWork

LEMMA BusyKeeps ==
  ASSUME BasesInv, NEW r \in Requests, Busy(r)
  PROVE  BasesInv'
<1> USE DEF BasesInv, rows, Is, AtWork, UnderLock, Stages, OthersStay
<1>1. /\ req[r].at = "wait" /\ UNCHANGED <<rows, refreshing, places>>
      /\ previewing' = IF Is(r, "preview") THEN previewing \ {UserOf[r]} ELSE previewing
  BY DEF Busy, At, MarkDropped
<1>2. /\ req' \in [Requests -> Request] /\ OthersStay(r)
      /\ req'[r].at = "record" /\ req'[r].kind = req[r].kind /\ req'[r].config = req[r].config
      /\ req'[r].after = req[r].after /\ req'[r].late = req[r].late
  BY MovesRequest DEF Busy
<1>3. TypeOK'  BY <1>1, <1>2 DEF TypeOK
<1>4. PlacesCounted'  BY <1>1, <1>2, PlacesSame
<1>5. MarksAreOfLayers'  BY <1>1, <1>2 DEF MarksAreOfLayers, Loads
<1>6. LockIsOfRefresh'  BY <1>1, <1>2 DEF LockIsOfRefresh
<1>7. NothingIsAhead'  BY <1>1, <1>2 DEF NothingIsAhead
<1>8. RefreshIsAllowed' /\ SnapshotAwaitsRefresh'
  BY <1>1, <1>2 DEF RefreshIsAllowed, SnapshotAwaitsRefresh
<1>9. LateIsNoted'  BY <1>1, <1>2 DEF LateIsNoted
<1>10. UpdateHoldsRow' /\ RightsAreOfNow'  BY <1>1 DEF UpdateHoldsRow, RightsAreOfNow
<1> QED  BY <1>3, <1>4, <1>5, <1>6, <1>7, <1>8, <1>9, <1>10

LEMMA CloseKeeps ==
  ASSUME BasesInv, NEW r \in Requests, Close(r)
  PROVE  BasesInv'
<1> USE DEF BasesInv, rows, Is, AtWork, UnderLock, Stages, OthersStay
<1>1. /\ req[r].at = "close" /\ places' = PlaceBack(r) /\ UNCHANGED <<rows, refreshing>>
      /\ previewing' = IF Is(r, "preview") THEN previewing \ {UserOf[r]} ELSE previewing
  BY DEF Close, At, MarkDropped
<1>2. /\ req' \in [Requests -> Request] /\ OthersStay(r)
      /\ req'[r].at = "record" /\ req'[r].kind = req[r].kind /\ req'[r].config = req[r].config
      /\ req'[r].after = req[r].after /\ req'[r].late = req[r].late
  BY MovesRequest DEF Close
<1>3. PlacesCounted' /\ places' \in [Servers -> 0..MaxPlaces]
  BY <1>1, <1>2, PlaceReturned
<1>4. TypeOK'  BY <1>1, <1>2, <1>3 DEF TypeOK
<1>5. MarksAreOfLayers'  BY <1>1, <1>2 DEF MarksAreOfLayers, Loads
<1>6. LockIsOfRefresh'  BY <1>1, <1>2 DEF LockIsOfRefresh
<1>7. NothingIsAhead'  BY <1>1, <1>2 DEF NothingIsAhead
<1>8. RefreshIsAllowed' /\ SnapshotAwaitsRefresh'
  BY <1>1, <1>2 DEF RefreshIsAllowed, SnapshotAwaitsRefresh
<1>9. LateIsNoted'  BY <1>1, <1>2 DEF LateIsNoted
<1>10. UpdateHoldsRow' /\ RightsAreOfNow'  BY <1>1 DEF UpdateHoldsRow, RightsAreOfNow
<1> QED  BY <1>3, <1>4, <1>5, <1>6, <1>7, <1>8, <1>9, <1>10

(* What is recorded concerns the rights only, and those of the login of now. *)
LEMMA RecordedRow ==
  ASSUME BasesInv, NEW r \in Requests, Record(r)
  PROVE  /\ conn' \in Connection \union {None} /\ (conn' = None <=> conn = None)
         /\ conn # None => conn'.config = conn.config
         /\ RightsAreOfNow'
<1>1. conn' = Recorded(r)  BY DEF Record
<1>2. CASE SameLogin(r) /\ req[r].report # "none"
  <2>1. req[r] \in Request /\ req[r].report \in Findings
    BY <1>2 DEF BasesInv, TypeOK, Request, Findings
  <2>2. conn # None /\ conn \in Connection /\ conn.config = req[r].config
    BY <1>2 DEF BasesInv, TypeOK, SameLogin
  <2>3. conn' = [conn EXCEPT !.rights = req[r].report, !.of = req[r].config]
    BY <1>1, <1>2 DEF Recorded
  <2>4. /\ conn' \in Connection /\ conn'.config = conn.config /\ conn'.of = req[r].config
    BY <2>1, <2>2, <2>3 DEF Connection, Request
  <2> QED  BY <2>2, <2>4, RowAssumption DEF RightsAreOfNow
<1>3. CASE ~(SameLogin(r) /\ req[r].report # "none")
  <2>1. conn' = conn  BY <1>1, <1>3 DEF Recorded
  <2> QED  BY <2>1 DEF BasesInv, TypeOK, RightsAreOfNow
<1> QED  BY <1>2, <1>3

LEMMA RecordKeeps ==
  ASSUME BasesInv, NEW r \in Requests, Record(r)
  PROVE  BasesInv'
<1>1. /\ req[r].at = "record" /\ admin = None
      /\ UNCHANGED <<snapshot, admin, previewing, places>>
  BY DEF Record, At, RowFree
<1>2. /\ conn' \in Connection \union {None} /\ (conn' = None <=> conn = None)
      /\ conn # None => conn'.config = conn.config
      /\ RightsAreOfNow'
  BY RecordedRow
<1>3. /\ req' \in [Requests -> Request] /\ OthersStay(r)
      /\ \/ /\ req'[r].at = "save" /\ req'[r].kind = "refresh" /\ req[r].kind = "refresh"
            /\ req'[r].config = req[r].config /\ req'[r].after = req[r].after
            /\ req'[r].late = req[r].late /\ UNCHANGED refreshing
         \/ /\ req'[r].at = "idle" /\ req'[r].kind = "check" /\ req'[r].config = 1
            /\ refreshing' = IF refreshing = r THEN None ELSE refreshing
  BY EndsRequest, MovesRequest DEF Record, BasesInv, Is, Stages
<1> USE DEF BasesInv, Is, AtWork, UnderLock, Stages, OthersStay
<1>4. TypeOK'  BY <1>1, <1>2, <1>3 DEF TypeOK
<1>5. PlacesCounted'  BY <1>1, <1>3, PlacesSame
<1>6. MarksAreOfLayers'  BY <1>1, <1>3 DEF MarksAreOfLayers, Loads
<1>7. LockIsOfRefresh'  BY <1>1, <1>3, NoneAssumption DEF LockIsOfRefresh
<1>8. NothingIsAhead'
  BY <1>1, <1>2, <1>3 DEF NothingIsAhead, TypeOK, Connection, Configs
<1>9. RefreshIsAllowed' /\ SnapshotAwaitsRefresh'
  BY <1>1, <1>3 DEF RefreshIsAllowed, SnapshotAwaitsRefresh
<1>10. LateIsNoted'  BY <1>1, <1>3 DEF LateIsNoted
<1>11. UpdateHoldsRow'  BY <1>1 DEF UpdateHoldsRow
<1> QED  BY <1>2, <1>4, <1>5, <1>6, <1>7, <1>8, <1>9, <1>10, <1>11

LEMMA SaveKeeps ==
  ASSUME BasesInv, NEW r \in Requests, Save(r)
  PROVE  BasesInv'
<1> USE DEF BasesInv, Is, AtWork, UnderLock, Stages, OthersStay
<1>1. /\ req[r].at = "save" /\ req[r].kind = "refresh" /\ refreshing = r
      /\ UNCHANGED <<conn, admin, previewing, places>>
  BY DEF Save, At, LockIsOfRefresh
<1>2. /\ req' \in [Requests -> Request] /\ OthersStay(r)
      /\ req'[r].at = "idle" /\ req'[r].kind = "check" /\ req'[r].config = 1
      /\ refreshing' = None
  BY <1>1, EndsRequest DEF Save
<1>3. snapshot' = IF conn = None THEN None ELSE Taken(r, req[r].after)  BY DEF Save
<1>4. /\ Taken(r, req[r].after) \in Snapshot /\ Taken(r, req[r].after).of = req[r].config
      /\ Taken(r, req[r].after).after = req[r].after
      /\ Taken(r, req[r].after).late = req[r].late
  BY DEF TypeOK, Taken, Request, Snapshot
<1>5. TypeOK'  BY <1>1, <1>2, <1>3, <1>4 DEF TypeOK
<1>6. PlacesCounted'  BY <1>1, <1>2, PlacesSame
<1>7. MarksAreOfLayers'  BY <1>1, <1>2 DEF MarksAreOfLayers, Loads
<1>8. LockIsOfRefresh'  BY <1>1, <1>2, NoneAssumption DEF LockIsOfRefresh
<1>9. NothingIsAhead'
  BY <1>1, <1>2, <1>3, <1>4 DEF NothingIsAhead, TypeOK, Connection, Configs
<1>10. RefreshIsAllowed' /\ SnapshotAwaitsRefresh'
  BY <1>1, <1>2 DEF RefreshIsAllowed, SnapshotAwaitsRefresh, LockIsOfRefresh
<1>11. LateIsNoted'  BY <1>1, <1>2, <1>3, <1>4 DEF LateIsNoted
<1>12. UpdateHoldsRow' /\ RightsAreOfNow'  BY <1>1 DEF UpdateHoldsRow, RightsAreOfNow
<1> QED  BY <1>5, <1>6, <1>7, <1>8, <1>9, <1>10, <1>11, <1>12

LEMMA CancelKeeps ==
  ASSUME BasesInv, NEW r \in Requests, Cancel(r)
  PROVE  BasesInv'
<1> USE DEF BasesInv, rows, Is, AtWork, UnderLock, Stages, OthersStay
<1>1. /\ req[r].kind = "sample" /\ UNCHANGED <<rows, previewing>>
      /\ places' = IF req[r].at \in AtWork THEN PlaceBack(r) ELSE places
  BY DEF Cancel
<1>2. /\ req' \in [Requests -> Request] /\ OthersStay(r)
      /\ req'[r].at = "idle" /\ req'[r].kind = "check" /\ req'[r].config = 1
      /\ refreshing' = refreshing
  BY <1>1, EndsRequest DEF Cancel, LockIsOfRefresh
<1>3. PlacesCounted' /\ places' \in [Servers -> 0..MaxPlaces]
  <2>1. CASE req[r].at \in AtWork  BY <1>1, <1>2, <2>1, PlaceReturned
  <2>2. CASE req[r].at \notin AtWork  BY <1>1, <1>2, <2>2, PlacesSame DEF TypeOK
  <2> QED  BY <2>1, <2>2
<1>4. TypeOK'  BY <1>1, <1>2, <1>3 DEF TypeOK
<1>5. MarksAreOfLayers'  BY <1>1, <1>2 DEF MarksAreOfLayers, Loads
<1>6. LockIsOfRefresh'  BY <1>1, <1>2 DEF LockIsOfRefresh
<1>7. NothingIsAhead'  BY <1>1, <1>2 DEF NothingIsAhead, TypeOK, Connection, Configs
<1>8. RefreshIsAllowed' /\ SnapshotAwaitsRefresh'
  BY <1>1, <1>2 DEF RefreshIsAllowed, SnapshotAwaitsRefresh
<1>9. LateIsNoted'  BY <1>1, <1>2 DEF LateIsNoted
<1>10. UpdateHoldsRow' /\ RightsAreOfNow'  BY <1>1 DEF UpdateHoldsRow, RightsAreOfNow
<1> QED  BY <1>3, <1>4, <1>5, <1>6, <1>7, <1>8, <1>9, <1>10

LEMMA UpdateReadsKeeps ==
  ASSUME BasesInv, UpdateReads
  PROVE  BasesInv'
<1> USE DEF BasesInv, rows, memory, Is, AtWork
<1>1. conn \in Connection /\ conn # None /\ UNCHANGED <<conn, snapshot, req, memory>>
  BY DEF UpdateReads, TypeOK
<1>2. /\ admin' \in Connection
      /\ admin' = conn \/ (admin'.config > conn.config /\ admin'.rights = "unknown")
  <2>1. CASE admin' = conn  BY <1>1, <2>1
  <2>2. CASE /\ conn.config < MaxConfig
             /\ admin' = [config |-> conn.config + 1, rights |-> "unknown", of |-> 1]
    <3>1. conn.config \in Nat /\ conn.config + 1 \in Configs
      BY <1>1, <2>2, ConfigsAssumption DEF Connection, Configs
    <3> QED  BY <2>2, <3>1, IdleRequest DEF Connection
  <2> QED  BY <2>1, <2>2 DEF UpdateReads
<1>3. TypeOK'  BY <1>1, <1>2 DEF TypeOK
<1>4. UpdateHoldsRow'  BY <1>1, <1>2 DEF UpdateHoldsRow
<1>5. PlacesCounted'  BY <1>1, PlacesSame
<1>6. MarksAreOfLayers' /\ LockIsOfRefresh'  BY <1>1 DEF MarksAreOfLayers, Loads, LockIsOfRefresh
<1>7. NothingIsAhead' /\ RightsAreOfNow'  BY <1>1 DEF NothingIsAhead, RightsAreOfNow
<1>8. RefreshIsAllowed' /\ SnapshotAwaitsRefresh' /\ LateIsNoted'
  BY <1>1 DEF RefreshIsAllowed, SnapshotAwaitsRefresh, LateIsNoted
<1> QED  BY <1>3, <1>4, <1>5, <1>6, <1>7, <1>8

LEMMA UpdateSavesKeeps ==
  ASSUME BasesInv, UpdateSaves
  PROVE  BasesInv'
<1> USE DEF BasesInv, memory, Is, AtWork
<1>1. /\ admin # None /\ conn' = admin /\ admin' = None /\ UNCHANGED <<snapshot, req, memory>>
  BY DEF UpdateSaves
<1>2. TypeOK'  BY <1>1 DEF TypeOK
<1>3. UpdateHoldsRow'  BY <1>1 DEF UpdateHoldsRow
<1>4. NothingIsAhead'
  BY <1>1 DEF NothingIsAhead, UpdateHoldsRow, TypeOK, Connection, Configs, Snapshot, Request
<1>5. RightsAreOfNow'  BY <1>1 DEF RightsAreOfNow, UpdateHoldsRow
<1>6. PlacesCounted'  BY <1>1, PlacesSame
<1>7. MarksAreOfLayers' /\ LockIsOfRefresh'  BY <1>1 DEF MarksAreOfLayers, Loads, LockIsOfRefresh
<1>8. RefreshIsAllowed' /\ SnapshotAwaitsRefresh' /\ LateIsNoted'
  BY <1>1 DEF RefreshIsAllowed, SnapshotAwaitsRefresh, LateIsNoted
<1> QED  BY <1>2, <1>3, <1>4, <1>5, <1>6, <1>7, <1>8

LEMMA DeleteKeeps ==
  ASSUME BasesInv, Delete
  PROVE  BasesInv'
<1> USE DEF BasesInv, memory, Is, AtWork
<1>1. /\ conn' = None /\ snapshot' = None /\ admin = None /\ UNCHANGED <<admin, req, memory>>
  BY DEF Delete
<1>2. TypeOK'  BY <1>1 DEF TypeOK
<1>3. PlacesCounted'  BY <1>1, PlacesSame
<1>4. MarksAreOfLayers' /\ LockIsOfRefresh'  BY <1>1 DEF MarksAreOfLayers, Loads, LockIsOfRefresh
<1>5. UpdateHoldsRow' /\ NothingIsAhead' /\ RightsAreOfNow'
  BY <1>1 DEF UpdateHoldsRow, NothingIsAhead, RightsAreOfNow
<1>6. RefreshIsAllowed' /\ SnapshotAwaitsRefresh' /\ LateIsNoted'
  BY <1>1 DEF RefreshIsAllowed, SnapshotAwaitsRefresh, LateIsNoted
<1> QED  BY <1>2, <1>3, <1>4, <1>5, <1>6

LEMMA SnapshotAgesKeeps ==
  ASSUME BasesInv, SnapshotAges
  PROVE  BasesInv'
<1> USE DEF BasesInv, memory, Is, AtWork
<1>1. /\ snapshot # None /\ UNCHANGED <<conn, admin, req, memory>>
      /\ snapshot' = [snapshot EXCEPT !.recent = FALSE]
  BY DEF SnapshotAges
<1>2. /\ snapshot' \in Snapshot /\ snapshot'.recent = FALSE /\ snapshot'.of = snapshot.of
      /\ snapshot'.after = snapshot.after /\ snapshot'.late = snapshot.late
  BY <1>1 DEF TypeOK, Snapshot
<1>3. TypeOK'  BY <1>1, <1>2 DEF TypeOK
<1>4. PlacesCounted'  BY <1>1, PlacesSame
<1>5. MarksAreOfLayers' /\ LockIsOfRefresh'  BY <1>1 DEF MarksAreOfLayers, Loads, LockIsOfRefresh
<1>6. UpdateHoldsRow' /\ RightsAreOfNow'  BY <1>1 DEF UpdateHoldsRow, RightsAreOfNow
<1>7. NothingIsAhead'  BY <1>1, <1>2 DEF NothingIsAhead
<1>8. RefreshIsAllowed' /\ SnapshotAwaitsRefresh' /\ LateIsNoted'
  BY <1>1, <1>2 DEF RefreshIsAllowed, SnapshotAwaitsRefresh, LateIsNoted
<1> QED  BY <1>3, <1>4, <1>5, <1>6, <1>7, <1>8

LEMMA RestartKeeps ==
  ASSUME BasesInv, Restart
  PROVE  BasesInv'
<1> USE DEF BasesInv, Is, AtWork, UnderLock, Stages
<1>1. /\ req' = [r \in Requests |-> Idle] /\ places' = [s \in Servers |-> MaxPlaces]
      /\ admin' = None /\ refreshing' = None /\ previewing' = {} /\ snapshot' = Redated
      /\ UNCHANGED conn
  BY DEF Restart
<1>2. /\ req' \in [Requests -> Request]
      /\ \A r \in Requests : req'[r].at = "idle" /\ req'[r].config = 1
  BY <1>1, IdleRequest DEF Idle
<1>3. /\ snapshot' \in Snapshot \union {None} /\ (snapshot' # None => snapshot # None)
      /\ snapshot # None => snapshot' # None /\ snapshot'.of = snapshot.of
      /\ snapshot' # None /\ ~snapshot'.late => snapshot'.after = snapshot'.of
  <2>1. CASE snapshot # None /\ conn # None /\ snapshot.after > conn.config
    <3>1. snapshot \in Snapshot /\ conn.config \in Configs
      BY <2>1 DEF TypeOK, Connection
    <3>2. snapshot' = [snapshot EXCEPT !.after = conn.config]  BY <1>1, <2>1 DEF Redated
    <3>3. /\ snapshot' \in Snapshot /\ snapshot'.of = snapshot.of
          /\ snapshot'.late = snapshot.late /\ snapshot'.after = conn.config
      BY <3>1, <3>2 DEF Snapshot
    <3>4. ~snapshot.late => snapshot.after = snapshot.of /\ snapshot.of <= conn.config
      BY <2>1 DEF LateIsNoted, NothingIsAhead
    <3>5. snapshot.late
      BY <2>1, <3>1, <3>4 DEF Snapshot, Configs
    <3> QED  BY <2>1, <3>3, <3>5, RowAssumption
  <2>2. CASE ~(snapshot # None /\ conn # None /\ snapshot.after > conn.config)
    BY <1>1, <2>2 DEF Redated, LateIsNoted, TypeOK
  <2> QED  BY <2>1, <2>2
<1>4. PlacesCounted' /\ places' \in [Servers -> 0..MaxPlaces]
  <2>1. \A s \in Servers : Connected(s)' = {}  BY <1>2 DEF Connected
  <2>2. Cardinality({}) = 0 /\ IsFiniteSet({})  BY FS_EmptySet
  <2> QED  BY <1>1, <2>1, <2>2, PlacesAssumption DEF PlacesCounted
<1>5. TypeOK'  BY <1>1, <1>2, <1>3, <1>4 DEF TypeOK
<1>6. MarksAreOfLayers'  BY <1>1, <1>2 DEF MarksAreOfLayers, Loads
<1>7. LockIsOfRefresh'  BY <1>1, <1>2, NoneAssumption DEF LockIsOfRefresh
<1>8. UpdateHoldsRow' /\ RightsAreOfNow'  BY <1>1 DEF UpdateHoldsRow, RightsAreOfNow
<1>9. NothingIsAhead'
  BY <1>1, <1>2, <1>3 DEF NothingIsAhead, TypeOK, Connection, Configs
<1>10. RefreshIsAllowed' /\ SnapshotAwaitsRefresh'
  BY <1>2 DEF RefreshIsAllowed, SnapshotAwaitsRefresh
<1>11. LateIsNoted'  BY <1>2, <1>3 DEF LateIsNoted
<1> QED  BY <1>4, <1>5, <1>6, <1>7, <1>8, <1>9, <1>10, <1>11

LEMMA StutterKeeps ==
  ASSUME BasesInv, UNCHANGED vars
  PROVE  BasesInv'
<1> USE DEF BasesInv, vars, rows, memory, Is, AtWork
<1>1. TypeOK' /\ UpdateHoldsRow' /\ NothingIsAhead' /\ RightsAreOfNow'
  BY DEF TypeOK, UpdateHoldsRow, NothingIsAhead, RightsAreOfNow
<1>2. PlacesCounted'  BY PlacesSame
<1>3. MarksAreOfLayers' /\ LockIsOfRefresh'  BY DEF MarksAreOfLayers, Loads, LockIsOfRefresh
<1>4. RefreshIsAllowed' /\ SnapshotAwaitsRefresh' /\ LateIsNoted'
  BY DEF RefreshIsAllowed, SnapshotAwaitsRefresh, LateIsNoted
<1> QED  BY <1>1, <1>2, <1>3, <1>4
-----------------------------------------------------------------------------
LEMMA InitBasesInv == Init => BasesInv
<1> SUFFICES ASSUME Init PROVE BasesInv  OBVIOUS
<1> USE DEF Is, AtWork, UnderLock, Stages
<1>1. /\ conn = [config |-> 1, rights |-> "unknown", of |-> 1]
      /\ conn.config = 1 /\ conn.rights = "unknown"
      /\ snapshot = None /\ admin = None /\ refreshing = None /\ previewing = {}
      /\ places = [s \in Servers |-> MaxPlaces]
  BY DEF Init
<1>2. req \in [Requests -> Request] /\ \A r \in Requests : req[r].at = "idle" /\ req[r].config = 1
  BY IdleRequest DEF Init, Idle
<1>3. PlacesCounted /\ places \in [Servers -> 0..MaxPlaces]
  <2>1. \A s \in Servers : Connected(s) = {}  BY <1>2 DEF Connected
  <2>2. Cardinality({}) = 0 /\ IsFiniteSet({})  BY FS_EmptySet
  <2> QED  BY <1>1, <2>1, <2>2, PlacesAssumption DEF PlacesCounted
<1>4. conn \in Connection  BY <1>1, IdleRequest DEF Connection
<1>5. TypeOK  BY <1>1, <1>2, <1>3, <1>4 DEF TypeOK
<1>6. MarksAreOfLayers  BY <1>1, <1>2 DEF MarksAreOfLayers, Loads
<1>7. LockIsOfRefresh  BY <1>1, <1>2, NoneAssumption DEF LockIsOfRefresh
<1>8. UpdateHoldsRow /\ RightsAreOfNow /\ NothingIsAhead
  BY <1>1, <1>2 DEF UpdateHoldsRow, RightsAreOfNow, NothingIsAhead
<1>9. RefreshIsAllowed /\ SnapshotAwaitsRefresh /\ LateIsNoted
  BY <1>1, <1>2 DEF RefreshIsAllowed, SnapshotAwaitsRefresh, LateIsNoted
<1> QED  BY <1>3, <1>5, <1>6, <1>7, <1>8, <1>9 DEF BasesInv

LEMMA NextBasesInv == BasesInv /\ [Next]_vars => BasesInv'
<1> SUFFICES ASSUME BasesInv, [Next]_vars PROVE BasesInv'  OBVIOUS
<1>1. ASSUME NEW r \in Requests, Ask(r) \/ TakeLock(r) \/ ReadRow(r) \/ Save(r)
      PROVE  BasesInv'
  BY <1>1, AskKeeps, TakeLockKeeps, ReadRowKeeps, SaveKeeps
<1>2. ASSUME NEW r \in Requests, Access(r)
      PROVE  BasesInv'
  BY <1>2, RefuseKeeps, EnterKeeps, TakePlaceKeeps, BusyKeeps, MeasureKeeps, ReadDataKeeps,
     AccessFailsKeeps, CloseKeeps, RecordKeeps DEF Access
<1>3. ASSUME NEW r \in Requests, Fails(r) \/ Cancel(r)
      PROVE  BasesInv'
  BY <1>3, FailsKeeps, CancelKeeps
<1>4. CASE UpdateReads \/ UpdateSaves \/ Delete \/ SnapshotAges \/ Restart
  BY <1>4, UpdateReadsKeeps, UpdateSavesKeeps, DeleteKeeps, SnapshotAgesKeeps, RestartKeeps
<1>5. CASE UNCHANGED vars  BY <1>5, StutterKeeps
<1> QED  BY <1>1, <1>2, <1>3, <1>4, <1>5 DEF Next

LEMMA BasesInvariant == Spec => []BasesInv
  BY InitBasesInv, NextBasesInv, PTL DEF Spec

(* The types of the state: no semaphore counts below nothing or above its   *)
(* places, and the rows are those of the tables.                            *)
THEOREM BaseTypes == Spec => []TypeOK
<1>1. BasesInv => TypeOK  BY DEF BasesInv
<1> QED  BY <1>1, BasesInvariant, PTL

(* However an access ends, its place comes back to the server it was taken  *)
(* from, its mark and its lock go, and no other's do: with any number of    *)
(* requests a server never has more connections than it may                 *)
(* (CustomerDatabases._place, _access, load_layer; refresh).                *)
THEOREM PlacesComeBack == Spec => []EverythingComesBack
<1>1. ASSUME BasesInv, NEW u \in Users
      PROVE  Cardinality(Loading(u)) = IF u \in previewing THEN 1 ELSE 0
  <2>1. Loading(u) = {r \in Requests : Loads(r) /\ UserOf[r] = u}  BY DEF Loading, Loads
  <2>2. CASE u \in previewing
    <3>1. PICK r \in Requests : Loads(r) /\ UserOf[r] = u
      BY <1>1, <2>2 DEF BasesInv, MarksAreOfLayers
    <3>2. Loading(u) = {r}  BY <1>1, <2>1, <3>1 DEF BasesInv, MarksAreOfLayers
    <3> QED  BY <2>2, <3>2, FS_Singleton
  <2>3. CASE u \notin previewing
    <3>1. Loading(u) = {}  BY <1>1, <2>1, <2>3 DEF BasesInv, MarksAreOfLayers
    <3> QED  BY <2>3, <3>1, FS_EmptySet
  <2> QED  BY <2>2, <2>3
<1>2. BasesInv => EverythingComesBack
  BY <1>1 DEF BasesInv, PlacesCounted, LockIsOfRefresh, EverythingComesBack
<1> QED  BY <1>2, BasesInvariant, PTL

(* The rights an administrator is told are those of the login the row names, *)
(* and what an access found is lost to no update that read the row before   *)
(* (ConnectionRepository.record, DatabaseService.update).                   *)
THEOREM RightsStayWithTheLogin == Spec => RightsAreOfTheLogin
<1>1. BasesInv => RightsAreOfNow  BY DEF BasesInv
<1> DEFINE Kept == conn # None /\ conn' # None /\ conn'.rights # conn.rights =>
                     conn'.config # conn.config \/ \E r \in Requests : Record(r)
<1>2. BasesInv /\ [Next]_vars => [Kept]_conn
  <2> SUFFICES ASSUME BasesInv, [Next]_vars, conn' # conn PROVE Kept  OBVIOUS
  <2>1. CASE \E r \in Requests : Record(r)  BY <2>1
  <2>2. CASE UpdateSaves
    BY <2>2 DEF UpdateSaves, BasesInv, UpdateHoldsRow, TypeOK, Connection, Configs
  <2>3. CASE Delete  BY <2>3 DEF Delete
  <2>4. (\E r \in Requests : Record(r)) \/ UpdateSaves \/ Delete
    BY DEF Next, vars, rows, Ask, TakeLock, ReadRow, Save, Access, Refuse, Enter, TakePlace, Busy,
           Measure, ReadData, AccessFails, Close, Fails, Cancel, UpdateReads, SnapshotAges, Restart
  <2> QED  BY <2>1, <2>2, <2>3, <2>4
<1> QED  BY <1>1, <1>2, BasesInvariant, PTL DEF Spec, RightsAreOfTheLogin, RecordsAreKept

(* Refreshes of a connection take turns: none reads the schema too early,   *)
(* none puts back the schema of a former login, and one that was overtaken  *)
(* by a change of the login gives way to the next (DatabaseService.refresh).*)
THEOREM RefreshesAreInTurn == Spec => RefreshesTakeTurns
<1>1. BasesInv => RefreshIsAllowed  BY DEF BasesInv
<1>2. BasesInv => FormerGivesWay
  BY DEF BasesInv, FormerGivesWay, LateIsNoted, TooSoon, TypeOK, Snapshot, Connection, Configs
<1> DEFINE Forward == snapshot # None /\ snapshot' # None => snapshot'.of >= snapshot.of
<1>3. BasesInv /\ [Next]_vars => [Forward]_snapshot
  <2> SUFFICES ASSUME BasesInv, [Next]_vars, snapshot' # snapshot,
                      snapshot # None, snapshot' # None
               PROVE  snapshot'.of >= snapshot.of
    OBVIOUS
  <2>0. snapshot \in Snapshot /\ snapshot.of \in Nat  BY DEF BasesInv, TypeOK, Snapshot, Configs
  <2>1. ASSUME NEW r \in Requests, Save(r) PROVE snapshot'.of >= snapshot.of
    <3>1. snapshot.of <= req[r].config
      BY <2>1 DEF BasesInv, LockIsOfRefresh, SnapshotAwaitsRefresh, Save, At, UnderLock, Stages
    <3>2. snapshot'.of = req[r].config /\ req[r].config \in Nat
      BY <2>1 DEF Save, Taken, BasesInv, TypeOK, Request, Configs
    <3> QED  BY <2>0, <3>1, <3>2
  <2>2. CASE SnapshotAges  BY <2>0, <2>2 DEF SnapshotAges, Snapshot
  <2>3. CASE Restart  BY <2>0, <2>3 DEF Restart, Redated, Snapshot
  <2>4. (\E r \in Requests : Save(r)) \/ SnapshotAges \/ Restart
    BY DEF Next, vars, rows, Ask, TakeLock, ReadRow, Access, Refuse, Enter, TakePlace, Busy,
           Measure, ReadData, AccessFails, Close, Record, Fails, Cancel, UpdateReads, UpdateSaves,
           Delete
  <2> QED  BY <2>1, <2>2, <2>3, <2>4
<1> QED  BY <1>1, <1>2, <1>3, BasesInvariant, PTL DEF Spec, RefreshesTakeTurns, SnapshotsGoForward

-----------------------------------------------------------------------------
(* The checks of SQL blocks.                                               *)

(* Whoever holds a place holds one of the pool, and who is marked as busy holds one. *)
HoldersAreMarked ==
    /\ \A c \in Checks : Holder(c) => Place(c) \in Places
    /\ \A u \in users : \E c \in Checks : Holder(c) /\ CheckUserOf[c] = u

(* Once a place was entered, no session of another check is at it; the end of a cleanup *)
(* returns no place that is held.                                                       *)
PlacesAreTheirs ==
    \A c \in Checks :
        /\ check[c].at \in {"prepare", "attempt", "force"} => SessionsAt(Place(c)) \subseteq {c}
        /\ Holder(c) => cleanup[Place(c)] # "returns"

(* The report of a check fits what it is at. *)
Fits(record) ==
    /\ record.at = "idle" => \A b \in Blocks : record.blocks[b] \notin Unfinished
    /\ record.at = "select" => \A b \in Blocks : record.blocks[b] = "pending"
    /\ record.at \in {"waiting", "woken", "entry"} =>
        /\ \A b \in Blocks : record.blocks[b] # "running"
        /\ \E b \in Blocks : record.blocks[b] = "pending"

ReportsFit == \A c \in Checks : Fits(check[c])

(* The inductive invariant. *)
SandboxInv ==
    /\ SandboxTypeOK
    /\ HoldersAreMarked
    /\ ChecksStayAlone
    /\ PlacesAreTheirs
    /\ ReportsFit
    /\ NobodySleepsInVain

(* The other checks keep what they are at, a waiter among them may be woken. *)
OthersHold(c) ==
    \A d \in Checks \ {c} :
        /\ \/ check'[d].at = check[d].at
           \/ check[d].at = "waiting" /\ check'[d].at = "woken"
        /\ check'[d].place = check[d].place
        /\ check'[d].blocks = check[d].blocks

OthersAwake(c) == \A d \in Checks \ {c} : check'[d].at # "waiting"

(* What the blocks of a check came to is kept. *)
KeepsOutcomes(c) ==
    check[c].at # "idle" =>
        \A b \in Blocks : check[c].blocks[b] = "outcome" => check'[c].blocks[b] = "outcome"

Changes(c) ==
    /\ check' \in [Checks -> Check]
    /\ OthersHold(c)
    /\ Fits(check'[c])
    /\ KeepsOutcomes(c)

(* A check without a place ends, waits, or takes one of the places. *)
Turned(c, vacant, busy) ==
    \/ /\ check'[c].at = "idle"
       /\ free' = vacant /\ users' = busy
    \/ /\ check'[c].at = "waiting"
       /\ free' = vacant /\ users' = busy
       /\ retired # Places
       /\ CheckUserOf[c] \in busy \/ vacant = {}
    \/ /\ check'[c].at = "entry"
       /\ check'[c].place \in vacant
       /\ CheckUserOf[c] \notin busy
       /\ free' = vacant \ {check'[c].place}
       /\ users' = busy \union {CheckUserOf[c]}

(* Outcomes of all checks, as the action property of OutcomesAreReported has them. *)
OutcomesStay ==
    \A c \in Checks, b \in Blocks :
        check[c].blocks[b] = "outcome" /\ check[c].at # "idle" =>
            check'[c].blocks[b] \in {"outcome", "none"}

-----------------------------------------------------------------------------
(* The operators of the model. *)

LEMMA LeastExists ==
  ASSUME NEW S \in SUBSET Nat, S # {}
  PROVE  First(S) \in S
<1>1. IsWellFoundedOn(OpToRel(<, Nat), Nat)  BY NatLessThanWellFounded
<1>2. PICK x \in S : \A y \in S : ~(<<y, x>> \in OpToRel(<, Nat))  BY <1>1, WFMin
<1>3. \A y \in S : ~(y < x)  BY <1>2 DEF OpToRel
<1>4. \A y \in S : x <= y  BY <1>3
<1> QED  BY <1>4 DEF First

LEMMA EndedIsCheck ==
  ASSUME NEW blocks \in [Blocks -> BlockStatus]
  PROVE  /\ Ended(blocks) \in Check
         /\ Ended(blocks).at = "idle" /\ Ended(blocks).place = NoPlace
         /\ Ended(blocks).blocks = blocks
  BY AttemptsAssumption DEF Ended, Check, CheckStages, Afterwards

LEMMA WithIsReport ==
  ASSUME NEW blocks \in [Blocks -> BlockStatus], NEW statuses \in SUBSET BlockStatus,
         NEW new \in BlockStatus
  PROVE  /\ With(blocks, statuses, new) \in [Blocks -> BlockStatus]
         /\ \A b \in Blocks : With(blocks, statuses, new)[b] =
                                  IF blocks[b] \in statuses THEN new ELSE blocks[b]
  BY DEF With

(* A decided block leaves none running and no outcome changed. *)
LEMMA DecidedIsReport ==
  ASSUME NEW blocks \in [Blocks -> BlockStatus]
  PROVE  /\ Decided(blocks) \in [Blocks -> BlockStatus]
         /\ \A b \in Blocks : Decided(blocks)[b] # "running"
         /\ \A b \in Blocks : blocks[b] = "outcome" => Decided(blocks)[b] = "outcome"
<1>1. CASE \E b \in Blocks : blocks[b] = "running"
  <2>1. Decided(blocks) = With(blocks, {"running"}, "outcome")  BY <1>1 DEF Decided
  <2> QED  BY <2>1, WithIsReport DEF BlockStatus
<1>2. CASE ~ \E b \in Blocks : blocks[b] = "running"
  <2>1. Decided(blocks) = [blocks EXCEPT ![FirstPending(blocks)] = "outcome"]
    BY <1>2 DEF Decided
  <2> QED  BY <1>2, <2>1 DEF BlockStatus
<1> QED  BY <1>1, <1>2

LEMMA StoppedIsReport ==
  ASSUME NEW blocks \in [Blocks -> BlockStatus]
  PROVE  /\ Stopped(blocks) \in [Blocks -> BlockStatus]
         /\ \A b \in Blocks : Stopped(blocks)[b] \notin Unfinished
         /\ \A b \in Blocks : blocks[b] = "outcome" => Stopped(blocks)[b] = "outcome"
  BY WithIsReport DEF Stopped, BlockStatus, Unfinished

(* The block that starts to run was pending. *)
LEMMA StartedIsReport ==
  ASSUME NEW blocks \in [Blocks -> BlockStatus], \E b \in Blocks : blocks[b] = "pending"
  PROVE  LET started == [blocks EXCEPT ![FirstPending(blocks)] = "running"]
         IN  /\ started \in [Blocks -> BlockStatus]
             /\ \A b \in Blocks : blocks[b] = "outcome" => started[b] = "outcome"
<1>1. {b \in Blocks : blocks[b] = "pending"} \in SUBSET Nat  BY BlocksAssumption
<1>2. FirstPending(blocks) \in {b \in Blocks : blocks[b] = "pending"}
  BY <1>1, LeastExists DEF FirstPending
<1> QED  BY <1>2 DEF BlockStatus

LEMMA WokenIsHeld ==
  ASSUME NEW checks \in [Checks -> Check]
  PROVE  /\ Woken(checks) \in [Checks -> Check]
         /\ \A d \in Checks :
               /\ Woken(checks)[d].at = IF checks[d].at = "waiting" THEN "woken" ELSE checks[d].at
               /\ Woken(checks)[d].place = checks[d].place
               /\ Woken(checks)[d].blocks = checks[d].blocks
<1>1. ASSUME NEW d \in Checks
      PROVE  /\ Woken(checks)[d] \in Check
             /\ Woken(checks)[d].at = IF checks[d].at = "waiting" THEN "woken" ELSE checks[d].at
             /\ Woken(checks)[d].place = checks[d].place
             /\ Woken(checks)[d].blocks = checks[d].blocks
  BY <1>1 DEF Woken, Check, CheckStages
<1> QED  BY <1>1 DEF Woken

(* What a turn to the next block does to its check; the others are as they were given. *)
LEMMA NextBlockTurns ==
  ASSUME NEW c \in Checks, NEW checks \in [Checks -> Check],
         NEW vacant \in SUBSET Places, NEW busy,
         \A b \in Blocks : checks[c].blocks[b] # "running",
         NextBlock(c, checks, vacant, busy)
  PROVE  /\ check' \in [Checks -> Check]
         /\ \A d \in Checks \ {c} : check'[d] = checks[d]
         /\ Fits(check'[c])
         /\ \A b \in Blocks :
               checks[c].blocks[b] = "outcome" => check'[c].blocks[b] = "outcome"
         /\ Turned(c, vacant, busy)
<1> DEFINE blocks == checks[c].blocks
           all == With(blocks, {"pending"}, "outcome")
           waits == [Ended(blocks) EXCEPT !.at = "waiting"]
           enters == [waits EXCEPT !.at = "entry", !.place = First(vacant)]
<1>1. blocks \in [Blocks -> BlockStatus]  BY DEF Check
<1>2. ASSUME NEW record \in Check, check' = [checks EXCEPT ![c] = record]
      PROVE  /\ check' \in [Checks -> Check] /\ check'[c] = record
             /\ \A d \in Checks \ {c} : check'[d] = checks[d]
  BY <1>2
<1>3. /\ Ended(blocks) \in Check /\ Ended(blocks).at = "idle" /\ Ended(blocks).blocks = blocks
  BY <1>1, EndedIsCheck
<1>4. CASE /\ \A b \in Blocks : blocks[b] # "pending"
           /\ check' = [checks EXCEPT ![c] = Ended(blocks)]
           /\ free' = vacant /\ users' = busy
  BY <1>2, <1>3, <1>4 DEF Turned, Fits, Unfinished
<1>5. CASE /\ check' = [checks EXCEPT ![c] = Ended(all)]
           /\ free' = vacant /\ users' = busy
  <2>1. /\ all \in [Blocks -> BlockStatus]
        /\ \A b \in Blocks : all[b] = IF blocks[b] = "pending" THEN "outcome" ELSE blocks[b]
    BY <1>1, WithIsReport DEF BlockStatus
  <2>2. Ended(all) \in Check /\ Ended(all).at = "idle" /\ Ended(all).blocks = all
    BY <2>1, EndedIsCheck
  <2>3. /\ check' \in [Checks -> Check] /\ check'[c] = Ended(all)
        /\ \A d \in Checks \ {c} : check'[d] = checks[d]
    BY <1>2, <1>5, <2>2
  <2> HIDE DEF all
  <2> QED  BY <1>5, <2>1, <2>2, <2>3 DEF Turned, Fits, Unfinished
<1>6. waits \in Check /\ waits.at = "waiting" /\ waits.blocks = blocks
  BY <1>3 DEF Check, CheckStages
<1>7. CASE /\ \E b \in Blocks : blocks[b] = "pending"
           /\ ~AllRetired
           /\ CheckUserOf[c] \in busy \/ vacant = {}
           /\ check' = [checks EXCEPT ![c] = waits]
           /\ free' = vacant /\ users' = busy
  <2>1. /\ check' \in [Checks -> Check] /\ check'[c] = waits
        /\ \A d \in Checks \ {c} : check'[d] = checks[d]
    BY <1>2, <1>6, <1>7
  <2> HIDE DEF waits
  <2> QED  BY <1>6, <1>7, <2>1 DEF Turned, Fits, AllRetired
<1>8. CASE /\ \E b \in Blocks : blocks[b] = "pending"
           /\ ~AllRetired
           /\ CheckUserOf[c] \notin busy /\ vacant # {}
           /\ check' = [checks EXCEPT ![c] = enters]
           /\ free' = vacant \ {First(vacant)}
           /\ users' = busy \union {CheckUserOf[c]}
  <2>1. First(vacant) \in vacant  BY <1>8, LeastExists, PoolAssumption
  <2>2. /\ enters \in Check /\ enters.at = "entry" /\ enters.place = First(vacant)
        /\ enters.blocks = blocks
    BY <1>6, <2>1 DEF Check, CheckStages
  <2>3. /\ check' \in [Checks -> Check] /\ check'[c] = enters
        /\ \A d \in Checks \ {c} : check'[d] = checks[d]
    BY <1>2, <1>8, <2>2
  <2> HIDE DEF waits, enters
  <2> QED  BY <1>8, <2>1, <2>2, <2>3 DEF Turned, Fits
<1> QED  BY <1>4, <1>5, <1>7, <1>8 DEF NextBlock

-----------------------------------------------------------------------------
(* Every kind of step keeps the invariant. *)

(* A check without a place goes on to its next block, or ends. *)
LEMMA TurnWithout ==
  ASSUME SandboxInv, NEW c \in Checks, ~Holder(c), Changes(c), Turned(c, free, users),
         UNCHANGED <<retired, cleanup, server>>
  PROVE  SandboxInv'
<1> USE DEF SandboxInv, Holder, Holding, Place, Stands, SessionsAt
<1>1. UNCHANGED <<retired, cleanup, live, orphans>>  BY DEF server
<1>2. SandboxTypeOK'
  BY <1>1, CheckUsersAssumption DEF SandboxTypeOK, Changes, Turned
<1>3. HoldersAreMarked'
  BY <1>1, <1>2 DEF HoldersAreMarked, Changes, OthersHold, Turned, SandboxTypeOK
<1>4. ChecksStayAlone'
  BY <1>1 DEF ChecksStayAlone, HoldersAreMarked, PlacesAreTheirs, Changes, OthersHold, Turned, SandboxTypeOK
<1>5. PlacesAreTheirs'
  <2>1. ASSUME NEW d \in Checks \ {c}
        PROVE  /\ check'[d].at \in {"prepare", "attempt", "force"} =>
                      live'[check'[d].place] \union orphans'[check'[d].place] \subseteq {d}
               /\ check'[d].at \in Holding => cleanup'[check'[d].place] # "returns"
    <3>1. check'[d].place = check[d].place  BY DEF Changes, OthersHold
    <3>2. check'[d].at \in Holding => check'[d].at = check[d].at  BY DEF Changes, OthersHold
    <3>3. check[d].at \in Holding => check[d].place \in Places
      BY DEF HoldersAreMarked, ChecksStayAlone
    <3>4. check'[d].at \in {"prepare", "attempt", "force"} =>
              live[check[d].place] \union orphans[check[d].place] \subseteq {d}
      BY <3>2 DEF PlacesAreTheirs
    <3> QED  BY <1>1, <3>1, <3>2, <3>3, <3>4 DEF PlacesAreTheirs
  <2>2. check'[c].at \notin {"prepare", "attempt", "force"}  BY DEF Turned
  <2>3. ASSUME check'[c].at \in Holding
        PROVE  cleanup'[check'[c].place] # "returns"
    BY <1>1, <2>3 DEF Turned, ChecksStayAlone, SandboxTypeOK
  <2> QED  BY <2>1, <2>2, <2>3 DEF PlacesAreTheirs
<1>6. ReportsFit'
  BY <1>1 DEF ReportsFit, Fits, Changes, OthersHold
<1>7. ASSUME NEW d \in Checks, Holder(d)
      PROVE  check'[d].at \in Holding
  BY <1>7 DEF Changes, OthersHold
<1>8. ASSUME NEW d \in Checks, d # c, check'[d].at = "waiting"
      PROVE  \/ \E e \in Checks : check'[e].at \in Holding /\ CheckUserOf[e] = CheckUserOf[d]
             \/ /\ free' = {}
                /\ \/ \E e \in Checks : check'[e].at \in Holding
                   \/ \E p \in Places : cleanup'[p] = "returns"
  <2>1. check[d].at = "waiting"  BY <1>8 DEF Changes, OthersHold
  <2>2. free = {} => free' = {}  BY DEF Turned
  <2> QED  BY <1>1, <1>7, <2>1, <2>2 DEF NobodySleepsInVain
<1>9. ASSUME check'[c].at = "waiting"
      PROVE  \/ \E e \in Checks : check'[e].at \in Holding /\ CheckUserOf[e] = CheckUserOf[c]
             \/ /\ free' = {}
                /\ \/ \E e \in Checks : check'[e].at \in Holding
                   \/ \E p \in Places : cleanup'[p] = "returns"
  <2>1. CheckUserOf[c] \in users \/ free' = {}  BY <1>9 DEF Turned
  <2>2. PICK q \in Places : q \notin retired'  BY <1>1, <1>9 DEF Turned, SandboxTypeOK
  <2> QED  BY <1>4, <1>7, <2>1, <2>2 DEF ChecksStayAlone, HoldersAreMarked
<1>10. NobodySleepsInVain'  BY <1>8, <1>9 DEF NobodySleepsInVain
<1> QED  BY <1>2, <1>3, <1>4, <1>5, <1>6, <1>10

(* A check gives its place back, and goes on to its next block or ends. *)
LEMMA TurnLeaving ==
  ASSUME SandboxInv, NEW c \in Checks, Holder(c), NEW p, p = Place(c),
         Changes(c), OthersAwake(c), Turned(c, FreeAfter(p), BusyAfter(c)),
         cleanup' = CleanupAfter(p), UNCHANGED retired,
         live' \in [Places -> SUBSET Checks], orphans' \in [Places -> SUBSET Checks],
         \A q \in Places \ {p} : live'[q] = live[q] /\ orphans'[q] = orphans[q]
  PROVE  SandboxInv'
<1> USE DEF SandboxInv, Holder, Holding, Place, Stands, SessionsAt
<1>1. p \in Places /\ p \notin free  BY DEF HoldersAreMarked, ChecksStayAlone
<1>2. /\ cleanup' \in [Places -> {"none", "runs", "returns"}]
      /\ \A q \in Places \ {p} : cleanup'[q] = cleanup[q]
      /\ \/ cleanup[p] = "none" /\ cleanup'[p] = "none" /\ FreeAfter(p) = free \union ({p} \ retired)
         \/ cleanup[p] # "none" /\ cleanup'[p] = "returns" /\ FreeAfter(p) = free
  BY <1>1 DEF CleanupAfter, FreeAfter, Returned, SandboxTypeOK
<1>3. BusyAfter(c) = users \ {CheckUserOf[c]}  BY DEF BusyAfter
<1> HIDE DEF Place
<1>4. SandboxTypeOK'
  BY <1>1, <1>2, <1>3, CheckUsersAssumption DEF SandboxTypeOK, Changes, Turned
<1> USE DEF Place
<1>5. HoldersAreMarked'
  BY <1>1, <1>2, <1>3 DEF HoldersAreMarked, Changes, OthersHold, Turned, SandboxTypeOK
<1>6. ChecksStayAlone'
  BY SMTT(30), <1>1, <1>2, <1>3 DEF ChecksStayAlone, HoldersAreMarked, PlacesAreTheirs, Changes, OthersHold, Turned, SandboxTypeOK
<1>7. PlacesAreTheirs'
  <2>1. ASSUME NEW d \in Checks \ {c}
        PROVE  /\ check'[d].at \in {"prepare", "attempt", "force"} =>
                      live'[check'[d].place] \union orphans'[check'[d].place] \subseteq {d}
               /\ check'[d].at \in Holding => cleanup'[check'[d].place] # "returns"
    <3>1. check'[d].place = check[d].place  BY DEF Changes, OthersHold
    <3>2. check'[d].at \in Holding => check'[d].at = check[d].at  BY DEF Changes, OthersHold
    <3>3. check[d].at \in Holding => check[d].place \in Places \ {p}
      BY DEF HoldersAreMarked, ChecksStayAlone
    <3>4. check'[d].at \in {"prepare", "attempt", "force"} =>
              live[check[d].place] \union orphans[check[d].place] \subseteq {d}
      BY <3>2 DEF PlacesAreTheirs
    <3> QED  BY <1>1, <1>2, <1>3, <3>1, <3>2, <3>3, <3>4 DEF PlacesAreTheirs
  <2>2. check'[c].at \notin {"prepare", "attempt", "force"}  BY DEF Turned
  <2>3. ASSUME check'[c].at \in Holding
        PROVE  cleanup'[check'[c].place] # "returns"
    BY <1>1, <1>2, <1>3, <2>3 DEF Turned, ChecksStayAlone, SandboxTypeOK
  <2> QED  BY <2>1, <2>2, <2>3 DEF PlacesAreTheirs
<1>8. ReportsFit'
  BY DEF ReportsFit, Fits, Changes, OthersHold
<1>9. NobodySleepsInVain'
  <2>1. ASSUME check'[c].at = "waiting"
        PROVE  /\ free' = {}
               /\ \/ \E e \in Checks : check'[e].at \in Holding
                  \/ \E q \in Places : cleanup'[q] = "returns"
    <3>1. free' = {}  BY <1>3, <2>1 DEF Turned
    <3>2. PICK q \in Places : q \notin retired'  BY <2>1 DEF Turned, SandboxTypeOK
    <3> QED  BY <1>6, <3>1, <3>2 DEF ChecksStayAlone
  <2> QED  BY <2>1 DEF NobodySleepsInVain, OthersAwake
<1> QED  BY <1>4, <1>5, <1>6, <1>7, <1>8, <1>9

(* A check goes on at the place it holds; what happens to the place is its own affair. *)
LEMMA SameHold ==
  ASSUME SandboxInv, NEW c \in Checks, Holder(c), NEW p, p = Place(c), Changes(c),
         check'[c].at \in Holding \ {"entry"}, check'[c].place = p,
         UNCHANGED <<free, users>>, OthersHold(c), \A d \in Checks \ {c} : check'[d].at = check[d].at,
         retired' \in {retired, retired \union {p}},
         cleanup' \in [Places -> {"none", "runs", "returns"}],
         live' \in [Places -> SUBSET Checks], orphans' \in [Places -> SUBSET Checks],
         \A q \in Places \ {p} :
             cleanup'[q] = cleanup[q] /\ live'[q] = live[q] /\ orphans'[q] = orphans[q],
         cleanup'[p] = "none" \/ (cleanup'[p] = "runs" /\ check'[c].at = "force"),
         live'[p] \union orphans'[p] \subseteq {c}
  PROVE  SandboxInv'
<1> USE DEF SandboxInv, Holder, Holding, Place, Stands, SessionsAt
<1>1. p \in Places /\ p \notin free  BY DEF HoldersAreMarked, ChecksStayAlone
<1>2. SandboxTypeOK'  BY <1>1 DEF SandboxTypeOK, Changes
<1>3. HoldersAreMarked'
  BY <1>1 DEF HoldersAreMarked, Changes, OthersHold, SandboxTypeOK
<1>4. ChecksStayAlone'
  <2>1. \A d \in Checks : Holder(d)' <=> Holder(d)  OBVIOUS
  <2>2. \A d \in Checks : check'[d].place = check[d].place  BY DEF OthersHold
  <2>3. \A d \in Checks : Holder(d) => check[d].place \in Places  BY DEF HoldersAreMarked
  <2>4. \A d \in Checks \ {c} : Holder(d) => check[d].place # p  BY DEF ChecksStayAlone
  <2>5. \A d \in Checks : check'[d].at = "attempt" =>
            live'[check'[d].place] \union orphans'[check'[d].place] \subseteq {d}
    BY SMTT(30), <2>2, <2>3, <2>4 DEF ChecksStayAlone
  <2>6. \A d \in Checks : Holder(d) /\ cleanup'[check'[d].place] # "none" => check'[d].at = "force"
    BY <2>2, <2>3, <2>4 DEF ChecksStayAlone
  <2>7. \A q \in Places : \/ q \in free' \union retired'
                          \/ cleanup'[q] = "returns"
                          \/ \E d \in Checks : Holder(d) /\ check'[d].place = q
    BY <2>2 DEF ChecksStayAlone
  <2>8. \A q \in Places : q \in free' => q \notin retired' /\ cleanup'[q] = "none"
    BY <1>1 DEF ChecksStayAlone
  <2> QED  BY <2>1, <2>2, <2>5, <2>6, <2>7, <2>8 DEF ChecksStayAlone
<1>5. PlacesAreTheirs'
  BY <1>1 DEF HoldersAreMarked, ChecksStayAlone, PlacesAreTheirs, Changes, OthersHold, SandboxTypeOK
<1>6. ReportsFit'
  BY DEF ReportsFit, Fits, Changes, OthersHold
<1>7. NobodySleepsInVain'
  <2>1. ASSUME NEW d \in Checks, check'[d].at = "waiting"
        PROVE  \/ \E e \in Checks : check'[e].at \in Holding /\ CheckUserOf[e] = CheckUserOf[d]
               \/ free' = {} /\ \E e \in Checks : check'[e].at \in Holding
    BY <2>1 DEF NobodySleepsInVain
  <2> QED  BY <2>1 DEF NobodySleepsInVain
<1> QED  BY <1>2, <1>3, <1>4, <1>5, <1>6, <1>7

(* Sessions end on the server. *)
LEMMA FewerSessions ==
  ASSUME SandboxInv, UNCHANGED <<pool, cleanup, check>>,
         live' \in [Places -> SUBSET Checks], orphans' \in [Places -> SUBSET Checks],
         \A p \in Places : live'[p] \subseteq live[p] /\ orphans'[p] \subseteq orphans[p]
  PROVE  SandboxInv'
<1> USE DEF SandboxInv, Holder, Holding, Place, Stands, SessionsAt, pool
<1>1. SandboxTypeOK'  BY DEF SandboxTypeOK
<1>2. HoldersAreMarked'  BY DEF HoldersAreMarked
<1>3. ChecksStayAlone'  BY DEF ChecksStayAlone, HoldersAreMarked
<1>4. PlacesAreTheirs'  BY DEF PlacesAreTheirs, HoldersAreMarked
<1>5. ReportsFit'  BY DEF ReportsFit, Fits
<1>6. NobodySleepsInVain'  BY DEF NobodySleepsInVain
<1> QED  BY <1>1, <1>2, <1>3, <1>4, <1>5, <1>6

LEMMA ChangesKeepOutcomes ==
  ASSUME NEW c \in Checks, Changes(c)
  PROVE  OutcomesStay
  BY DEF Changes, OthersHold, KeepsOutcomes, OutcomesStay

-----------------------------------------------------------------------------
(* What the steps of a check do to its record. *)

LEMMA GoesChanges ==
  ASSUME SandboxInv, NEW c \in Checks, NEW record \in Check, Becomes(c, record),
         Fits(record),
         check[c].at # "idle" =>
             \A b \in Blocks : check[c].blocks[b] = "outcome" => record.blocks[b] = "outcome"
  PROVE  /\ Changes(c) /\ check'[c] = record
         /\ \A d \in Checks \ {c} : check'[d] = check[d]
<1>1. /\ check' \in [Checks -> Check] /\ check'[c] = record
      /\ \A d \in Checks \ {c} : check'[d] = check[d]
  BY DEF Becomes, SandboxInv, SandboxTypeOK
<1>2. OthersHold(c)  BY <1>1 DEF OthersHold
<1>3. Fits(check'[c]) /\ KeepsOutcomes(c)  BY <1>1 DEF KeepsOutcomes
<1> QED  BY <1>1, <1>2, <1>3 DEF Changes

LEMMA LeaveTurns ==
  ASSUME SandboxInv, NEW c \in Checks, Holder(c), Leave(c, Decided(check[c].blocks)),
         live' \in [Places -> SUBSET Checks], orphans' \in [Places -> SUBSET Checks],
         \A q \in Places \ {Place(c)} : live'[q] = live[q] /\ orphans'[q] = orphans[q]
  PROVE  SandboxInv' /\ OutcomesStay
<1> DEFINE blocks == Decided(check[c].blocks)
           left == [check EXCEPT ![c] = Ended(blocks)]
<1>1. check \in [Checks -> Check] /\ check[c].blocks \in [Blocks -> BlockStatus]
  BY DEF SandboxInv, SandboxTypeOK, Check
<1>2. /\ blocks \in [Blocks -> BlockStatus]
      /\ \A b \in Blocks : blocks[b] # "running"
      /\ \A b \in Blocks : check[c].blocks[b] = "outcome" => blocks[b] = "outcome"
  BY <1>1, DecidedIsReport
<1> HIDE DEF blocks
<1>3. /\ left \in [Checks -> Check]
      /\ left[c].blocks = blocks
      /\ \A d \in Checks \ {c} : left[d] = check[d]
  BY <1>1, <1>2, EndedIsCheck
<1>4. WokenAfter(c, blocks) = Woken(left)  BY DEF WokenAfter
<1> HIDE DEF left
<1>5. /\ Woken(left) \in [Checks -> Check]
      /\ Woken(left)[c].blocks = blocks
      /\ \A d \in Checks \ {c} :
            /\ Woken(left)[d].at = IF check[d].at = "waiting" THEN "woken" ELSE check[d].at
            /\ Woken(left)[d].place = check[d].place
            /\ Woken(left)[d].blocks = check[d].blocks
  BY <1>3, WokenIsHeld
<1>6. FreeAfter(Place(c)) \in SUBSET Places
  BY DEF FreeAfter, Returned, SandboxInv, SandboxTypeOK, HoldersAreMarked
<1>7. NextBlock(c, Woken(left), FreeAfter(Place(c)), BusyAfter(c))
  BY <1>4 DEF Leave, blocks
<1>8. /\ check' \in [Checks -> Check]
      /\ \A d \in Checks \ {c} : check'[d] = Woken(left)[d]
      /\ Fits(check'[c])
      /\ \A b \in Blocks : blocks[b] = "outcome" => check'[c].blocks[b] = "outcome"
      /\ Turned(c, FreeAfter(Place(c)), BusyAfter(c))
  BY <1>2, <1>5, <1>6, <1>7, NextBlockTurns
<1>9. Changes(c) /\ OthersAwake(c)
  <2>1. OthersHold(c) /\ OthersAwake(c)  BY <1>5, <1>8 DEF OthersHold, OthersAwake
  <2>2. KeepsOutcomes(c)  BY <1>2, <1>8 DEF KeepsOutcomes
  <2> QED  BY <1>8, <2>1, <2>2 DEF Changes
<1>10. SandboxInv'  BY <1>8, <1>9, TurnLeaving DEF Leave
<1> QED  BY <1>9, <1>10, ChangesKeepOutcomes

LEMMA AbandonTurns ==
  ASSUME SandboxInv, NEW c \in Checks, Holder(c), Abandon(c),
         live' \in [Places -> SUBSET Checks], orphans' \in [Places -> SUBSET Checks],
         \A q \in Places \ {Place(c)} : live'[q] = live[q] /\ orphans'[q] = orphans[q]
  PROVE  SandboxInv' /\ OutcomesStay
<1> DEFINE blocks == Stopped(check[c].blocks)
           left == [check EXCEPT ![c] = Ended(blocks)]
<1>1. check \in [Checks -> Check] /\ check[c].blocks \in [Blocks -> BlockStatus]
  BY DEF SandboxInv, SandboxTypeOK, Check
<1>2. /\ blocks \in [Blocks -> BlockStatus]
      /\ \A b \in Blocks : blocks[b] \notin Unfinished
      /\ \A b \in Blocks : check[c].blocks[b] = "outcome" => blocks[b] = "outcome"
  BY <1>1, StoppedIsReport
<1>3. check' = Woken(left)  BY DEF Abandon, WokenAfter
<1> HIDE DEF blocks
<1>4. /\ left \in [Checks -> Check]
      /\ left[c].at = "idle" /\ left[c].blocks = blocks
      /\ \A d \in Checks \ {c} : left[d] = check[d]
  BY <1>1, <1>2, EndedIsCheck
<1> HIDE DEF left
<1>5. /\ check' \in [Checks -> Check]
      /\ check'[c].at = "idle" /\ check'[c].blocks = blocks
      /\ \A d \in Checks \ {c} :
            /\ check'[d].at = IF check[d].at = "waiting" THEN "woken" ELSE check[d].at
            /\ check'[d].place = check[d].place
            /\ check'[d].blocks = check[d].blocks
  BY <1>3, <1>4, WokenIsHeld
<1>6. Changes(c) /\ OthersAwake(c)
  <2>1. OthersHold(c) /\ OthersAwake(c)  BY <1>5 DEF OthersHold, OthersAwake
  <2>2. KeepsOutcomes(c)  BY <1>2, <1>5 DEF KeepsOutcomes
  <2>3. Fits(check'[c])  BY <1>2, <1>5 DEF Fits
  <2> QED  BY <1>5, <2>1, <2>2, <2>3 DEF Changes
<1>7. Turned(c, FreeAfter(Place(c)), BusyAfter(c))  BY <1>5 DEF Turned, Abandon
<1>8. SandboxInv'  BY <1>6, <1>7, TurnLeaving DEF Abandon
<1> QED  BY <1>6, <1>8, ChangesKeepOutcomes

(* The connection is dropped and the cleanup of the place starts. *)
LEMMA ForceHolds ==
  ASSUME SandboxInv, NEW c \in Checks, NEW then \in Afterwards, Stands(c, "attempt"), ForceOut(c, then),
         retired' \in {retired, retired \union {Place(c)}}
  PROVE  SandboxInv' /\ OutcomesStay
<1> DEFINE record == [check[c] EXCEPT !.at = "force", !.then = then]
<1>1. Holder(c) /\ Place(c) \in Places /\ SessionsAt(Place(c)) \subseteq {c}
  BY DEF Holder, Holding, Stands, SandboxInv, HoldersAreMarked, PlacesAreTheirs
<1>2. /\ record \in Check /\ record.at = "force" /\ record.place = Place(c)
      /\ record.blocks = check[c].blocks /\ Fits(record)
  BY DEF SandboxInv, SandboxTypeOK, Check, CheckStages, Place, Fits
<1>3. Becomes(c, record)  BY DEF ForceOut
<1> HIDE DEF record
<1>4. /\ Changes(c) /\ check'[c] = record
      /\ \A d \in Checks \ {c} : check'[d] = check[d]
  BY <1>2, <1>3, GoesChanges
<1>5. /\ live' \in [Places -> SUBSET Checks] /\ orphans' \in [Places -> SUBSET Checks]
      /\ cleanup' \in [Places -> {"none", "runs", "returns"}] /\ cleanup'[Place(c)] = "runs"
      /\ \A q \in Places \ {Place(c)} :
             cleanup'[q] = cleanup[q] /\ live'[q] = live[q] /\ orphans'[q] = orphans[q]
      /\ live'[Place(c)] \union orphans'[Place(c)] \subseteq {c}
  BY <1>1 DEF ForceOut, Dropped, SessionsAt, SandboxInv, SandboxTypeOK
<1>6. SandboxInv'  BY <1>1, <1>2, <1>4, <1>5, SameHold DEF ForceOut, Holding, Changes
<1> QED  BY <1>4, <1>6, ChangesKeepOutcomes

(* A correction goes on at the same place. *)
LEMMA CorrectedHolds ==
  ASSUME SandboxInv, NEW c \in Checks, check[c].at \in {"attempt", "force"}, Corrected(c),
         UNCHANGED <<pool, cleanup, orphans>>, cleanup[Place(c)] = "none",
         live' \in [Places -> SUBSET Checks],
         \A q \in Places : live'[q] \subseteq live[q],
         \A q \in Places \ {Place(c)} : live'[q] = live[q]
  PROVE  SandboxInv' /\ OutcomesStay
<1>1. Holder(c) /\ Place(c) \in Places /\ SessionsAt(Place(c)) \subseteq {c}
  BY DEF Holder, Holding, SandboxInv, HoldersAreMarked, PlacesAreTheirs
<1>2. PICK n \in 0..FixAttempts :
          Becomes(c, [check[c] EXCEPT !.at = "prepare", !.tries = n, !.then = "outcome"])
  BY DEF Corrected
<1> DEFINE record == [check[c] EXCEPT !.at = "prepare", !.tries = n, !.then = "outcome"]
<1>3. /\ record \in Check /\ record.at = "prepare" /\ record.place = Place(c)
      /\ record.blocks = check[c].blocks /\ Fits(record)
  <2>1. check[c] \in Check  BY DEF SandboxInv, SandboxTypeOK
  <2>2. /\ record \in Check /\ record.at = "prepare" /\ record.place = Place(c)
        /\ record.blocks = check[c].blocks
    BY <2>1 DEF Check, CheckStages, Afterwards, Place
  <2> HIDE DEF record
  <2> QED  BY <2>2 DEF Fits
<1> HIDE DEF record
<1>4. /\ Changes(c) /\ check'[c] = record
      /\ \A d \in Checks \ {c} : check'[d] = check[d]
  BY <1>2, <1>3, GoesChanges DEF record
<1>5. live'[Place(c)] \union orphans'[Place(c)] \subseteq {c}  BY <1>1 DEF SessionsAt
<1>6. /\ UNCHANGED <<free, users, retired, cleanup, orphans>>
      /\ cleanup' \in [Places -> {"none", "runs", "returns"}]
      /\ orphans' \in [Places -> SUBSET Checks]
  BY DEF pool, SandboxInv, SandboxTypeOK
<1>7. SandboxInv'
  BY <1>1, <1>3, <1>4, <1>5, <1>6, SameHold DEF Holding, Changes
<1> QED  BY <1>4, <1>7, ChangesKeepOutcomes

LEMMA MayLeaveSessionTypes ==
  ASSUME SandboxInv, NEW c \in Checks, MayLeaveSession(c)
  PROVE  /\ live' \in [Places -> SUBSET Checks] /\ orphans' \in [Places -> SUBSET Checks]
         /\ \A q \in Places \ {Place(c)} : live'[q] = live[q] /\ orphans'[q] = orphans[q]
  BY DEF MayLeaveSession, SandboxInv, SandboxTypeOK

(* The turn of a check that has no place to give back. *)
LEMMA FreeTurns ==
  ASSUME SandboxInv, NEW c \in Checks, check[c].at \in {"select", "waiting", "woken"},
         NEW blocks \in [Blocks -> BlockStatus],
         \A b \in Blocks : blocks[b] # "running",
         \A b \in Blocks : check[c].blocks[b] = "outcome" => blocks[b] = "outcome",
         NextBlock(c, [check EXCEPT ![c].blocks = blocks], free, users),
         UNCHANGED <<retired, cleanup, server>>
  PROVE  SandboxInv' /\ OutcomesStay
<1> DEFINE checks == [check EXCEPT ![c].blocks = blocks]
<1>1. /\ checks \in [Checks -> Check] /\ checks[c].blocks = blocks
      /\ \A d \in Checks \ {c} : checks[d] = check[d]
  <2>1. check \in [Checks -> Check]  BY DEF SandboxInv, SandboxTypeOK
  <2>2. /\ [check[c] EXCEPT !.blocks = blocks] \in Check
        /\ [check[c] EXCEPT !.blocks = blocks].blocks = blocks
    BY <2>1 DEF Check
  <2> QED  BY <2>1, <2>2
<1>2. NextBlock(c, checks, free, users)  OBVIOUS
<1>3. free \in SUBSET Places  BY DEF SandboxInv, SandboxTypeOK
<1> HIDE DEF checks
<1>4. /\ check' \in [Checks -> Check]
      /\ \A d \in Checks \ {c} : check'[d] = checks[d]
      /\ Fits(check'[c])
      /\ \A b \in Blocks : blocks[b] = "outcome" => check'[c].blocks[b] = "outcome"
      /\ Turned(c, free, users)
  BY <1>1, <1>2, <1>3, NextBlockTurns
<1>5. Changes(c)
  <2>1. OthersHold(c)  BY <1>1, <1>4 DEF OthersHold
  <2>2. KeepsOutcomes(c)  BY <1>4 DEF KeepsOutcomes
  <2> QED  BY <1>4, <2>1, <2>2 DEF Changes
<1>6. ~Holder(c)  BY DEF Holder, Holding
<1>7. SandboxInv'  BY <1>4, <1>5, <1>6, TurnWithout
<1> QED  BY <1>5, <1>7, ChangesKeepOutcomes

-----------------------------------------------------------------------------
(* Every action keeps the invariant and the outcomes. *)

LEMMA SelectKeeps ==
  ASSUME SandboxInv, NEW c \in Checks, Select(c)
  PROVE  SandboxInv' /\ OutcomesStay
<1>1. PICK skipped \in SUBSET Blocks :
          NextBlock(c, [check EXCEPT ![c].blocks =
                           [b \in Blocks |-> IF b \in skipped THEN "outcome" ELSE "pending"]],
                    free, users)
  BY DEF Select
<1> DEFINE blocks == [b \in Blocks |-> IF b \in skipped THEN "outcome" ELSE "pending"]
<1>2. /\ blocks \in [Blocks -> BlockStatus] /\ \A b \in Blocks : blocks[b] # "running"
  BY DEF BlockStatus
<1>3. check[c].at = "select" /\ \A b \in Blocks : check[c].blocks[b] = "pending"
  BY DEF Select, Stands, SandboxInv, ReportsFit, Fits
<1>4. NextBlock(c, [check EXCEPT ![c].blocks = blocks], free, users)  BY <1>1
<1> HIDE DEF blocks
<1> QED  BY <1>2, <1>3, <1>4, FreeTurns DEF Select

LEMMA LookAgainKeeps ==
  ASSUME SandboxInv, NEW c \in Checks, LookAgain(c)
  PROVE  SandboxInv' /\ OutcomesStay
<1>1. /\ check[c].at = "woken" /\ check[c].blocks \in [Blocks -> BlockStatus]
      /\ \A b \in Blocks : check[c].blocks[b] # "running"
  BY DEF LookAgain, Stands, SandboxInv, SandboxTypeOK, Check, ReportsFit, Fits
<1>2. [check EXCEPT ![c].blocks = check[c].blocks] = check
  BY DEF SandboxInv, SandboxTypeOK, Check
<1> QED  BY <1>1, <1>2, FreeTurns DEF LookAgain

LEMMA AcquireTimeoutKeeps ==
  ASSUME SandboxInv, NEW c \in Checks, AcquireTimeout(c)
  PROVE  SandboxInv' /\ OutcomesStay
<1>1. check[c].blocks \in [Blocks -> BlockStatus]
  BY DEF SandboxInv, SandboxTypeOK, Check
<1> DEFINE blocks == Decided(check[c].blocks)
<1>2. /\ blocks \in [Blocks -> BlockStatus]
      /\ \A b \in Blocks : blocks[b] # "running"
      /\ \A b \in Blocks : check[c].blocks[b] = "outcome" => blocks[b] = "outcome"
  BY <1>1, DecidedIsReport
<1>3. NextBlock(c, [check EXCEPT ![c].blocks = blocks], free, users)
  BY DEF AcquireTimeout, SandboxInv, SandboxTypeOK
<1> HIDE DEF blocks
<1> QED  BY <1>2, <1>3, FreeTurns DEF AcquireTimeout

LEMMA EnterPlaceKeeps ==
  ASSUME SandboxInv, NEW c \in Checks, EnterPlace(c)
  PROVE  SandboxInv' /\ OutcomesStay
<1> DEFINE blocks == [check[c].blocks EXCEPT ![FirstPending(check[c].blocks)] = "running"]
           record == [check[c] EXCEPT !.at = "prepare", !.blocks = blocks]
<1>1. /\ check[c] \in Check /\ check[c].at = "entry" /\ Holder(c) /\ Place(c) \in Places
      /\ cleanup[Place(c)] = "none" /\ SessionsAt(Place(c)) = {}
  BY DEF EnterPlace, Stands, Holder, Holding, SandboxInv, SandboxTypeOK, HoldersAreMarked, ChecksStayAlone
<1>2. /\ check[c].blocks \in [Blocks -> BlockStatus]
      /\ \E b \in Blocks : check[c].blocks[b] = "pending"
  BY <1>1 DEF Check, SandboxInv, ReportsFit, Fits
<1>3. /\ blocks \in [Blocks -> BlockStatus]
      /\ \A b \in Blocks : check[c].blocks[b] = "outcome" => blocks[b] = "outcome"
  BY <1>2, StartedIsReport
<1>4. Becomes(c, record)  BY DEF EnterPlace
<1> HIDE DEF blocks
<1>5. /\ record \in Check /\ record.at = "prepare" /\ record.place = Place(c)
      /\ record.blocks = blocks
  BY <1>1, <1>3 DEF Check, CheckStages, Place
<1> HIDE DEF record
<1>6. Fits(record)  BY <1>5 DEF Fits
<1>7. /\ Changes(c) /\ check'[c] = record
      /\ \A d \in Checks \ {c} : check'[d] = check[d]
  BY <1>3, <1>4, <1>5, <1>6, GoesChanges
<1>8. /\ UNCHANGED <<free, users, retired, cleanup, live, orphans>>
      /\ cleanup' \in [Places -> {"none", "runs", "returns"}]
      /\ live' \in [Places -> SUBSET Checks] /\ orphans' \in [Places -> SUBSET Checks]
  BY DEF EnterPlace, pool, server, SandboxInv, SandboxTypeOK
<1>9. SandboxInv'
  BY <1>1, <1>5, <1>7, <1>8, SameHold DEF Holding, Changes, SessionsAt
<1> QED  BY <1>7, <1>9, ChangesKeepOutcomes

LEMMA ConnectKeeps ==
  ASSUME SandboxInv, NEW c \in Checks, Connect(c)
  PROVE  SandboxInv' /\ OutcomesStay
<1> DEFINE record == [check[c] EXCEPT !.at = "attempt"]
<1>1. /\ check[c] \in Check /\ check[c].at = "prepare" /\ Holder(c) /\ Place(c) \in Places
      /\ cleanup[Place(c)] = "none" /\ SessionsAt(Place(c)) \subseteq {c}
  BY DEF Connect, Stands, Holder, Holding, SandboxInv, SandboxTypeOK, HoldersAreMarked, ChecksStayAlone,
         PlacesAreTheirs
<1>2. Becomes(c, record)  BY DEF Connect
<1>3. /\ record \in Check /\ record.at = "attempt" /\ record.place = Place(c)
      /\ record.blocks = check[c].blocks
  BY <1>1 DEF Check, CheckStages, Place
<1> HIDE DEF record
<1>4. Fits(record)  BY <1>3 DEF Fits
<1>5. /\ Changes(c) /\ check'[c] = record
      /\ \A d \in Checks \ {c} : check'[d] = check[d]
  BY <1>2, <1>3, <1>4, GoesChanges
<1>6. /\ UNCHANGED <<free, users, retired, cleanup, orphans>>
      /\ cleanup' \in [Places -> {"none", "runs", "returns"}]
      /\ live' \in [Places -> SUBSET Checks] /\ orphans' \in [Places -> SUBSET Checks]
      /\ \A q \in Places \ {Place(c)} : live'[q] = live[q]
      /\ live'[Place(c)] \union orphans'[Place(c)] \subseteq {c}
  BY <1>1 DEF Connect, pool, SessionsAt, SandboxInv, SandboxTypeOK
<1>7. SandboxInv'
  BY <1>1, <1>3, <1>5, <1>6, SameHold DEF Holding, Changes
<1> QED  BY <1>5, <1>7, ChangesKeepOutcomes

(* What holds at a place that is held. *)
LEMMA HeldPlace ==
  ASSUME SandboxInv, NEW c \in Checks, Holder(c)
  PROVE  /\ Place(c) \in Places
         /\ check[c].at \in {"prepare", "attempt", "force"} => SessionsAt(Place(c)) \subseteq {c}
         /\ check[c].at # "force" => cleanup[Place(c)] = "none"
  BY DEF SandboxInv, HoldersAreMarked, ChecksStayAlone, PlacesAreTheirs, Stands

LEMMA ServerTypes ==
  ASSUME SandboxInv, UNCHANGED server
  PROVE  /\ live' \in [Places -> SUBSET Checks] /\ orphans' \in [Places -> SUBSET Checks]
         /\ \A q \in Places : live'[q] = live[q] /\ orphans'[q] = orphans[q]
  BY DEF server, SandboxInv, SandboxTypeOK

LEMMA EnterFailsKeeps ==
  ASSUME SandboxInv, NEW c \in Checks, EnterFails(c)
  PROVE  SandboxInv' /\ OutcomesStay
  BY ServerTypes, LeaveTurns DEF EnterFails, Stands, Holder, Holding

LEMMA PrepareFailsKeeps ==
  ASSUME SandboxInv, NEW c \in Checks, PrepareFails(c)
  PROVE  SandboxInv' /\ OutcomesStay
  BY MayLeaveSessionTypes, LeaveTurns DEF PrepareFails, Stands, Holder, Holding

LEMMA RolledBackKeeps ==
  ASSUME SandboxInv, NEW c \in Checks, RolledBack(c)
  PROVE  SandboxInv' /\ OutcomesStay
<1>1. check[c].at = "attempt" /\ Holder(c)  BY DEF RolledBack, Stands, Holder, Holding
<1>2. cleanup[Place(c)] = "none"  BY <1>1, HeldPlace
<1>3. /\ live' \in [Places -> SUBSET Checks] /\ orphans' \in [Places -> SUBSET Checks]
      /\ \A q \in Places : live'[q] \subseteq live[q]
      /\ \A q \in Places \ {Place(c)} : live'[q] = live[q] /\ orphans'[q] = orphans[q]
      /\ UNCHANGED orphans
  BY DEF RolledBack, SandboxInv, SandboxTypeOK
<1>4. CASE Leave(c, Decided(check[c].blocks))  BY <1>1, <1>3, <1>4, LeaveTurns
<1>5. CASE Corrected(c) /\ UNCHANGED <<pool, cleanup>>
  BY <1>1, <1>2, <1>3, <1>5, CorrectedHolds
<1> QED  BY <1>4, <1>5 DEF RolledBack

LEMMA AttemptFailsKeeps ==
  ASSUME SandboxInv, NEW c \in Checks, AttemptFails(c)
  PROVE  SandboxInv' /\ OutcomesStay
  BY ForceHolds DEF AttemptFails, Afterwards

LEMMA TransactionEndedKeeps ==
  ASSUME SandboxInv, NEW c \in Checks, TransactionEnded(c)
  PROVE  SandboxInv' /\ OutcomesStay
  BY ForceHolds DEF TransactionEnded, Afterwards

LEMMA ForcedKeeps ==
  ASSUME SandboxInv, NEW c \in Checks, Forced(c)
  PROVE  SandboxInv' /\ OutcomesStay
<1>1. /\ check[c].at = "force" /\ Holder(c) /\ cleanup[Place(c)] = "none" /\ UNCHANGED server
  BY DEF Forced, Stands, Holder, Holding
<1>2. /\ live' \in [Places -> SUBSET Checks] /\ orphans' \in [Places -> SUBSET Checks]
      /\ \A q \in Places : live'[q] = live[q] /\ orphans'[q] = orphans[q]
      /\ UNCHANGED orphans
  BY <1>1, ServerTypes DEF server
<1>3. CASE Corrected(c) /\ UNCHANGED <<pool, cleanup>>
  BY <1>1, <1>2, <1>3, CorrectedHolds
<1>4. CASE Leave(c, Decided(check[c].blocks))  BY <1>1, <1>2, <1>4, LeaveTurns
<1>5. CASE Abandon(c)  BY <1>1, <1>2, <1>5, AbandonTurns
<1> QED  BY <1>3, <1>4, <1>5 DEF Forced

LEMMA TotalTimeoutKeeps ==
  ASSUME SandboxInv, NEW c \in Checks, TotalTimeout(c)
  PROVE  SandboxInv' /\ OutcomesStay
<1>1. CASE Stands(c, "prepare") /\ MayLeaveSession(c) /\ Leave(c, Decided(check[c].blocks))
  BY <1>1, MayLeaveSessionTypes, LeaveTurns DEF Stands, Holder, Holding
<1>2. CASE Stands(c, "attempt") /\ ForceOut(c, "timeout") /\ UNCHANGED retired
  BY <1>2, ForceHolds DEF Afterwards
<1>3. CASE Stands(c, "force") /\ Leave(c, Decided(check[c].blocks)) /\ UNCHANGED server
  BY <1>3, ServerTypes, LeaveTurns DEF Stands, Holder, Holding
<1> QED  BY <1>1, <1>2, <1>3 DEF TotalTimeout

LEMMA CancelCheckKeeps ==
  ASSUME SandboxInv, NEW c \in Checks, CancelCheck(c)
  PROVE  SandboxInv' /\ OutcomesStay
<1>1. CASE /\ check[c].at \in {"select", "waiting", "woken"}
           /\ Becomes(c, Ended(Stopped(check[c].blocks)))
           /\ UNCHANGED <<pool, cleanup, server>>
  <2> DEFINE blocks == Stopped(check[c].blocks)
             record == Ended(blocks)
  <2>1. check[c].blocks \in [Blocks -> BlockStatus]  BY DEF SandboxInv, SandboxTypeOK, Check
  <2>2. /\ blocks \in [Blocks -> BlockStatus]
        /\ \A b \in Blocks : blocks[b] \notin Unfinished
        /\ \A b \in Blocks : check[c].blocks[b] = "outcome" => blocks[b] = "outcome"
    BY <2>1, StoppedIsReport
  <2> HIDE DEF blocks
  <2>3. record \in Check /\ record.at = "idle" /\ record.blocks = blocks
    BY <2>2, EndedIsCheck
  <2>4. Becomes(c, record)  BY <1>1 DEF blocks
  <2> HIDE DEF record
  <2>5. Fits(record)  BY <2>2, <2>3 DEF Fits
  <2>6. Changes(c) /\ check'[c] = record  BY <2>2, <2>3, <2>4, <2>5, GoesChanges
  <2>7. Turned(c, free, users)  BY <1>1, <2>3, <2>6 DEF Turned, pool
  <2>8. ~Holder(c)  BY <1>1 DEF Holder, Holding
  <2>9. SandboxInv'  BY <1>1, <2>6, <2>7, <2>8, TurnWithout DEF pool
  <2> QED  BY <2>6, <2>9, ChangesKeepOutcomes
<1>2. CASE check[c].at \in {"entry", "force"} /\ Abandon(c) /\ UNCHANGED server
  BY <1>2, ServerTypes, AbandonTurns DEF Holder, Holding
<1>3. CASE Stands(c, "prepare") /\ MayLeaveSession(c) /\ Abandon(c)
  BY <1>3, MayLeaveSessionTypes, AbandonTurns DEF Stands, Holder, Holding
<1>4. CASE Stands(c, "attempt") /\ ForceOut(c, "stopped") /\ UNCHANGED retired
  BY <1>4, ForceHolds DEF Afterwards
<1> QED  BY <1>1, <1>2, <1>3, <1>4 DEF CancelCheck

LEMMA BeginKeeps ==
  ASSUME SandboxInv, NEW c \in Checks, Begin(c)
  PROVE  SandboxInv' /\ OutcomesStay
<1> DEFINE blocks == [b \in Blocks |-> "pending"]
           record == [check[c] EXCEPT !.at = "select", !.blocks = blocks]
<1>1. /\ check[c] \in Check /\ check[c].at = "idle" /\ ~Holder(c)
      /\ UNCHANGED <<free, users, retired, cleanup, live, orphans>>
  BY DEF Begin, Stands, Holder, Holding, pool, server, SandboxInv, SandboxTypeOK
<1>2. blocks \in [Blocks -> BlockStatus] /\ \A b \in Blocks : blocks[b] = "pending"
  BY DEF BlockStatus
<1>3. Becomes(c, record)  BY DEF Begin
<1> HIDE DEF blocks
<1>4. record \in Check /\ record.at = "select" /\ record.blocks = blocks
  BY <1>1, <1>2 DEF Check, CheckStages
<1> HIDE DEF record
<1>5. Fits(record)  BY <1>2, <1>4 DEF Fits
<1>6. /\ Changes(c) /\ check'[c] = record
      /\ \A d \in Checks \ {c} : check'[d] = check[d]
  BY <1>1, <1>3, <1>4, <1>5, GoesChanges
<1>7. /\ check' \in [Checks -> Check]
      /\ \A d \in Checks : (check'[d].at \in Holding <=> check[d].at \in Holding)
                        /\ (check'[d].at # check[d].at => check'[d].at = "select")
                        /\ (check[d].at \in Holding => check'[d] = check[d])
  BY <1>1, <1>4, <1>6 DEF Changes, Holder, Holding
<1> USE DEF SandboxInv, Holder, Place, Stands, SessionsAt
<1>8. SandboxTypeOK'  BY <1>1, <1>7 DEF SandboxTypeOK
<1>9. HoldersAreMarked'  BY <1>1, <1>7 DEF HoldersAreMarked
<1>10. ChecksStayAlone'
  <2>1. \A d \in Checks : check'[d].at \in Holding => Holder(d) /\ check'[d] = check[d]
    BY <1>7
  <2>2. \A d \in Checks : Holder(d) => check'[d].at \in Holding /\ check'[d] = check[d]
    BY <1>7
  <2>3. \A d \in Checks : check'[d].at = "attempt" => check[d].at = "attempt" /\ check'[d] = check[d]
    BY <2>1 DEF Holding
  <2>4. \A d \in Checks : check[d].at = "force" => check'[d].at = "force"
    BY <2>2 DEF Holding
  <2>5. \A d, e \in Checks :
            d # e /\ check'[d].at \in Holding /\ check'[e].at \in Holding =>
                check'[d].place # check'[e].place /\ CheckUserOf[d] # CheckUserOf[e]
    BY <2>1 DEF ChecksStayAlone
  <2>6. \A q \in Places : \/ q \in free' \union retired'
                          \/ cleanup'[q] = "returns"
                          \/ \E d \in Checks : check'[d].at \in Holding /\ check'[d].place = q
    BY <1>1, <2>2 DEF ChecksStayAlone
  <2> QED  BY <1>1, <2>1, <2>3, <2>4, <2>5, <2>6 DEF ChecksStayAlone
<1>11. PlacesAreTheirs'  BY <1>1, <1>7 DEF PlacesAreTheirs, Holding
<1>12. ReportsFit'  BY <1>5, <1>6 DEF ReportsFit
<1>13. NobodySleepsInVain'  BY <1>1, <1>7 DEF NobodySleepsInVain
<1> QED  BY <1>6, <1>8, <1>9, <1>10, <1>11, <1>12, <1>13, ChangesKeepOutcomes

LEMMA SameChecksKeepOutcomes ==
  ASSUME UNCHANGED check
  PROVE  OutcomesStay
  BY DEF OutcomesStay

LEMMA TerminateKeeps ==
  ASSUME SandboxInv, NEW p \in Places, Terminate(p)
  PROVE  SandboxInv' /\ OutcomesStay
<1>1. /\ live' \in [Places -> SUBSET Checks] /\ orphans' \in [Places -> SUBSET Checks]
      /\ \A q \in Places : live'[q] \subseteq live[q] /\ orphans'[q] \subseteq orphans[q]
  BY DEF Terminate, SandboxInv, SandboxTypeOK
<1> QED  BY <1>1, FewerSessions, SameChecksKeepOutcomes DEF Terminate

LEMMA SessionEndsKeeps ==
  ASSUME SandboxInv, NEW p \in Places, SessionEnds(p)
  PROVE  SandboxInv' /\ OutcomesStay
<1>1. /\ live' \in [Places -> SUBSET Checks] /\ orphans' \in [Places -> SUBSET Checks]
      /\ \A q \in Places : live'[q] \subseteq live[q] /\ orphans'[q] \subseteq orphans[q]
  BY DEF SessionEnds, SandboxInv, SandboxTypeOK
<1> QED  BY <1>1, FewerSessions, SameChecksKeepOutcomes DEF SessionEnds

LEMMA ServerRestartsKeeps ==
  ASSUME SandboxInv, ServerRestarts
  PROVE  SandboxInv' /\ OutcomesStay
<1>1. /\ live' \in [Places -> SUBSET Checks] /\ orphans' \in [Places -> SUBSET Checks]
      /\ \A q \in Places : live'[q] \subseteq live[q] /\ orphans'[q] \subseteq orphans[q]
  BY DEF ServerRestarts
<1> QED  BY <1>1, FewerSessions, SameChecksKeepOutcomes DEF ServerRestarts

LEMMA CleanupEndsKeeps ==
  ASSUME SandboxInv, NEW p \in Places, CleanupEnds(p)
  PROVE  SandboxInv' /\ OutcomesStay
<1> USE DEF SandboxInv, Holder, Holding, Place, Stands, SessionsAt
<1>1. /\ UNCHANGED <<retired, users, live, orphans>>
      /\ cleanup' \in [Places -> {"none", "runs", "returns"}] /\ cleanup'[p] = "none"
      /\ \A q \in Places \ {p} : cleanup'[q] = cleanup[q]
  BY DEF CleanupEnds, server, SandboxTypeOK
<1>2. CASE cleanup[p] = "runs" /\ UNCHANGED <<free, check>>
  <2>1. SandboxTypeOK'  BY <1>1, <1>2 DEF SandboxTypeOK
  <2>2. HoldersAreMarked'  BY <1>1, <1>2 DEF HoldersAreMarked
  <2>3. ChecksStayAlone'  BY <1>1, <1>2 DEF ChecksStayAlone, HoldersAreMarked
  <2>4. PlacesAreTheirs'  BY <1>1, <1>2 DEF PlacesAreTheirs, HoldersAreMarked
  <2>5. ReportsFit'  BY <1>2 DEF ReportsFit, Fits
  <2>6. NobodySleepsInVain'  BY <1>1, <1>2 DEF NobodySleepsInVain
  <2> QED  BY <1>2, <2>1, <2>2, <2>3, <2>4, <2>5, <2>6, SameChecksKeepOutcomes
<1>3. CASE cleanup[p] = "returns" /\ free' = Returned(p) /\ check' = Woken(check)
  <2>1. /\ check' \in [Checks -> Check]
        /\ \A d \in Checks :
              /\ check'[d].at = IF check[d].at = "waiting" THEN "woken" ELSE check[d].at
              /\ check'[d].place = check[d].place
              /\ check'[d].blocks = check[d].blocks
    BY <1>3, WokenIsHeld DEF SandboxTypeOK
  <2>2. free' = free \union ({p} \ retired)  BY <1>3 DEF Returned
  <2>3. \A d \in Checks : Holder(d) => check[d].place \in Places \ {p}
    BY <1>3 DEF HoldersAreMarked, PlacesAreTheirs
  <2>4. \A d \in Checks : check'[d].at \in Holding <=> check[d].at \in Holding  BY <2>1
  <2>5. SandboxTypeOK'  BY <1>1, <2>1, <2>2 DEF SandboxTypeOK
  <2>6. HoldersAreMarked'  BY <1>1, <2>1, <2>4 DEF HoldersAreMarked
  <2>7. ChecksStayAlone'
    BY <1>1, <2>1, <2>2, <2>3, <2>4 DEF ChecksStayAlone
  <2>8. PlacesAreTheirs'  BY <1>1, <2>1, <2>3 DEF PlacesAreTheirs
  <2>9. ReportsFit'  BY <2>1 DEF ReportsFit, Fits
  <2>10. NobodySleepsInVain'  BY <2>1 DEF NobodySleepsInVain
  <2>11. OutcomesStay  BY <2>1 DEF OutcomesStay
  <2> QED  BY <2>5, <2>6, <2>7, <2>8, <2>9, <2>10, <2>11
<1> QED  BY <1>2, <1>3 DEF CleanupEnds

LEMMA SandboxRestartKeeps ==
  ASSUME SandboxInv, SandboxRestart
  PROVE  SandboxInv' /\ OutcomesStay
<1>1. live' \in [Places -> SUBSET Checks] /\ orphans' \in [Places -> SUBSET Checks]
  BY DEF SandboxRestart, SessionsAt, SandboxInv, SandboxTypeOK
<1>2. ASSUME NEW c \in Checks, NEW b \in Blocks
      PROVE  check'[c].blocks[b] = "none"
  BY <1>2 DEF SandboxRestart, Ended
<1>3. OutcomesStay  BY <1>2 DEF OutcomesStay
<1>4. SandboxInv'
  <2>1. [b \in Blocks |-> "none"] \in [Blocks -> BlockStatus]  BY DEF BlockStatus
  <2>2. /\ check' \in [Checks -> Check]
        /\ \A c \in Checks : /\ check'[c].at = "idle"
                             /\ \A b \in Blocks : check'[c].blocks[b] = "none"
    BY <2>1, EndedIsCheck DEF SandboxRestart
  <2> USE DEF Holder, Holding, Stands
  <2>3. SandboxTypeOK'  BY <1>1, <2>2 DEF SandboxTypeOK, SandboxRestart
  <2>4. HoldersAreMarked'  BY <2>2 DEF HoldersAreMarked, SandboxRestart
  <2>5. ChecksStayAlone'  BY <2>2 DEF ChecksStayAlone, SandboxRestart
  <2>6. PlacesAreTheirs'  BY <2>2 DEF PlacesAreTheirs
  <2>7. ReportsFit'  BY <2>2 DEF ReportsFit, Fits, Unfinished
  <2>8. NobodySleepsInVain'  BY <2>2 DEF NobodySleepsInVain
  <2> QED  BY <2>3, <2>4, <2>5, <2>6, <2>7, <2>8 DEF SandboxInv
<1> QED  BY <1>3, <1>4

LEMMA NextKeeps ==
  ASSUME SandboxInv, SandboxNext
  PROVE  SandboxInv' /\ OutcomesStay
<1>1. CASE \E c \in Checks : Begin(c) \/ Step(c) \/ CancelCheck(c)
  <2>1. PICK c \in Checks : Begin(c) \/ Step(c) \/ CancelCheck(c)  BY <1>1
  <2> QED
    BY <2>1, BeginKeeps, CancelCheckKeeps, SelectKeeps, LookAgainKeeps, AcquireTimeoutKeeps,
       EnterPlaceKeeps, EnterFailsKeeps, ConnectKeeps, PrepareFailsKeeps, RolledBackKeeps,
       AttemptFailsKeeps, TransactionEndedKeeps, ForcedKeeps, TotalTimeoutKeeps
    DEF Step
<1>2. CASE \E p \in Places : Terminate(p) \/ CleanupEnds(p) \/ SessionEnds(p)
  BY <1>2, TerminateKeeps, CleanupEndsKeeps, SessionEndsKeeps
<1> QED  BY <1>1, <1>2, ServerRestartsKeeps, SandboxRestartKeeps DEF SandboxNext

LEMMA SandboxStutterKeeps ==
  ASSUME SandboxInv, UNCHANGED sandboxVars
  PROVE  SandboxInv' /\ OutcomesStay
<1>1. UNCHANGED <<pool, cleanup, check>> /\ UNCHANGED <<live, orphans>>  BY DEF sandboxVars, server
<1>2. /\ live' \in [Places -> SUBSET Checks] /\ orphans' \in [Places -> SUBSET Checks]
      /\ \A q \in Places : live'[q] \subseteq live[q] /\ orphans'[q] \subseteq orphans[q]
  BY <1>1 DEF SandboxInv, SandboxTypeOK
<1> QED  BY <1>1, <1>2, FewerSessions, SameChecksKeepOutcomes

(* A whole pool without checks. *)
LEMMA InitHolds ==
  ASSUME SandboxInit
  PROVE  SandboxInv
<1>1. [b \in Blocks |-> "none"] \in [Blocks -> BlockStatus]  BY DEF BlockStatus
<1>2. /\ check \in [Checks -> Check]
      /\ \A c \in Checks : /\ check[c].at = "idle"
                           /\ \A b \in Blocks : check[c].blocks[b] = "none"
  BY <1>1, EndedIsCheck DEF SandboxInit
<1> USE DEF Holder, Holding, Stands
<1>3. SandboxTypeOK  BY <1>2 DEF SandboxTypeOK, SandboxInit
<1>4. HoldersAreMarked  BY <1>2 DEF HoldersAreMarked, SandboxInit
<1>5. ChecksStayAlone  BY <1>2 DEF ChecksStayAlone, SandboxInit
<1>6. PlacesAreTheirs  BY <1>2 DEF PlacesAreTheirs, SandboxInit
<1>7. ReportsFit  BY <1>2 DEF ReportsFit, Fits, Unfinished
<1>8. NobodySleepsInVain  BY <1>2 DEF NobodySleepsInVain, SandboxInit
<1> QED  BY <1>3, <1>4, <1>5, <1>6, <1>7, <1>8 DEF SandboxInv

THEOREM SandboxInvHolds == SandboxSpec => []SandboxInv
<1>1. SandboxInit => SandboxInv  BY InitHolds
<1>2. SandboxInv /\ [SandboxNext]_sandboxVars => SandboxInv'  BY NextKeeps, SandboxStutterKeeps
<1> QED  BY <1>1, <1>2, PTL DEF SandboxSpec

-----------------------------------------------------------------------------
(* Every variable has its type, however many places, users, blocks and attempts there  *)
(* are (AsyncpgSqlSandbox, SqlTestRunner).                                               *)
THEOREM SandboxTypes == SandboxSpec => []SandboxTypeOK
<1>1. SandboxInv => SandboxTypeOK  BY DEF SandboxInv
<1> QED  BY <1>1, SandboxInvHolds, PTL

(* A place of the sandbox has one holder and its user one place; no session of another *)
(* check is beside an attempt, no cleanup runs into the next holder, a retired place is *)
(* never given again and no other is lost (AsyncpgSqlSandbox._acquire, _release,         *)
(* _Slot.run).                                                                           *)
THEOREM NobodyIsBesideAnAttempt == SandboxSpec => []ChecksStayAlone
<1>1. SandboxInv => ChecksStayAlone  BY DEF SandboxInv
<1> QED  BY <1>1, SandboxInvHolds, PTL

(* A check that waits for a place has somebody to wake it, a run that ended leaves no    *)
(* block unfinished, and no outcome of a block is lost while the run goes on             *)
(* (AsyncpgSqlSandbox._wake, SqlTestRunner._run).                                        *)
THEOREM ChecksAreRemembered == SandboxSpec => NobodyIsForgotten
<1> DEFINE RunEnds == \A c \in Checks : Stands(c, "idle") =>
                       \A b \in Blocks : check[c].blocks[b] \notin Unfinished
           Stays == \A c \in Checks, b \in Blocks :
                       check[c].blocks[b] = "outcome" /\ ~Stands(c, "idle") =>
                           check'[c].blocks[b] \in {"outcome", "none"}
<1>1. SandboxInv => NobodySleepsInVain /\ RunEnds
  BY DEF SandboxInv, ReportsFit, Fits, Stands
<1>2. SandboxInv /\ [SandboxNext]_sandboxVars => [Stays]_sandboxVars
  BY NextKeeps DEF OutcomesStay, Stands
<1>3. NobodyIsForgotten <=> []NobodySleepsInVain /\ []RunEnds /\ [][Stays]_sandboxVars
  BY DEF NobodyIsForgotten, OutcomesAreReported
<1> HIDE DEF RunEnds, Stays
<1> QED  BY <1>1, <1>2, <1>3, SandboxInvHolds, PTL DEF SandboxSpec
=============================================================================
