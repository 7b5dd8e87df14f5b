----------------------------- MODULE SqlSandbox -----------------------------
(***************************************************************************)
(* Checks of SQL blocks in the sandbox: the pool of places of              *)
(* tools/sandbox.py and the run of a check over its blocks in              *)
(* tools/sql_run.py.                                                       *)
(*                                                                         *)
(* A place is a role of the sandbox server: whoever holds it connects by   *)
(* that role, and all sessions of the role can be ended at once.  Checks   *)
(* are tasks of one event loop, so what lies between two awaits is one     *)
(* action: a check that gives its place back and has another block takes   *)
(* the next one, or starts to wait, in the same step.                      *)
(*                                                                         *)
(* The sandbox server outlives the process: sessions whose client is gone  *)
(* stay on it until they end by themselves or are ended.  The texts of     *)
(* statements, test data and results are left out; what the model and the  *)
(* server may answer is a choice.                                          *)
(***************************************************************************)
EXTENDS Naturals, FiniteSets

CONSTANTS
    Places,        \* sql.sandbox.max_parallel of them, numbered from 1
    Checks,        \* runs of one user or another, in dialogs and projects
    CheckUsers,
    CheckUserOf,
    Blocks,        \* of an answer, in their order
    FixAttempts,   \* sql.sandbox.fix_attempts
    NoPlace

ASSUME PoolAssumption == Places \subseteq Nat \ {0} /\ Places # {} /\ IsFiniteSet(Places)
ASSUME CheckUsersAssumption == CheckUserOf \in [Checks -> CheckUsers]
ASSUME BlocksAssumption == Blocks \subseteq Nat /\ IsFiniteSet(Blocks)
ASSUME AttemptsAssumption == FixAttempts \in Nat
ASSUME NoPlaceAssumption == NoPlace \notin Places

VARIABLES
    free,      \* _free
    retired,   \* _retired
    users,     \* _users: who has a place
    cleanup,   \* _cleanups: whether the last task of a place runs, and returns it at its end
    check,     \* what each check is at and its blocks as last reported
    live,      \* sessions on the server whose client is connected, by place
    orphans    \* sessions on the server whose client is gone, by place

pool == <<free, retired, users>>
server == <<live, orphans>>
sandboxVars == <<pool, cleanup, check, server>>

(* at "select": the blocks are parsed.  "waiting", "woken": _acquire awaits its future,   *)
(* the future is set.  "entry": terminate_sessions before the place is given.  "prepare": *)
(* the place is held without a connection, the sample and the answers of the model are    *)
(* awaited.  "attempt": a transaction is open.  "force": the shielded cleanup is awaited; *)
(* then: what follows it.                                                                 *)
CheckStages == {"idle", "select", "waiting", "woken", "entry", "prepare", "attempt", "force"}
Holding == {"entry", "prepare", "attempt", "force"}
Afterwards == {"again", "outcome", "timeout", "stopped"}
(* "outcome" is passed, fixed, failed, not_checked, timeout or unavailable. *)
BlockStatus == {"none", "pending", "running", "outcome", "stopped"}
Unfinished == {"pending", "running"}

Check == [at : CheckStages, place : Places \union {NoPlace}, tries : 0..FixAttempts,
          then : Afterwards, blocks : [Blocks -> BlockStatus]]

SandboxTypeOK ==
    /\ free \subseteq Places
    /\ retired \subseteq Places
    /\ users \subseteq CheckUsers
    /\ cleanup \in [Places -> {"none", "runs", "returns"}]
    /\ check \in [Checks -> Check]
    /\ live \in [Places -> SUBSET Checks]
    /\ orphans \in [Places -> SUBSET Checks]

-----------------------------------------------------------------------------
Stands(c, stage) == check[c].at = stage
Holder(c) == check[c].at \in Holding
Place(c) == check[c].place
SessionsAt(p) == live[p] \union orphans[p]

First(S) == CHOOSE n \in S : \A k \in S : n <= k

With(blocks, statuses, new) ==
    [b \in Blocks |-> IF blocks[b] \in statuses THEN new ELSE blocks[b]]

(* The block a check works at is the first pending one; it is running once a place is held. *)
FirstPending(blocks) == First({b \in Blocks : blocks[b] = "pending"})
Decided(blocks) ==
    IF \E b \in Blocks : blocks[b] = "running" THEN With(blocks, {"running"}, "outcome")
    ELSE [blocks EXCEPT ![FirstPending(blocks)] = "outcome"]

(* Mutated form: every block of the report is marked, the checked ones with it. *)
StopsAll(blocks) == With(blocks, BlockStatus, "stopped")

(* SqlTestRunner._run on CancelledError. *)
Stopped(blocks) == With(blocks, Unfinished, "stopped")

Ended(blocks) ==
    [at |-> "idle", place |-> NoPlace, tries |-> 0, then |-> "outcome", blocks |-> blocks]

(* Mutated form: one waiter is woken for one place. *)
WokenOne(checks) ==
    LET waiting == {c \in Checks : checks[c].at = "waiting"}
        one == CHOOSE c \in waiting : TRUE
    IN  IF waiting = {} THEN checks ELSE [checks EXCEPT ![one].at = "woken"]

(* _wake: every waiter looks for itself. *)
Woken(checks) ==
    [c \in Checks |-> IF checks[c].at = "waiting" THEN [checks[c] EXCEPT !.at = "woken"]
                      ELSE checks[c]]

(* Mutated form: retired places are not counted. *)
AllRetiredUncounted == FALSE
AllRetired == retired = Places

(* The loop of SqlTestRunner._run goes on with the next pending block, and _acquire looks *)
(* at the pool without an await: nothing is left to check, no place will ever be given,   *)
(* the lowest place is taken, or the check waits.                                         *)
NextBlock(c, checks, places, busy) ==
    LET blocks == checks[c].blocks
        record == [Ended(blocks) EXCEPT !.at = "waiting"]
    IN  \/ /\ \A b \in Blocks : blocks[b] # "pending"
           /\ check' = [checks EXCEPT ![c] = Ended(blocks)]
           /\ free' = places /\ users' = busy
        \/ /\ \E b \in Blocks : blocks[b] = "pending"
           /\ AllRetired
           /\ check' = [checks EXCEPT ![c] = Ended(With(blocks, {"pending"}, "outcome"))]
           /\ free' = places /\ users' = busy
        \/ /\ \E b \in Blocks : blocks[b] = "pending"
           /\ ~AllRetired
           /\ CheckUserOf[c] \notin busy /\ places # {}
           /\ check' = [checks EXCEPT ![c] =
                            [record EXCEPT !.at = "entry", !.place = First(places)]]
           /\ free' = places \ {First(places)}
           /\ users' = busy \union {CheckUserOf[c]}
        \/ /\ \E b \in Blocks : blocks[b] = "pending"
           /\ ~AllRetired
           /\ CheckUserOf[c] \in busy \/ places = {}
           /\ check' = [checks EXCEPT ![c] = record]
           /\ free' = places /\ users' = busy

-----------------------------------------------------------------------------
(* Mutated form: every place comes back. *)
ReturnedAnyway(p) == free \union {p}
(* _return: a retired place does not come back. *)
Returned(p) == free \union ({p} \ retired)

(* Mutated form: the place comes back although its sessions are being ended. *)
FreeAfterAtOnce(p) == Returned(p)
(* _release: while a cleanup of the place runs, the place waits for its end. *)
FreeAfter(p) == IF cleanup[p] = "none" THEN Returned(p) ELSE free

(* Mutated form: nothing is left to do at the end of the cleanup. *)
CleanupAfterForgotten(p) == cleanup
CleanupAfter(p) == IF cleanup[p] = "none" THEN cleanup ELSE [cleanup EXCEPT ![p] = "returns"]

(* Mutated form: nobody is woken when the place itself does not come back yet. *)
WokenAfterReturn(c, blocks) ==
    LET left == [check EXCEPT ![c] = Ended(blocks)]
    IN  IF cleanup[Place(c)] = "none" THEN Woken(left) ELSE left
(* The user of c may have another check waiting: all are woken either way. *)
WokenAfter(c, blocks) == Woken([check EXCEPT ![c] = Ended(blocks)])

BusyAfter(c) == users \ {CheckUserOf[c]}

(* A block has its outcome: its place is given back and the next block is turned to. *)
Leave(c, blocks) ==
    /\ NextBlock(c, WokenAfter(c, blocks), FreeAfter(Place(c)), BusyAfter(c))
    /\ cleanup' = CleanupAfter(Place(c))
    /\ UNCHANGED retired

(* The task is cancelled while it holds a place. *)
Abandon(c) ==
    /\ check' = WokenAfter(c, Stopped(check[c].blocks))
    /\ free' = FreeAfter(Place(c))
    /\ users' = BusyAfter(c)
    /\ cleanup' = CleanupAfter(Place(c))
    /\ UNCHANGED retired

Becomes(c, record) == check' = [check EXCEPT ![c] = record]

(* The client drops the connection, the session stays on the server. *)
Dropped(p) ==
    /\ orphans' = [orphans EXCEPT ![p] = @ \union live[p]]
    /\ live' = [live EXCEPT ![p] = {}]

(* AsyncpgSqlSandbox.force from the finally of _Slot.run. *)
ForceOut(c, then) ==
    /\ Dropped(Place(c))
    /\ cleanup' = [cleanup EXCEPT ![Place(c)] = "runs"]
    /\ Becomes(c, [check[c] EXCEPT !.at = "force", !.then = then])
    /\ UNCHANGED <<free, users>>

-----------------------------------------------------------------------------
SandboxInit ==
    /\ free = Places
    /\ retired = {}
    /\ users = {}
    /\ cleanup = [p \in Places |-> "none"]
    /\ check = [c \in Checks |-> Ended([b \in Blocks |-> "none"])]
    /\ live = [p \in Places |-> {}]
    /\ orphans = [p \in Places |-> {}]

(* An answer with SQL blocks is ready, or the check of a query is asked for. *)
Begin(c) ==
    /\ Stands(c, "idle")
    /\ Becomes(c, [check[c] EXCEPT !.at = "select", !.blocks = [b \in Blocks |-> "pending"]])
    /\ UNCHANGED <<pool, cleanup, server>>

(* _select of every block; the first place is looked for at once. *)
Select(c) ==
    /\ Stands(c, "select")
    /\ \E skipped \in SUBSET Blocks :
           LET blocks == [b \in Blocks |-> IF b \in skipped THEN "outcome" ELSE "pending"]
           IN  NextBlock(c, [check EXCEPT ![c].blocks = blocks], free, users)
    /\ UNCHANGED <<retired, cleanup, server>>

(* A waiter that was woken looks at the pool again. *)
LookAgain(c) ==
    /\ Stands(c, "woken")
    /\ NextBlock(c, check, free, users)
    /\ UNCHANGED <<retired, cleanup, server>>

(* The wait is limited, for a waiter that was woken too until it runs. *)
AcquireTimeout(c) ==
    /\ check[c].at \in {"waiting", "woken"}
    /\ NextBlock(c, [check EXCEPT ![c].blocks = Decided(@)], free, users)
    /\ UNCHANGED <<retired, cleanup, server>>

(* Mutated form: the place is given without asking for sessions of its role. *)
EnterPlaceUnasked(c) ==
    /\ Stands(c, "entry")
    /\ Becomes(c, [check[c] EXCEPT !.at = "prepare",
                      !.blocks = [@ EXCEPT ![FirstPending(@)] = "running"]])
    /\ UNCHANGED <<pool, cleanup, server>>

(* terminate_sessions found none left: the block runs. *)
EnterPlace(c) ==
    /\ Stands(c, "entry")
    /\ SessionsAt(Place(c)) = {}
    /\ Becomes(c, [check[c] EXCEPT !.at = "prepare",
                      !.blocks = [@ EXCEPT ![FirstPending(@)] = "running"]])
    /\ UNCHANGED <<pool, cleanup, server>>

(* The sandbox does not answer, or a session does not go in time: the place goes back. *)
EnterFails(c) ==
    /\ Stands(c, "entry")
    /\ Leave(c, Decided(check[c].blocks))
    /\ UNCHANGED server

Connect(c) ==
    /\ Stands(c, "prepare")
    /\ live' = [live EXCEPT ![Place(c)] = @ \union {c}]
    /\ Becomes(c, [check[c] EXCEPT !.at = "attempt"])
    /\ UNCHANGED <<pool, cleanup, orphans>>

(* connect was cut off: the server may have the session all the same, and as the call is *)
(* not under the finally of _Slot.run nobody forces it.                                  *)
MayLeaveSession(c) ==
    /\ \/ UNCHANGED orphans
       \/ orphans' = [orphans EXCEPT ![Place(c)] = @ \union {c}]
    /\ UNCHANGED live

(* The sample or the test data are not to be had, no correction is fit, or there is no *)
(* connection.                                                                         *)
PrepareFails(c) ==
    /\ Stands(c, "prepare")
    /\ MayLeaveSession(c)
    /\ Leave(c, Decided(check[c].blocks))

(* A correction of the model that is not fit is an attempt too, without a transaction. *)
Corrected(c) ==
    \E n \in 0..FixAttempts :
        /\ n > check[c].tries
        /\ Becomes(c, [check[c] EXCEPT !.at = "prepare", !.tries = n, !.then = "outcome"])

(* Mutated form: one correction more than is allowed. *)
RolledBackOnceMore(c) ==
    /\ Stands(c, "attempt")
    /\ c \in live[Place(c)]
    /\ live' = [live EXCEPT ![Place(c)] = @ \ {c}]
    /\ \/ Leave(c, Decided(check[c].blocks))
       \/ /\ Becomes(c, [check[c] EXCEPT !.at = "prepare", !.tries = @ + 1])
          /\ UNCHANGED <<pool, cleanup>>
    /\ UNCHANGED orphans

(* The attempt was rolled back and its connection closed in order. *)
RolledBack(c) ==
    /\ Stands(c, "attempt")
    /\ c \in live[Place(c)]
    /\ live' = [live EXCEPT ![Place(c)] = @ \ {c}]
    /\ \/ Leave(c, Decided(check[c].blocks))
       \/ /\ Corrected(c)
          /\ UNCHANGED <<pool, cleanup>>
    /\ UNCHANGED orphans

(* A limit of reading, a failure, a session that is gone, a rollback that is not answered. *)
AttemptFails(c) ==
    /\ Stands(c, "attempt")
    /\ \/ ForceOut(c, "outcome")
       \/ check[c].tries < FixAttempts /\ c \in live[Place(c)] /\ ForceOut(c, "again")
    /\ UNCHANGED retired

(* A statement ended the transaction of the check: the place is retired. *)
TransactionEnded(c) ==
    /\ Stands(c, "attempt")
    /\ c \in live[Place(c)]
    /\ retired' = retired \union {Place(c)}
    /\ ForceOut(c, "outcome")

(* The shielded cleanup has ended and its waiter runs. *)
Forced(c) ==
    /\ Stands(c, "force")
    /\ cleanup[Place(c)] = "none"
    /\ \/ /\ check[c].then = "again"
          /\ Corrected(c)
          /\ UNCHANGED <<pool, cleanup>>
       \/ /\ check[c].then \in {"outcome", "timeout"}
          /\ Leave(c, Decided(check[c].blocks))
       \/ /\ check[c].then = "stopped"
          /\ Abandon(c)
    /\ UNCHANGED server

(* asyncio.timeout(total_timeout_seconds) of a block that has its place. *)
TotalTimeout(c) ==
    \/ /\ Stands(c, "prepare")
       /\ MayLeaveSession(c)
       /\ Leave(c, Decided(check[c].blocks))
    \/ /\ Stands(c, "attempt")
       /\ ForceOut(c, "timeout")
       /\ UNCHANGED retired
    \/ /\ Stands(c, "force")
       /\ check[c].then \in {"again", "outcome"}
       /\ Leave(c, Decided(check[c].blocks))
       /\ UNCHANGED server

(* The stream is closed, the session is lost, the dialog deleted, the process stopped. *)
CancelCheck(c) ==
    \/ /\ check[c].at \in {"select", "waiting", "woken"}
       /\ Becomes(c, Ended(Stopped(check[c].blocks)))
       /\ UNCHANGED <<pool, cleanup, server>>
    \/ /\ check[c].at \in {"entry", "force"}
       /\ Abandon(c)
       /\ UNCHANGED server
    \/ /\ Stands(c, "prepare")
       /\ MayLeaveSession(c)
       /\ Abandon(c)
    \/ /\ Stands(c, "attempt")
       /\ ForceOut(c, "stopped")
       /\ UNCHANGED retired

-----------------------------------------------------------------------------
(* The control role ends every session of a place while a task asks for it. *)
Terminate(p) ==
    /\ \/ cleanup[p] # "none"
       \/ \E c \in Checks : Stands(c, "entry") /\ Place(c) = p
    /\ SessionsAt(p) # {}
    /\ live' = [live EXCEPT ![p] = {}]
    /\ orphans' = [orphans EXCEPT ![p] = {}]
    /\ UNCHANGED <<pool, cleanup, check>>

(* terminate_sessions returns: none is left, or its time is over with some left. *)
CleanupEnds(p) ==
    /\ cleanup[p] # "none"
    /\ cleanup' = [cleanup EXCEPT ![p] = "none"]
    /\ \/ /\ cleanup[p] = "runs"
          /\ UNCHANGED <<free, check>>
       \/ /\ cleanup[p] = "returns"
          /\ free' = Returned(p)
          /\ check' = Woken(check)
    /\ UNCHANGED <<retired, users, server>>

(* The statement of a client that is gone comes to its end. *)
SessionEnds(p) ==
    /\ \E c \in orphans[p] : orphans' = [orphans EXCEPT ![p] = @ \ {c}]
    /\ UNCHANGED <<pool, cleanup, check, live>>

(* The sandbox server dies and starts with an empty base. *)
ServerRestarts ==
    /\ \E p \in Places : SessionsAt(p) # {}
    /\ live' = [p \in Places |-> {}]
    /\ orphans' = [p \in Places |-> {}]
    /\ UNCHANGED <<pool, cleanup, check>>

(* portal-api dies and starts: the pool is whole, the server keeps what it had. *)
SandboxRestart ==
    /\ \E c \in Checks : ~Stands(c, "idle")
    /\ free' = Places
    /\ retired' = {}
    /\ users' = {}
    /\ cleanup' = [p \in Places |-> "none"]
    /\ check' = [c \in Checks |-> Ended([b \in Blocks |-> "none"])]
    /\ orphans' = [p \in Places |-> SessionsAt(p)]
    /\ live' = [p \in Places |-> {}]

Step(c) ==
    \/ Select(c) \/ LookAgain(c) \/ AcquireTimeout(c)
    \/ EnterPlace(c) \/ EnterFails(c) \/ Connect(c) \/ PrepareFails(c)
    \/ RolledBack(c) \/ AttemptFails(c) \/ TransactionEnded(c) \/ Forced(c) \/ TotalTimeout(c)

SandboxNext ==
    \/ \E c \in Checks : Begin(c) \/ Step(c) \/ CancelCheck(c)
    \/ \E p \in Places : Terminate(p) \/ CleanupEnds(p) \/ SessionEnds(p)
    \/ ServerRestarts
    \/ SandboxRestart

SandboxSpec == SandboxInit /\ [][SandboxNext]_sandboxVars

-----------------------------------------------------------------------------
(* A place belongs to one check and a user has one place; nothing of a former check is   *)
(* left at it: no session of another check beside an attempt, no cleanup that would end  *)
(* the sessions of whoever holds the place now.  A retired place is not given again, and *)
(* no other is lost: it is free, held, or comes back at the end of its cleanup.          *)
ChecksStayAlone ==
    /\ \A c \in Checks : Holder(c) => /\ Place(c) \notin free
                                      /\ CheckUserOf[c] \in users
    /\ \A c, d \in Checks : c # d /\ Holder(c) /\ Holder(d) =>
           Place(c) # Place(d) /\ CheckUserOf[c] # CheckUserOf[d]
    /\ \A c \in Checks : Stands(c, "attempt") => SessionsAt(Place(c)) \subseteq {c}
    /\ \A c \in Checks : Holder(c) /\ cleanup[Place(c)] # "none" => Stands(c, "force")
    /\ \A p \in Places : p \in free => p \notin retired /\ cleanup[p] = "none"
    /\ \A p \in Places : \/ p \in free \union retired
                         \/ cleanup[p] = "returns"
                         \/ \E c \in Checks : Holder(c) /\ Place(c) = p

(* A check sleeps only while there is something that will wake it: its user has a place, *)
(* or every place is held or is being cleaned for its return.                            *)
NobodySleepsInVain ==
    \A c \in Checks : Stands(c, "waiting") =>
        \/ \E d \in Checks : Holder(d) /\ CheckUserOf[d] = CheckUserOf[c]
        \/ /\ free = {}
           /\ \/ \E d \in Checks : Holder(d)
              \/ \E p \in Places : cleanup[p] = "returns"

(* A run that ended, however it did, leaves no block waiting or running in its last       *)
(* report, and what a block came to is not lost when the run goes on or is stopped.       *)
OutcomesAreReported ==
    /\ [](\A c \in Checks : Stands(c, "idle") =>
              \A b \in Blocks : check[c].blocks[b] \notin Unfinished)
    /\ [][\A c \in Checks, b \in Blocks :
              check[c].blocks[b] = "outcome" /\ ~Stands(c, "idle") =>
                  check'[c].blocks[b] \in {"outcome", "none"}]_sandboxVars

(* No check is forgotten, in the wait for a place or in its last report (AsyncpgSqlSandbox, *)
(* SqlTestRunner._run).                                                                   *)
NobodyIsForgotten == []NobodySleepsInVain /\ OutcomesAreReported
=============================================================================
