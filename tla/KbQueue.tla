------------------------------ MODULE KbQueue ------------------------------
(***************************************************************************)
(* The job queue of the knowledge base: table kb_jobs, the documents whose  *)
(* state it drives, the API operations and commands that put and withdraw   *)
(* jobs, and the worker process that takes them (worker/loop.py).           *)
(*                                                                          *)
(* One database transaction is one atomic step: the code locks the row of   *)
(* the document (SELECT ... FOR UPDATE) for its whole length.  Between two  *)
(* transactions of a task anything else may happen: other tasks, the lease  *)
(* renewal of the same task, API requests, the end of the process.          *)
(*                                                                          *)
(* Time is abstract: a row carries whether its lease is free, held or       *)
(* expired and whether its run_after has come.  Kind "transcribe" has slots *)
(* and an outcome of its own and is not part of this module.                *)
(***************************************************************************)
EXTENDS Integers

CONSTANTS
    Docs,            \* identifiers of documents
    JobIds,          \* identifiers of jobs; one is reused once nothing refers to it
    Slots,           \* the main places of the worker (kb.worker.concurrency)
    MaxAttempts,     \* kb.worker.max_attempts
    AttemptsCap,     \* bound of the model: attempts are not counted further than this
    ContextEnabled,  \* kb.context.enabled
    LostReplies,     \* a commit may succeed and the client still see a failure
    NoRow,           \* a job identifier without a row in kb_jobs
    Idle             \* a free place of the worker

ASSUME BoundsAssumption ==
    /\ MaxAttempts \in Nat \ {0}
    /\ AttemptsCap \in Nat
    /\ AttemptsCap > MaxAttempts

ASSUME SwitchesAssumption == ContextEnabled \in BOOLEAN /\ LostReplies \in BOOLEAN

VARIABLES
    docs,        \* kb_documents: state, deleted_at, reprocess_error of each document
    jobs,        \* kb_jobs: the row of each job identifier
    paused,      \* kb_queue_control.bulk_paused
    worker,      \* the worker process: "down", "up" or "stopping"
    task,        \* the task in each place, with its own copy of the job it took
    processing,  \* Worker._processing: documents under index or reprocess
    withdrawn    \* Worker._withdrawn: jobs found removed by their renewal

vars == <<docs, jobs, paused, worker, task, processing, withdrawn>>
database == <<docs, jobs, paused>>
memory == <<worker, task, processing, withdrawn>>

-----------------------------------------------------------------------------
Kinds == {"delete", "index", "context", "reprocess"}

(* _PROCESSING_KINDS: at most one of these runs for a document at a time. *)
ProcessingKinds == {"index", "reprocess"}

DefaultPriority ==
    [k \in Kinds |-> CASE k = "delete"  -> 0
                       [] k = "index"   -> 20
                       [] k = "context" -> 30
                       [] OTHER         -> 40]

BulkFrom == 35             \* BULK_PRIORITY_FROM: held back by the pause
BulkContextPriority == 35
Priorities == {0, 20, 30, 35, 40}

Statuses == {"none", "queued", "processing", "ready", "error", "erased"}
DocRow == [status : Statuses, deleted : BOOLEAN, mark : BOOLEAN]

JobRow == [doc : Docs, kind : Kinds, prio : Priorities, attempts : Nat,
           lease : {"free", "held", "expired"}, due : BOOLEAN]

(* Where a task is.  The outcomes ("yielding" to "abandoning") are one      *)
(* transaction each; after it the task is in one of the four last states,   *)
(* where only the end of _leased and _run is left.                          *)
Steps == {"taken", "working", "replaced", "yielding", "requeueing",
          "postponing", "givingUp", "abandoning", "unwinding",
          "handedBack", "postponed", "released", "closed"}

TaskRow == [id : JobIds, doc : Docs, kind : Kinds, prio : Priorities,
            attempts : Nat, pc : Steps, renewing : BOOLEAN, cancelled : BOOLEAN]

(* No row and no task are not taken for a row and a task. *)
ASSUME MarkersAssumption == NoRow \notin JobRow /\ Idle \notin TaskRow

TypeOK ==
    /\ docs \in [Docs -> DocRow]
    /\ jobs \in [JobIds -> JobRow \union {NoRow}]
    /\ paused \in BOOLEAN
    /\ worker \in {"down", "up", "stopping"}
    /\ task \in [Slots -> TaskRow \union {Idle}]
    /\ processing \subseteq Docs
    /\ withdrawn \subseteq JobIds

-----------------------------------------------------------------------------
Rows == {j \in JobIds : jobs[j] # NoRow}
RowsOf(d, kinds) == {j \in Rows : jobs[j].doc = d /\ jobs[j].kind \in kinds}
Busy == {s \in Slots : task[s] # Idle}

(* The document exists and is not marked deleted: what lock() returns. *)
Live(d) == docs[d].status \notin {"none", "erased"} /\ ~docs[d].deleted

(* uuid4: an identifier nothing refers to. *)
Fresh(j) ==
    /\ j \notin Rows
    /\ j \notin withdrawn
    /\ \A s \in Busy : task[s].id # j

NewJob(d, kind, prio) ==
    [doc |-> d, kind |-> kind, prio |-> prio, attempts |-> 0,
     lease |-> "free", due |-> TRUE]

(* The table without the jobs of d of these kinds. *)
Without(d, kinds) == [j \in JobIds |-> IF j \in RowsOf(d, kinds) THEN NoRow ELSE jobs[j]]

(* Mutated form: the claim does not look at Worker._processing. *)
ClaimableIgnoringBusy(j) ==
    /\ jobs[j].due
    /\ jobs[j].lease # "held"
    /\ jobs[j].prio < BulkFrom \/ ~paused

(* A job the main places may take now: _unleased and _main_slot. *)
Claimable(j) ==
    /\ jobs[j].due
    /\ jobs[j].lease # "held"
    /\ jobs[j].prio < BulkFrom \/ ~paused
    /\ ~(jobs[j].kind \in ProcessingKinds /\ jobs[j].doc \in processing)

(* has_waiting *)
Waiting(upTo) == \E j \in Rows : Claimable(j) /\ jobs[j].prio <= upTo

-----------------------------------------------------------------------------
(* Operations of the API and of the operator's commands. *)

(* KbService.add, add_recording: the document and its job in one transaction. *)
Upload(d) ==
    /\ docs[d].status = "none"
    /\ docs' = [docs EXCEPT ![d].status = "queued"]
    /\ \E j \in JobIds :
        /\ Fresh(j)
        /\ jobs' = [jobs EXCEPT ![j] = NewJob(d, "index", DefaultPriority["index"])]
    /\ UNCHANGED <<paused, memory>>

(* KbService.delete: mark, withdraw the other jobs, order the erasure. *)
Delete(d) ==
    /\ Live(d)
    /\ docs' = [docs EXCEPT ![d].deleted = TRUE]
    /\ \E j \in JobIds :
        /\ Fresh(j)
        /\ jobs' = [Without(d, {"index", "context", "reprocess"}) EXCEPT
                       ![j] = NewJob(d, "delete", DefaultPriority["delete"])]
    /\ UNCHANGED <<paused, memory>>

(* KbService.retry of a document in error.  Its insertion is a plain one:   *)
(* beside another index job the unique key of kb_jobs refuses it and the    *)
(* request fails, its transaction rolled back.                              *)
RetryError(d) ==
    /\ Live(d)
    /\ docs[d].status = "error"
    /\ \/ /\ RowsOf(d, {"index"}) = {}
          /\ docs' = [docs EXCEPT ![d].status = "queued"]
          /\ \E j \in JobIds :
              /\ Fresh(j)
              /\ jobs' = [jobs EXCEPT ![j] = NewJob(d, "index", DefaultPriority["index"])]
       \/ /\ RowsOf(d, {"index"}) # {}
          /\ UNCHANGED <<docs, jobs>>
    /\ UNCHANGED <<paused, memory>>

(* KbService.retry of a ready document whose reprocessing failed: the mark  *)
(* goes at once; an existing job only gets the priority of an upload.       *)
RetryReprocess(d) ==
    /\ Live(d)
    /\ docs[d].status = "ready"
    /\ docs[d].mark
    /\ docs' = [docs EXCEPT ![d].mark = FALSE]
    /\ \/ \E j \in RowsOf(d, {"reprocess"}) :
            jobs' = [jobs EXCEPT ![j].prio = DefaultPriority["index"]]
       \/ /\ RowsOf(d, {"reprocess"}) = {}
          /\ \E j \in JobIds :
              /\ Fresh(j)
              /\ jobs' = [jobs EXCEPT ![j] = NewJob(d, "reprocess", DefaultPriority["index"])]
    /\ UNCHANGED <<paused, memory>>

(* reset_or_add of the index job: an existing row keeps its identity and    *)
(* its lease.  The tables it may leave, starting from table.                *)
NewIndexJob(d, table) ==
    {[table EXCEPT ![j] = NewJob(d, "index", DefaultPriority["index"])] :
        j \in {k \in JobIds : Fresh(k)}}

(* Mutated form: the existing job is replaced by a new one. *)
ReplaceIndexJob(d, table) ==
    NewIndexJob(d, [j \in JobIds |-> IF j \in RowsOf(d, {"index"}) THEN NoRow ELSE table[j]])

ResetOrAdd(d, table) ==
    IF RowsOf(d, {"index"}) = {}
    THEN NewIndexJob(d, table)
    ELSE {[table EXCEPT ![j].attempts = 0, ![j].due = TRUE] : j \in RowsOf(d, {"index"})}

(* Mutated form: the reprocess job of the document stays in the queue. *)
ReindexKeepingReprocess(d) ==
    /\ Live(d)
    /\ docs' = [docs EXCEPT ![d].status = "queued"]
    /\ jobs' \in ResetOrAdd(d, Without(d, {"context"}))
    /\ UNCHANGED <<paused, memory>>

(* Reindexer.run for one document. *)
Reindex(d) ==
    /\ Live(d)
    /\ docs' = [docs EXCEPT ![d].status = "queued"]
    /\ jobs' \in ResetOrAdd(d, Without(d, {"reprocess", "context"}))
    /\ UNCHANGED <<paused, memory>>

(* Reprocessor.start for one document: add_if_absent. *)
ReprocessStart(d) ==
    /\ Live(d)
    /\ docs[d].status = "ready"
    /\ RowsOf(d, {"reprocess"}) = {}
    /\ \E j \in JobIds :
        /\ Fresh(j)
        /\ jobs' = [jobs EXCEPT ![j] = NewJob(d, "reprocess", DefaultPriority["reprocess"])]
    /\ UNCHANGED <<docs, paused, memory>>

(* Reprocessor.set_paused *)
SetPaused ==
    /\ paused' = ~paused
    /\ UNCHANGED <<docs, jobs, memory>>

(* Time: a lease that was not renewed runs out; the pause before a retry ends. *)
LeaseExpires(j) ==
    /\ j \in Rows
    /\ jobs[j].lease = "held"
    /\ jobs' = [jobs EXCEPT ![j].lease = "expired"]
    /\ UNCHANGED <<docs, paused, memory>>

BecomesDue(j) ==
    /\ j \in Rows
    /\ ~jobs[j].due
    /\ jobs' = [jobs EXCEPT ![j].due = TRUE]
    /\ UNCHANGED <<docs, paused, memory>>

-----------------------------------------------------------------------------
(* The worker process. *)

(* Worker.run up to its loop: _requeue_abandoned evens the labels. *)
Start ==
    /\ worker = "down"
    /\ worker' = "up"
    /\ docs' = [d \in Docs |->
                  IF /\ docs[d].status = "processing"
                     /\ \E j \in RowsOf(d, {"index"}) : jobs[j].lease # "held"
                  THEN [docs[d] EXCEPT !.status = "queued"]
                  ELSE docs[d]]
    /\ UNCHANGED <<jobs, paused, task, processing, withdrawn>>

(* The process dies; its memory goes, the rows stay as committed. *)
Crash ==
    /\ worker # "down"
    /\ worker' = "down"
    /\ task' = [s \in Slots |-> Idle]
    /\ processing' = {}
    /\ withdrawn' = {}
    /\ UNCHANGED database

(* The stop signal: the loop ends and cancels every task. *)
Stop ==
    /\ worker = "up"
    /\ worker' = "stopping"
    /\ task' = [s \in Slots |-> IF task[s] = Idle THEN Idle
                                ELSE [task[s] EXCEPT !.cancelled = TRUE]]
    /\ UNCHANGED <<database, processing, withdrawn>>

Stopped ==
    /\ worker = "stopping"
    /\ Busy = {}
    /\ worker' = "down"
    /\ processing' = {}
    /\ withdrawn' = {}
    /\ UNCHANGED <<database, task>>

(* What a claim writes.  Far over the limit the exact count decides nothing *)
(* (AttemptsCap), and for "delete" it only chooses the length of a pause.   *)
Taken(j) ==
    [jobs EXCEPT ![j].lease = "held",
                 ![j].attempts = IF jobs[j].kind = "delete" \/ @ >= AttemptsCap
                                 THEN @ ELSE @ + 1]

(* Mutated form: the limit is not checked at the claim. *)
FirstStepUnlimited(j) == "taken"

(* An attempt over the limit is not made: _execute goes straight to the end. *)
FirstStep(j) ==
    IF jobs[j].kind # "delete" /\ jobs[j].attempts + 1 > MaxAttempts
    THEN "givingUp"
    ELSE "taken"

NextInTurn(j) ==
    /\ j \in Rows
    /\ Claimable(j)
    /\ \A k \in Rows : Claimable(k) => jobs[j].prio <= jobs[k].prio

(* _claim and the creation of the task by _fill. *)
Claim(s, j) ==
    /\ worker = "up"
    /\ task[s] = Idle
    /\ NextInTurn(j)
    /\ jobs' = Taken(j)
    /\ task' = [task EXCEPT ![s] =
                  [id |-> j, doc |-> jobs[j].doc, kind |-> jobs[j].kind,
                   prio |-> jobs[j].prio, attempts |-> jobs'[j].attempts,
                   pc |-> FirstStep(j), renewing |-> TRUE, cancelled |-> FALSE]]
    /\ processing' = IF jobs[j].kind \in ProcessingKinds
                     THEN processing \union {jobs[j].doc}
                     ELSE processing
    /\ UNCHANGED <<docs, paused, worker, withdrawn>>

(* The claim is committed but its reply is lost: _fill logs the failure and *)
(* nobody runs the job until its lease expires.                             *)
ClaimReplyLost(j) ==
    /\ LostReplies
    /\ worker = "up"
    /\ Busy # Slots
    /\ NextInTurn(j)
    /\ jobs' = Taken(j)
    /\ UNCHANGED <<docs, paused, memory>>

(* One round of _keep_lease: a renewal that finds no row cancels the task. *)
Renew(s) ==
    /\ task[s] # Idle
    /\ task[s].renewing
    /\ \/ /\ task[s].id \in Rows
          /\ jobs' = [jobs EXCEPT ![task[s].id].lease = "held"]
          /\ UNCHANGED <<task, withdrawn>>
       \/ /\ task[s].id \notin Rows
          /\ withdrawn' = withdrawn \union {task[s].id}
          /\ task' = [task EXCEPT ![s].cancelled = TRUE, ![s].renewing = FALSE]
          /\ UNCHANGED jobs
    /\ UNCHANGED <<docs, paused, worker, processing>>

-----------------------------------------------------------------------------
(* The work of a task.  A task that was cancelled may still see the         *)
(* transaction it was waiting for committed; then it unwinds.               *)

At(s, pc) == task[s] # Idle /\ task[s].pc = pc
OfKind(s, kinds) == task[s].kind \in kinds
HasRow(s) == task[s].id \in Rows
Goes(s, pc) ==
    task' = [task EXCEPT ![s].pc = IF task[s].cancelled THEN "unwinding" ELSE pc]

(* Mutated form: delete jobs have a limit as well. *)
AfterFailureLimitingDelete(s) ==
    IF task[s].attempts >= MaxAttempts \/ task[s].kind = "delete"
    THEN "givingUp"
    ELSE "postponing"

(* Where a failure leads: _retry_later gives up a job out of attempts. *)
AfterFailure(s) ==
    IF task[s].kind # "delete" /\ task[s].attempts >= MaxAttempts
    THEN "givingUp"
    ELSE "postponing"

StartIndex(s) ==
    /\ At(s, "taken")
    /\ OfKind(s, {"index"})
    /\ \/ /\ Live(task[s].doc)
          /\ docs' = [docs EXCEPT ![task[s].doc].status = "processing"]
          /\ Goes(s, "working")
       \/ /\ ~Live(task[s].doc)
          /\ Goes(s, "abandoning")
          /\ UNCHANGED docs
    /\ UNCHANGED <<jobs, paused, worker, processing, withdrawn>>

StartReprocess(s) ==
    /\ At(s, "taken")
    /\ OfKind(s, {"reprocess"})
    /\ Goes(s, IF Live(task[s].doc) /\ docs[task[s].doc].status = "ready"
               THEN "working"
               ELSE "abandoning")
    /\ UNCHANGED <<database, worker, processing, withdrawn>>

(* Contextualizer.run, its first transaction: the job that has nothing left *)
(* is removed under the lock of its document.                               *)
TakePortion(s) ==
    /\ At(s, "taken")
    /\ OfKind(s, {"context"})
    /\ \/ /\ ~Live(task[s].doc)
          /\ Goes(s, "abandoning")
          /\ UNCHANGED jobs
       \/ /\ Live(task[s].doc)
          /\ Goes(s, "closed")
          /\ jobs' = [jobs EXCEPT ![task[s].id] = NoRow]
       \/ /\ Live(task[s].doc)
          /\ ContextEnabled
          /\ Goes(s, "working")
          /\ UNCHANGED jobs
    /\ UNCHANGED <<docs, paused, worker, processing, withdrawn>>

(* Contextualizer._save, then the renewal is stopped before the job returns. *)
SavePortion(s) ==
    /\ At(s, "working")
    /\ OfKind(s, {"context"})
    /\ \/ /\ Live(task[s].doc)
          /\ task' = [task EXCEPT ![s].renewing = FALSE,
                        ![s].pc = IF task[s].cancelled THEN "unwinding" ELSE "requeueing"]
       \/ /\ ~Live(task[s].doc)
          /\ Goes(s, "abandoning")
    /\ UNCHANGED <<database, worker, processing, withdrawn>>

(* Indexer.erase: the row of the document takes its jobs with it. *)
Erase(s) ==
    /\ At(s, "taken")
    /\ OfKind(s, {"delete"})
    /\ docs' = [docs EXCEPT ![task[s].doc].status = "erased", ![task[s].doc].mark = FALSE]
    /\ jobs' = Without(task[s].doc, Kinds)
    /\ Goes(s, "closed")
    /\ UNCHANGED <<paused, worker, processing, withdrawn>>

(* The table after Indexer._finish: the job is done, context follows. *)
ContextPriority(s) ==
    IF task[s].kind = "reprocess" /\ task[s].prio >= BulkFrom
    THEN BulkContextPriority
    ELSE DefaultPriority["context"]

DoneWithContext(s) ==
    {[jobs EXCEPT ![task[s].id] = NoRow,
                  ![j] = NewJob(task[s].doc, "context", ContextPriority(s))] :
        j \in {k \in JobIds : Fresh(k)}}

(* Mutated form: a plain insertion in place of add_if_absent. *)
CompletedAddingAlways(s) ==
    IF ContextEnabled THEN DoneWithContext(s) ELSE {[jobs EXCEPT ![task[s].id] = NoRow]}

Completed(s) ==
    IF ContextEnabled /\ RowsOf(task[s].doc, {"context"}) = {}
    THEN DoneWithContext(s)
    ELSE {[jobs EXCEPT ![task[s].id] = NoRow]}

(* Mutated form: the document is not read again under its lock. *)
ExistsUnlocked(s) == docs[task[s].doc].status \notin {"none", "erased"}

(* What _finish asks under the lock: the document and the job are there. *)
StillWanted(s) == Live(task[s].doc) /\ HasRow(s)

(* Indexer._finish.  The reply of its commit may be lost: then index raises *)
(* and the job goes the way of a failure although it is done.               *)
Replace(s) ==
    /\ At(s, "working")
    /\ OfKind(s, ProcessingKinds)
    /\ \/ /\ StillWanted(s)
          /\ docs' = [docs EXCEPT
                        ![task[s].doc].mark = FALSE,
                        ![task[s].doc].status = IF task[s].kind = "index" THEN "ready" ELSE @]
          /\ jobs' \in Completed(s)
          /\ Goes(s, "replaced") \/ (LostReplies /\ Goes(s, AfterFailure(s)))
       \/ /\ ~StillWanted(s)
          /\ Goes(s, "abandoning")
          /\ UNCHANGED <<docs, jobs>>
    /\ UNCHANGED <<paused, worker, processing, withdrawn>>

(* on_replaced and the cleaning after the replacement. *)
CleanUp(s) ==
    /\ At(s, "replaced")
    /\ task' = [task EXCEPT ![s].renewing = FALSE,
                  ![s].pc = IF task[s].cancelled THEN "unwinding" ELSE "closed"]
    /\ UNCHANGED <<database, worker, processing, withdrawn>>

(* The check before a batch: the job is gone. *)
NoticeWithdrawal(s) ==
    /\ At(s, "working")
    /\ OfKind(s, ProcessingKinds)
    /\ ~HasRow(s)
    /\ Goes(s, "abandoning")
    /\ UNCHANGED <<database, worker, processing, withdrawn>>

(* JobSlice.check at a yield point: the priority is that of the task's copy. *)
TimeToYield(s) ==
    IF task[s].prio >= BulkFrom
    THEN paused \/ Waiting(BulkFrom - 1)
    ELSE Waiting(task[s].prio)

(* Mutated form: the renewal goes on while the job is given back. *)
YieldPointRenewing(s) ==
    /\ At(s, "working")
    /\ OfKind(s, ProcessingKinds)
    /\ TimeToYield(s)
    /\ Goes(s, "yielding")
    /\ UNCHANGED <<database, worker, processing, withdrawn>>

(* JobYieldedError: the renewal is stopped before the job is given back. *)
YieldPoint(s) ==
    /\ At(s, "working")
    /\ OfKind(s, ProcessingKinds)
    /\ TimeToYield(s)
    /\ task' = [task EXCEPT ![s].renewing = FALSE,
                  ![s].pc = IF task[s].cancelled THEN "unwinding" ELSE "yielding"]
    /\ UNCHANGED <<database, worker, processing, withdrawn>>

(* A temporary failure of the model, of Qdrant, of a file, of the database. *)
WorkFails(s) ==
    /\ At(s, "taken") \/ At(s, "working")
    /\ Goes(s, AfterFailure(s))
    /\ UNCHANGED <<database, worker, processing, withdrawn>>

(* PermanentIndexError: the reason is in the document itself. *)
Reject(s) ==
    /\ At(s, "working")
    /\ OfKind(s, ProcessingKinds)
    /\ Goes(s, "givingUp")
    /\ UNCHANGED <<database, worker, processing, withdrawn>>

-----------------------------------------------------------------------------
(* The outcomes: one transaction each. *)

QueuedAgain(s) == [docs EXCEPT ![task[s].doc].status = "queued"]

(* A write to the row of the task's job; nothing if the row is gone. *)
RowBecomes(s, row) == IF HasRow(s) THEN [jobs EXCEPT ![task[s].id] = row] ELSE jobs

(* Mutated form: the label is written without asking for the row. *)
LabelAlways(s) ==
    IF OfKind(s, {"index"}) /\ Live(task[s].doc) THEN QueuedAgain(s) ELSE docs

(* The label of a document whose job went back to the queue: "queued", if   *)
(* there was a job to give back.                                            *)
Label(s) ==
    IF HasRow(s) /\ OfKind(s, {"index"}) /\ Live(task[s].doc) THEN QueuedAgain(s) ELSE docs

YieldTurn(s) ==
    /\ At(s, "yielding")
    /\ jobs' = RowBecomes(s, [jobs[task[s].id] EXCEPT !.lease = "free", !.attempts = 0])
    /\ docs' = Label(s)
    /\ Goes(s, "handedBack")
    /\ UNCHANGED <<paused, worker, processing, withdrawn>>

Requeue(s) ==
    /\ At(s, "requeueing")
    /\ jobs' = RowBecomes(s, [jobs[task[s].id] EXCEPT !.lease = "free", !.attempts = 0])
    /\ Goes(s, "handedBack")
    /\ UNCHANGED <<docs, paused, worker, processing, withdrawn>>

(* _retry_later: the state of the document does not depend on the row. *)
Postpone(s) ==
    /\ At(s, "postponing")
    /\ docs' = IF OfKind(s, {"index"}) /\ Live(task[s].doc) THEN QueuedAgain(s) ELSE docs
    /\ jobs' = RowBecomes(s, [jobs[task[s].id] EXCEPT !.lease = "free", !.due = FALSE])
    /\ Goes(s, "postponed")
    /\ UNCHANGED <<paused, worker, processing, withdrawn>>

GiveUp(s) ==
    /\ At(s, "givingUp")
    /\ docs' = CASE Live(task[s].doc) /\ OfKind(s, {"index"}) ->
                      [docs EXCEPT ![task[s].doc].status = "error"]
                 [] Live(task[s].doc) /\ OfKind(s, {"reprocess"}) ->
                      [docs EXCEPT ![task[s].doc].mark = TRUE]
                 [] OTHER -> docs
    /\ jobs' = [jobs EXCEPT ![task[s].id] = NoRow]
    /\ Goes(s, "closed")
    /\ UNCHANGED <<paused, worker, processing, withdrawn>>

(* _finish of the worker, after JobAbandonedError. *)
Abandon(s) ==
    /\ At(s, "abandoning")
    /\ jobs' = [jobs EXCEPT ![task[s].id] = NoRow]
    /\ Goes(s, "closed")
    /\ UNCHANGED <<docs, paused, worker, processing, withdrawn>>

(* The transaction of an outcome fails: the job stays leased. *)
OutcomeNotSaved(s) ==
    /\ \E pc \in {"yielding", "requeueing", "postponing", "givingUp", "abandoning"} : At(s, pc)
    /\ Goes(s, "closed")
    /\ UNCHANGED <<database, worker, processing, withdrawn>>

(* CancelledError reaches the task at its next await. *)
Interrupted(s) ==
    /\ task[s] # Idle
    /\ task[s].cancelled
    /\ task[s].pc \notin {"unwinding", "released"}
    /\ task' = [task EXCEPT ![s].pc = "unwinding"]
    /\ UNCHANGED <<database, worker, processing, withdrawn>>

(* The handler of CancelledError in _leased for a withdrawn job. *)
DropWithdrawn(s) ==
    /\ At(s, "unwinding")
    /\ task[s].id \in withdrawn
    /\ withdrawn' = withdrawn \ {task[s].id}
    /\ task' = [task EXCEPT ![s].pc = "released"]
    /\ UNCHANGED <<database, worker, processing>>

(* Mutated form: the floor of the count is forgotten. *)
UncountedBelowZero(n) == n - 1

(* An interrupted attempt does not count: greatest(attempts - 1, 0). *)
Uncounted(n) == IF n = 0 THEN 0 ELSE n - 1

(* _release, or its failure. *)
Release(s) ==
    /\ At(s, "unwinding")
    /\ task[s].id \notin withdrawn
    /\ \/ /\ jobs' = RowBecomes(s, [jobs[task[s].id] EXCEPT
                        !.lease = "free", !.attempts = Uncounted(@)])
          /\ docs' = Label(s)
       \/ UNCHANGED <<jobs, docs>>
    /\ task' = [task EXCEPT ![s].pc = "released"]
    /\ UNCHANGED <<paused, worker, processing, withdrawn>>

(* The end of _leased and of _run: the renewal is cancelled, the document   *)
(* is free for another task.                                                *)
End(s) ==
    /\ \/ At(s, "released")
       \/ /\ \E pc \in {"handedBack", "postponed", "closed"} : At(s, pc)
          /\ ~task[s].cancelled
    /\ task' = [task EXCEPT ![s] = Idle]
    /\ processing' = IF task[s].kind \in ProcessingKinds
                     THEN processing \ {task[s].doc}
                     ELSE processing
    /\ UNCHANGED <<database, worker, withdrawn>>

-----------------------------------------------------------------------------
Init ==
    /\ docs = [d \in Docs |-> [status |-> "none", deleted |-> FALSE, mark |-> FALSE]]
    /\ jobs = [j \in JobIds |-> NoRow]
    /\ paused = FALSE
    /\ worker = "down"
    /\ task = [s \in Slots |-> Idle]
    /\ processing = {}
    /\ withdrawn = {}

Request(d) ==
    \/ Upload(d)
    \/ Delete(d)
    \/ RetryError(d)
    \/ RetryReprocess(d)
    \/ Reindex(d)
    \/ ReprocessStart(d)

Clock(j) == LeaseExpires(j) \/ BecomesDue(j)

Process == Start \/ Crash \/ Stop \/ Stopped

Work(s) ==
    \/ StartIndex(s)
    \/ StartReprocess(s)
    \/ TakePortion(s)
    \/ SavePortion(s)
    \/ Erase(s)
    \/ Replace(s)
    \/ CleanUp(s)
    \/ NoticeWithdrawal(s)
    \/ YieldPoint(s)
    \/ WorkFails(s)
    \/ Reject(s)

Outcome(s) ==
    \/ YieldTurn(s)
    \/ Requeue(s)
    \/ Postpone(s)
    \/ GiveUp(s)
    \/ Abandon(s)
    \/ OutcomeNotSaved(s)
    \/ Interrupted(s)
    \/ DropWithdrawn(s)
    \/ Release(s)
    \/ End(s)

Next ==
    \/ \E d \in Docs : Request(d)
    \/ SetPaused
    \/ \E j \in JobIds : Clock(j) \/ ClaimReplyLost(j)
    \/ Process
    \/ \E s \in Slots :
        \/ \E j \in JobIds : Claim(s, j)
        \/ Renew(s)
        \/ Work(s)
        \/ Outcome(s)

Spec == Init /\ [][Next]_vars

(* A lease nobody renews runs out. *)
Unattended(j) == \A s \in Busy : task[s].id # j

(* The process is restarted (compose: restart unless-stopped), time passes, *)
(* a task goes on.  Strong fairness of the claim, of the erasure and of     *)
(* giving up: a process that is killed again and again, or a database and a *)
(* Qdrant that fail again and again, do not strike at that very step each   *)
(* time.  Requests, commands, stops, crashes and failures owe nothing.      *)
Fairness ==
    /\ WF_vars(Start) /\ WF_vars(Stopped)
    /\ \A j \in JobIds :
        /\ WF_vars(Unattended(j) /\ LeaseExpires(j))
        /\ WF_vars(BecomesDue(j))
        /\ SF_vars(\E s \in Slots : Claim(s, j))
    /\ \A s \in Slots :
        /\ WF_vars(Work(s) \/ Outcome(s))
        /\ SF_vars(Erase(s))
        /\ SF_vars(GiveUp(s))

FairSpec == Spec /\ Fairness

-----------------------------------------------------------------------------
(* Properties. *)

(* A document that is not deleted waits or is being processed exactly when  *)
(* it has an index job: none is stuck in the queue without a job, none that *)
(* is ready or in error is indexed behind its user's back.  So a retry of   *)
(* an error does not meet the unique key of kb_jobs, unless a commit lost   *)
(* its reply before (see NoneQueuedWithoutJob for what is then possible).   *)
QueuedIffIndexJob ==
    \A d \in Docs : Live(d) =>
        (docs[d].status \in {"queued", "processing"} <=> RowsOf(d, {"index"}) # {})

(* The half of it that a comment of the code states for its stop            *)
(* (worker/loop.py: a job that is gone has been finished, so its document   *)
(* is ready and not "in the queue").                                        *)
NoneQueuedWithoutJob ==
    \A d \in Docs : Live(d) /\ RowsOf(d, {"index"}) = {} =>
        docs[d].status \notin {"queued", "processing"}

(* A document has its delete job from the deletion to the erasure and at no *)
(* other time, and no other job from the deletion on (delete, erase,        *)
(* add_if_absent and add_or_prioritize of tasks and requests that race with *)
(* them).  So the plain insertions of an upload and of a deletion find      *)
(* their place free, whatever replies were lost.                            *)
DeletionIsOrdered ==
    \A d \in Docs :
        /\ ~Live(d) => RowsOf(d, Kinds \ {"delete"}) = {}
        /\ RowsOf(d, {"delete"}) # {} <=> ~Live(d) /\ docs[d].status \notin {"none", "erased"}

(* UNIQUE (document_id, kind) is not what keeps the table so: only a retry  *)
(* of an error is ever refused by it (RetryError), while an upload, a       *)
(* deletion and everything that asks first leave one row for a kind.        *)
OneRowPerKind ==
    \A j, k \in Rows : jobs[j].doc = jobs[k].doc /\ jobs[j].kind = jobs[k].kind => j = k

(* "index" and "reprocess" of one document are not queued together, and a   *)
(* reprocess job waits only at a ready document: reindex withdraws it,      *)
(* retry and start are refused outside "ready".                             *)
ReprocessOnlyReady ==
    \A d \in Docs : RowsOf(d, {"reprocess"}) # {} =>
        docs[d].status = "ready" /\ RowsOf(d, {"index"}) = {}

(* The job table agrees with itself and with what was deleted, whatever     *)
(* requests, tasks and lost replies did to it.                              *)
JobsAreOrdered == OneRowPerKind /\ DeletionIsOrdered

(* At most one index or reprocess of a document runs, whatever happened to  *)
(* the lease or to the row of its job while it was running: the cleaning of *)
(* points relies on it.                                                     *)
OneProcessingTask ==
    \A s, t \in Busy :
        task[s].doc = task[t].doc /\ OfKind(s, ProcessingKinds) /\ OfKind(t, ProcessingKinds)
            => s = t

(* The document of an index task still before its outcome keeps the row of  *)
(* that very job, unless it was deleted: nothing else can finish it, so the *)
(* state the task writes last is the state of its own job.                  *)
BeforeOutcome == {"taken", "working", "yielding", "postponing", "givingUp"}

IndexTaskOwnsRow ==
    \A s \in Busy :
        OfKind(s, {"index"}) /\ task[s].pc \in BeforeOutcome /\ Live(task[s].doc) => HasRow(s)

(* The status a user sees, the jobs of a document and its running index     *)
(* task belong together.                                                    *)
StatusFollowsJobs == QueuedIffIndexJob /\ ReprocessOnlyReady /\ IndexTaskOwnsRow

(* A free job becomes leased by a claim, which gives it a new task, or by   *)
(* the renewal of a task that took it and has not yielded it: a yield and a *)
(* portion of explanations stop the renewal first.                          *)
LeasedAgain(j) ==
    /\ jobs[j] # NoRow /\ jobs'[j] # NoRow
    /\ jobs[j].lease = "free" /\ jobs'[j].lease = "held"

ClaimedNow(j) == \E s \in Slots : task[s] = Idle /\ task'[s] # Idle /\ task'[s].id = j

YieldedStaysFree ==
    [][\A j \in JobIds : LeasedAgain(j) =>
          ClaimedNow(j) \/ \E s \in Busy : task[s].id = j /\ task[s].pc # "handedBack"]_vars

(* A deleted document is erased in the end, however often the erasure       *)
(* fails or the worker stops or dies (delete jobs have no limit).           *)
DeletedIsErased == \A d \in Docs : docs[d].deleted ~> docs[d].status = "erased"

(* Once nobody interferes, a document in the queue is ready or in error in  *)
(* the end, even if its processing kills the worker each time it is tried:  *)
(* the limit of attempts is checked at the claim as well.                   *)
Interference == Stop \/ \E d \in Docs : Request(d)

QueuedIsSettled ==
    <>[][~Interference]_vars =>
        \A d \in Docs : (Live(d) /\ docs[d].status \in {"queued", "processing"})
                            ~> (docs[d].status \in {"ready", "error"} \/ ~Live(d))

(* Whatever fails, each document gets where its last request sends it: a    *)
(* deleted one is erased, a queued one ready or in error (Worker.run).      *)
EverythingIsSettled == DeletedIsErased /\ QueuedIsSettled

=============================================================================
