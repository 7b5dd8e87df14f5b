----------------------------- MODULE Recordings -----------------------------
(***************************************************************************)
(* Recordings: their rows, transcription jobs and files, in a chat         *)
(* (dialogs/service.py, worker/transcribe.py, dialogs/transcripts.py) and  *)
(* in the knowledge base (kb/service.py, kb/recordings.py,                 *)
(* kb/indexing.py), and the sweep that looks for forgotten files           *)
(* (worker/sweep.py).                                                      *)
(*                                                                         *)
(* The disk takes no part in the transactions of the database: a file is   *)
(* put there before its row, taken away before or after it, and every such *)
(* pair of steps may be cut in two.  The backend and the worker are two    *)
(* processes; either may die, or lose the reply of a commit.               *)
(***************************************************************************)
EXTENDS Naturals, FiniteSets

CONSTANTS
    Recordings,  \* identifiers of attachments and documents; also of their source files
    AudioKeys,   \* files of compressed sound
    Places,      \* of the worker
    MaxAttempts, \* TRANSCRIBE_MAX_ATTEMPTS, kb.worker.max_attempts
    Faults,      \* subset of {"commit", "reply", "crash"}
    None

ASSUME AttemptsAssumption == MaxAttempts \in Nat \ {0}
ASSUME FaultsAssumption == Faults \subseteq {"commit", "reply", "crash"}
ASSUME NoneAssumption == None \notin AudioKeys
ASSUME KeysAssumption == Recordings \intersect AudioKeys = {}

VARIABLES
    owner,    \* where each recording belongs: a chat, the knowledge base
    backend,  \* down, the steps of its start, up
    seen,     \* what its start has read
    worker,   \* up, stopping, down
    row,      \* of attachments or kb_documents
    job,      \* the row of kb_jobs
    file,     \* on the disk: not there, recent, older than the sweep's limit
    request,  \* what a request is about to do with a recording
    place,    \* tasks of the worker
    janitor,  \* the sweep in progress
    lost      \* history: files deleted by a request or task whose row stayed, since its
              \* commit failed or the reply was lost

vars == <<owner, backend, seen, worker, row, job, file, request, place, janitor, lost>>

Keys == Recordings \union AudioKeys
Owners == {"chat", "kb"}
Final == {"ready", "error"}
Row == [status : {"queued", "processing"} \union Final, sent : BOOLEAN,
        source : BOOLEAN, audio : AudioKeys \union {None}, deleted : BOOLEAN]
Cap == MaxAttempts + 1  \* attempts are not told apart beyond the first one too many
Job == [kind : {"transcribe", "index", "delete"}, leased : BOOLEAN, attempts : 0..Cap]
Chores == {"begin", "link", "transcribe", "complete", "fail", "unlink", "finish", "postpone"}
Steps == {"start", "work", "reject", "compress", "record", "replace", "tidy", "retry",
          "giveUp", "erase"}
Returns == {"requeue", "release", "end"}
Task == [rec : Recordings, kind : {"transcribe", "index", "delete"}, attempts : 0..Cap,
         pc : Chores \union Steps \union Returns, key : AudioKeys \union {None}]
Janitor == [pc : {"idle", "sources", "keys", "orphans"},
            todo : SUBSET Recordings, stale : SUBSET Keys]

ASSUME RecordsAssumption == None \notin Row \union Job \union Task

TypeOK ==
    /\ owner \in [Recordings -> Owners]
    /\ backend \in {"down", "pending", "fail", "files", "up"}
    /\ seen \in SUBSET Recordings
    /\ worker \in {"up", "stopping", "down"}
    /\ row \in [Recordings -> Row \union {None}]
    /\ \A r \in Recordings : row[r] # None /\ row[r].sent => row[r].status = "ready"
    /\ job \in [Recordings -> Job \union {None}]
    /\ file \in [Keys -> {"none", "new", "old"}]
    /\ request \in [Recordings -> {"unused", "none", "received", "enqueue", "undo", "drop"}]
    /\ place \in [Places -> Task \union {None}]
    /\ janitor \in Janitor
    /\ lost \in SUBSET Keys

Resting == [pc |-> "idle", todo |-> {}, stale |-> {}]

Init ==
    /\ owner \in [Recordings -> Owners]
    /\ backend = "up" /\ seen = {}
    /\ worker = "up"
    /\ row = [r \in Recordings |-> None]
    /\ job = [r \in Recordings |-> None]
    /\ file = [k \in Keys |-> "none"]
    /\ request = [r \in Recordings |-> "unused"]
    /\ place = [p \in Places |-> None]
    /\ janitor = Resting
    /\ lost = {}
-----------------------------------------------------------------------------
(* Requests.                                                               *)

disk == <<file, lost>>
process == <<worker, place, janitor>>
others == <<owner, backend, seen, process>>

Is(r, status) == row[r] # None /\ row[r].status = status
LiveRow(r) == row[r] # None /\ ~row[r].deleted
NewRow == [status |-> "queued", sent |-> FALSE, source |-> TRUE, audio |-> None,
           deleted |-> FALSE]
NewJob(kind) == [kind |-> kind, leased |-> FALSE, attempts |-> 0]

Serves == backend = "up"
Does(r, pc) == request' = [request EXCEPT ![r] = pc]

\* The body has been received into a file under a new identifier.
Receive(r) ==
    /\ Serves /\ request[r] = "unused"
    /\ file' = [file EXCEPT ![r] = "new"]
    /\ Does(r, "received")
    /\ UNCHANGED <<others, row, job, lost>>

\* The row is inserted: that of an attachment before its job, that of a document with it.
Inserted(r) ==
    /\ row' = [row EXCEPT ![r] = NewRow]
    /\ job' = IF owner[r] = "kb" THEN [job EXCEPT ![r] = NewJob("index")] ELSE job

\* Any refusal, and a reply that is lost, deletes the file.
Insert(r) ==
    /\ request[r] = "received"
    /\ \/ Inserted(r) /\ Does(r, IF owner[r] = "chat" THEN "enqueue" ELSE "none")
       \/ UNCHANGED <<row, job>> /\ Does(r, "drop")
       \/ "reply" \in Faults /\ Inserted(r) /\ Does(r, "drop")
    /\ UNCHANGED <<others, disk>>

\* The job refers to the row, which may be gone by now.
Enqueue(r) ==
    /\ request[r] = "enqueue"
    /\ \/ /\ row[r] # None
          /\ job' = [job EXCEPT ![r] = NewJob("transcribe")]
          /\ Does(r, "none") \/ ("reply" \in Faults /\ Does(r, "undo"))
       \/ /\ row[r] = None \/ "commit" \in Faults
          /\ UNCHANGED job
          /\ Does(r, "undo")
    /\ UNCHANGED <<others, row, disk>>

\* Jobs go with the row (ON DELETE CASCADE).
RowDeleted(r) ==
    /\ row' = [row EXCEPT ![r] = None]
    /\ job' = [job EXCEPT ![r] = None]

Undo(r) ==
    /\ request[r] = "undo"
    /\ \/ RowDeleted(r) /\ Does(r, "drop")
       \/ "commit" \in Faults /\ UNCHANGED <<row, job>> /\ Does(r, "none")
    /\ UNCHANGED <<others, disk>>

\* A file goes; if its row stays, that is noted.
Unlinked(k, referred) ==
    /\ file' = [file EXCEPT ![k] = "none"]
    /\ lost' = IF referred THEN lost \union {k} ELSE lost

Drop(r) ==
    /\ request[r] = "drop"
    /\ Unlinked(r, LiveRow(r))
    /\ Does(r, "none")
    /\ UNCHANGED <<others, row, job>>

Attached(r) == Serves /\ owner[r] = "chat" /\ row[r] # None

\* Mutated form: an attachment is sent while it waits.
SendAny(r) ==
    /\ Attached(r) /\ ~row[r].sent
    /\ row' = [row EXCEPT ![r].sent = TRUE]
    /\ UNCHANGED <<others, job, disk, request>>

\* An attachment is sent once it is transcribed.
Send(r) ==
    /\ Attached(r) /\ Is(r, "ready") /\ ~row[r].sent
    /\ row' = [row EXCEPT ![r].sent = TRUE]
    /\ UNCHANGED <<others, job, disk, request>>

\* An unsent attachment gives way to an upload or is not chosen for a question: its row
\* goes with their commit, its file after it.
Evict(r) ==
    /\ Attached(r) /\ ~row[r].sent /\ request[r] \in {"none", "enqueue"}
    /\ RowDeleted(r)
    /\ Does(r, IF request[r] = "none" THEN "drop" ELSE "enqueue")
    /\ UNCHANGED <<others, disk>>

\* Deleted by the user: the file inside the transaction that deletes the row.
FileThenRow(r) ==
    /\ Attached(r)
    /\ \/ RowDeleted(r) /\ Unlinked(r, FALSE)
       \/ "commit" \in Faults /\ UNCHANGED <<row, job>> /\ Unlinked(r, TRUE)
    /\ UNCHANGED <<others, request>>

DeleteAttachment(r) == row[r] # None /\ ~row[r].sent /\ FileThenRow(r)

DeleteDialog(r) == FileThenRow(r)

Document(r) == Serves /\ owner[r] = "kb" /\ LiveRow(r)

\* A document is marked, and erased by the worker.
DeleteDocument(r) ==
    /\ Document(r)
    /\ row' = [row EXCEPT ![r].deleted = TRUE]
    /\ job' = [job EXCEPT ![r] = NewJob("delete")]
    /\ UNCHANGED <<others, disk, request>>

HasNothingToProcess(r) == ~row[r].source /\ row[r].audio = None

Retry(r) ==
    /\ Document(r) /\ Is(r, "error") /\ ~HasNothingToProcess(r)
    /\ row' = [row EXCEPT ![r].status = "queued"]
    /\ job' = [job EXCEPT ![r] = NewJob("index")]
    /\ UNCHANGED <<others, disk, request>>
-----------------------------------------------------------------------------
(* Start of the backend: attachments left without a job.                   *)

base == <<owner, row, job, disk, process>>

BackendCrash ==
    /\ "crash" \in Faults /\ backend # "down"
    /\ backend' = "down" /\ seen' = {}
    /\ request' = [r \in Recordings |-> IF request[r] = "unused" THEN "unused" ELSE "none"]
    /\ UNCHANGED base

AlignQueued ==
    /\ backend = "down"
    /\ seen' = {r \in Recordings : owner[r] = "chat" /\ Is(r, "queued")}
    /\ backend' = IF seen' = {} THEN "up" ELSE "pending"
    /\ UNCHANGED <<base, request>>

\* Mutated form: every attachment still queued is failed.
AlignPendingUnread ==
    /\ backend = "pending"
    /\ backend' = "fail"
    /\ UNCHANGED <<base, seen, request>>

AlignPending ==
    /\ backend = "pending"
    /\ seen' = {r \in seen : job[r] = None}
    /\ backend' = "fail"
    /\ UNCHANGED <<base, request>>

AlignFail ==
    /\ backend = "fail"
    /\ row' = [r \in Recordings |-> IF r \in seen /\ Is(r, "queued")
                                    THEN [row[r] EXCEPT !.status = "error"] ELSE row[r]]
    /\ backend' = "files"
    /\ UNCHANGED <<owner, seen, job, disk, process, request>>

AlignFiles ==
    /\ backend = "files"
    /\ file' = [k \in Keys |-> IF k \in seen THEN "none" ELSE file[k]]
    /\ backend' = "up" /\ seen' = {}
    /\ UNCHANGED <<owner, row, job, lost, process, request>>
-----------------------------------------------------------------------------
(* The worker: the queue.                                                  *)

outside == <<owner, backend, seen, request>>

Own(p) == job[place[p].rec] # None /\ job[place[p].rec].kind = place[p].kind
On(p, pc) == worker = "up" /\ place[p] # None /\ place[p].pc = pc
Goes(p, pc) == place' = [place EXCEPT ![p].pc = pc]
Leaves(p) == place' = [place EXCEPT ![p] = None]

\* Those of a deletion only choose a pause.
Counted(r) == IF job[r].kind = "delete" \/ job[r].attempts = Cap THEN job[r].attempts
              ELSE job[r].attempts + 1
FirstOf(kind) ==
    CASE kind = "transcribe" -> "begin" [] kind = "index" -> "start" [] kind = "delete" -> "erase"

Taken(r) == [job EXCEPT ![r].attempts = Counted(r), ![r].leased = TRUE]

Claimable(r) ==
    /\ job[r] # None /\ ~job[r].leased
    /\ job[r].kind = "index"
         => \A p \in Places : place[p] # None => place[p].rec # r \/ place[p].kind # "index"

\* The sweep is awaited before places are filled.
Claim(p, r) ==
    /\ worker = "up" /\ janitor.pc = "idle" /\ Claimable(r)
    /\ place[p] = None /\ p = CHOOSE q \in Places : place[q] = None  \* they are alike
    /\ job' = Taken(r)
    /\ place' = [place EXCEPT ![p] =
                   [rec |-> r, kind |-> job[r].kind, attempts |-> Counted(r),
                    pc |-> FirstOf(job[r].kind), key |-> None]]
    /\ UNCHANGED <<outside, worker, row, disk, janitor>>

LeaseExpires(r) ==
    /\ job[r] # None /\ job[r].leased
    /\ job' = [job EXCEPT ![r].leased = FALSE]
    /\ UNCHANGED <<outside, process, row, disk>>

Renew(p) ==
    /\ worker # "down" /\ place[p] # None /\ place[p].pc # "tidy" /\ Own(p)
    /\ job' = [job EXCEPT ![place[p].rec].leased = TRUE]
    /\ UNCHANGED <<outside, process, row, disk>>

\* A task that is cut short while its sound has no row yet takes the file back.
SoundTakenBack(p) ==
    /\ file' = IF place[p].key = None THEN file ELSE [file EXCEPT ![place[p].key] = "none"]
    /\ UNCHANGED lost

\* The renewal finds no job and cancels the task.
Withdrawn(p) ==
    /\ worker = "up" /\ place[p] # None /\ ~Own(p)
    /\ place[p].pc \notin Returns \union {"tidy"}
    /\ SoundTakenBack(p)
    /\ Leaves(p)
    /\ UNCHANGED <<outside, worker, row, job, janitor>>

\* What the task has to write cannot be written, or the reply of its claim is lost: its job
\* stays leased.
TaskFails(p) ==
    /\ worker # "down" /\ place[p] # None
    /\ \/ /\ "commit" \in Faults
          /\ place[p].pc \in {"begin", "complete", "fail", "unlink", "finish", "postpone",
                              "retry", "giveUp", "requeue", "release"}
       \/ "reply" \in Faults /\ place[p].pc = "link"
    /\ Leaves(p)
    /\ UNCHANGED <<outside, worker, row, job, disk, janitor>>

End(p) ==
    /\ worker # "down" /\ place[p] # None /\ place[p].pc = "end"
    /\ Leaves(p)
    /\ UNCHANGED <<outside, worker, row, job, disk, janitor>>

JobFree(r) == [job EXCEPT ![r].leased = FALSE]
JobGone(p) == IF Own(p) THEN [job EXCEPT ![place[p].rec] = None] ELSE job

Finish(p) ==
    /\ On(p, "finish")
    /\ job' = JobGone(p)
    /\ Leaves(p)
    /\ UNCHANGED <<outside, worker, row, disk, janitor>>
-----------------------------------------------------------------------------
(* The transcription of an attachment.                                     *)

Unfinished(r) == Is(r, "queued") \/ Is(r, "processing")
Moved(r, from, to) ==
    IF \E s \in from : Is(r, s) THEN [row EXCEPT ![r].status = to] ELSE row

\* Mutated form: the recording is looked up and not marked.
BeginUnmarked(p) ==
    LET r == place[p].rec IN
    /\ On(p, "begin")
    /\ Goes(p, IF ~Unfinished(r) THEN "finish"
               ELSE IF place[p].attempts > MaxAttempts THEN "fail" ELSE "link")
    /\ UNCHANGED <<outside, worker, row, job, disk, janitor>>

\* Mutated form: only failures are counted, not claims.
BeginUnlimited(p) ==
    LET r == place[p].rec IN
    /\ On(p, "begin")
    /\ row' = Moved(r, {"queued", "processing"}, "processing")
    /\ Goes(p, IF Unfinished(r) THEN "link" ELSE "finish")
    /\ UNCHANGED <<outside, worker, job, disk, janitor>>

\* Nothing to do if the attachment is gone or has its outcome; one claim too many fails.
Begin(p) ==
    LET r == place[p].rec IN
    /\ On(p, "begin")
    /\ row' = Moved(r, {"queued", "processing"}, "processing")
    /\ Goes(p, IF ~Unfinished(r) THEN "finish"
               ELSE IF place[p].attempts > MaxAttempts THEN "fail" ELSE "link")
    /\ UNCHANGED <<outside, worker, job, disk, janitor>>

AfterFailure(p) == IF place[p].attempts < MaxAttempts THEN "postpone" ELSE "fail"

Link(p) ==
    /\ On(p, "link")
    /\ Goes(p, IF file[place[p].rec] = "none" THEN AfterFailure(p) ELSE "transcribe")
    /\ UNCHANGED <<outside, worker, row, job, disk, janitor>>

\* Probed, converted, recognised: done, refused, failed, or withdrawn meanwhile.
Transcribe(p) ==
    /\ On(p, "transcribe")
    /\ \/ \E next \in {"complete", "fail", AfterFailure(p)} : Goes(p, next)
       \/ ~Own(p) /\ Goes(p, "end")
    /\ UNCHANGED <<outside, worker, row, job, disk, janitor>>

Complete(p) ==
    /\ On(p, "complete")
    /\ row' = Moved(place[p].rec, {"processing"}, "ready")
    /\ Goes(p, "unlink")
    /\ UNCHANGED <<outside, worker, job, disk, janitor>>

\* Mutated form: UPDATE by identifier.
FailAnyway(p) ==
    /\ On(p, "fail")
    /\ row' = Moved(place[p].rec, {"queued", "processing", "ready"}, "error")
    /\ Goes(p, "unlink")
    /\ UNCHANGED <<outside, worker, job, disk, janitor>>

Fail(p) ==
    /\ On(p, "fail")
    /\ row' = Moved(place[p].rec, {"queued", "processing"}, "error")
    /\ Goes(p, "unlink")
    /\ UNCHANGED <<outside, worker, job, disk, janitor>>

Unlink(p) ==
    /\ On(p, "unlink")
    /\ Unlinked(place[p].rec, FALSE)
    /\ Goes(p, "finish")
    /\ UNCHANGED <<outside, worker, row, job, janitor>>

Postpone(p) ==
    /\ On(p, "postpone")
    /\ job' = IF Own(p) THEN JobFree(place[p].rec) ELSE job
    /\ Goes(p, "end")
    /\ UNCHANGED <<outside, worker, row, disk, janitor>>
-----------------------------------------------------------------------------
(* The index task of a recording in the knowledge base.                    *)

\* Every way out but a lost file takes time: what happens to the source after it was
\* linked does not matter to the task.
Start(p) ==
    LET r == place[p].rec
        over == place[p].attempts > MaxAttempts
        linked == row[r] # None /\ row[r].source /\ file[r] # "none"
    IN  /\ On(p, "start")
        /\ row' = IF LiveRow(r) /\ ~over THEN [row EXCEPT ![r].status = "processing"] ELSE row
        /\ Goes(p, IF over THEN "giveUp" ELSE IF ~LiveRow(r) THEN "finish"
                   ELSE IF row[r].audio # None THEN "replace"
                   ELSE IF linked THEN "work" ELSE "retry")
        /\ UNCHANGED <<outside, worker, job, disk, janitor>>

\* Probed, converted, recognised in parts.
Work(p) ==
    /\ On(p, "work")
    /\ \/ \E next \in {"reject", "compress", "retry"} : Goes(p, next)
       \/ ~Own(p) /\ Goes(p, "finish")
    /\ UNCHANGED <<outside, worker, row, job, disk, janitor>>

\* drop_source: the file goes inside the transaction that says so.
SourceDropped(r) ==
    IF row[r] # None /\ row[r].source
    THEN row' = [row EXCEPT ![r].source = FALSE] /\ Unlinked(r, FALSE)
    ELSE UNCHANGED <<row, disk>>

SourceTorn(r) ==
    /\ "commit" \in Faults /\ row[r] # None /\ row[r].source
    /\ Unlinked(r, LiveRow(r))
    /\ UNCHANGED row

Reject(p) ==
    /\ On(p, "reject")
    /\ \/ SourceDropped(place[p].rec) /\ Goes(p, "giveUp")
       \/ SourceTorn(place[p].rec) /\ Goes(p, "retry")
    /\ UNCHANGED <<outside, worker, job, janitor>>

FreshKey(k) ==
    /\ file[k] = "none" /\ k \notin janitor.stale
    /\ \A r \in Recordings : row[r] # None => row[r].audio # k
    /\ \A p \in Places : place[p] # None => place[p].key # k

Compress(p, k) ==
    /\ On(p, "compress") /\ FreshKey(k)
    /\ file' = [file EXCEPT ![k] = "new"]
    /\ lost' = lost \ {k}
    /\ place' = [place EXCEPT ![p].pc = "record", ![p].key = k]
    /\ UNCHANGED <<outside, worker, row, job, janitor>>

SoundOf(r, k) == [row EXCEPT ![r].audio = k]
KeyLeft(p, pc) == place' = [place EXCEPT ![p].pc = pc, ![p].key = None]

\* The key of the sound is written, or its file taken back.
Record(p) ==
    LET r == place[p].rec
        k == place[p].key
    IN  /\ On(p, "record")
        /\ \/ LiveRow(r) /\ row' = SoundOf(r, k) /\ KeyLeft(p, "replace") /\ UNCHANGED disk
           \/ ~LiveRow(r) /\ Unlinked(k, FALSE) /\ KeyLeft(p, "finish") /\ UNCHANGED row
           \/ "commit" \in Faults /\ Unlinked(k, FALSE) /\ KeyLeft(p, "retry") /\ UNCHANGED row
           \/ /\ "reply" \in Faults /\ LiveRow(r)
              /\ row' = SoundOf(r, k) /\ Unlinked(k, TRUE) /\ KeyLeft(p, "retry")
        /\ UNCHANGED <<outside, worker, job, janitor>>

\* Fragments, vectors, points.
BuildFails(p) ==
    /\ On(p, "replace")
    /\ Goes(p, "retry")
    /\ UNCHANGED <<outside, worker, row, job, disk, janitor>>

Replace(p) ==
    LET r == place[p].rec IN
    /\ On(p, "replace")
    /\ IF LiveRow(r) /\ Own(p)
       THEN /\ row' = [row EXCEPT ![r].status = "ready"]
            /\ job' = JobGone(p)
            /\ Goes(p, "tidy") \/ ("reply" \in Faults /\ Goes(p, "retry"))
       ELSE Goes(p, "finish") /\ UNCHANGED <<row, job>>
    /\ UNCHANGED <<outside, worker, disk, janitor>>

\* The source of a processed recording goes; what is left the sweep removes.
Tidy(p) ==
    /\ On(p, "tidy")
    /\ SourceDropped(place[p].rec) \/ SourceTorn(place[p].rec) \/ UNCHANGED <<row, disk>>
    /\ Leaves(p)
    /\ UNCHANGED <<outside, worker, job, janitor>>

GivenUp(p) ==
    LET r == place[p].rec IN
        /\ row' = IF LiveRow(r) THEN [row EXCEPT ![r].status = "error"] ELSE row
        /\ job' = JobGone(p)

RetryLater(p) ==
    LET r == place[p].rec IN
    /\ On(p, "retry")
    /\ IF place[p].attempts < MaxAttempts
       THEN /\ row' = IF LiveRow(r) THEN [row EXCEPT ![r].status = "queued"] ELSE row
            /\ job' = IF Own(p) THEN JobFree(r) ELSE job
       ELSE GivenUp(p)
    /\ Leaves(p)
    /\ UNCHANGED <<outside, worker, disk, janitor>>

GiveUp(p) ==
    /\ On(p, "giveUp")
    /\ GivenUp(p)
    /\ Leaves(p)
    /\ UNCHANGED <<outside, worker, disk, janitor>>

FilesOf(r) == (IF row[r].source THEN {r} ELSE {}) \union ({row[r].audio} \ {None})

\* Files, then the row; what fails is repeated.
Erase(p) ==
    LET r == place[p].rec IN
    /\ On(p, "erase")
    /\ IF row[r] = None THEN UNCHANGED <<row, file>> /\ job' = JobGone(p)
       ELSE /\ file' = [k \in Keys |-> IF k \in FilesOf(r) THEN "none" ELSE file[k]]
            /\ \/ RowDeleted(r)
               \/ "commit" \in Faults /\ UNCHANGED row /\ job' = JobFree(r)
    /\ Leaves(p)
    /\ UNCHANGED <<outside, worker, lost, janitor>>

-----------------------------------------------------------------------------
(* Stop, death and start of the worker.                                    *)

\* A sweep in progress is finished first.
Stop ==
    /\ worker = "up" /\ janitor.pc = "idle"
    /\ worker' = "stopping"
    /\ UNCHANGED <<outside, row, job, disk, place, janitor>>

Cancelled(p) ==
    /\ worker = "stopping" /\ place[p] # None /\ place[p].pc \notin Returns
    /\ SoundTakenBack(p)
    /\ KeyLeft(p, "requeue")
    /\ UNCHANGED <<outside, worker, row, job, janitor>>

Uncounted(r) == [job EXCEPT ![r].leased = FALSE,
                            ![r].attempts = IF @ = 0 THEN 0 ELSE @ - 1]

\* An attachment is queued again before its job is returned, a document with it.
Requeue(p) ==
    LET r == place[p].rec IN
    /\ worker = "stopping" /\ place[p] # None /\ place[p].pc = "requeue"
    /\ IF place[p].kind = "transcribe"
       THEN /\ row' = Moved(r, {"processing"}, "queued")
            /\ Goes(p, "release")
            /\ UNCHANGED job
       ELSE /\ row' = IF Own(p) /\ place[p].kind = "index" /\ LiveRow(r)
                      THEN [row EXCEPT ![r].status = "queued"] ELSE row
            /\ job' = IF Own(p) THEN Uncounted(r) ELSE job
            /\ Goes(p, "end")
    /\ UNCHANGED <<outside, worker, disk, janitor>>

Release(p) ==
    /\ worker = "stopping" /\ place[p] # None /\ place[p].pc = "release"
    /\ job' = IF Own(p) THEN Uncounted(place[p].rec) ELSE job
    /\ Goes(p, "end")
    /\ UNCHANGED <<outside, worker, row, disk, janitor>>

Stopped ==
    /\ worker = "stopping" /\ \A p \in Places : place[p] = None
    /\ worker' = "down"
    /\ UNCHANGED <<outside, row, job, disk, place, janitor>>

WorkerCrash ==
    /\ "crash" \in Faults /\ worker # "down"
    /\ worker' = "down"
    /\ place' = [p \in Places |-> None]
    /\ janitor' = Resting
    /\ UNCHANGED <<outside, row, job, disk>>

\* Labels of what nobody holds any more.
Abandoned(r) == job[r] # None /\ ~job[r].leased /\ ~row[r].deleted

WorkerStart ==
    /\ worker = "down"
    /\ worker' = "up"
    /\ row' = [r \in Recordings |->
                 IF Is(r, "processing") /\ Abandoned(r)
                 THEN [row[r] EXCEPT !.status = "queued"] ELSE row[r]]
    /\ UNCHANGED <<outside, job, disk, place, janitor>>
-----------------------------------------------------------------------------
(* The sweep.                                                              *)

Sweeping(pc) == worker = "up" /\ janitor.pc = pc

\* The limit of age is hours: far more than the end of an upload or of a task takes.
Ages(k) ==
    /\ file[k] = "new"
    /\ k \in Recordings => request[k] # "received"
    /\ \A p \in Places : place[p] # None => place[p].key # k
    /\ file' = [file EXCEPT ![k] = "old"]
    /\ UNCHANGED <<outside, process, row, job, lost>>

\* A document is as old as its source.
Expired(r) == Is(r, "error") /\ file[r] # "new"

ToClean(r) == owner[r] = "kb" /\ LiveRow(r) /\ row[r].source /\ (Is(r, "ready") \/ Expired(r))

Sweep ==
    /\ Sweeping("idle")
    /\ janitor' = [Resting EXCEPT !.pc = "sources", !.todo = {r \in Recordings : ToClean(r)}]
    /\ UNCHANGED <<outside, worker, row, job, disk, place>>

\* Mutated form: what was listed is not looked at again.
SweepSourceUnseen(r) ==
    /\ Sweeping("sources") /\ r \in janitor.todo
    /\ SourceDropped(r)
    /\ janitor' = [janitor EXCEPT !.todo = @ \ {r}]
    /\ UNCHANGED <<outside, worker, job, place>>

\* Each is looked at again under its lock.
SweepSource(r) ==
    /\ Sweeping("sources") /\ r \in janitor.todo
    /\ IF ToClean(r) THEN SourceDropped(r) ELSE UNCHANGED <<row, disk>>
    /\ janitor' = [janitor EXCEPT !.todo = @ \ {r}]
    /\ UNCHANGED <<outside, worker, job, place>>

\* Mutated form: files of any age.
ListAll ==
    /\ Sweeping("sources") /\ janitor.todo = {}
    /\ LET stale == {k \in Keys : file[k] # "none"} IN
         janitor' = IF stale = {} THEN Resting
                    ELSE [janitor EXCEPT !.pc = "keys", !.stale = stale]
    /\ UNCHANGED <<outside, worker, row, job, disk, place>>

\* First the files, then the keys that are in use.
ListStale ==
    /\ Sweeping("sources") /\ janitor.todo = {}
    /\ LET stale == {k \in Keys : file[k] = "old"} IN
         janitor' = IF stale = {} THEN Resting
                    ELSE [janitor EXCEPT !.pc = "keys", !.stale = stale]
    /\ UNCHANGED <<outside, worker, row, job, disk, place>>

\* Mutated form: compressed sound is never looked for.
InUseSounds ==
    AudioKeys \union UNION {IF owner[r] = "kb" THEN FilesOf(r) ELSE {r} :
                           r \in {s \in Recordings : row[s] # None}}

\* Those of documents, then those of attachments: they concern different files.
InUse == UNION {IF owner[r] = "kb" THEN FilesOf(r) ELSE {r} :
                r \in {s \in Recordings : row[s] # None}}

ReadKeys ==
    /\ Sweeping("keys")
    /\ LET orphans == janitor.stale \ InUse
       IN  janitor' = IF orphans = {} THEN Resting
                      ELSE [janitor EXCEPT !.pc = "orphans", !.stale = orphans]
    /\ UNCHANGED <<outside, worker, row, job, disk, place>>

DropOrphan(k) ==
    /\ Sweeping("orphans") /\ k \in janitor.stale
    /\ Unlinked(k, FALSE)
    /\ janitor' = IF janitor.stale = {k} THEN Resting
                  ELSE [janitor EXCEPT !.stale = @ \ {k}]
    /\ UNCHANGED <<outside, worker, row, job, place>>

\* Any failure ends the pass, perhaps between a file and its row.
SweepFails ==
    /\ "commit" \in Faults
    /\ worker = "up" /\ janitor.pc # "idle"
    /\ \/ UNCHANGED <<row, disk>>
       \/ \E r \in janitor.todo : ToClean(r) /\ SourceTorn(r)
    /\ janitor' = Resting
    /\ UNCHANGED <<outside, worker, job, place>>
-----------------------------------------------------------------------------
Requests(r) ==
    \/ Receive(r) \/ Insert(r) \/ Enqueue(r) \/ Undo(r) \/ Drop(r)
    \/ Send(r) \/ Evict(r) \/ DeleteAttachment(r) \/ DeleteDialog(r)
    \/ DeleteDocument(r) \/ Retry(r)

Align == AlignQueued \/ AlignPending \/ AlignFail \/ AlignFiles

Transcription(p) ==
    Begin(p) \/ Link(p) \/ Transcribe(p) \/ Complete(p) \/ Fail(p) \/ Unlink(p) \/ Postpone(p)

Indexing(p) ==
    \/ Start(p) \/ Work(p) \/ Reject(p) \/ Record(p) \/ BuildFails(p) \/ Replace(p)
    \/ Tidy(p) \/ RetryLater(p) \/ GiveUp(p) \/ Erase(p)
    \/ \E k \in AudioKeys : Compress(p, k)

Returning(p) == Cancelled(p) \/ Requeue(p) \/ Release(p) \/ End(p)

Sweeps ==
    \/ Sweep \/ ListStale \/ ReadKeys
    \/ (\E r \in Recordings : SweepSource(r))
    \/ (\E k \in Keys : DropOrphan(k))

Next ==
    \/ \E r \in Recordings :
         Requests(r) \/ LeaseExpires(r) \/ \E p \in Places : Claim(p, r)
    \/ \E p \in Places :
         \/ Transcription(p) \/ Indexing(p) \/ Finish(p) \/ Returning(p)
         \/ Renew(p) \/ Withdrawn(p) \/ TaskFails(p)
    \/ \E k \in Keys : Ages(k)
    \/ Align \/ BackendCrash
    \/ Stop \/ Stopped \/ WorkerCrash \/ WorkerStart
    \/ Sweeps \/ SweepFails

Spec == Init /\ [][Next]_vars

TaskOf(p, r) == place[p] # None /\ place[p].rec = r
Unattended(r) == \A p \in Places : ~TaskOf(p, r)

\* The processes are started again, tasks and requests are run by the event loop and their
\* waits have terms, the clock goes on.  A claim, the first step and the outcome of a
\* transcription may fail or be killed again and again, but not every time.
Fairness ==
    /\ WF_vars(WorkerStart \/ Stopped) /\ WF_vars(Align) /\ WF_vars(Sweeps)
    /\ \A k \in Keys : WF_vars(Ages(k))
    /\ \A p \in Places :
         WF_vars(Transcription(p) \/ Indexing(p) \/ Finish(p) \/ Returning(p))
    /\ \A r \in Recordings :
        /\ WF_vars(Insert(r) \/ Enqueue(r) \/ Undo(r) \/ Drop(r))
        /\ WF_vars(Unattended(r) /\ LeaseExpires(r))
        /\ SF_vars(\E p \in Places : Claim(p, r))
        /\ SF_vars(\E p \in Places : TaskOf(p, r) /\ Begin(p))
        /\ SF_vars(\E p \in Places : TaskOf(p, r) /\ (Complete(p) \/ Fail(p)))

FairSpec == Spec /\ Fairness

-----------------------------------------------------------------------------
(* What it is for.                                                         *)

\* What still has to be processed or played is on the disk, unless a request or a task
\* deleted it and could not finish its transaction: neither the sweep, nor a second task
\* of the same job, nor the start of the backend takes a file that is in use.
FilesInUse ==
    \A r \in Recordings : LiveRow(r) =>
        /\ owner[r] = "chat" /\ Unfinished(r) /\ r \notin lost => file[r] # "none"
        /\ owner[r] = "kb" => \A k \in FilesOf(r) \ lost : file[k] # "none"

\* The outcome of a transcription is recorded once: neither a task that lost its lease, nor
\* a job taken again, nor a restart of either process changes it.
OutcomeOnce ==
    [][\A r \in Recordings :
         owner[r] = "chat" /\ row[r] # None /\ row[r].status \in Final /\ row'[r] # None
           => row'[r].status = row[r].status]_row

\* A transcription job goes only when its outcome is recorded or the attachment is gone.
JobGoesLast ==
    [][\A r \in Recordings :
         owner[r] = "chat" /\ job[r] # None /\ job'[r] = None /\ row'[r] # None
           => row'[r].status \in Final]_job

\* The start of the backend fails the attachments that nobody would ever transcribe, all
\* of them, and none that has a job.
AlignmentIsExact ==
    [][/\ backend # "up" /\ backend' = "up" =>
            \A r \in Recordings : owner[r] = "chat" /\ Is(r, "queued") => job[r] # None
       /\ backend = "fail" =>
            \A r \in Recordings : job[r] # None => row'[r] = row[r]]_backend

\* No outcome is changed, none is lost with its job, and the start of the backend makes up
\* none but where there will be no other.
OutcomeIsKept == OutcomeOnce /\ JobGoesLast /\ AlignmentIsExact

\* A source is taken from a document that has its sound, was refused, or failed long ago:
\* not from one that was queued again while the sweep went through its list.
SourceGoesLast ==
    [][\A r \in Recordings :
         owner[r] = "kb" /\ LiveRow(r) /\ row[r].source /\ row'[r] # None /\ ~row'[r].source
           => \/ row[r].audio # None
              \/ Expired(r)
              \/ \E p \in Places : place[p] # None /\ place[p].rec = r /\ place[p].pc = "reject"]_row

\* A row keeps its files as long as it needs them, and longest the one that cannot be made
\* again.
FilesOfRows == []FilesInUse /\ SourceGoesLast

\* Unless the worker is stopped for ever and ever, an attachment that has a job gets its
\* outcome, even if its transcription always fails or kills the process every time.
QueuedIsSettled ==
    <>[][~Stop]_vars =>
        \A r \in Recordings :
            owner[r] = "chat" /\ Unfinished(r) /\ job[r] # None ~> ~Unfinished(r)

Garbage ==
    {k \in Keys :
       /\ file[k] # "none"
       /\ k \in Recordings => request[k] = "none"
       /\ \A p \in Places : place[p] # None => place[p].key # k
       /\ \A r \in Recordings : row[r] # None => k \notin FilesOf(r)}

\* Files no row refers to, whichever pair of steps was cut in two, are removed, if the
\* worker is some day let to finish a sweep.
GarbageIsSwept ==
    <>[][~(Stop \/ WorkerCrash \/ (SweepFails /\ ~Sweeps))]_vars => (Garbage # {} ~> Garbage = {})

\* Neither an attachment without an outcome nor a file without a row is left over
\* (Worker.run, RecordingJanitor.run).
NothingIsLeftOver == QueuedIsSettled /\ GarbageIsSwept

=============================================================================
