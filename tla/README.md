# TLA+ models of the LLM portal

The repository is a self-hosted LLM service: vLLM behind the gateway Bifrost and the proxy
Caddy, and in front of them an employee portal. The portal has a FastAPI backend, one worker
process, a React frontend, and a C# sandbox for code projects; it keeps its state in
PostgreSQL, the index of the knowledge base in Qdrant, and files on a disk. This directory
models the parts of it where several actors change shared state in steps, and a few pure
functions whose boundaries are hard to test.

Paths below are relative to `src/portal/backend/src/portal/`.

## Inventory

| Part | State | Operations | What makes it correct | Modelled |
|---|---|---|---|---|
| Job queue and worker loop (`worker/loop.py`, `kb/repositories.py` `SqlJobQueue`, `kb/slicing.py`, `kb/reindex.py`, `kb/reprocess.py`, parts of `kb/service.py`) | rows of `kb_jobs` with lease, attempts, due time, priority; status and `deleted_at` of documents; in memory the tasks, `_processing`, `_withdrawn` | upload, delete, retry, reindex, reprocess, pause; claim, renew, yield, postpone, give up, release, stop, crash | one processing task per document, no lost or doubled job, labels that agree with jobs, every deletion and every queued document gets to its end | `KbQueue` |
| Replacement of an index (`kb/indexing.py`, `kb/explaining.py`, `kb/qdrant.py`, `kb/retrieval.py`, `KbService.set_tags`) | `kb_fragments` with contexts, points of Qdrant with `pending` and `tags`, the lock of the document row | stage, prune, publish, commit, explain, erase, change tags, search | the index in force is always in Qdrant and found whole, is replaced in one step, explanations, vectors and tags agree, nothing is left behind | `KbIndex`, `KbShown` |
| From a page to a source (`kb/chunking.py`, `kb/context.py`) | none | cut a page, extend what was found | no text lost or given twice, within the budget | `TextSplitting`, `SourcesFit` |
| Answers of a dialog (`dialogs/generation.py`, `dialogs/watch.py`, `tools/docparse.py`, parts of `dialogs/service.py`) | messages with status and `sql_run`, summary and title; marks `_active`, `_rechecking`, `_active` of docparse in memory | ask, regenerate, change memory, recheck, read, rename, delete; form, save, test, title; stop, crash, restart | one thing at a time, nothing alive declared dead, nothing saved overwritten, no dialog locked for ever | `DialogAnswers` |
| What the model is given (`dialogs/context.py`, `dialogs/memory.py`) | none | fit the history, choose the pairs to summarise | the longest end that fits, whole pairs | `HistoryFit` |
| Recordings (`worker/transcribe.py`, `worker/queue.py`, `worker/sweep.py`, `dialogs/transcripts.py`, `kb/recordings.py`, parts of `dialogs/service.py`, `kb/indexing.py`) | rows, transcribe and index jobs, source and sound files | upload, transcribe, compress, retry, send, delete, align, sweep | no file in use goes, none is kept for ever, an outcome is recorded once | `Recordings` |
| Code projects (`code/`) | project with its revision, files, versions, archive, edits; in memory the queue of builds | change files, patch, restore, build, propose, correct, decide, regenerate, delete | files that fit, an archive and a version that are of now, nothing overwritten unseen | `CodeProject` |
| Accounts (`auth/`) | the row of a user, sessions, backup codes, failed attempts | log in, second factor, change password, set up, log out; reset, block, unlock, change role | sessions of the password and factor of now (but for a gap: `late`), limits that hold for parallel attempts | `Accounts` |
| Check of SQL (`tools/sql_run.py`, `tools/sandbox.py`) | in memory the free places, the waiting checks, the users at work, the cleanups; sessions on the sandbox server | begin, wait for a place, try a block, correct, time out, cancel, clean up, restart | a check is alone in its place, every place comes back, nobody sleeps beside a free one, every block is reported | `SqlSandbox` |
| Databases of customers (`databases/`) | the row of a connection, its snapshot; in memory the lock of refreshes, the marks of previews, places of a server | check, refresh, sample, preview; change the login, delete; cancel, restart | places and marks come back, what is recorded of the rights is of the login of now, refreshes take turns | `CustomerBases` |
| Stream of an answer and of a draft (`dialogs/watch.py`, `dialogs/drafts.py`, `llm/bifrost.py`, `core/events.py`, `core/sse.py`, the streaming part of `dialogs/generation.py`) | the request to the model, the events not yet received, what is to be saved | ask, take an event, look at session and dialog, time out, stop, close, save, tell | the ending a page is told is the one saved, cut off in time, every stream ends | `AnswerStream` |
| Files, media, settings (`files/`, `media/`, the rest of `llm/` and `core/`) | none that lasts | parse, convert, call | — | files of recordings only |
| Frontend (`portal/frontend`) | state of a page | — | — | no |
| Stand, deployment, scripts, migrations | — | — | — | no |

The hard behaviours are the same in most of these: a task holds a copy of a row that others
change, a lease may run out while its task is alive, a commit may succeed and its reply be
lost, the process may die or be stopped at any `await`, and Qdrant, the disk and the memory of
a process take no part in the transactions of PostgreSQL. `PROJECT.json` lists each hazard at
its line with the properties that cover it, and says which are still open.

How the parts meet. The API writes documents and jobs in one transaction; the worker polls the
table, leases a job, and runs the indexer, the contextualizer or the erasure; these lock the
document row for each of their transactions and call Qdrant inside or between them; a search
asks Qdrant first and lets PostgreSQL decide what is shown. Attachments of dialogs are
transcribed in slots of their own by the same worker, and its sweep looks for files that no
row of either kind refers to. A dialog's answer asks the search, fits the history, and in a
code project proposes an edit and builds it through the queue the build button uses. Its events
reach the page through a channel; when it is complete, its SQL blocks are checked in the sandbox,
with samples read from a database of the customer. Every request passes `session_on`, which reads
session and user.

## Modules

### `KbQueue`: the queue and the worker

`docs` is the part of `kb_documents` the queue acts on; `jobs` maps every job identifier to
its row or `NoRow`; `worker`, `task`, `processing`, `withdrawn` are the process and its
memory. A task keeps its own copy of kind, priority and attempts, as `Job` is a copy of the
row taken at the claim. Every transaction of the code is one action, because each of them
locks the document row for its whole length; between two transactions of a task anything may
happen. The lease renewal (`_keep_lease`) is an action of its own that competes with the
task's steps, and `cancelled` makes every step a place where `CancelledError` may surface.

Correspondence: `Upload`, `Delete`, `RetryError`, `RetryReprocess`, `Reindex`,
`ReprocessStart`, `SetPaused` are the operations of `kb/service.py`, `kb/reindex.py`,
`kb/reprocess.py`; `Start`, `Stop`, `Stopped`, `Claim`, `Renew`, `End` are `Worker.run`,
`_fill`, `_keep_lease`, `_leased`; `StartIndex` to `Reject` are the steps of `_execute`;
`YieldTurn` to `Release` are its outcomes. `Upload`, `Delete` and `RetryError` insert a job without
asking, as `jobs.add` does. That the first two never meet the unique key of `kb_jobs` is a result
(`OneRowPerKind`); the third one meets it, and then fails and changes nothing: after a completion whose
reply was lost at the last attempt, a reindex adds a new index job, the give-up of the old task writes
`error` beside it, and the retry of that error is refused by the key (`kb/service.py:484`).
`Crash` is the death of the process at any moment, `ClaimReplyLost` and the second branch of `Replace` are commits whose reply is lost
(only with `LostReplies`).

Abstractions. Time: a lease is free, held or expired, and a row is due or not. Within one
priority `claim` takes the oldest row; the model takes any, so it has more behaviours. The
length of a slice (`kb.worker.slice_seconds`) is nondeterministic. Attempts of a delete are
not counted, since they only choose a pause. Identifiers are reused once nothing refers to
them. Left out: kind `transcribe` (in `Recordings`), `drop_unindexed_images`,
`recreate_collection`, and the refusal `source_unavailable`, which changes nothing.

### `KbIndex`: rows and points of one document

`rows` and `explained` are `kb_fragments`; `points` is Qdrant, one point or `NoPoint` for each
identifier, with `pending`, `tags` and whether its vector includes the explanation. `lock` is
the lock of the document row. Here a transaction that calls Qdrant while holding the row is
several actions: `EnterFinish`, `PublishTags`, `PublishClear`, `Commit` are `_finish`;
`SavePortion`, `UpdateVectors`, `CommitContexts` are `_save`; `EraseLock`, `ErasePoints`,
`EraseCommit` are `erase`; `TagLock`, `TagPoints`, `TagCommit` are `set_tags`. `ReadCurrent`
and `Prune` are `_prune`, which takes no lock, in each of its three places. A call of Qdrant
that fails after it took effect is the call followed by `Fail`, `WriterFails`, `EraserFails`
or `TagFails`. A search reads three times, each on its own: `Query` asks Qdrant, `Check` asks the
database which of the hits it has and ends or keeps its sources, `ReadNeighbors` asks the database
for their neighbours, by document and number.

Every step of an attempt may fail or be cancelled, a cleaning may be given up, a commit may succeed
and its reply be lost, a change of tags may be refused after Qdrant applied it, the process may die.
`givenUp` is history: what the code gave up so far (`prune`, the last cleaning of an attempt;
`tags`, a change of tags; `context`, the context job). The properties except exactly that: what a
cleaning that was given up leaves stays until the next attempt. There is one index or reprocess
task at a time: `KbQueue` proves that (`OneTaskPerDocument`), and the cleaning relies on it.

Abstractions: one document (documents share nothing but places); the pages, images and
texts of the fragments; whether the top results of a search include a fragment; a second
context or delete task of the same document after an expired lease. A status `processing` is
`queued` here, since the search treats them alike.

`KbShown` is what a replacement promises: an index and the part of it that is found, replaced
in one step or hidden. `KbIndex` implements it with `index <- rows` and
`shown <- {f \in Open : Active(f)}` (property `ShowsOneIndex`). What one search returns is more than
that. `IndexIsFound` says of its second read that it finds one index whole or nothing, and of the
third that the sources are all of the index the document has by then or, after a replacement, none
is. The neighbours are of the index the document has by then; so after a replacement between the
two they are texts of the new index beside sources of the former one, and no property is stated
against it, as the code does so. That the second read may find nothing is the finding of the run
`index_window`.

### `DialogAnswers`: the work on one dialog

`dialog`, `row`, `last`, `summary` are the database; `active`, `rechecking`, `forming` the marks
in memory; `task`, `parse`, `request` what is running. A request is accepted under the lock of
the dialog row (`Accept` and the steps in `Locked`); a task forms, saves, tests, stores the
result and drops its mark (`Answering`); a recheck and a reader read, and act on what they
read in a later action (`Rechecking`, `View`, `Look`). `ParseStep` is the life of a document
from its hidden dialog to its summary. `Faults` turns on commits that fail, commits whose reply
is lost, saves that fail for good, and the death of the process.

Abstractions. The text of an answer is not there: which blocks it has and the version of each
result is. An outcome by the limit of length is `complete`. A client that has gone, an ended
session and a stop are one interruption that may come at any time. While a summary is written
the database holds its empty text, so a stale text is the empty one. Identifiers are reused when
free. A commit takes effect as its action, and what `finish` returns is acted on afterwards.
Prompts, tools of an answer, files and drafts are left out.

`HistoryFit` has the pure functions behind it: which messages are turned into turns, which end
of them fits, what a second try after a refusal drops, which pairs may be summarised.
`DialogHistory` puts them beside the dialog: whenever an answer is formed, `HistoryIsGivenWhole` holds of
every history within the bounds.

### `Recordings`: row, job and file of a recording

`row`, `job` and `file` of one recording, either of a chat or of the knowledge base (`owner`,
chosen in `Init`), the request that is at work on it, two places of the worker, the sweep
(`janitor`) between its questions, and the start of the backend (`backend`, `seen`). Files have
an age, recent or old, since the sweep looks at old ones only.

Correspondence: `Receive` to `Drop` are uploads with their undoing; `Begin`, `Complete`, `Fail`
and what follows them are `worker/transcribe.py`; `Indexing` is the part of `kb/indexing.py` and
`kb/recordings.py` that compresses, records, replaces and rejects; `Align` is
`dialogs/transcripts.py` at the start of the backend; `SweepSource` and `DropOrphan` are the two
parts of `worker/sweep.py`, each after the list it was made from.

Abstractions. A lease is held or not. Identifiers of recordings are never reused. The age limit
of the sweep far exceeds the time of an upload, so a file of a request in progress does not age.
The keys of both tables are read in one step. Attempts of a deletion are not counted. Places are
interchangeable, and a claim takes a chosen free one. There is one worker process. `lost` is
history: files that a request or a task deleted although its row stayed, because the commit
failed or its reply was lost; the code cannot know, and `FilesOfRows` excepts them. Left out:
reindex and reprocess of recordings (in `KbQueue`), scratch directories, the quota.

### `CodeProject`: files, builds and edits of one project

`project` is its revision or `None`, `files`, `versions` and `archive` the rest of its rows,
`edit` the edits by answer, `seen` and `shown` (of an edit) what the page shows, `decision` a
decision that holds the row, `assistant` the answer being formed, `builds` and `queue` the memory
of `HttpCodeSandbox`; `last` is the last answer of the dialog, if it has an edit.

Transactions that change the project lock its row and are one action each; `Decide` is two, since
a new answer supersedes edits without that lock. A build is `Press` or `Check`, `TakeQueue`,
`TakePlace`, `ReadProject`, `ReadFiles`, `Compiled`, `Save`: the two reads are two statements of a
READ COMMITTED transaction without a lock, as in `_build`. `Propose` and `SaveEdit` are the
assistant: what it proposes is any edit that parses against the files it read (`Edits`), and the
loop of a fix applies `Corrected` to it. `Regenerate` deletes the last answer with its edit, decided or
not, for another answer to its question; a decision under way then still applies its files, and is
recorded nowhere (`Decided`).

Abstractions. A file is a path and one of two contents. Packages, compilation and its messages
are not there. The files of an edit are kept only while it is proposed. A place of the portal is
free at some time. Three statements of `archive` are one predicate.

What the model shows beside its properties: a version with a *former* number may hold files of
the next one, since a build may read the number before a change and the files after it
(`docs/portal-api.md`, sections on builds and versions, says that both are taken together); a file
deleted and created again at its path has number 1 again, so that a stale page passes for a
fresh one, which is the finding of the run `edit_unseen`; with `code.max_snapshots` of 1, which
`core/settings.py:722` accepts, the restored files take the place of the version of the files just
replaced, and the restore cannot be undone, though `docs/portal-api.md:4354-4356` has no such
condition. `RestoreLosesNothing` is therefore about two kept versions and more; all other properties
and proofs are about any number.

### `Accounts`: one account, its owner and an administrator

`user` is the row, `sessions` the open ones, `backup` the codes left, `attempts` the counter of
the login, `requests` what each request has read so far, `loginLock` the advisory lock of the
login. A request is one transaction and holds what it locked to its end; so what follows the lock
of the user's row is one action (`OpenSession`, `SecondFactor`, `ChangePassword`, `Setup`,
`Confirm`), and what it read before it waited is in its record: the hash a password is compared
with, the counter of failures, the row of its session. Actions of an administrator are one
action each. `RefuseRequest` is a request that is turned down for its data, and a transaction the
database ends.

Three fields and a variable are history: of a session `hash`, `key` and `late`, of the counter
`failed`, and `spent`. Time is abstract: sessions end, locks end, the counter is forgotten, and
which steps of the clock a code may be of is left open. Left out: the counter of an address, the
audit, hashing and encryption, lists of users.

`late` marks a gap that the model shows. `change_password` looks for its session while it waits for
the row of the user, but `SELECT ... FOR UPDATE OF users` takes the row of the session from the
snapshot it had before it waited. A block, a change of role or a reset of the second factor that
was committed meanwhile has deleted the session, and the request finds it all the same. A forced
change then gives a successor session to a blocked account, or one that counts as passed for a
second factor that was set up later. The comment at `auth/service.py:259-261` says that the
session in place shows that none of this has happened. `BlockCallsOffTheChange` states this of a block,
and the run `late_session` shows how the code violates it. The invariants of `SessionsFitTheAccount` hold
of all other sessions; they except the late ones by name. What remains true of a late session is
that it is of the password of now.

### `SqlSandbox`: checks and their places

`free`, `retired`, `users`, `cleanup` are the memory of `AsyncpgSqlSandbox` in `tools/sandbox.py`; `check`
is what each run of `tools/sql_run.py` is at, with its blocks as last reported; `live` and `orphans`
are the sessions on the server, which outlive their clients and the process. A place is a role of the
server, so that ending the sessions of a role cleans the place.

Tasks of one event loop: an action lasts from one `await` to the next. A check that returns its place
and has another block takes a place or starts to wait in the same step (`NextBlock`); a waiter is
`woken` when its future is set, and takes the place later (`LookAgain`), when it may be gone again.
`Begin` and `Select` open a run, `EnterPlace` and `EnterFails` are the cleaning of a place before it is
given, `Connect` to `TransactionEnded` the attempts and corrections of a block, `TotalTimeout`,
`AcquireTimeout`, `CancelCheck` the three ways out, `Forced`, `Terminate`, `CleanupEnds` the shielded
cleanup; `SessionEnds`, `ServerRestarts`, `SandboxRestart` are the
server and the process. `SqlSandbox`, `CustomerBases` and `Accounts` have no name in common, since
one module runs the three, and one holds the proofs of the first two.

Abstractions. Statements, test data and results are not there: the model's correction and the server's
answer are a choice. A control query that is still queued after its client gave up is left out.

### `CustomerBases`: a connection and its snapshot

`conn` and `snapshot` are the two rows, `admin` the row `update` holds and is going to write, `req`
what each request read when it was asked for, `refreshing`, `previewing`, `places` the memory of
`databases/service.py` and `databases/customer.py`. `Ask` to `Enter` are the routes with their
refusals, `TakePlace` or `Busy` the semaphore of a server, `Measure`, `ReadData`, `AccessFails`,
`Close` the transaction at the customer's, `Record` and `Save` what is written of it afterwards,
`Cancel` the cancellation at any `await`. `UpdateReads` and `UpdateSaves` are two, since the test of
the new login lies between them.

Abstractions. `last_error`, the lists of access, exclusions, selections and data are left out. Time is
a flag: the interval between two snapshots has passed or not. The semaphore gives a place to any
waiter, not to the first. A refused update changes nothing and is no action. `of` and `late` are
history: the login the rights or the snapshot were read with; a change of the login whose date lies
before `taken_at`, although the refresh had read the former row (see Findings).

### `AnswerStream`: from the model to the page

`request` and `pending` are the request as `BifrostChatModel.stream` knows it and what its next event
has come to, `task` and `outcome` the task of the stream and what it is going to save, `row` the
answer in the database, `channel` and `page` the events on their way and received. The model is read
by a task of its own (`Chunk` to `Breaks`), and `guarded` waits for its event, the stop, the term and
the time to look again at once: `Stop`, `TimeOut`, `LookAgain`, `LookAtSession`, `LookAtSubject`,
`LookFails` and `Take` are what may come first. `Close` (with the second attempt after an overflow),
`Save` or `SaveFails`, `Tell` or `TellDraft` follow in this order.

Abstractions. Streams of one employee follow each other. The search before the request, reasoning,
the title, the tools and the shutdown are left out. `late` is history: how many events of the model
were passed on after the stream was due to be cut off.

### Pure functions

`TextSplitting` cuts a page (`kb/chunking.py`): characters are of the four kinds the cutting tells
apart. `SourcesFit` extends what a search found by its neighbours within a budget
(`kb/context.py`): texts are their sizes. Headings and ranking are left out. `KbTexts` puts
both beside `KbIndex`: whenever an index is staged or something found, `TextsAreKept` holds of all inputs
within the bounds. `HistoryFit` is described with the dialog.

The `MC` modules add symmetry sets and bounds; the `Proofs` modules hold the
proofs. Definitions marked "Mutated form" are defects a developer could plausibly introduce; each
property is known to fail for one of them, and no specification uses them.

## Runs

| Run | What it asks | Bounds |
|---|---|---|
| `queue_places` | one processing task; one job of a kind, with the unique key for a retry only; order of a deletion (`OneProcessingTask`, `JobsAreOrdered`) | 1 document, 3 jobs, 2 places, 1 attempt, context on, lost replies |
| `queue_live` | labels agree with jobs, an index task owns its row (`StatusFollowsJobs`); a yielded job stays free (`YieldedStaysFree`); deleted is erased, queued is settled (`EverythingIsSettled`) | 1 document, 3 jobs, 1 place, 1 attempt, crashes, fairness, no lost replies |
| `queue_stuck` | finding: queued without a job (`NoneQueuedWithoutJob`) | 1 document, 1 place, 2 attempts, lost replies |
| `index` | index in force stays active, a search finds it whole or nothing, its sources stay or go together (`IndexIsFound`); one-step replacement (`ShowsOneIndex`); withdrawn jobs replace nothing; explanations, vectors and jobs agree (`ContextsAreKept`); nothing left behind, tags agree (`PointsFitTheIndex`); texts kept by cutting and extending (`TextsAreKept`) | 4 fragments, indexes of 2, portions of 2, 2 tags, 3 places, every failure; texts of up to 7 characters, 5 places of a text |
| `dialog_answers` | one thing at a time, nobody declared dead, nothing saved overwritten, rechecks, only the last is unfinished, idle again and again; the history | 2 answers, 2 requests, 4 kinds, 2 blocks, every fault; histories of up to 3 turns |
| `recordings` | files in use stay (`FilesOfRows`), outcomes are kept, alignment is exact, sources go last; queued is settled, garbage is swept (`NothingIsLeftOver`) | 1 recording of either kind, 1 sound, 2 places, 2 attempts, every fault |
| `code_project` | files and edits fit, builds are ordered and of now, restores lose nothing, decisions stay, nothing unseen is overwritten (`PastIsKept`) | 2 paths that clash, 2 contents, 2 files, 2 answers, 2 builds, 4 revisions, 2 versions |
| `edit_unseen` | finding: an edit is accepted over a file the page never saw (`AcceptedIsSeen`) | 1 answer, 1 build, 4 revisions |
| `databases_and_accounts` | a check is alone in its place (`ChecksStayAlone`); nobody sleeps beside a free place, no block is left unreported (`NobodyIsForgotten`) | 3 checks of 2 users, 2 places, 2 blocks (one of them for the third check), 1 correction, restarts of both sides |
| the same | places, marks and locks come back (`EverythingComesBack`); rights are of the login (`RightsAreOfTheLogin`); refreshes take turns (`RefreshesTakeTurns`) | 3 requests of 2 users, 2 at once, 2 servers of 1 place each, 1 change of the login |
| the same | sessions fit the account but for late ones, a code passes one session (`SessionsFitTheAccount`); attempts are limited (`AttemptsAreLimited`) | 2 sessions, 2 requests, 1 backup code, 2 failures, 3 passwords or 2 keys, 2 steps of the clock |
| `answer_stream` | the ending told is the one saved (`EndingIsTrue`); at most one event after the cut (`CutOffIsHeeded`); every stream ends | up to 3 characters in pieces of 1 and 2, drafts of 2, the tail read or not |
| `index_window` | finding: a search finds nothing of a document while its index is replaced (`FoundThroughout`) | 4 fragments, indexes of 2, 1 place |
| `late_session` | finding: a change of the password goes on in an account that was blocked (`BlockCallsOffTheChange`) | 2 sessions, 1 request, 3 passwords |

Most properties are conjunctions of parts that belong together. Each part is a definition with a
comment of its own, and each property is violated by a mutated form of the code. Each run but the four
findings passes.

`databases_and_accounts` has three components that share nothing: `side` chooses one, which moves while
the others rest as they start. It has the states of the three and not of their product. `AllNext` takes
the next-state relation of each whole; every action of the three is taken in it.

Why these bounds are enough to be interesting.

* Queue: three job identifiers are an index or reprocess job, the context or delete job beside it,
  and one that a task still refers to after its row went. Two places let the old task of a document
  meet a new one. One attempt already separates the first claim, the last attempt and the claim
  over the limit; two add the postponed retry. `AttemptsCap` only has to exceed `MaxAttempts` by
  more than one claim. There is no liveness run with two documents: every yield starts the attempts
  anew, and two documents of one priority can give way to each other between crashes for ever in a
  model that does not know how far a slice came. The safety properties are proved for any number.
* Index: two indexes of two fragments are the one in force and the stock. Indexes of two show a half
  staged, half published or half explained one. Three places are the attempt, the context task or the
  erasure beside it, and the change of tags.
* Dialog: two answers are the last and the one before it, or the one that replaces it; two requests
  are two questions, a question and a recheck, two rechecks of different blocks, a reader beside
  either.
* Recordings: two places hold the old and the new task of one job. Two attempts are a failure that
  is tried again and the last one. Recordings do not meet except in places and on the sweep's
  lists, where each is treated by itself.
* Code: two files can clash, swap their paths, or be one deleted and created again; four revisions
  are what a page has seen, what a build has read, what is there now, and one change between them.
  `EditsOrBuilds` keeps the combinations apart: a second edit while nothing is built and up to
  revision 2, builds up to revision 2, or at 3 while the last answer has no edit and none is formed.
* Accounts: two requests are the race of each pair of operations; a lock needs two failures, so one
  that is lost shows; a third password is a reset that meets a forced change, a second key one that is
  set up after the first was taken away. `PasswordsOrKeys` leaves out behaviours with both.
* SQL: three checks are one that runs, one that is woken and one that takes the place first; two of
  them are of one user. Two blocks let a check return its place and wait again; `OneBlockOfTheOther`
  leaves the third check one.
* Customers: two servers are the login of before and of now, so that a place returned to the wrong one
  shows; one place each makes every access contend. Of three requests two are under way at once
  (`TwoAtOnce`), of one user or of both, and the third may begin.
* Stream: a limit of two with pieces of two cuts a draft inside a piece; three characters exceed it.

Fairness. `KbQueue!FairSpec`: the restart of the process is fair (compose restarts it), the clock is
fair (an unattended lease runs out, a pause ends), and a task that can go on does. A claim, an
erasure and a give-up are strongly fair: the process may be killed and the services may fail again
and again, but not at that very step every time. Requests, commands, stops, crashes and failures owe
nothing. `QueuedIsSettled` is conditional: users and operators interfere only finitely often.
`DialogAnswers!FairSpec`: requests and tasks are run by the event loop and their waits have terms
(of the answer, of a test, of the grace period), and the process is started again; all weak.
`Recordings!FairSpec`: the same for both processes, requests, the sweep and the age of files;
strong for a claim, the first step and the outcome of a transcription, which may be killed again
and again but not always. Its two liveness properties are conditional: the worker is not stopped
again and again, and for the sweep, not cut off or killed again and again. `AnswerStream!FairSpec` is
weak for the end of the term (a clock), for the steps of the task (the event loop runs it, and the
statements of the database end) and for receiving (an open page reads); the model, the page, the
employee and the administrator owe nothing. `KbIndex`, `CodeProject`, `Accounts`, `SqlSandbox` and
`CustomerBases` have no fairness.

`CodeProject` is checked without deadlock detection, as it ends at the bound of revisions; for
`CustomerBases`, which ends when the connection is deleted, `AllNext` allows a rest.

## Findings

* `NoneQueuedWithoutJob` (run `queue_stuck`): a completion whose reply is lost is handled as a
  failure, and the finished document is queued again without a job.
* `AcceptedIsSeen` (run `edit_unseen`): a file deleted and added again at its path starts with number
  1, so an edit formed against the former file with number 1 is accepted and overwrites the new one.
* `FoundThroughout` (run `index_window`): a search between whose first two reads the index is replaced
  finds no fragment of a document that has an index all the time.
* `BlockCallsOffTheChange` (run `late_session`): a forced change of the password that waits for the row
  of the user finds the session a block has ended, goes on and opens another one.

The texts in `PROJECT.json` quote the sentences of the repository these runs contradict. Met while
modelling, and not followed by a run of their own:

* The neighbours of a source may be of a newer index than the source (`kb/retrieval.py:122-126`).
* A retry of an error may fail on the unique key of `kb_jobs` (see `KbQueue`), and a restore with one
  kept version cannot be undone (see `CodeProject`).
* A reader that was told a summary is unfinished writes it back as failed and empty after it was saved
  (`dialogs/service.py:427`).
* `_release` and `_retry_later` return a job without stopping its renewal first, so a renewal in
  flight leases it once more; `_yield` stops it, and `YieldedStaysFree` is about that.
* A change of tags that Qdrant applied and the portal then refused stays in Qdrant; a cleaning that is
  given up leaves points, and with two places an attempt may stage points after `erase` removed them;
  a context job kept from the former index with its attempts may be given up right after the new one
  is in force. `PointsFitTheIndex` and `ContextsAreKept` except what `givenUp` says.
* `taken_at` of a snapshot may lie after the date of a change of the login the refresh had not read
  (`databases/service.py:686-696`): until the interval has passed the former tables are taken for
  those of the new login. The properties of `CustomerBases` except it by `late`.
* Exclusions of samples "act at once" (`docs/portal-api.md:5678`), but the selection is captured before
  the check waits for its place.
* `files/media.py` sums the quota after it awaited the size of the tree, though
  `docs/portal-api.md:1040-1042` says that nothing is awaited between: two uploads may pass one quota.
* An image file is taken back although its row was committed when the reply of the commit is lost
  (`kb/images.py:199-204`), and image files left by a death are never swept.
* The numbers of versions described above.

## Proofs

TLAPS checks the theorems of eight modules, for every value of the constants. Each model has one
inductive invariant; its parts are properties of the runs and what they need. `DatabasesProofs` is about
two models that have no state in common.

### Queue (`KbQueueProofs`)

`TypeCorrect`, `OneTaskPerDocument`, `OneJobPerKind`, `DeletionOrder` and `TableOrder` hold with and
without lost replies; `StatusesFollow` and `YieldedJobsStayFree` assume `~LostReplies`. They have to:
`queue_stuck` refutes the labels otherwise, and a claim whose reply is lost leases a row without a task.

`TableInv` is the inductive invariant of the first five. The table properties do not follow from
themselves:

* `Agreement`: a task and the row of its job, while there is one, name one document and kind.
  Without it a task of a deleted document could write to another document's row; it holds
  because `uuid4` does not give out an identifier a task still holds.
* `DeleteKeepsTrying`: a delete task never gives up or abandons, so nothing but the erasure
  removes a delete job.
* `ProcessingExact`: `Worker._processing` is exactly the documents under index or reprocess.
  A claim asks only this set, so `OneProcessingTask` rests on it.
* `NoneUnmarked`: a document that was never added is not marked deleted.

For the tasks a step keeps them (`SameTasks`), empties all places, takes one or ends one
(`StepsOfTasks`). For the table a step removes rows of documents that are not deleted (`Fewer`) or adds
one row where its kind had none (`OneMore`); `UploadTable`, `DeleteTable` and `EraseTable` treat the
three others.

`StatusInv` adds the labels: `StatusFollowsJobs`, that an abandoned document is gone
(`AbandonedIsGone`), that tasks are of documents, and that a job given back is not leased by the task
that gave it back (`GivenBackIsQuiet`). Labels, rows and tasks change together, so the argument is about
a live document: a step changes it calmly, lets it enter the queue, makes it reprocessed, or is its one
index task leaving it (`Changes`); `TasksFollow` is the part of the tasks, `LeasesStep` that of leases.

### Index (`KbIndexProofs`)

`IndexTypes`, `SearchFindsOneIndex`, `ContextsStay`, `PointsFollowTheIndex`, `ReplacementIsOfTheJob` and
the refinement `ShowsOneIndexAtATime`, from `IndexInv`:

* `LockIsHeld`: who is between the lock of the row and its commit has the lock, and nobody else.
* `JobIsOfLive`: a deleted document has no job; an attempt that is not withdrawn has the job of its kind;
  an attempt of `reprocess` with its job runs at a ready document.
* `StockIsNew`: what an attempt staged is neither of the index in force nor of what is kept; only staging
  adds points.
* `CleaningSpares`: what a cleaning is about to remove was read when it was not in force, and nothing but
  the same attempt could put it in force meanwhile. With `RowsAreActive` this is why the index in force
  is never cleaned away.
* `HitsAreWhole`: what a search has read of Qdrant covers one index as a whole, or a former one of which
  no row is left; of the sources it kept all are of the index in force, or none is.
* `PortionIsOfIndex`, `TagsAreSet`, `ErasedIsEmpty`, `LeavesNothing` are what the contexts, the tags, the
  erasure (an attempt may stage after it) and the cleaning at the end of an attempt need.

The refinement is proved step by step: every action of `KbIndex` is a replacement, a hiding or a stutter
of `KbShown`.

### Fragments of a page (`KbIndexProofs`)

`SplitsKeepAll` is `SplitKeepsAll` of `TextSplitting` for texts of every length and every limit; `index`
evaluates it up to seven characters and a limit of five. `LeastIs` and `GreatestIs` say that a set of
numbers has the least, and the greatest, that the model picks; from them follows what each step of the
cutting finds (`FirstTextIs`, `StrippedEndIs`, `CutIs`, `NextStartIs`).

The recursion of `SplitPage` goes from the end of the text to its beginning: `NextIsLater` says that the
next fragment is looked for later than this one. The induction theorems of the library take an operator
and are out of reach, so both inductions take the least counterexample instead. `SplitsAll` shows that
the recursive function exists, by giving it one more place at a time (`SplitsOneMore`), and `AllFit` that
its values are right: `SpanBefore` puts a fragment before those that fit the rest of the page.

### Sources of an answer (`KbIndexProofs`)

`SourcesAreWhole` is `SourcesAreExtended` of `SourcesFit` for every set of places, number of sources, distance
and budget; `TextsStay` puts it together with `SplitsKeepAll`. What a text weighs is not used: only that a block
fits or does not, so the proof holds for any estimate of tokens.

The invariant is `Grown`. For each side of each source, `tried` says how far it has been tried and `reach` how
far it got: what a source is given is the unbroken run between its two reaches, the places taken are all
runs together, no two of which meet, and a side that got less far than it was tried ended at a place that
is taken or no text. `ExtendGrows` keeps it through one attempt, with a case for each outcome;
`AroundGrows` takes it through the attempts of one source, `AllAreGrown` through the sources.
That a side which was not cut off got the whole distance is what is left at the end.

### Customers (`DatabasesProofs`)

`BaseTypes`, `PlacesComeBack`, `RightsStayWithTheLogin`, `RefreshesAreInTurn` from `BasesInv`.
`PlacesCounted` says that free places and accesses at work add up to the places of a server, with
the cardinality theorems of the library for one request that enters or leaves. The row a request has
read is never ahead of the connection (`NothingIsAhead`), the lock belongs to a refresh and keeps its
snapshot from another one (`LockIsOfRefresh`, `RefreshIsAllowed`, `SnapshotAwaitsRefresh`), and `late`
records exactly the refreshes whose login changed before `taken_at` (`LateIsNoted`).
`RightsStayWithTheLogin` is about the recorded rights; the snapshot may be of a former login until it is
refreshed.

### SQL checks (`DatabasesProofs`)

`SandboxTypes`, `NobodyIsBesideAnAttempt`, `ChecksAreRemembered` from `SandboxInv`. Places are
partitioned: free, held by one check, under a cleanup, or retired (`PlacesAreTheirs`); holders have their
user marked (`HoldersAreMarked`); so two checks never share one, and one that sleeps without being
woken has a reason (`NobodySleepsInVain`). Four lemmas about the shapes of a step (`TurnWithout`,
`TurnLeaving`, `SameHold`, `FewerSessions`) cover all actions.

### Accounts (`AccountsProofs`)

`AccountTypes`, `SessionsFit`, `AttemptsStayLimited` from `AccountInv`. A request holds the lock of the
login from the reading of the counter to the writing of it, so what it has read is not behind the
failures (`LockIsHeld`, `FailuresAreCounted`); a code that is accepted is new, since the spent ones of
the present key are not ahead of `lastStep` (`CodesAreBehind`); the row of a session a request has read
still fits it, because identifiers are not given out while somebody refers to them (`RowsFit`).
`SessionsFit` is about sessions that are not late; `late_session` shows why it cannot be about all.

### Code projects (`CodeProjectProofs`)

`ProjectTypes`, `ProjectCanBeBuilt`, `BuildsTakeTurns`, `NothingPastIsLost` from `ProjectInv`. A step keeps
the files, deletes the project, or is a change that raises its number by one and touches a file only
by adding it with number 1, giving it its next number or removing it (`FilesInOrder`). From that follow:

* `FilesAreLaid`: no two files have one path, the tree can be built, no number of a file is above that
  of the project. An accepted edit keeps this because `decide` looks for clashes and at the
  limit again when it holds the row (`AcceptStep`).
* `SeenIsFormer`: what the page has under the number of a file is the file of then. It holds because
  an identifier is not given out while the page knows it (`AddFile`); a number starts with 1 again.
* `BuildsHaveRead`: a build reads the number first and the files after it, so a number that is still the
  one of now has the files of now. In the other order `ArchiveIsCurrent` and `VersionIsCurrent` fail.
* `KeptIsFormer`, `TreesAreSound`, `QueueIsShared`, `EditsAreOpen`: versions are not ahead of the project,
  whatever tree is kept can be built, all builds have asked for one lock, a decision is on an open edit.

`FixIsOfTheFilesRead` is about sets alone: an edit corrected by an edit of its result is an edit
of the files read at first. `KeptStays`, of a restore, is about two kept versions and more; the other
theorems hold for every `MaxSnapshots`. `NothingPastIsLost` lets a decision go with its project or with the
last answer, when that is regenerated.

### Stream (`AnswerStreamProofs`)

`StreamTypes`, `EndingsAreTrue`, `CutOffsAreHeeded` from `StreamInv`, for every bound and every size of the pieces:

* `EventsAreInOrder` relates the page to what is on its way: behind an ending only the close, and the
  text the page has, summed with the pieces in the channel, is the outcome, all of it before an
  ending. The sums are a function of the place in the channel whose existence each step
  carries on (`Sent`, `Received`): no sum over a sequence is needed.
* `EndingIsTold`: an ending is there exactly when it was told, and is that of the outcome.
* `TextIsCounted`: the request has said what the outcome has and the piece that is held;
  `OutcomeIsKnown`: a whole outcome is of all the model said, and saved as such.
* `CutOffIsAhead`: wherever a stream that is to be cut off takes an event, it looks at what cuts it off
  first; the one piece it may pass on was there when it looked at the subject a moment too early.
  `RequestIsOver` is what gives up the request at the model.

### Dialog (`DialogAnswersProofs`)

`DialogTypes`, `DialogDoesOneThing`, `NothingIsOverwritten` from `DialogInv`, with every kind of dialog and
every fault. A request holds the dialog from the lock of its row to the end of its recheck:

* `OneHolds`: one request at most does. The lock of the row says so up to the commit; past it
  `rechecking`, which a recheck has marked before it commits.
* `HolderIsAlone`: what it has read is still so. An unfinished last message or summary was read as
  unfinished, and is therefore settled by the commit; no summary is being written once the request has
  passed it; from the mark on no task is there, and the copy of `sql_run` is the one in the row.
* `TasksAreLast`, `OneTask`: a task is marked, works on the last message or in a deleted dialog, not
  beside a summary, and what it is still to save or store is not there yet. One answer whose dialog
  is deleted may run on, but no other begins.
* `DialogIsWhole`, `ParseIsKnown`, `ProcessIsKnown`, `RequestsAreKnown`: a hidden dialog has nothing and no
  title of a user, its parsing is marked, a process that is down runs nothing.

The heart is `AloneStep`: `HeldItself` goes through the steps of the holder, `HeldBeside` through
those of everybody else. `RowSteps` says once what a step may do to the rows; `BlocksStay` is where
the bare read and write of `_replace_block` need that the copy is still the row.

### History given to the model (`DialogAnswersProofs`)

`LongestEndIsTaken` and `PairsAreKeptWhole` are `FitIsLargest` and `PairsStayWhole` of `HistoryFit` for
histories of every length, texts and images of every size and every limit; `GivenHistoryIsWhole` puts them
together for the dialog. They are about functions, so no step of the dialog takes part in them.

* Sums. `TurnsTokens` and `Images` fold over a sequence. `SumsAll` and `PlacesAreSummed` say what such a fold
  is over the first places, `PartWeighs` that the sum of a part is a difference of two of them. `LeftIs` is
  then the point of the fitting: what is left, kept by subtracting one message after the other, is what the
  messages left weigh by their own sums. `FitMemoryIs` and the halving of the second try rest on it.
* Pairs. `TurnsAreTold` follows `PairTurns` from message to message with one invariant, `ToldWell`: the
  turns told so far are one-to-one the messages said so far, in their order, and an answer comes right
  behind its question. Where the history is cut, a question stands (`PairsAreAnswered`).
* Counts. `RangeIs` finds the border of a summary as the greatest number of a set; that `KeepRecent`
  questions are left behind it is a bijection between questions and pairs (`QuestionsAre`), by the
  cardinality theorems of the library.

Each induction takes a least counterexample, for the reason given under "Fragments of a page".

### Recordings (`RecordingsProofs`)

`RecordingTypes`, `OutcomesAreKept`, `RowsHaveFiles` from `RecordingsInv`, for every set of recordings,
files and places, every limit of attempts and every set of faults:

* `FilesAreThere`: what a row refers to is on the disk. Three write to the disk: a deletion, a task
  that drops a file it has replaced, and the sweep. The sweep lists files, asks for the keys later and
  removes later still, so `StaleAreUnused` says that from the answer on no row uses what is to go.
  It is kept because a key that was listed is never taken into use: an upload uses a file newer than the
  list, and the sound a task has made is not recorded yet and not listed (`SoundsAreHeld`).
* `DeletionsStay`: what is marked as deleted has its delete job. The erasure removes files before its
  commit, which may fail; the row that is then left is not a live one.
* `JobsStay`: an attachment without an outcome has its job, or was never given one. The start of the
  backend settles exactly the latter. It reads them, asks for their jobs and writes in three
  steps, and `AlignmentFits` says that what it has seen stays so meanwhile, since nothing is accepted
  before it is up.
* `TasksFit`, `RowsFit`, `KindsFit`, `UploadsFit`: a task past its first step has marked the row, past its
  last one has settled it; an indexing drops the source when the sound is recorded; two documents do not
  share a sound; attachments are transcribed and documents indexed. A worker that is down
  runs nothing (`DownIsEmpty`).

`OutcomeIsKept` is an action property. Every step is first shown to be `Lawful` for each recording:
an outcome stays as it is, a job goes once there is an outcome or no row, a source once there is a sound,
a refusal or a failure long ago. `AlignmentStep` is the start of the backend.

### Assumptions

On constants only: `BoundsAssumption` and `SwitchesAssumption` (limits are positive, switches Boolean), the
markers for "nothing" are not values of their kind (`MarkersAssumption`, `PointAssumption`,
`RowAssumption`, `RecordAssumption`, `RecordsAssumption`, `NoneAssumption` and their like), sets that are
counted are finite. `KeysAssumption` of `Recordings`: the key of a sound is not that of an upload, as
every key is a fresh `uuid4` (`files/media.py:226`). TLC evaluates all of them in the runs.
`LimitsAssumption` of `TextSplitting`: lengths are natural numbers, limits positive ones.
`SpotsAssumption` and `NumbersAssumption` of `SourcesFit`: a place is a document and a number, counts and
distances are natural numbers. `SizesAssumption` and `CountsAssumption` of `HistoryFit`: sizes and counts are natural numbers, and what a question leaves of the
budget is any integer.

### Only model-checked

Liveness (`EverythingIsSettled`, `IdleAgain`, `NothingIsLeftOver`, `EveryStreamEnds`) is out of the
prover's reach, as it rests on fairness. Every invariant and every other action property that a passing run
checks is a theorem.

## Not modelled

* The quota of media (`files/media.py`), pages and images of sources (`kb/images.py`), the text of
  found fragments: see Findings for what was met there.
* `recreate_collection` (`kb/reindex.py:28`) looks for leased jobs once and drops the collection
  afterwards while a worker may start; a command of an operator, outside the models.
* `_reject` (`kb/recordings.py:97`) and the give-up that follows it are in `Recordings`, but no
  property says what a crash between them leaves.
* Settings, schemas of the API, the wording of prompts and messages, readers of file formats,
  conversion by ffmpeg, the frontend, the C# compile service behind the sandbox of code, the stub of
  the model, scripts, migrations, gateway: input and output, configuration and layout. They are the
  larger part of the lines of the repository and keep no state that several actors change, so
  the models cover a minor share of its lines and most of its concurrent state.

## Plan

1. Done: the models of the table above; the proofs of the section before.
2. A second context task after an expired lease in `KbIndex`; order within one priority and slices
   in `KbQueue`, for starvation between bulk and user work.
