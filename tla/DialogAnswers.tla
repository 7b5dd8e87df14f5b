--------------------------- MODULE DialogAnswers ---------------------------
(***************************************************************************)
(* Work on one dialog: answers, rechecks of their SQL, the parsing of a    *)
(* document (dialogs/generation.py, dialogs/watch.py, tools/docparse.py,   *)
(* the parts of dialogs/service.py that read, rename and delete).          *)
(*                                                                         *)
(* A dialog does one thing at a time.  That it is busy is known from marks *)
(* in memory (_active, _rechecking, the _active of docparse), that an      *)
(* answer or a summary is unfinished from its row.  Requests take marks    *)
(* under the lock of the dialog row, tasks save and drop them without it,  *)
(* and readers repair what they take for abandoned.  A question to the     *)
(* database and the moment its reply is acted on are separate actions.     *)
(***************************************************************************)
EXTENDS Naturals, FiniteSets

CONSTANTS
    Answers,    \* identifiers of assistant messages, reused when free
    Requests,   \* identifiers of requests and of the rechecks they start
    Kinds,      \* kinds of dialog this instance is about
    Blocks,     \* sql blocks of an answer
    Faults,     \* subset of {"commit", "reply", "save", "crash"}
    None

ASSUME KindsAssumption == Kinds \subseteq {"chat", "sql", "code", "docparse"}
ASSUME FaultsAssumption == Faults \subseteq {"commit", "reply", "save", "crash"}
ASSUME NoneAssumption == None \notin Answers

VARIABLES
    process,    \* of the backend: up, stopping, down
    dialog,     \* its row: kind, state, title
    row,        \* answers in the database: status and sql_run
    last,       \* the last message of the dialog, if any
    summary,    \* of a docparse dialog: status and text
    active,     \* generation: answers being formed
    rechecking, \* generation: a block is being checked again
    forming,    \* docparse: the document is being parsed
    task,       \* tasks that form answers
    parse,      \* the task that parses the document
    request     \* requests in progress

vars == <<process, dialog, row, last, summary, active, rechecking, forming,
          task, parse, request>>

memory == <<active, rechecking, forming>>

Outcomes == {"complete", "stopped", "error"}
Versions == {1, 2}  \* results of a check of one block
Runs == [Blocks -> Versions] \union {None}
Row == [status : {"streaming", "interrupted"} \union Outcomes, run : Runs]
Dialog == [kind : Kinds, state : {"absent", "hidden", "ready", "deleted"},
           title : {"none", "model", "user"}]
Summary == [status : {"streaming"} \union Outcomes, text : {"empty", "part", "full"}]
Task == [pc : {"produce", "save", "test", "store", "edit", "end"},
         outcome : Outcomes, titling : BOOLEAN]
Parse == [pc : {"read", "publish", "summarize", "save", "discard", "end"},
          outcome : Outcomes]
Locked == {"summary", "last", "commit"}  \* steps that hold the dialog row
Checking == {"test", "read", "write", "end"}  \* steps of a recheck
Request == [kind : {"send", "again", "memory", "recheck", "view", "open"},
            pc : {"asked", "look"} \union Locked \union Checking,
            answer : Answers \union {None},
            block : Blocks \union {None},
            seen : {"none"} \union {"streaming", "interrupted"} \union Outcomes,
            repair : BOOLEAN,
            copy : Runs]

ASSUME RecordAssumption == None \notin Row \union Summary \union [Blocks -> Versions]

TypeOK ==
    /\ process \in {"up", "stopping", "down"}
    /\ dialog \in Dialog
    /\ row \in [Answers -> Row \union {None}]
    /\ last \in Answers \union {None}
    /\ summary \in Summary \union {None}
    /\ active \in SUBSET Answers
    /\ rechecking \in BOOLEAN
    /\ forming \in BOOLEAN
    /\ task \in [Answers -> Task \union {None}]
    /\ parse \in Parse \union {None}
    /\ request \in [Requests -> Request \union {None}]
    /\ last # None => row[last] # None

\* A dialog of every kind but docparse is there from the beginning, empty.
Init ==
    /\ process = "up"
    /\ \E k \in Kinds :
         dialog = [kind |-> k, title |-> "none",
                   state |-> IF k = "docparse" THEN "absent" ELSE "ready"]
    /\ row = [a \in Answers |-> None]
    /\ last = None
    /\ summary = None
    /\ active = {}
    /\ rechecking = FALSE
    /\ forming = FALSE
    /\ task = [a \in Answers |-> None]
    /\ parse = None
    /\ request = [r \in Requests |-> None]
-----------------------------------------------------------------------------
(* Acceptance of a request under the lock of the dialog row.               *)

At(r, pc) == request[r] # None /\ request[r].pc = pc

LockFree == \A r \in Requests : request[r] # None => request[r].pc \notin Locked

StatusOf(a) == IF a = None \/ row[a] = None THEN "none" ELSE row[a].status

Fresh(a) ==
    /\ row[a] = None /\ task[a] = None /\ a \notin active
    /\ \A r \in Requests : request[r] # None => request[r].answer # a

New(kind, pc) ==
    [kind |-> kind, pc |-> pc, answer |-> None, block |-> None, seen |-> "none",
     repair |-> FALSE, copy |-> None]

Becomes(r, req) == request' = [request EXCEPT ![r] = req]
Goes(r, pc) == request' = [request EXCEPT ![r].pc = pc]

\* A question, its repetition, a change of what the dialog remembers.
Ask(r, kind) ==
    /\ process = "up" /\ request[r] = None
    /\ kind \in {"send", "again", "memory"}
    /\ Becomes(r, New(kind, "asked"))
    /\ UNCHANGED <<process, dialog, row, last, summary, memory, task, parse>>

\* A recheck finds its answer and block before it waits for the dialog.
AskRecheck(r, a, b) ==
    /\ process = "up" /\ request[r] = None /\ dialog.kind = "sql"
    /\ row[a] # None /\ row[a].run # None
    /\ Becomes(r, [New("recheck", "asked") EXCEPT !.answer = a, !.block = b])
    /\ UNCHANGED <<process, dialog, row, last, summary, memory, task, parse>>

\* An attempt: lock the row and read what it stands on.  An attempt that finds the
\* dialog busy changes nothing and is repeated.
Lock(r) ==
    /\ At(r, "asked") /\ dialog.state = "ready" /\ LockFree
    /\ \/ /\ dialog.kind = "docparse"
          /\ Becomes(r, [request[r] EXCEPT !.pc = "summary", !.seen = summary.status])
       \/ /\ dialog.kind # "docparse" /\ ~rechecking
          /\ Becomes(r, [request[r] EXCEPT !.pc = "last", !.seen = StatusOf(last)])
    /\ UNCHANGED <<process, dialog, row, last, summary, memory, task, parse>>

\* What an attempt has read is forgotten with it.
AskedAgain(r) ==
    [request[r] EXCEPT !.pc = "asked", !.seen = "none", !.repair = FALSE]

\* Mutated form: only a dialog with questions waits for its summary.
SummaryBlocksLater(r) == request[r].seen = "streaming" /\ forming /\ last # None

\* A summary read as unfinished blocks while it is being formed, else it is repaired.
SummaryBlocks(r) == request[r].seen = "streaming" /\ forming

CheckSummary(r) ==
    /\ At(r, "summary")
    /\ IF SummaryBlocks(r) THEN Becomes(r, AskedAgain(r))
       ELSE Becomes(r, [request[r] EXCEPT !.pc = "last", !.seen = StatusOf(last),
                                          !.repair = request[r].seen = "streaming"])
    /\ UNCHANGED <<process, dialog, row, last, summary, memory, task, parse>>

\* Repaired by UPDATE with no condition, with the text that was read: that of a summary
\* being written is empty.
CutShort == IF summary = None THEN None ELSE [status |-> "error", text |-> "empty"]

Repaired(r) == IF request[r].repair THEN CutShort ELSE summary

Idle == last \notin active

Busy(r) ==
    /\ At(r, "last") /\ ~Idle
    /\ summary' = Repaired(r)
    /\ Becomes(r, AskedAgain(r))
    /\ UNCHANGED <<process, dialog, row, last, memory, task, parse>>

\* Mutated form: the mark is left to the task.
MarkAnswerLate(r, a) ==
    /\ At(r, "last") /\ Idle /\ Fresh(a)
    /\ \/ request[r].kind = "send"
       \/ request[r].kind = "again" /\ last # None
    /\ Becomes(r, [request[r] EXCEPT !.pc = "commit", !.answer = a])
    /\ UNCHANGED <<process, dialog, row, last, summary, memory, task, parse>>

\* The dialog is idle: the mark is taken before the commit.
MarkAnswer(r, a) ==
    /\ At(r, "last") /\ Idle /\ Fresh(a)
    /\ \/ request[r].kind = "send"
       \/ request[r].kind = "again" /\ last # None
    /\ Becomes(r, [request[r] EXCEPT !.pc = "commit", !.answer = a])
    /\ active' = active \union {a}
    /\ UNCHANGED <<process, dialog, row, last, summary, rechecking, forming, task, parse>>

\* Mutated form: only the lock of the row keeps rechecks apart.
MarkRecheckUnmarked(r) ==
    /\ At(r, "last") /\ Idle /\ request[r].kind = "recheck"
    /\ Goes(r, "commit")
    /\ UNCHANGED <<process, dialog, row, last, summary, memory, task, parse>>

MarkRecheck(r) ==
    /\ At(r, "last") /\ Idle /\ request[r].kind = "recheck"
    /\ rechecking' = TRUE
    /\ Goes(r, "commit")
    /\ UNCHANGED <<process, dialog, row, last, summary, active, forming, task, parse>>

PassMemory(r) ==
    /\ At(r, "last") /\ Idle /\ request[r].kind = "memory"
    /\ Goes(r, "commit")
    /\ UNCHANGED <<process, dialog, row, last, summary, memory, task, parse>>

\* Mutated form: UPDATE by identifier.
InterruptedAnyway(rw) == IF rw # None THEN [rw EXCEPT !.status = "interrupted"] ELSE rw

\* UPDATE ... WHERE status = 'streaming'.
Interrupted(rw) ==
    IF rw # None /\ rw.status = "streaming" THEN [rw EXCEPT !.status = "interrupted"] ELSE rw

\* Mutated form: an abandoned answer is left as it is.
Unsettled(r) == row

\* A row left streaming by no living task is interrupted on the way.
Settled(r) ==
    IF last # None /\ request[r].seen = "streaming"
    THEN [row EXCEPT ![last] = Interrupted(@)] ELSE row

Empty == [status |-> "streaming", run |-> None]

Asking(r) == request[r].kind \in {"send", "again"}

\* Mutated form: a repetition deletes the last message after it added the new one.
WrittenThenDeleted(r) ==
    LET a == request[r].answer IN
        /\ summary' = Repaired(r)
        /\ row' = IF request[r].kind = "send" THEN [Settled(r) EXCEPT ![a] = Empty]
                  ELSE Settled(r)
        /\ last' = IF Asking(r) THEN a ELSE last

\* What the commit writes: the repairs, and the empty answer, at a repetition in place
\* of the last one.
Written(r) ==
    LET a == request[r].answer
        kept == IF request[r].kind = "again" THEN [Settled(r) EXCEPT ![last] = None]
                ELSE Settled(r)
    IN  /\ summary' = Repaired(r)
        /\ row' = IF Asking(r) THEN [kept EXCEPT ![a] = Empty] ELSE kept
        /\ last' = IF Asking(r) THEN a ELSE last

NeedsTitle == dialog.title = "none" /\ dialog.kind \in {"chat", "sql"}

Commit(r) ==
    /\ At(r, "commit")
    /\ Written(r)
    /\ task' = IF Asking(r)
               THEN [task EXCEPT ![request[r].answer] =
                       [pc |-> "produce", outcome |-> "error", titling |-> NeedsTitle]]
               ELSE task
    /\ Becomes(r, IF request[r].kind = "recheck"
                  THEN [request[r] EXCEPT !.pc = "test", !.seen = "none"] ELSE None)
    /\ UNCHANGED <<process, dialog, memory, parse>>

\* The refusal drops the mark that was taken for it.
Unmark(r) ==
    LET marked == At(r, "commit") IN
    /\ active' = IF marked /\ Asking(r) THEN active \ {request[r].answer} ELSE active
    /\ rechecking' = IF marked /\ request[r].kind = "recheck" THEN FALSE ELSE rechecking
    /\ UNCHANGED forming

\* A refusal, a failed commit, the end of the grace period: nothing is written.
Refuse(r) ==
    /\ request[r] # None
    /\ \/ request[r].pc \in {"asked", "last"}
       \/ At(r, "commit") /\ "commit" \in Faults
    /\ Unmark(r)
    /\ Becomes(r, None)
    /\ UNCHANGED <<process, dialog, row, last, summary, task, parse>>

\* The commit succeeds and its reply is lost: rows without a task.
CommitReplyLost(r) ==
    /\ "reply" \in Faults
    /\ At(r, "commit")
    /\ Written(r)
    /\ Unmark(r)
    /\ Becomes(r, None)
    /\ UNCHANGED <<process, dialog, task, parse>>
-----------------------------------------------------------------------------
(* The task of an answer.                                                  *)

Doing(a, pc) == process \in {"up", "stopping"} /\ task[a] # None /\ task[a].pc = pc
TaskGoes(a, pc) == task' = [task EXCEPT ![a].pc = pc]

\* Why a watched wait ends early: the client left, the term or the session ended, and at
\* the periodic look the message was found to be gone.
Interruptions(a) ==
    {"stopped", "generation_timeout", "session_ended"}
    \union (IF row[a] = None THEN {"dialog_deleted"} ELSE {})

OutcomeOf(why) == IF why = "stopped" THEN "stopped" ELSE "error"

\* The history is read, the knowledge base searched, the model streams: it ends or fails,
\* or the wait is interrupted.
Produce(a) ==
    /\ Doing(a, "produce")
    /\ \/ \E o \in {"complete", "error"} :
            task' = [task EXCEPT ![a].pc = "save", ![a].outcome = o]
       \/ \E why \in Interruptions(a) :
            task' = [task EXCEPT ![a].pc = IF why = "dialog_deleted" THEN "end" ELSE "save",
                                 ![a].outcome = OutcomeOf(why)]
    /\ UNCHANGED <<process, dialog, row, last, summary, memory, parse, request>>

\* UPDATE by identifier: nothing if the message is gone.
Saved(a, status) ==
    IF row[a] = None THEN row ELSE [row EXCEPT ![a].status = status]

\* A whole answer with sql blocks is tested, one of the code assistant becomes an edit.
AfterSave(a, next) ==
    \/ next = "end"
    \/ /\ task[a].outcome = "complete"
       /\ \/ next = "test" /\ dialog.kind = "sql"
          \/ next = "edit" /\ dialog.kind = "code"

Save(a) ==
    /\ Doing(a, "save")
    /\ row' = Saved(a, task[a].outcome)
    /\ \E next \in {"test", "edit", "end"} : AfterSave(a, next) /\ TaskGoes(a, next)
    /\ UNCHANGED <<process, dialog, last, summary, memory, parse, request>>

\* All attempts to save fail, the last one perhaps after it was committed.
SaveFails(a) ==
    /\ "save" \in Faults
    /\ Doing(a, "save")
    /\ row' \in {row, Saved(a, task[a].outcome)}
    /\ TaskGoes(a, "end")
    /\ UNCHANGED <<process, dialog, last, summary, memory, parse, request>>

\* The test run is over, cut off, or failed; what it found so far is stored.
Test(a) ==
    /\ Doing(a, "test")
    /\ \E next \in {"store", "end"} : TaskGoes(a, next)
    /\ UNCHANGED <<process, dialog, row, last, summary, memory, parse, request>>

Store(a) ==
    /\ Doing(a, "store")
    /\ \/ row' = IF row[a] = None THEN row ELSE [row EXCEPT ![a].run = [b \in Blocks |-> 1]]
       \/ "save" \in Faults /\ UNCHANGED row
    /\ TaskGoes(a, "end")
    /\ UNCHANGED <<process, dialog, last, summary, memory, parse, request>>

Edit(a) ==
    /\ Doing(a, "edit")
    /\ TaskGoes(a, "end")
    /\ UNCHANGED <<process, dialog, row, last, summary, memory, parse, request>>

\* Mutated form: UPDATE by identifier.
TitledAnyway == IF dialog.state = "ready" THEN [dialog EXCEPT !.title = "model"] ELSE dialog

\* Beside the answer, until its task ends: UPDATE ... WHERE title IS NULL.
Titled == IF dialog.state = "ready" /\ dialog.title = "none"
          THEN [dialog EXCEPT !.title = "model"] ELSE dialog

SaveTitle(a) ==
    /\ task[a] # None /\ task[a].titling /\ process \in {"up", "stopping"}
    /\ dialog' = Titled
    /\ task' = [task EXCEPT ![a].titling = FALSE]
    /\ UNCHANGED <<process, row, last, summary, memory, parse, request>>

\* Mutated form: the mark of an answer that was deleted meanwhile is not dropped.
FinishedKeepingMark(a) ==
    /\ active' = IF row[a] = None THEN active ELSE active \ {a}
    /\ task' = [task EXCEPT ![a] = None]
    /\ UNCHANGED <<rechecking, forming>>

\* The finally of _run.
Finished(a) ==
    /\ active' = active \ {a}
    /\ task' = [task EXCEPT ![a] = None]
    /\ UNCHANGED <<rechecking, forming>>

End(a) ==
    /\ Doing(a, "end")
    /\ Finished(a)
    /\ UNCHANGED <<process, dialog, row, last, summary, parse, request>>
-----------------------------------------------------------------------------
(* The task of a recheck.                                                  *)

\* The run of one block ends with a result to keep, or without one.
Recheck(r) ==
    /\ process \in {"up", "stopping"}
    /\ At(r, "test")
    /\ \E next \in {"read", "end"} : Goes(r, next)
    /\ UNCHANGED <<process, dialog, row, last, summary, memory, task, parse>>

\* _replace_block reads sql_run ...
ReadBlocks(r) ==
    LET a == request[r].answer IN
    /\ process \in {"up", "stopping"}
    /\ At(r, "read")
    /\ IF row[a] # None /\ row[a].run # None
       THEN Becomes(r, [request[r] EXCEPT !.pc = "write", !.copy = row[a].run])
       ELSE Goes(r, "end")
    /\ UNCHANGED <<process, dialog, row, last, summary, memory, task, parse>>

\* ... and writes it back with one block changed, without a lock in between.
WriteBlocks(r) ==
    LET a == request[r].answer IN
    /\ process \in {"up", "stopping"}
    /\ At(r, "write")
    /\ \/ /\ row[a] # None
          /\ \E v \in Versions :
               row' = [row EXCEPT ![a].run = [request[r].copy EXCEPT ![request[r].block] = v]]
       \/ /\ row[a] = None \/ "save" \in Faults
          /\ UNCHANGED row
    /\ Becomes(r, [request[r] EXCEPT !.pc = "end", !.copy = None])
    /\ UNCHANGED <<process, dialog, last, summary, memory, task, parse>>

RecheckFinished(r) ==
    /\ rechecking' = FALSE
    /\ Becomes(r, None)
    /\ UNCHANGED <<active, forming>>

EndRecheck(r) ==
    /\ process \in {"up", "stopping"}
    /\ At(r, "end")
    /\ RecheckFinished(r)
    /\ UNCHANGED <<process, dialog, row, last, summary, task, parse>>
-----------------------------------------------------------------------------
(* Readers.  They take no lock.                                            *)

\* GET messages, GET dialog: the database answers that something is unfinished ...
View(r) ==
    /\ process = "up" /\ request[r] = None /\ dialog.state = "ready"
    /\ \/ /\ StatusOf(last) = "streaming"
          /\ Becomes(r, [New("view", "look") EXCEPT !.answer = last])
       \/ /\ dialog.kind = "docparse" /\ summary.status = "streaming"
          /\ Becomes(r, New("open", "look"))
    /\ UNCHANGED <<process, dialog, row, last, summary, memory, task, parse>>

\* ... and what is done about it: if no task forms it by now, it is declared interrupted.
Look(r) ==
    LET a == request[r].answer IN
        /\ At(r, "look")
        /\ row' = IF request[r].kind = "view" /\ a \notin active
                  THEN [row EXCEPT ![a] = Interrupted(@)] ELSE row
        /\ summary' = IF request[r].kind = "open" /\ ~forming THEN CutShort ELSE summary
        /\ Becomes(r, None)
        /\ UNCHANGED <<process, dialog, last, memory, task, parse>>

Rename ==
    /\ process = "up" /\ dialog.state = "ready" /\ LockFree /\ dialog.kind # "code"
    /\ dialog' = [dialog EXCEPT !.title = "user"]
    /\ UNCHANGED <<process, row, last, summary, memory, task, parse, request>>

\* Messages and the parsing go with the row; a task in progress finds out by itself.
Delete ==
    /\ process = "up" /\ dialog.state = "ready" /\ LockFree /\ dialog.kind # "code"
    /\ dialog' = [dialog EXCEPT !.state = "deleted", !.title = "none"]
    /\ row' = [a \in Answers |-> None]
    /\ last' = None
    /\ summary' = None
    /\ UNCHANGED <<process, memory, task, parse, request>>
-----------------------------------------------------------------------------
(* The parsing of a document.  Its dialog is hidden until the table is     *)
(* there, then the summary is written beside the dialog in use.            *)

Parsing(pc) == process \in {"up", "stopping"} /\ parse # None /\ parse.pc = pc

StartParse ==
    /\ process = "up" /\ dialog.state = "absent"
    /\ dialog' = [dialog EXCEPT !.state = "hidden"]
    /\ \/ /\ forming' = TRUE
          /\ parse' = [pc |-> "read", outcome |-> "error"]
       \/ /\ "reply" \in Faults
          /\ UNCHANGED <<forming, parse>>
    /\ UNCHANGED <<process, row, last, summary, active, rechecking, task, request>>

\* Pages and fields, watched.
ReadDocument ==
    /\ Parsing("read")
    /\ \E next \in {"publish", "discard"} : parse' = [parse EXCEPT !.pc = next]
    /\ UNCHANGED <<process, dialog, row, last, summary, memory, task, request>>

Published ==
    /\ dialog' = [dialog EXCEPT !.state = "ready", !.title = "model"]
    /\ summary' = [status |-> "streaming", text |-> "empty"]

Publish ==
    /\ Parsing("publish")
    /\ Published
    /\ parse' = [parse EXCEPT !.pc = "summarize"]
    /\ UNCHANGED <<process, row, last, memory, task, request>>

PublishFails ==
    /\ Parsing("publish")
    /\ \/ "commit" \in Faults /\ UNCHANGED <<dialog, summary>>
       \/ "reply" \in Faults /\ Published
    /\ parse' = [parse EXCEPT !.pc = "discard"]
    /\ UNCHANGED <<process, row, last, memory, task, request>>

Summarize ==
    /\ Parsing("summarize")
    /\ \/ \E o \in Outcomes : parse' = [pc |-> "save", outcome |-> o]
       \/ parse' = [parse EXCEPT !.pc = "end"]  \* an error of no expected kind
    /\ UNCHANGED <<process, dialog, row, last, summary, memory, task, request>>

SummarySaved ==
    IF summary = None THEN None
    ELSE [status |-> parse.outcome,
          text |-> IF parse.outcome = "complete" THEN "full" ELSE "part"]

SaveSummary ==
    /\ Parsing("save")
    /\ \/ summary' = SummarySaved
       \/ "save" \in Faults /\ UNCHANGED summary
    /\ parse' = [parse EXCEPT !.pc = "end"]
    /\ UNCHANGED <<process, dialog, row, last, memory, task, request>>

\* Only a dialog that is still hidden is deleted.
Unhidden == IF dialog.state = "hidden" THEN [dialog EXCEPT !.state = "deleted"] ELSE dialog

Discard ==
    /\ Parsing("discard")
    /\ \/ dialog' = Unhidden
       \/ "save" \in Faults /\ UNCHANGED dialog
    /\ parse' = [parse EXCEPT !.pc = "end"]
    /\ UNCHANGED <<process, row, last, summary, memory, task, request>>

EndParse ==
    /\ Parsing("end")
    /\ forming' = FALSE
    /\ parse' = None
    /\ UNCHANGED <<process, dialog, row, last, summary, active, rechecking, task, request>>
-----------------------------------------------------------------------------
(* The process.                                                            *)

\* The stop cancels the tasks at whatever they wait for.
Stop ==
    /\ process = "up" /\ \A r \in Requests : request[r] # None => request[r].pc \in Checking
    /\ process' = "stopping"
    /\ UNCHANGED <<dialog, row, last, summary, memory, task, parse, request>>

Cancelled ==
    /\ process = "stopping"
    /\ \/ \E a \in Answers : task[a] # None /\ Finished(a) /\ UNCHANGED <<parse, request>>
       \/ /\ \E r \in Requests : request[r] # None /\ RecheckFinished(r)
          /\ UNCHANGED <<task, parse>>
       \/ /\ parse # None /\ parse.pc # "end"
          /\ parse' = [parse EXCEPT !.pc =
                         IF parse.pc \in {"read", "publish"} THEN "discard" ELSE "end"]
          /\ UNCHANGED <<memory, task, request>>
    /\ UNCHANGED <<process, dialog, row, last, summary>>

Wiped ==
    /\ process' = "down"
    /\ active' = {} /\ rechecking' = FALSE /\ forming' = FALSE
    /\ task' = [a \in Answers |-> None]
    /\ parse' = None
    /\ request' = [r \in Requests |-> None]

Exit ==
    /\ process = "stopping" /\ parse = None
    /\ \A a \in Answers : task[a] = None
    /\ \A r \in Requests : request[r] = None
    /\ Wiped
    /\ UNCHANGED <<dialog, row, last, summary>>

Crash ==
    /\ "crash" \in Faults /\ process # "down"
    /\ Wiped
    /\ UNCHANGED <<dialog, row, last, summary>>

\* Before it serves, the process settles what the former one left.
Start ==
    /\ process = "down"
    /\ process' = "up"
    /\ row' = [a \in Answers |-> Interrupted(row[a])]
    /\ summary' = IF summary # None /\ summary.status = "streaming"
                  THEN [summary EXCEPT !.status = "error"] ELSE summary
    /\ dialog' = Unhidden
    /\ UNCHANGED <<last, memory, task, parse, request>>
-----------------------------------------------------------------------------
Accept(r) ==
    \/ Lock(r) \/ CheckSummary(r) \/ Busy(r) \/ MarkRecheck(r) \/ PassMemory(r)
    \/ \E a \in Answers : MarkAnswer(r, a)
    \/ Commit(r) \/ Refuse(r) \/ CommitReplyLost(r)

Answering(a) ==
    Produce(a) \/ Save(a) \/ SaveFails(a) \/ Test(a) \/ Store(a) \/ Edit(a) \/ End(a)

Rechecking(r) == Recheck(r) \/ ReadBlocks(r) \/ WriteBlocks(r) \/ EndRecheck(r)

ParseStep ==
    \/ ReadDocument \/ Publish \/ PublishFails \/ Summarize \/ SaveSummary
    \/ Discard \/ EndParse

Next ==
    \/ \E r \in Requests :
         \/ \E kind \in {"send", "again", "memory"} : Ask(r, kind)
         \/ \E a \in Answers, b \in Blocks : AskRecheck(r, a, b)
         \/ Accept(r) \/ Rechecking(r) \/ View(r) \/ Look(r)
    \/ \E a \in Answers : Answering(a) \/ SaveTitle(a)
    \/ Rename \/ Delete
    \/ StartParse \/ ParseStep
    \/ Stop \/ Cancelled \/ Exit \/ Crash \/ Start

Spec == Init /\ [][Next]_vars

\* Tasks and requests are run by the event loop, waits in them have terms (of the answer,
\* of a test, of the grace period), and the process is started again.
Fairness ==
    /\ \A r \in Requests : WF_vars(Accept(r)) /\ WF_vars(Rechecking(r)) /\ WF_vars(Look(r))
    /\ \A a \in Answers : WF_vars(Answering(a))
    /\ WF_vars(ParseStep)
    /\ WF_vars(Cancelled) /\ WF_vars(Exit) /\ WF_vars(Start)

FairSpec == Spec /\ Fairness

-----------------------------------------------------------------------------
(* What it is for.                                                         *)

Workers ==
    {a \in Answers : task[a] # None}
    \union {r \in Requests : request[r] # None /\ request[r].pc \in Checking}
    \union (IF parse # None /\ parse.pc \in {"summarize", "save"} THEN {"parse"} ELSE {})

\* One thing at a time: never two of an answer with its checks, a recheck, a summary
\* being written, whatever requests, readers, stops and failures come between.
OneWorker == Cardinality(Workers) <= 1

\* What a living task is still to save is unfinished in the database: no reader, no
\* other request and no restart has declared it interrupted, and a question does not
\* come after it.
WorkIsNotInterrupted ==
    /\ \A a \in Answers :
         task[a] # None /\ task[a].pc \in {"produce", "save"} /\ row[a] # None
           => row[a].status = "streaming" /\ a = last
    /\ parse # None /\ parse.pc \in {"summarize", "save"} /\ summary # None
         => summary.status = "streaming"

\* An answer that nobody forms any more is settled before the next question is put: only
\* the last message of a dialog can be unfinished.
OnlyLastUnfinished ==
    \A a \in Answers : row[a] # None /\ row[a].status = "streaming" => a = last

\* The work of a dialog is done by one task at a time, on its last message, and nobody
\* takes it for dead.
OneThingAtATime == OneWorker /\ WorkIsNotInterrupted /\ OnlyLastUnfinished

\* A saved answer keeps its state: a reader or a request that has read it as unfinished
\* does not declare it interrupted afterwards, no task saves it twice.
SavedStays ==
    [][\A a \in Answers :
         row[a] # None /\ row[a].status # "streaming" /\ row'[a] # None
           => row'[a].status = row[a].status]_row

\* A recheck replaces the record of its own block, from a copy no other recheck has
\* overtaken.
RecheckKeepsOtherBlocks ==
    [][\A a \in Answers :
         row[a] # None /\ row'[a] # None /\ row[a].run # None
           => /\ row'[a].run # None
              /\ Cardinality({b \in Blocks : row'[a].run[b] # row[a].run[b]}) <= 1]_row

\* The title a user gave is not replaced by the one asked of the model before.
UserTitleStays ==
    [][dialog.title = "user" /\ dialog'.state = "ready" => dialog'.title = "user"]_dialog

\* Nothing is written over what came later: over a saved answer, the record of another
\* block, the title of the user.
NothingSavedIsOverwritten == SavedStays /\ RecheckKeepsOtherBlocks /\ UserTitleStays

\* No dialog is locked for good: its marks are all dropped again and again, whether
\* answers are saved or not, deleted in the middle, or the process dies.
IdleAgain == []<>(active = {} /\ ~rechecking /\ ~forming)

=============================================================================
