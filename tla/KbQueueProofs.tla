--------------------------- MODULE KbQueueProofs ---------------------------
(***************************************************************************)
(* The safety of KbQueue for every set of documents, jobs and places and    *)
(* every limit of attempts: types, places and the job table whether or not  *)
(* replies of commits are lost, the statuses of documents if none is.       *)
(***************************************************************************)
EXTENDS KbQueue, TLAPS

(* A task and the row of its job, while there is one, speak of one document *)
(* and kind: uuid4 is not given out twice.                                  *)
Agreement ==
    \A s \in Busy : HasRow(s) =>
        jobs[task[s].id].doc = task[s].doc /\ jobs[task[s].id].kind = task[s].kind

(* Worker._processing is exactly the documents under index or reprocess. *)
ProcessingExact ==
    /\ \A s \in Busy : OfKind(s, ProcessingKinds) => task[s].doc \in processing
    /\ \A d \in processing :
        \E s \in Busy : OfKind(s, ProcessingKinds) /\ task[s].doc = d

(* A delete task never drops its job. *)
DeleteKeepsTrying ==
    \A s \in Busy : OfKind(s, {"delete"}) => task[s].pc \notin {"abandoning", "givingUp"}

(* A document that was never added carries no mark of deletion. *)
NoneUnmarked == \A d \in Docs : docs[d].status = "none" => ~docs[d].deleted

(* The inductive invariant. *)
TableInv ==
    /\ TypeOK
    /\ Agreement
    /\ ProcessingExact
    /\ OneProcessingTask
    /\ OneRowPerKind
    /\ DeletionIsOrdered
    /\ NoneUnmarked
    /\ DeleteKeepsTrying

-----------------------------------------------------------------------------
(* Types. *)

LEMMA InitTypeOK == Init => TypeOK
<1> SUFFICES ASSUME Init PROVE TypeOK  OBVIOUS
<1>1. docs \in [Docs -> DocRow]  BY DEF Init, DocRow, Statuses
<1>2. jobs \in [JobIds -> JobRow \union {NoRow}]  BY DEF Init
<1>3. task \in [Slots -> TaskRow \union {Idle}]  BY DEF Init
<1> QED  BY <1>1, <1>2, <1>3 DEF Init, TypeOK

(* A change of the state, of the deletion or of the mark of one document. *)
LEMMA DocsType ==
  ASSUME TypeOK, NEW d \in Docs, NEW st \in Statuses, NEW b \in BOOLEAN, NEW m \in BOOLEAN
  PROVE  /\ [docs EXCEPT ![d].status = st] \in [Docs -> DocRow]
         /\ [docs EXCEPT ![d].deleted = b] \in [Docs -> DocRow]
         /\ [docs EXCEPT ![d].mark = m] \in [Docs -> DocRow]
         /\ [docs EXCEPT ![d].mark = m, ![d].status = st] \in [Docs -> DocRow]
         /\ [docs EXCEPT ![d].status = st, ![d].mark = m] \in [Docs -> DocRow]
<1>1. docs \in [Docs -> DocRow]  BY DEF TypeOK
<1>2. ASSUME NEW rows \in [Docs -> DocRow]
      PROVE  /\ [rows EXCEPT ![d].status = st] \in [Docs -> DocRow]
             /\ [rows EXCEPT ![d].deleted = b] \in [Docs -> DocRow]
             /\ [rows EXCEPT ![d].mark = m] \in [Docs -> DocRow]
  <2>1. rows[d] \in DocRow  OBVIOUS
  <2>2. /\ [rows[d] EXCEPT !.status = st] \in DocRow
        /\ [rows[d] EXCEPT !.deleted = b] \in DocRow
        /\ [rows[d] EXCEPT !.mark = m] \in DocRow
    BY <2>1 DEF DocRow
  <2> QED  BY <2>2
<1>3. [[docs EXCEPT ![d].mark = m] EXCEPT ![d].status = st] \in [Docs -> DocRow]
  BY <1>1, <1>2
<1>4. [[docs EXCEPT ![d].status = st] EXCEPT ![d].mark = m] \in [Docs -> DocRow]
  BY <1>1, <1>2
<1> QED  BY <1>1, <1>2, <1>3, <1>4

LEMMA NewJobType ==
  ASSUME NEW d \in Docs, NEW k \in Kinds, NEW p \in Priorities
  PROVE  NewJob(d, k, p) \in JobRow
  BY DEF NewJob, JobRow

LEMMA WithoutType ==
  ASSUME TypeOK, NEW d \in Docs, NEW kinds
  PROVE  Without(d, kinds) \in [JobIds -> JobRow \union {NoRow}]
  BY DEF TypeOK, Without

LEMMA DefaultPriorityType ==
  \A k \in Kinds : DefaultPriority[k] \in Priorities
  BY DEF DefaultPriority, Kinds, Priorities

LEMMA RequestType ==
  ASSUME TypeOK, NEW d \in Docs, Request(d)
  PROVE  TypeOK'
<1> USE DEF memory
<1>0. /\ DefaultPriority["index"] \in Priorities /\ DefaultPriority["delete"] \in Priorities
      /\ DefaultPriority["reprocess"] \in Priorities
      /\ "index" \in Kinds /\ "delete" \in Kinds /\ "reprocess" \in Kinds
  BY DefaultPriorityType DEF Kinds
<1>1. docs' \in [Docs -> DocRow]
  <2>1. "queued" \in Statuses /\ docs \in [Docs -> DocRow]  BY DEF Statuses, TypeOK
  <2>2. /\ [docs EXCEPT ![d].status = "queued"] \in [Docs -> DocRow]
        /\ [docs EXCEPT ![d].deleted = TRUE] \in [Docs -> DocRow]
        /\ [docs EXCEPT ![d].mark = FALSE] \in [Docs -> DocRow]
    BY <2>1, DocsType
  <2> QED  BY <2>1, <2>2
           DEF Request, Upload, Delete, RetryError, RetryReprocess, Reindex, ReprocessStart
<1>2. jobs' \in [JobIds -> JobRow \union {NoRow}]
  <2>1. CASE Upload(d)  BY <2>1, <1>0, NewJobType DEF Upload, TypeOK
  <2>2. CASE Delete(d)  BY <2>2, <1>0, NewJobType, WithoutType DEF Delete, TypeOK
  <2>3. CASE RetryError(d)  BY <2>3, <1>0, NewJobType DEF RetryError, TypeOK
  <2>4. CASE RetryReprocess(d)
    BY <2>4, <1>0, NewJobType DEF RetryReprocess, TypeOK, RowsOf, Rows, JobRow
  <2>5. CASE Reindex(d)
    <3> DEFINE table == Without(d, {"reprocess", "context"})
    <3>1. table \in [JobIds -> JobRow \union {NoRow}]  BY WithoutType
    <3>2. \A j \in RowsOf(d, {"index"}) : table[j] = jobs[j] /\ jobs[j] \in JobRow
      BY DEF Without, RowsOf, Rows, TypeOK
    <3>3. NewJob(d, "index", DefaultPriority["index"]) \in JobRow  BY <1>0, NewJobType
    <3> HIDE DEF table
    <3>4. jobs' \in ResetOrAdd(d, table)  BY <2>5 DEF Reindex, table
    <3>5. RowsOf(d, {"index"}) \subseteq JobIds  BY DEF RowsOf, Rows
    <3>6. CASE RowsOf(d, {"index"}) = {}
      BY <3>1, <3>3, <3>4, <3>6 DEF ResetOrAdd, NewIndexJob
    <3>7. CASE RowsOf(d, {"index"}) # {}
      <4>1. PICK j \in RowsOf(d, {"index"}) :
              jobs' = [table EXCEPT ![j].attempts = 0, ![j].due = TRUE]
        BY <3>4, <3>7 DEF ResetOrAdd
      <4>2. table[j] \in JobRow  BY <3>2
      <4>3. [[table[j] EXCEPT !.attempts = 0] EXCEPT !.due = TRUE] \in JobRow
        BY <4>2 DEF JobRow
      <4> QED  BY <3>1, <3>5, <4>1, <4>3
    <3> QED  BY <3>6, <3>7
  <2>6. CASE ReprocessStart(d)  BY <2>6, <1>0, NewJobType DEF ReprocessStart, TypeOK
  <2> QED  BY <2>1, <2>2, <2>3, <2>4, <2>5, <2>6 DEF Request
<1>3. UNCHANGED <<paused, memory>>
  BY DEF Request, Upload, Delete, RetryError, RetryReprocess, Reindex, ReprocessStart
<1> QED  BY <1>1, <1>2, <1>3 DEF TypeOK

LEMMA TakenType ==
  ASSUME TypeOK, NEW j \in JobIds, jobs[j] \in JobRow
  PROVE  Taken(j) \in [JobIds -> JobRow \union {NoRow}] /\ Taken(j)[j] \in JobRow
<1> DEFINE n == IF jobs[j].kind = "delete" \/ jobs[j].attempts >= AttemptsCap
                THEN jobs[j].attempts ELSE jobs[j].attempts + 1
           row == [[jobs[j] EXCEPT !.lease = "held"] EXCEPT !.attempts = n]
<1>1. n \in Nat  BY BoundsAssumption DEF JobRow
<1>2. row \in JobRow
  <2> HIDE DEF n
  <2> QED  BY <1>1 DEF JobRow
<1>3. Taken(j) = [jobs EXCEPT ![j] = row]  BY DEF Taken, TypeOK, JobRow
<1> QED  BY <1>2, <1>3 DEF TypeOK

LEMMA ClockType ==
  ASSUME TypeOK, NEW j \in JobIds, Clock(j) \/ ClaimReplyLost(j)
  PROVE  TypeOK'
<1> USE DEF memory
<1>1. CASE Clock(j)
  <2>1. jobs[j] \in JobRow  BY <1>1 DEF Clock, LeaseExpires, BecomesDue, Rows, TypeOK
  <2>2. /\ [jobs[j] EXCEPT !.lease = "expired"] \in JobRow
        /\ [jobs[j] EXCEPT !.due = TRUE] \in JobRow
    BY <2>1 DEF JobRow
  <2> QED  BY <1>1, <2>2 DEF Clock, LeaseExpires, BecomesDue, TypeOK
<1>2. CASE ClaimReplyLost(j)
  <2>1. jobs[j] \in JobRow  BY <1>2 DEF ClaimReplyLost, NextInTurn, Rows, TypeOK
  <2>2. Taken(j) \in [JobIds -> JobRow \union {NoRow}]  BY <2>1, TakenType
  <2> QED  BY <1>2, <2>2 DEF ClaimReplyLost, TypeOK
<1> QED  BY <1>1, <1>2

LEMMA ProcessType ==
  ASSUME TypeOK, Process
  PROVE  TypeOK'
<1> USE DEF database
<1>1. CASE Start
  <2>1. "queued" \in Statuses  BY DEF Statuses
  <2>2. \A d \in Docs : [docs[d] EXCEPT !.status = "queued"] \in DocRow
    BY <2>1 DEF TypeOK, DocRow
  <2>3. docs' \in [Docs -> DocRow]  BY <1>1, <2>2 DEF Start, TypeOK
  <2> QED  BY <1>1, <2>3 DEF Start, TypeOK
<1>2. CASE Crash  BY <1>2 DEF Crash, TypeOK
<1>3. CASE Stop
  <2>1. \A s \in Slots : task[s] # Idle => [task[s] EXCEPT !.cancelled = TRUE] \in TaskRow
    BY DEF TypeOK, TaskRow
  <2> QED  BY <1>3, <2>1 DEF Stop, TypeOK
<1>4. CASE Stopped  BY <1>4 DEF Stopped, TypeOK
<1> QED  BY <1>1, <1>2, <1>3, <1>4 DEF Process

LEMMA ClaimType ==
  ASSUME TypeOK, NEW s \in Slots, NEW j \in JobIds, Claim(s, j)
  PROVE  TypeOK'
<1>1. jobs[j] \in JobRow  BY DEF Claim, NextInTurn, Rows, TypeOK
<1>2. Taken(j) \in [JobIds -> JobRow \union {NoRow}] /\ Taken(j)[j] \in JobRow
  BY <1>1, TakenType
<1>3. jobs'[j].attempts \in Nat  BY <1>2 DEF Claim, JobRow
<1>4. FirstStep(j) \in Steps  BY DEF FirstStep, Steps
<1>5. [id |-> j, doc |-> jobs[j].doc, kind |-> jobs[j].kind,
       prio |-> jobs[j].prio, attempts |-> jobs'[j].attempts,
       pc |-> FirstStep(j), renewing |-> TRUE, cancelled |-> FALSE] \in TaskRow
  BY <1>1, <1>3, <1>4 DEF JobRow, TaskRow
<1> QED  BY <1>1, <1>2, <1>5 DEF Claim, TypeOK, JobRow

(* A claim fills a free place with a task of that job. *)
LEMMA ClaimedTask ==
  ASSUME TypeOK, NEW s \in Slots, NEW j \in JobIds, Claim(s, j)
  PROVE  task'[s] # Idle /\ task'[s].id = j
<1>1. jobs[j] \in JobRow  BY DEF Claim, NextInTurn, Rows, TypeOK
<1> DEFINE t == [id |-> j, doc |-> jobs[j].doc, kind |-> jobs[j].kind,
                 prio |-> jobs[j].prio, attempts |-> jobs'[j].attempts,
                 pc |-> FirstStep(j), renewing |-> TRUE, cancelled |-> FALSE]
<1>2. jobs'[j].attempts \in Nat
  <2>1. Taken(j)[j] \in JobRow  BY <1>1, TakenType
  <2> QED  BY <2>1 DEF Claim, JobRow
<1>3. FirstStep(j) \in Steps  BY DEF FirstStep, Steps
<1>4. t \in TaskRow  BY <1>1, <1>2, <1>3 DEF JobRow, TaskRow
<1>5. task'[s] = t  BY DEF Claim, TypeOK
<1>6. t # Idle  BY <1>4, MarkersAssumption
<1>7. t.id = j  OBVIOUS
<1> QED  BY <1>5, <1>6, <1>7

(* A task only moves: what the steps of a task leave in its place. *)
LEMMA MovedType ==
  ASSUME TypeOK, NEW s \in Slots, task[s] # Idle,
         NEW pc \in Steps, NEW r \in BOOLEAN, NEW c \in BOOLEAN
  PROVE  /\ [task EXCEPT ![s].pc = pc] \in [Slots -> TaskRow \union {Idle}]
         /\ [task EXCEPT ![s].renewing = r, ![s].pc = pc] \in [Slots -> TaskRow \union {Idle}]
         /\ [task EXCEPT ![s].cancelled = c, ![s].renewing = r]
              \in [Slots -> TaskRow \union {Idle}]
<1>1. task[s] \in TaskRow  BY DEF TypeOK
<1>2. /\ [task[s] EXCEPT !.pc = pc] \in TaskRow
      /\ [[task[s] EXCEPT !.renewing = r] EXCEPT !.pc = pc] \in TaskRow
      /\ [[task[s] EXCEPT !.cancelled = c] EXCEPT !.renewing = r] \in TaskRow
  BY <1>1 DEF TaskRow
<1> QED  BY <1>2 DEF TypeOK

LEMMA GoesType ==
  ASSUME TypeOK, NEW s \in Slots, task[s] # Idle, NEW pc \in Steps, Goes(s, pc)
  PROVE  task' \in [Slots -> TaskRow \union {Idle}]
<1>1. (IF task[s].cancelled THEN "unwinding" ELSE pc) \in Steps  BY DEF Steps
<1> QED  BY <1>1, MovedType DEF Goes

LEMMA RenewType ==
  ASSUME TypeOK, NEW s \in Slots, Renew(s)
  PROVE  TypeOK'
<1>1. task[s] \in TaskRow  BY DEF Renew, TypeOK
<1>2. task[s].id \in JobIds  BY <1>1 DEF TaskRow
<1>3. CASE task[s].id \in Rows
  <2>1. [jobs[task[s].id] EXCEPT !.lease = "held"] \in JobRow
    BY <1>2, <1>3 DEF Rows, TypeOK, JobRow
  <2> QED  BY <1>2, <1>3, <2>1 DEF Renew, TypeOK
<1>4. CASE task[s].id \notin Rows
  <2>1. task' \in [Slots -> TaskRow \union {Idle}]
    <3>1. "closed" \in Steps  BY DEF Steps
    <3>2. [task EXCEPT ![s].cancelled = TRUE, ![s].renewing = FALSE]
             \in [Slots -> TaskRow \union {Idle}]
      BY <3>1, MovedType DEF Renew
    <3> QED  BY <1>4, <3>2 DEF Renew
  <2> QED  BY <1>2, <1>4, <2>1 DEF Renew, TypeOK
<1> QED  BY <1>3, <1>4

LEMMA BusyTask ==
  ASSUME TypeOK, NEW s \in Slots, task[s] # Idle
  PROVE  /\ task[s] \in TaskRow /\ task[s].id \in JobIds /\ task[s].doc \in Docs
         /\ task[s].kind \in Kinds /\ task[s].pc \in Steps
  BY DEF TypeOK, TaskRow

LEMMA CompletedType ==
  ASSUME TypeOK, NEW s \in Slots, task[s] # Idle, jobs' \in Completed(s)
  PROVE  jobs' \in [JobIds -> JobRow \union {NoRow}]
<1>1. ContextPriority(s) \in Priorities
  BY DefaultPriorityType DEF ContextPriority, BulkContextPriority, Priorities, Kinds
<1>2. NewJob(task[s].doc, "context", ContextPriority(s)) \in JobRow
  BY <1>1, BusyTask, NewJobType DEF Kinds
<1>3. task[s].id \in JobIds  BY BusyTask
<1> QED  BY <1>2, <1>3 DEF Completed, DoneWithContext, TypeOK

LEMMA WorkType ==
  ASSUME TypeOK, NEW s \in Slots, Work(s)
  PROVE  TypeOK'
<1> USE DEF database
<1>0. task[s] # Idle
  BY DEF Work, StartIndex, StartReprocess, TakePortion, SavePortion, Erase, Replace, CleanUp,
         NoticeWithdrawal, YieldPoint, WorkFails, Reject, At
<1>1. /\ task[s] \in TaskRow /\ task[s].id \in JobIds /\ task[s].doc \in Docs
  BY <1>0, BusyTask
<1>2. {"working", "abandoning", "closed", "requeueing", "replaced", "yielding", "postponing",
       "givingUp", "unwinding"} \subseteq Steps
  BY DEF Steps
<1>3. {"processing", "erased", "ready"} \subseteq Statuses  BY DEF Statuses
<1>4. AfterFailure(s) \in Steps  BY <1>2 DEF AfterFailure
<1>5. CASE StartIndex(s)
  <2>1. task' \in [Slots -> TaskRow \union {Idle}]
    BY <1>0, <1>2, <1>5, GoesType DEF StartIndex
  <2>2. docs' \in [Docs -> DocRow]
    <3>1. [docs EXCEPT ![task[s].doc].status = "processing"] \in [Docs -> DocRow]
      BY <1>1, <1>3, DocsType
    <3> QED  BY <1>5, <3>1 DEF StartIndex, TypeOK
  <2> QED  BY <1>5, <2>1, <2>2 DEF StartIndex, TypeOK
<1>6. CASE StartReprocess(s)
  BY <1>0, <1>2, <1>6, GoesType DEF StartReprocess, TypeOK
<1>7. CASE TakePortion(s)
  <2>1. task' \in [Slots -> TaskRow \union {Idle}]
    BY <1>0, <1>2, <1>7, GoesType DEF TakePortion
  <2> QED  BY <1>1, <1>7, <2>1 DEF TakePortion, TypeOK
<1>8. CASE SavePortion(s)
  <2>1. task' \in [Slots -> TaskRow \union {Idle}]
    <3>1. /\ [task EXCEPT ![s].renewing = FALSE, ![s].pc = "unwinding"]
               \in [Slots -> TaskRow \union {Idle}]
          /\ [task EXCEPT ![s].renewing = FALSE, ![s].pc = "requeueing"]
               \in [Slots -> TaskRow \union {Idle}]
      BY <1>0, <1>2, MovedType
    <3>2. CASE Goes(s, "abandoning")  BY <1>0, <1>2, <3>2, GoesType
    <3>3. CASE ~Goes(s, "abandoning")  BY <1>8, <3>1, <3>3 DEF SavePortion
    <3> QED  BY <3>2, <3>3
  <2> QED  BY <1>8, <2>1 DEF SavePortion, TypeOK
<1>9. CASE Erase(s)
  <2>1. task' \in [Slots -> TaskRow \union {Idle}]
    BY <1>0, <1>2, <1>9, GoesType DEF Erase
  <2>2. docs' \in [Docs -> DocRow]  BY <1>1, <1>3, <1>9, DocsType DEF Erase
  <2>3. jobs' \in [JobIds -> JobRow \union {NoRow}]  BY <1>1, <1>9, WithoutType DEF Erase
  <2> QED  BY <1>9, <2>1, <2>2, <2>3 DEF Erase, TypeOK
<1>10. CASE Replace(s)
  <2>1. task' \in [Slots -> TaskRow \union {Idle}]
    BY <1>0, <1>2, <1>4, <1>10, GoesType DEF Replace
  <2>2. docs' \in [Docs -> DocRow]
    <3> DEFINE st == IF task[s].kind = "index" THEN "ready" ELSE docs[task[s].doc].status
    <3>1. st \in Statuses  BY <1>1, <1>3 DEF TypeOK, DocRow
    <3>2. [docs EXCEPT ![task[s].doc].mark = FALSE, ![task[s].doc].status = st]
             \in [Docs -> DocRow]
      BY <1>1, <3>1, DocsType
    <3>3. CASE StillWanted(s)
      <4>1. docs' = [docs EXCEPT ![task[s].doc].mark = FALSE, ![task[s].doc].status = st]
        BY <1>1, <1>10, <3>3 DEF Replace, TypeOK, DocRow
      <4> QED  BY <3>2, <4>1
    <3>4. CASE ~StillWanted(s)  BY <1>10, <3>4 DEF Replace, TypeOK
    <3> QED  BY <3>3, <3>4
  <2>3. jobs' \in [JobIds -> JobRow \union {NoRow}]
    BY <1>0, <1>10, CompletedType DEF Replace, TypeOK
  <2> QED  BY <1>10, <2>1, <2>2, <2>3 DEF Replace, TypeOK
<1>11. CASE CleanUp(s)  BY <1>0, <1>2, <1>11, MovedType DEF CleanUp, TypeOK
<1>12. CASE NoticeWithdrawal(s)
  BY <1>0, <1>2, <1>12, GoesType DEF NoticeWithdrawal, TypeOK
<1>13. CASE YieldPoint(s)  BY <1>0, <1>2, <1>13, MovedType DEF YieldPoint, TypeOK
<1>14. CASE WorkFails(s)  BY <1>0, <1>4, <1>14, GoesType DEF WorkFails, TypeOK
<1>15. CASE Reject(s)  BY <1>0, <1>2, <1>15, GoesType DEF Reject, TypeOK
<1> QED
  BY <1>5, <1>6, <1>7, <1>8, <1>9, <1>10, <1>11, <1>12, <1>13, <1>14, <1>15 DEF Work

(* What the outcomes write to the row of the job. *)
(* What a task that returns its job leaves in the row, if there is one.     *)
RowReturned(s) ==
  \/ jobs' = RowBecomes(s, [jobs[task[s].id] EXCEPT !.lease = "free", !.attempts = 0])
  \/ jobs' = RowBecomes(s, [jobs[task[s].id] EXCEPT !.lease = "free", !.due = FALSE])
  \/ jobs' = RowBecomes(s, [jobs[task[s].id] EXCEPT !.lease = "free", !.attempts = Uncounted(@)])

LEMMA TaskReturns ==
  ASSUME NEW s \in Slots, YieldTurn(s) \/ Requeue(s) \/ Postpone(s)
  PROVE  RowReturned(s)
BY DEF YieldTurn, Requeue, Postpone, RowReturned

LEMMA ReleaseReturns ==
  ASSUME NEW s \in Slots, Release(s)
  PROVE  \/ UNCHANGED <<docs, jobs>>
         \/ RowReturned(s) /\ docs' = Label(s)
BY DEF Release, RowReturned

LEMMA RowReturnedType ==
  ASSUME TypeOK, NEW s \in Slots, task[s] # Idle, RowReturned(s)
  PROVE  jobs' \in [JobIds -> JobRow \union {NoRow}]
<1> DEFINE row == jobs[task[s].id]
<1>1. task[s].id \in JobIds  BY BusyTask
<1>2. CASE ~HasRow(s)  BY <1>2 DEF RowReturned, RowBecomes, TypeOK
<1>3. CASE HasRow(s)
  <2>1. row \in JobRow  BY <1>1, <1>3 DEF HasRow, Rows, TypeOK
  <2>2. Uncounted(row.attempts) \in Nat  BY <2>1 DEF Uncounted, JobRow
  <2>3. /\ [row EXCEPT !.lease = "free", !.attempts = 0] \in JobRow
        /\ [row EXCEPT !.lease = "free", !.due = FALSE] \in JobRow
    BY <2>1 DEF JobRow
  <2>4. [row EXCEPT !.lease = "free", !.attempts = Uncounted(@)] \in JobRow
    BY <2>1, <2>2 DEF JobRow
  <2>5. \E r \in JobRow : jobs' = [jobs EXCEPT ![task[s].id] = r]
    BY <1>3, <2>3, <2>4 DEF RowReturned, RowBecomes
  <2> QED  BY <1>1, <2>5 DEF TypeOK
<1> QED  BY <1>2, <1>3

LEMMA OutcomeType ==
  ASSUME TypeOK, NEW s \in Slots, Outcome(s)
  PROVE  TypeOK'
<1> USE DEF database
<1>0. task[s] # Idle
  BY DEF Outcome, YieldTurn, Requeue, Postpone, GiveUp, Abandon, OutcomeNotSaved, Interrupted,
         DropWithdrawn, Release, End, At
<1>1. /\ task[s] \in TaskRow /\ task[s].id \in JobIds /\ task[s].doc \in Docs
  BY <1>0, BusyTask
<1>2. {"handedBack", "postponed", "closed", "unwinding", "released"} \subseteq Steps
  BY DEF Steps
<1>3. QueuedAgain(s) \in [Docs -> DocRow] /\ Label(s) \in [Docs -> DocRow]
  <2>1. "queued" \in Statuses  BY DEF Statuses
  <2>2. QueuedAgain(s) \in [Docs -> DocRow]  BY <1>1, <2>1, DocsType DEF QueuedAgain
  <2> QED  BY <2>2 DEF Label, TypeOK
<1>4. CASE YieldTurn(s) \/ Requeue(s) \/ Postpone(s)
  <2>1. Goes(s, "handedBack") \/ Goes(s, "postponed")
    BY <1>4 DEF YieldTurn, Requeue, Postpone
  <2>2. task' \in [Slots -> TaskRow \union {Idle}]  BY <1>0, <1>2, <2>1, GoesType
  <2>3. jobs' \in [JobIds -> JobRow \union {NoRow}]
    BY <1>0, <1>4, TaskReturns, RowReturnedType
  <2>4. docs' = docs \/ docs' = QueuedAgain(s) \/ docs' = Label(s)
    BY <1>4 DEF YieldTurn, Requeue, Postpone
  <2>5. UNCHANGED <<paused, worker, processing, withdrawn>>
    BY <1>4 DEF YieldTurn, Requeue, Postpone
  <2> QED  BY <1>3, <2>2, <2>3, <2>4, <2>5 DEF TypeOK
<1>7. CASE GiveUp(s)
  <2>1. task' \in [Slots -> TaskRow \union {Idle}]
    BY <1>0, <1>2, <1>7, GoesType DEF GiveUp
  <2>2. docs' \in [Docs -> DocRow]
    <3>1. "error" \in Statuses /\ TRUE \in BOOLEAN  BY DEF Statuses
    <3>2. /\ [docs EXCEPT ![task[s].doc].status = "error"] \in [Docs -> DocRow]
          /\ [docs EXCEPT ![task[s].doc].mark = TRUE] \in [Docs -> DocRow]
          /\ docs \in [Docs -> DocRow]
      BY <1>1, <3>1, DocsType DEF TypeOK
    <3> QED  BY <1>7, <3>2 DEF GiveUp
  <2> QED  BY <1>1, <1>7, <2>1, <2>2 DEF GiveUp, TypeOK
<1>8. CASE Abandon(s)
  <2>1. task' \in [Slots -> TaskRow \union {Idle}]
    BY <1>0, <1>2, <1>8, GoesType DEF Abandon
  <2> QED  BY <1>1, <1>8, <2>1 DEF Abandon, TypeOK
<1>9. CASE OutcomeNotSaved(s)
  BY <1>0, <1>2, <1>9, GoesType DEF OutcomeNotSaved, TypeOK
<1>10. CASE Interrupted(s)  BY <1>0, <1>2, <1>10, MovedType DEF Interrupted, TypeOK
<1>11. CASE DropWithdrawn(s)  BY <1>0, <1>2, <1>11, MovedType DEF DropWithdrawn, TypeOK
<1>12. CASE Release(s)
  <2>1. task' \in [Slots -> TaskRow \union {Idle}]
    BY <1>0, <1>2, <1>12, MovedType DEF Release
  <2>2. jobs' \in [JobIds -> JobRow \union {NoRow}]
    BY <1>0, <1>12, ReleaseReturns, RowReturnedType DEF TypeOK
  <2>3. docs' \in [Docs -> DocRow]  BY <1>3, <1>12 DEF Release, TypeOK
  <2> QED  BY <1>12, <2>1, <2>2, <2>3 DEF Release, TypeOK
<1>13. CASE End(s)  BY <1>13 DEF End, TypeOK
<1> QED
  BY <1>4, <1>7, <1>8, <1>9, <1>10, <1>11, <1>12, <1>13 DEF Outcome

LEMMA NextTypeOK == TypeOK /\ [Next]_vars => TypeOK'
<1> SUFFICES ASSUME TypeOK, [Next]_vars PROVE TypeOK'  OBVIOUS
<1>1. CASE UNCHANGED vars  BY <1>1 DEF vars, TypeOK
<1>2. CASE SetPaused  BY <1>2 DEF SetPaused, TypeOK, memory
<1>3. CASE Next /\ ~SetPaused
  BY <1>3, RequestType, ClockType, ProcessType, ClaimType, RenewType, WorkType, OutcomeType
     DEF Next
<1> QED  BY <1>1, <1>2, <1>3

(* Every variable keeps its type, for any sets of documents, jobs and       *)
(* places and with or without lost replies.                                 *)
THEOREM TypeCorrect == Spec => []TypeOK
  BY InitTypeOK, NextTypeOK, PTL DEF Spec

-----------------------------------------------------------------------------
(* How a step may change the set of tasks and the table of jobs.  Every     *)
(* invariant follows from these few shapes of change.                       *)

SameShape(j) == jobs'[j].doc = jobs[j].doc /\ jobs'[j].kind = jobs[j].kind

(* No row is new, every row left is one and the same job. *)
Shrunk == Rows' \subseteq Rows /\ \A j \in Rows' : SameShape(j)

ShapeKept == Rows' = Rows /\ \A j \in Rows : SameShape(j)

(* One row is new, under an identifier nothing refers to, and no row of its *)
(* document and kind stays beside it.                                       *)
Added(i, d, k) ==
    /\ Fresh(i)
    /\ i \in Rows' /\ Rows' \subseteq Rows \union {i}
    /\ jobs'[i].doc = d /\ jobs'[i].kind = k
    /\ \A j \in Rows' \ {i} :
        SameShape(j) /\ ~(jobs[j].doc = d /\ jobs[j].kind = k)

(* What both have in common: a row of Rows' that is not an old one is under *)
(* an identifier nothing referred to.                                       *)
RowsStep == \A j \in Rows' : (j \in Rows /\ SameShape(j)) \/ Fresh(j)

SameTasks ==
    /\ Busy' = Busy
    /\ \A t \in Busy : /\ task'[t].id = task[t].id
                       /\ task'[t].doc = task[t].doc
                       /\ task'[t].kind = task[t].kind

(* The ways a task moves leave it the task of the same job. *)
LEMMA MovedSame ==
  ASSUME TypeOK, NEW s \in Slots, task[s] # Idle,
         NEW pc \in Steps, NEW r \in BOOLEAN, NEW c \in BOOLEAN,
         \/ task' = [task EXCEPT ![s].pc = pc]
         \/ task' = [task EXCEPT ![s].renewing = r, ![s].pc = pc]
         \/ task' = [task EXCEPT ![s].cancelled = c, ![s].renewing = r]
  PROVE  SameTasks
<1>1. task[s] \in TaskRow  BY BusyTask
<1> DEFINE t1 == [task[s] EXCEPT !.pc = pc]
           t2 == [[task[s] EXCEPT !.renewing = r] EXCEPT !.pc = pc]
           t3 == [[task[s] EXCEPT !.cancelled = c] EXCEPT !.renewing = r]
           Like(t) == /\ t \in TaskRow /\ t.id = task[s].id
                      /\ t.doc = task[s].doc /\ t.kind = task[s].kind
<1>2. Like(t1) /\ Like(t2) /\ Like(t3)  BY <1>1 DEF TaskRow
<1>3. \E t : Like(t) /\ task' = [task EXCEPT ![s] = t]
  <2>1. CASE task' = [task EXCEPT ![s].pc = pc]  BY <1>2, <2>1 DEF TypeOK
  <2>2. CASE task' = [task EXCEPT ![s].renewing = r, ![s].pc = pc]
    BY <1>2, <2>2 DEF TypeOK
  <2>3. CASE task' = [task EXCEPT ![s].cancelled = c, ![s].renewing = r]
    BY <1>2, <2>3 DEF TypeOK
  <2> QED  BY <2>1, <2>2, <2>3
<1>4. PICK t : Like(t) /\ task' = [task EXCEPT ![s] = t]  BY <1>3
<1>5. t # Idle  BY <1>4, MarkersAssumption
<1> QED  BY <1>4, <1>5 DEF SameTasks, Busy, TypeOK

LEMMA GoesSame ==
  ASSUME TypeOK, NEW s \in Slots, task[s] # Idle, NEW pc \in Steps, Goes(s, pc)
  PROVE  SameTasks
<1>1. (IF task[s].cancelled THEN "unwinding" ELSE pc) \in Steps  BY DEF Steps
<1>2. task[s].renewing \in BOOLEAN /\ task[s].cancelled \in BOOLEAN  BY BusyTask DEF TaskRow
<1> QED  BY <1>1, <1>2, MovedSame DEF Goes

LEMMA WorkSame ==
  ASSUME TypeOK, NEW s \in Slots, Work(s)
  PROVE  SameTasks /\ task[s] # Idle /\ processing' = processing
<1>0. task[s] # Idle
  BY DEF Work, StartIndex, StartReprocess, TakePortion, SavePortion, Erase, Replace, CleanUp,
         NoticeWithdrawal, YieldPoint, WorkFails, Reject, At
<1>1. processing' = processing
  BY DEF Work, StartIndex, StartReprocess, TakePortion, SavePortion, Erase, Replace, CleanUp,
         NoticeWithdrawal, YieldPoint, WorkFails, Reject
<1>2. {"working", "abandoning", "closed", "requeueing", "replaced", "yielding", "postponing",
       "givingUp", "unwinding"} \subseteq Steps
  BY DEF Steps
<1>3. AfterFailure(s) \in Steps  BY <1>2 DEF AfterFailure
<1>4. \/ \E pc \in Steps : Goes(s, pc)
      \/ \E pc \in Steps : task' = [task EXCEPT ![s].renewing = FALSE, ![s].pc = pc]
  <2>1. CASE CleanUp(s) \/ SavePortion(s) \/ YieldPoint(s)
    BY <1>2, <2>1 DEF CleanUp, SavePortion, YieldPoint
  <2>2. CASE ~(CleanUp(s) \/ SavePortion(s) \/ YieldPoint(s))
    BY <1>2, <1>3, <2>2 DEF Work, StartIndex, StartReprocess, TakePortion, Erase, Replace,
                           NoticeWithdrawal, WorkFails, Reject
  <2> QED  BY <2>1, <2>2
<1>5. task[s].cancelled \in BOOLEAN  BY <1>0, BusyTask DEF TaskRow
<1>6. SameTasks  BY <1>0, <1>4, <1>5, GoesSame, MovedSame
<1> QED  BY <1>0, <1>1, <1>6

LEMMA OutcomeSame ==
  ASSUME TypeOK, NEW s \in Slots, Outcome(s), ~End(s)
  PROVE  SameTasks /\ task[s] # Idle /\ processing' = processing
<1>0. task[s] # Idle
  BY DEF Outcome, YieldTurn, Requeue, Postpone, GiveUp, Abandon, OutcomeNotSaved, Interrupted,
         DropWithdrawn, Release, At
<1>1. processing' = processing
  BY DEF Outcome, YieldTurn, Requeue, Postpone, GiveUp, Abandon, OutcomeNotSaved, Interrupted,
         DropWithdrawn, Release
<1>2. {"handedBack", "postponed", "closed", "unwinding", "released"} \subseteq Steps
  BY DEF Steps
<1>3. \/ \E pc \in Steps : Goes(s, pc)
      \/ \E pc \in Steps : task' = [task EXCEPT ![s].pc = pc]
  BY <1>2 DEF Outcome, YieldTurn, Requeue, Postpone, GiveUp, Abandon, OutcomeNotSaved,
              Interrupted, DropWithdrawn, Release
<1>4. task[s].cancelled \in BOOLEAN  BY <1>0, BusyTask DEF TaskRow
<1>5. SameTasks  BY <1>0, <1>3, <1>4, GoesSame, MovedSame
<1> QED  BY <1>0, <1>1, <1>5

LEMMA RenewSame ==
  ASSUME TypeOK, NEW s \in Slots, Renew(s)
  PROVE  SameTasks /\ task[s] # Idle /\ processing' = processing
<1>1. task[s] # Idle /\ processing' = processing  BY DEF Renew
<1>2. "closed" \in Steps  BY DEF Steps
<1>3. task' = task \/ task' = [task EXCEPT ![s].cancelled = TRUE, ![s].renewing = FALSE]
  BY DEF Renew
<1>4. SameTasks
  <2>1. CASE task' = task  BY <2>1 DEF SameTasks, Busy
  <2>2. CASE task' = [task EXCEPT ![s].cancelled = TRUE, ![s].renewing = FALSE]
    BY <1>1, <1>2, <2>2, MovedSame
  <2> QED  BY <1>3, <2>1, <2>2
<1> QED  BY <1>1, <1>4

LEMMA StopSame ==
  ASSUME TypeOK, Stop
  PROVE  SameTasks /\ processing' = processing
<1>1. \A s \in Slots : task[s] # Idle =>
        /\ [task[s] EXCEPT !.cancelled = TRUE] \in TaskRow
        /\ [task[s] EXCEPT !.cancelled = TRUE].id = task[s].id
        /\ [task[s] EXCEPT !.cancelled = TRUE].doc = task[s].doc
        /\ [task[s] EXCEPT !.cancelled = TRUE].kind = task[s].kind
  BY DEF TypeOK, TaskRow
<1> QED  BY <1>1, MarkersAssumption DEF Stop, SameTasks, Busy, TypeOK

(* Every step keeps the tasks, empties the places, or takes or ends one. *)
LEMMA StepsOfTasks ==
  ASSUME TypeOK, Next
  PROVE  \/ SameTasks /\ processing' = processing
         \/ Busy' = {} /\ processing' = {}
         \/ \E s \in Slots, j \in JobIds : Claim(s, j)
         \/ \E s \in Slots : End(s)
<1>1. CASE \E d \in Docs : Request(d)
  BY <1>1 DEF Request, Upload, Delete, RetryError, RetryReprocess, Reindex, ReprocessStart,
              memory, SameTasks, Busy
<1>2. CASE SetPaused  BY <1>2 DEF SetPaused, memory, SameTasks, Busy
<1>3. CASE \E j \in JobIds : Clock(j) \/ ClaimReplyLost(j)
  BY <1>3 DEF Clock, LeaseExpires, BecomesDue, ClaimReplyLost, memory, SameTasks, Busy
<1>4. CASE Process
  <2>1. CASE Start  BY <2>1 DEF Start, SameTasks, Busy
  <2>2. CASE Crash  BY <2>2 DEF Crash, Busy
  <2>3. CASE Stop  BY <2>3, StopSame
  <2>4. CASE Stopped  BY <2>4 DEF Stopped, Busy
  <2> QED  BY <1>4, <2>1, <2>2, <2>3, <2>4 DEF Process
<1>5. CASE \E s \in Slots : Renew(s) \/ Work(s) \/ (Outcome(s) /\ ~End(s))
  BY <1>5, RenewSame, WorkSame, OutcomeSame
<1> QED  BY <1>1, <1>2, <1>3, <1>4, <1>5 DEF Next

LEMMA PlacesStep ==
  ASSUME TypeOK, OneProcessingTask, ProcessingExact, Next
  PROVE  OneProcessingTask' /\ ProcessingExact'
<1> USE DEF OfKind
<1>1. CASE SameTasks /\ processing' = processing
  BY <1>1 DEF SameTasks, OneProcessingTask, ProcessingExact
<1>2. CASE Busy' = {} /\ processing' = {}
  BY <1>2 DEF OneProcessingTask, ProcessingExact
<1>3. ASSUME NEW s \in Slots, NEW j \in JobIds, Claim(s, j)
      PROVE  OneProcessingTask' /\ ProcessingExact'
  <2>1. jobs[j] \in JobRow  BY <1>3 DEF Claim, NextInTurn, Rows, TypeOK
  <2>2. task'[s] # Idle  BY <1>3, ClaimedTask
  <2>3. /\ task[s] = Idle
        /\ task'[s].doc = jobs[j].doc /\ task'[s].kind = jobs[j].kind
        /\ \A t \in Slots \ {s} : task'[t] = task[t]
    BY <1>3 DEF Claim, TypeOK
  <2>4. Busy' = Busy \union {s}  BY <2>2, <2>3 DEF Busy
  <2>5. s \notin Busy  BY <2>3 DEF Busy
  <2>6. jobs[j].kind \in ProcessingKinds => jobs[j].doc \notin processing
    BY <1>3 DEF Claim, NextInTurn, Claimable
  <2>7. processing' = IF jobs[j].kind \in ProcessingKinds
                      THEN processing \union {jobs[j].doc} ELSE processing
    BY <1>3 DEF Claim
  <2>8. Busy \subseteq Slots  BY DEF Busy
  <2>9. OneProcessingTask'
    BY <2>3, <2>4, <2>5, <2>6, <2>8 DEF OneProcessingTask, ProcessingExact
  <2>10. ProcessingExact'
    BY <2>3, <2>4, <2>5, <2>7, <2>8 DEF ProcessingExact
  <2> QED  BY <2>9, <2>10
<1>4. ASSUME NEW s \in Slots, End(s)
      PROVE  OneProcessingTask' /\ ProcessingExact'
  <2>1. task[s] # Idle  BY <1>4 DEF End, At
  <2>2. /\ task'[s] = Idle
        /\ \A t \in Slots \ {s} : task'[t] = task[t]
    BY <1>4 DEF End, TypeOK
  <2>3. Busy' = Busy \ {s} /\ s \in Busy /\ Busy \subseteq Slots
    BY <2>1, <2>2 DEF Busy
  <2>4. processing' = IF task[s].kind \in ProcessingKinds
                      THEN processing \ {task[s].doc} ELSE processing
    BY <1>4 DEF End
  <2>5. OneProcessingTask'  BY <2>2, <2>3 DEF OneProcessingTask
  <2>6. ProcessingExact'
    BY <2>2, <2>3, <2>4 DEF ProcessingExact, OneProcessingTask
  <2> QED  BY <2>5, <2>6
<1> QED  BY <1>1, <1>2, <1>3, <1>4, StepsOfTasks

(* At most one index or reprocess task per document, for any number of      *)
(* places, whatever happens to leases, rows and replies.                    *)
THEOREM OneTaskPerDocument == Spec => []OneProcessingTask
<1> DEFINE I == TypeOK /\ OneProcessingTask /\ ProcessingExact
<1>1. Init => I
  BY InitTypeOK DEF Init, OneProcessingTask, ProcessingExact, Busy
<1>2. I /\ [Next]_vars => I'
  <2> SUFFICES ASSUME I, [Next]_vars PROVE I'  OBVIOUS
  <2>1. CASE UNCHANGED vars
    BY <2>1 DEF vars, TypeOK, OneProcessingTask, ProcessingExact, Busy, OfKind
  <2>2. CASE Next  BY <2>2, NextTypeOK, PlacesStep
  <2> QED  BY <2>1, <2>2
<1>3. I => OneProcessingTask  OBVIOUS
<1> HIDE DEF I
<1> QED  BY <1>1, <1>2, <1>3, PTL DEF Spec

-----------------------------------------------------------------------------
(* The table of jobs: what a step may do to its rows and to the documents.  *)

Alive == {"queued", "processing", "ready", "error"}

SameLife ==
    \A d \in Docs :
        /\ docs'[d].deleted = docs[d].deleted
        /\ docs'[d].status = docs[d].status \/ (docs'[d].status \in Alive /\ docs[d].status \in Alive)

(* Only the documents that are not deleted lose jobs. *)
LiveLosses == \A j \in Rows \ Rows' : Live(jobs[j].doc)

Fewer == SameLife /\ Shrunk /\ LiveLosses

OneMore ==
    /\ SameLife /\ LiveLosses
    /\ \E i \in JobIds, d \in Docs, k \in Kinds \ {"delete"} : Live(d) /\ Added(i, d, k)

LEMMA LiveKept ==
  ASSUME SameLife
  PROVE  \A d \in Docs : /\ Live(d)' <=> Live(d)
                         /\ docs'[d].status \in {"none", "erased"}
                              <=> docs[d].status \in {"none", "erased"}
  BY DEF SameLife, Live, Alive

LEMMA LiveAlive ==
  ASSUME TypeOK, NEW d \in Docs, Live(d)
  PROVE  docs[d].status \in Alive
  BY DEF TypeOK, DocRow, Statuses, Live, Alive

LEMMA StatusOfLive ==
  ASSUME TypeOK, NEW d \in Docs, NEW st \in Alive, NEW m \in BOOLEAN, Live(d),
         \/ docs' = [docs EXCEPT ![d].status = st]
         \/ docs' = [docs EXCEPT ![d].mark = m]
         \/ docs' = [docs EXCEPT ![d].mark = m, ![d].status = st]
  PROVE  SameLife
<1>1. docs[d].status \in Alive  BY LiveAlive
<1>2. docs \in [Docs -> DocRow]  BY DEF TypeOK
<1> QED  BY <1>1, <1>2 DEF SameLife, DocRow

LEMMA SameTable ==
  ASSUME docs' = docs, jobs' = jobs
  PROVE  Fewer
  BY DEF Fewer, SameLife, Shrunk, SameShape, LiveLosses, Rows

LEMMA KeptTable ==
  ASSUME SameLife, ShapeKept
  PROVE  Fewer
  BY DEF Fewer, ShapeKept, Shrunk, LiveLosses

LEMMA AddsRow ==
  ASSUME TypeOK, NEW i \in JobIds, Fresh(i), NEW d \in Docs, NEW k \in Kinds,
         NEW p \in Priorities, NEW gone \in SUBSET JobIds, RowsOf(d, {k}) \subseteq gone,
         jobs' = [[j \in JobIds |-> IF j \in gone THEN NoRow ELSE jobs[j]] EXCEPT
                     ![i] = NewJob(d, k, p)]
  PROVE  Added(i, d, k) /\ Rows \ Rows' \subseteq gone
<1>1. NewJob(d, k, p) \in JobRow  BY NewJobType
<1>2. NewJob(d, k, p) # NoRow  BY <1>1, MarkersAssumption
<1>3. Rows' = (Rows \ gone) \union {i}  BY <1>2 DEF Rows
<1>4. jobs'[i] = NewJob(d, k, p)  OBVIOUS
<1>5. jobs'[i].doc = d /\ jobs'[i].kind = k  BY <1>4 DEF NewJob
<1>6. ASSUME NEW j \in Rows' \ {i}
      PROVE  SameShape(j) /\ ~(jobs[j].doc = d /\ jobs[j].kind = k)
  <2>1. j \in JobIds /\ j \in Rows /\ j \notin gone  BY <1>3, <1>6 DEF Rows
  <2>2. jobs'[j] = jobs[j]  BY <1>6, <2>1
  <2>3. j \notin RowsOf(d, {k})  BY <2>1
  <2> QED  BY <2>1, <2>2, <2>3 DEF SameShape, RowsOf
<1> QED  BY <1>3, <1>5, <1>6 DEF Added

LEMMA DropsRow ==
  ASSUME TypeOK, NEW i \in JobIds, jobs' = [jobs EXCEPT ![i] = NoRow]
  PROVE  Shrunk /\ Rows' = Rows \ {i}
  BY DEF TypeOK, Shrunk, SameShape, Rows

LEMMA KeepsRow ==
  ASSUME TypeOK, NEW i \in JobIds, NEW row \in JobRow, jobs[i] # NoRow,
         row.doc = jobs[i].doc, row.kind = jobs[i].kind,
         jobs' = [jobs EXCEPT ![i] = row]
  PROVE  ShapeKept
<1>1. row # NoRow  BY MarkersAssumption
<1> QED  BY <1>1 DEF TypeOK, ShapeKept, SameShape, Rows

LEMMA AddsOnlyRow ==
  ASSUME TypeOK, NEW i \in JobIds, Fresh(i), NEW d \in Docs, NEW k \in Kinds,
         NEW p \in Priorities, RowsOf(d, {k}) = {},
         jobs' = [jobs EXCEPT ![i] = NewJob(d, k, p)]
  PROVE  Added(i, d, k) /\ Rows \subseteq Rows'
<1>1. jobs = [j \in JobIds |-> IF j \in {} THEN NoRow ELSE jobs[j]]  BY DEF TypeOK
<1>2. jobs' = [[j \in JobIds |-> IF j \in {} THEN NoRow ELSE jobs[j]] EXCEPT
                  ![i] = NewJob(d, k, p)]
  BY <1>1
<1>3. {} \in SUBSET JobIds /\ RowsOf(d, {k}) \subseteq {}  OBVIOUS
<1>4. Added(i, d, k) /\ Rows \ Rows' \subseteq {}  BY <1>2, <1>3, AddsRow
<1> QED  BY <1>4

(* Requests other than an upload and a deletion. *)
LEMMA RequestTable ==
  ASSUME TypeOK, NEW d \in Docs, Request(d), ~Upload(d), ~Delete(d)
  PROVE  Fewer \/ OneMore
<1>0. /\ DefaultPriority["index"] \in Priorities /\ DefaultPriority["reprocess"] \in Priorities
      /\ "index" \in Kinds \ {"delete"} /\ "reprocess" \in Kinds \ {"delete"}
      /\ "queued" \in Alive
  BY DefaultPriorityType DEF Kinds, Alive
<1>1. CASE RetryError(d)
  <2>1. CASE RowsOf(d, {"index"}) # {}
    <3>1. docs' = docs /\ jobs' = jobs  BY <1>1, <2>1 DEF RetryError
    <3> QED  BY <3>1, SameTable
  <2>2. CASE RowsOf(d, {"index"}) = {}
    <3>1. Live(d) /\ docs' = [docs EXCEPT ![d].status = "queued"]
      BY <1>1, <2>2 DEF RetryError
    <3>2. Live(d) /\ SameLife  BY <1>0, <3>1, StatusOfLive
    <3>3. PICK i \in JobIds :
            /\ Fresh(i)
            /\ jobs' = [jobs EXCEPT ![i] = NewJob(d, "index", DefaultPriority["index"])]
      BY <1>1, <2>2 DEF RetryError
    <3>4. Added(i, d, "index") /\ Rows \subseteq Rows'
      BY <1>0, <2>2, <3>3, AddsOnlyRow
    <3> QED  BY <1>0, <3>2, <3>4 DEF OneMore, LiveLosses
  <2> QED  BY <2>1, <2>2
<1>2. CASE RetryReprocess(d)
  <2>1. Live(d) /\ SameLife
    <3>1. docs' = [docs EXCEPT ![d].mark = FALSE] /\ Live(d)  BY <1>2 DEF RetryReprocess
    <3> QED  BY <1>0, <3>1, StatusOfLive
  <2>2. CASE \E j \in RowsOf(d, {"reprocess"}) :
               jobs' = [jobs EXCEPT ![j].prio = DefaultPriority["index"]]
    <3>1. PICK j \in RowsOf(d, {"reprocess"}) :
             jobs' = [jobs EXCEPT ![j].prio = DefaultPriority["index"]]
      BY <2>2
    <3>2. j \in JobIds /\ jobs[j] \in JobRow /\ jobs[j] # NoRow  BY DEF RowsOf, Rows, TypeOK
    <3>3. /\ [jobs[j] EXCEPT !.prio = DefaultPriority["index"]] \in JobRow
          /\ [jobs[j] EXCEPT !.prio = DefaultPriority["index"]].doc = jobs[j].doc
          /\ [jobs[j] EXCEPT !.prio = DefaultPriority["index"]].kind = jobs[j].kind
      BY <1>0, <3>2 DEF JobRow
    <3>4. jobs' = [jobs EXCEPT ![j] = [jobs[j] EXCEPT !.prio = DefaultPriority["index"]]]
      BY <3>1, <3>2 DEF TypeOK
    <3>5. ShapeKept  BY <3>2, <3>3, <3>4, KeepsRow
    <3> QED  BY <2>1, <3>5, KeptTable
  <2>3. CASE /\ RowsOf(d, {"reprocess"}) = {}
             /\ \E j \in JobIds :
                  /\ Fresh(j)
                  /\ jobs' = [jobs EXCEPT ![j] = NewJob(d, "reprocess", DefaultPriority["index"])]
    <3>1. PICK i \in JobIds :
            /\ Fresh(i)
            /\ jobs' = [jobs EXCEPT ![i] = NewJob(d, "reprocess", DefaultPriority["index"])]
      BY <2>3
    <3>2. Added(i, d, "reprocess") /\ Rows \subseteq Rows'
      BY <1>0, <2>3, <3>1, AddsOnlyRow
    <3> QED  BY <1>0, <2>1, <3>2 DEF OneMore, LiveLosses
  <2> QED  BY <1>2, <2>2, <2>3 DEF RetryReprocess
<1>3. CASE Reindex(d)
  <2> DEFINE gone == RowsOf(d, {"reprocess", "context"})
             table == [j \in JobIds |-> IF j \in gone THEN NoRow ELSE jobs[j]]
  <2>1. Live(d) /\ SameLife  BY <1>0, <1>3, StatusOfLive DEF Reindex
  <2>2. jobs' \in ResetOrAdd(d, table)  BY <1>3 DEF Reindex, Without
  <2>3. gone \in SUBSET JobIds /\ \A j \in gone : Live(jobs[j].doc)
    BY <2>1 DEF RowsOf, Rows
  <2>4. CASE RowsOf(d, {"index"}) = {}
    <3>1. PICK i \in JobIds :
            /\ Fresh(i)
            /\ jobs' = [table EXCEPT ![i] = NewJob(d, "index", DefaultPriority["index"])]
      BY <2>2, <2>4 DEF ResetOrAdd, NewIndexJob
    <3>2. RowsOf(d, {"index"}) \subseteq gone  BY <2>4
    <3>3. Added(i, d, "index") /\ Rows \ Rows' \subseteq gone
      <4> HIDE DEF gone
      <4> QED  BY <1>0, <2>3, <3>1, <3>2, AddsRow
    <3> QED  BY <1>0, <2>1, <2>3, <3>3 DEF OneMore, LiveLosses
  <2>5. CASE RowsOf(d, {"index"}) # {}
    <3>1. PICK j \in RowsOf(d, {"index"}) :
             jobs' = [table EXCEPT ![j].attempts = 0, ![j].due = TRUE]
      BY <2>2, <2>5 DEF ResetOrAdd
    <3>2. j \in JobIds /\ jobs[j] # NoRow /\ jobs[j] \in JobRow /\ j \notin gone
      BY DEF RowsOf, Rows, TypeOK
    <3> DEFINE row == [[jobs[j] EXCEPT !.attempts = 0] EXCEPT !.due = TRUE]
    <3>3. row \in JobRow /\ row.doc = jobs[j].doc /\ row.kind = jobs[j].kind
      BY <3>2 DEF JobRow
    <3>4. row # NoRow  BY <3>3, MarkersAssumption
    <3>5. jobs' = [table EXCEPT ![j] = row]  BY <3>1, <3>2
    <3> HIDE DEF row
    <3>6. jobs'[j] = row /\ \A k \in JobIds \ {j} : jobs'[k] = table[k]  BY <3>2, <3>5
    <3>7. Rows' = Rows \ gone  BY <3>2, <3>4, <3>6 DEF Rows
    <3>8. Shrunk  BY <3>3, <3>6, <3>7 DEF Shrunk, SameShape, Rows
    <3> QED  BY <2>1, <2>3, <3>7, <3>8 DEF Fewer, LiveLosses
  <2> QED  BY <2>4, <2>5
<1>4. CASE ReprocessStart(d)
  <2>1. Live(d) /\ docs' = docs  BY <1>4 DEF ReprocessStart
  <2>2. SameLife  BY <2>1 DEF SameLife
  <2>3. PICK i \in JobIds :
          /\ Fresh(i)
          /\ jobs' = [jobs EXCEPT ![i] = NewJob(d, "reprocess", DefaultPriority["reprocess"])]
    BY <1>4 DEF ReprocessStart
  <2>4. Added(i, d, "reprocess") /\ Rows \subseteq Rows'
    BY <1>0, <1>4, <2>3, AddsOnlyRow DEF ReprocessStart
  <2> QED  BY <1>0, <2>1, <2>2, <2>4 DEF OneMore, LiveLosses
<1> QED  BY <1>1, <1>2, <1>3, <1>4 DEF Request

LEMMA TakenTable ==
  ASSUME TypeOK, NEW j \in Rows, jobs' = Taken(j)
  PROVE  ShapeKept
<1>1. j \in JobIds /\ jobs[j] \in JobRow /\ jobs[j] # NoRow  BY DEF Rows, TypeOK
<1>2. Taken(j)[j] \in JobRow  BY <1>1, TakenType
<1>3. /\ Taken(j)[j].doc = jobs[j].doc /\ Taken(j)[j].kind = jobs[j].kind
      /\ Taken(j) = [jobs EXCEPT ![j] = Taken(j)[j]]
  BY <1>1 DEF Taken, TypeOK, JobRow
<1> QED  BY <1>1, <1>2, <1>3, KeepsRow

(* Time, the process, claims and renewals. *)
LEMMA OtherTable ==
  ASSUME TypeOK,
         \/ SetPaused \/ Process
         \/ \E j \in JobIds : Clock(j) \/ ClaimReplyLost(j)
         \/ \E s \in Slots : Renew(s) \/ \E j \in JobIds : Claim(s, j)
  PROVE  Fewer
<1> USE DEF database, memory
<1>0. docs' = docs => SameLife  BY DEF SameLife
<1>1. CASE SetPaused  BY <1>1, SameTable DEF SetPaused
<1>2. CASE Process
  <2>1. CASE Start
    <3>1. \A d \in Docs : docs[d] \in DocRow  BY DEF TypeOK
    <3>2. SameLife  BY <2>1, <3>1 DEF Start, SameLife, DocRow, Alive
    <3>3. ShapeKept  BY <2>1 DEF Start, ShapeKept, SameShape, Rows
    <3> QED  BY <3>2, <3>3, KeptTable
  <2>2. CASE Crash \/ Stop \/ Stopped  BY <2>2, SameTable DEF Crash, Stop, Stopped
  <2> QED  BY <1>2, <2>1, <2>2 DEF Process
<1>3. ASSUME NEW j \in JobIds, Clock(j)  PROVE Fewer
  <2>1. j \in Rows /\ jobs[j] \in JobRow /\ docs' = docs
    BY <1>3 DEF Clock, LeaseExpires, BecomesDue, Rows, TypeOK
  <2>2. /\ [jobs[j] EXCEPT !.lease = "expired"] \in JobRow
        /\ [jobs[j] EXCEPT !.due = TRUE] \in JobRow
        /\ [jobs[j] EXCEPT !.lease = "expired"].doc = jobs[j].doc
        /\ [jobs[j] EXCEPT !.lease = "expired"].kind = jobs[j].kind
        /\ [jobs[j] EXCEPT !.due = TRUE].doc = jobs[j].doc
        /\ [jobs[j] EXCEPT !.due = TRUE].kind = jobs[j].kind
    BY <2>1 DEF JobRow
  <2>3. \/ jobs' = [jobs EXCEPT ![j] = [jobs[j] EXCEPT !.lease = "expired"]]
        \/ jobs' = [jobs EXCEPT ![j] = [jobs[j] EXCEPT !.due = TRUE]]
    BY <1>3 DEF Clock, LeaseExpires, BecomesDue, TypeOK
  <2>4. jobs[j] # NoRow  BY <2>1 DEF Rows
  <2>5. ShapeKept  BY <2>2, <2>3, <2>4, KeepsRow
  <2> QED  BY <1>0, <2>1, <2>5, KeptTable
<1>4. ASSUME NEW j \in JobIds, ClaimReplyLost(j)  PROVE Fewer
  BY <1>0, <1>4, TakenTable, KeptTable DEF ClaimReplyLost, NextInTurn
<1>5. ASSUME NEW s \in Slots, NEW j \in JobIds, Claim(s, j)  PROVE Fewer
  BY <1>0, <1>5, TakenTable, KeptTable DEF Claim, NextInTurn
<1>6. ASSUME NEW s \in Slots, Renew(s)  PROVE Fewer
  <2>1. docs' = docs /\ task[s] # Idle  BY <1>6 DEF Renew
  <2>2. CASE jobs' = jobs  BY <2>1, <2>2, SameTable
  <2>3. CASE /\ task[s].id \in Rows
             /\ jobs' = [jobs EXCEPT ![task[s].id].lease = "held"]
    <3> DEFINE i == task[s].id
    <3>1. i \in JobIds /\ jobs[i] \in JobRow /\ jobs[i] # NoRow  BY <2>3 DEF Rows, TypeOK
    <3>2. /\ [jobs[i] EXCEPT !.lease = "held"] \in JobRow
          /\ [jobs[i] EXCEPT !.lease = "held"].doc = jobs[i].doc
          /\ [jobs[i] EXCEPT !.lease = "held"].kind = jobs[i].kind
      BY <3>1 DEF JobRow
    <3>3. jobs' = [jobs EXCEPT ![i] = [jobs[i] EXCEPT !.lease = "held"]]
      BY <2>3, <3>1 DEF TypeOK
    <3>4. ShapeKept  BY <3>1, <3>2, <3>3, KeepsRow
    <3> QED  BY <1>0, <2>1, <3>4, KeptTable
  <2> QED  BY <1>6, <2>2, <2>3 DEF Renew
<1> QED  BY <1>1, <1>2, <1>3, <1>4, <1>5, <1>6

(* The row a task removes is that of a document that is not deleted, if     *)
(* the task is none of deletion or finds its document so.                   *)
LEMMA OwnRowDropped ==
  ASSUME TypeOK, Agreement, DeletionIsOrdered, NEW s \in Slots, task[s] # Idle,
         Live(task[s].doc) \/ task[s].kind # "delete",
         jobs' = [jobs EXCEPT ![task[s].id] = NoRow]
  PROVE  Shrunk /\ LiveLosses
<1>1. task[s].id \in JobIds /\ task[s].doc \in Docs /\ task[s].kind \in Kinds  BY BusyTask
<1>2. Shrunk /\ Rows' = Rows \ {task[s].id}  BY <1>1, DropsRow
<1>3. HasRow(s) => Live(jobs[task[s].id].doc)
  <2> SUFFICES ASSUME HasRow(s), ~Live(task[s].doc)  PROVE FALSE
    BY DEF Agreement, Busy
  <2>1. jobs[task[s].id].doc = task[s].doc /\ jobs[task[s].id].kind = task[s].kind
    BY DEF Agreement, Busy
  <2>2. task[s].id \in RowsOf(task[s].doc, Kinds \ {"delete"})
    BY <1>1, <2>1 DEF RowsOf, HasRow
  <2> QED  BY <1>1, <2>2 DEF DeletionIsOrdered
<1> QED  BY <1>2, <1>3 DEF LiveLosses, HasRow

LEMMA WorkTable ==
  ASSUME TypeOK, Agreement, DeletionIsOrdered, NEW s \in Slots, Work(s), ~Erase(s)
  PROVE  Fewer \/ OneMore
<1> USE DEF database
<1>0. task[s] # Idle
  BY DEF Work, StartIndex, StartReprocess, TakePortion, SavePortion, Replace, CleanUp,
         NoticeWithdrawal, YieldPoint, WorkFails, Reject, At
<1>1. task[s].id \in JobIds /\ task[s].doc \in Docs /\ task[s].kind \in Kinds
  BY <1>0, BusyTask
<1>2. "processing" \in Alive /\ "ready" \in Alive  BY DEF Alive
<1>3. CASE StartIndex(s)
  <2>1. CASE docs' = docs  BY <1>3, <2>1, SameTable DEF StartIndex
  <2>2. CASE docs' # docs
    <3>1. /\ Live(task[s].doc) /\ jobs' = jobs
          /\ docs' = [docs EXCEPT ![task[s].doc].status = "processing"]
      BY <1>3, <2>2 DEF StartIndex
    <3>2. SameLife  BY <1>1, <1>2, <3>1, StatusOfLive
    <3>3. ShapeKept  BY <3>1 DEF ShapeKept, SameShape, Rows
    <3> QED  BY <3>2, <3>3, KeptTable
  <2> QED  BY <2>1, <2>2
<1>4. CASE TakePortion(s)
  <2>1. docs' = docs /\ task[s].kind # "delete"  BY <1>4 DEF TakePortion, OfKind
  <2>2. CASE jobs' = jobs  BY <2>1, <2>2, SameTable
  <2>3. CASE jobs' = [jobs EXCEPT ![task[s].id] = NoRow]
    <3>1. Shrunk /\ LiveLosses  BY <1>0, <2>1, <2>3, OwnRowDropped
    <3> QED  BY <2>1, <3>1 DEF Fewer, SameLife
  <2> QED  BY <1>4, <2>2, <2>3 DEF TakePortion
<1>5. CASE Replace(s) /\ StillWanted(s)
  <2> DEFINE d == task[s].doc
             i == task[s].id
             st == IF task[s].kind = "index" THEN "ready" ELSE docs[d].status
  <2>1. Live(d) /\ HasRow(s)  BY <1>5 DEF StillWanted
  <2>2. st \in Alive  BY <1>1, <1>2, <2>1, LiveAlive
  <2>3. docs' = [docs EXCEPT ![d].mark = FALSE, ![d].status = st]
    BY <1>1, <1>5 DEF Replace, TypeOK, DocRow
  <2>4. SameLife  BY <1>1, <2>1, <2>2, <2>3, StatusOfLive
  <2>5. jobs' \in Completed(s)  BY <1>5 DEF Replace
  <2>6. CASE jobs' = [jobs EXCEPT ![i] = NoRow]
    <3>1. Shrunk /\ LiveLosses  BY <1>0, <2>1, <2>6, OwnRowDropped
    <3> QED  BY <2>4, <3>1 DEF Fewer
  <2>7. CASE jobs' # [jobs EXCEPT ![i] = NoRow]
    <3>1. RowsOf(d, {"context"}) = {} /\ jobs' \in DoneWithContext(s)
      BY <2>5, <2>7 DEF Completed
    <3>2. PICK j \in JobIds :
            /\ Fresh(j)
            /\ jobs' = [jobs EXCEPT ![i] = NoRow,
                                    ![j] = NewJob(d, "context", ContextPriority(s))]
      BY <3>1 DEF DoneWithContext
    <3>3. [jobs EXCEPT ![i] = NoRow] = [k \in JobIds |-> IF k \in {i} THEN NoRow ELSE jobs[k]]
      BY <1>1 DEF TypeOK
    <3>4. ContextPriority(s) \in Priorities /\ "context" \in Kinds \ {"delete"}
      BY DefaultPriorityType DEF ContextPriority, BulkContextPriority, Priorities, Kinds
    <3>5. /\ jobs' = [[k \in JobIds |-> IF k \in {i} THEN NoRow ELSE jobs[k]] EXCEPT
                         ![j] = NewJob(d, "context", ContextPriority(s))]
          /\ {i} \in SUBSET JobIds /\ RowsOf(d, {"context"}) \subseteq {i}
      BY <1>1, <3>1, <3>2, <3>3
    <3>6. Added(j, d, "context") /\ Rows \ Rows' \subseteq {i}
      <4> DEFINE gone == {i}
                 p == ContextPriority(s)
      <4>1. gone \in SUBSET JobIds /\ RowsOf(d, {"context"}) \subseteq gone  BY <3>5
      <4>2. jobs' = [[k \in JobIds |-> IF k \in gone THEN NoRow ELSE jobs[k]] EXCEPT
                        ![j] = NewJob(d, "context", p)]
        BY <3>5
      <4>3. d \in Docs /\ p \in Priorities /\ "context" \in Kinds /\ Fresh(j)
        BY <1>1, <3>2, <3>4
      <4> HIDE DEF gone, p, d
      <4>4. Added(j, d, "context") /\ Rows \ Rows' \subseteq gone
        BY <4>1, <4>2, <4>3, AddsRow
      <4> QED  BY <4>4 DEF gone
    <3>7. jobs[i].doc = d  BY <1>0, <2>1 DEF Agreement, Busy
    <3>8. LiveLosses  BY <2>1, <3>6, <3>7 DEF LiveLosses
    <3> QED  BY <1>1, <2>1, <2>4, <3>4, <3>6, <3>8 DEF OneMore
  <2> QED  BY <2>6, <2>7
<1>6. CASE \/ StartReprocess(s) \/ SavePortion(s) \/ (Replace(s) /\ ~StillWanted(s))
           \/ CleanUp(s) \/ NoticeWithdrawal(s) \/ YieldPoint(s) \/ WorkFails(s) \/ Reject(s)
  <2>1. docs' = docs /\ jobs' = jobs
    BY <1>6 DEF StartReprocess, SavePortion, Replace, CleanUp, NoticeWithdrawal, YieldPoint,
                WorkFails, Reject
  <2> QED  BY <2>1, SameTable
<1> QED  BY <1>3, <1>4, <1>5, <1>6 DEF Work


(* What an outcome writes to its row leaves it the row of the same job. *)
LEMMA RowReturnedKept ==
  ASSUME TypeOK, NEW s \in Slots, task[s] # Idle, RowReturned(s)
  PROVE  ShapeKept
<1> DEFINE i == task[s].id
           r1 == [jobs[i] EXCEPT !.lease = "free", !.attempts = 0]
           r2 == [jobs[i] EXCEPT !.lease = "free", !.due = FALSE]
           r3 == [jobs[i] EXCEPT !.lease = "free", !.attempts = Uncounted(@)]
           Like(r) == r \in JobRow /\ r.doc = jobs[i].doc /\ r.kind = jobs[i].kind
<1>1. i \in JobIds  BY BusyTask
<1>2. CASE ~HasRow(s)  BY <1>2 DEF RowReturned, RowBecomes, ShapeKept, SameShape, Rows
<1>3. CASE HasRow(s)
  <2>1. jobs[i] \in JobRow /\ jobs[i] # NoRow  BY <1>1, <1>3 DEF HasRow, Rows, TypeOK
  <2>2. Uncounted(jobs[i].attempts) \in Nat  BY <2>1 DEF Uncounted, JobRow
  <2>3. Like(r1) /\ Like(r2)  BY <2>1 DEF JobRow
  <2>4. Like(r3)  BY <2>1, <2>2 DEF JobRow
  <2>5. \E r : Like(r) /\ jobs' = [jobs EXCEPT ![i] = r]
    BY <1>3, <2>3, <2>4 DEF RowReturned, RowBecomes
  <2> HIDE DEF i
  <2> QED  BY <1>1, <2>1, <2>5, KeepsRow
<1> QED  BY <1>2, <1>3

LEMMA OutcomeTable ==
  ASSUME TypeOK, Agreement, DeletionIsOrdered, DeleteKeepsTrying, NEW s \in Slots, Outcome(s)
  PROVE  Fewer
<1> USE DEF database
<1>0. task[s] # Idle
  BY DEF Outcome, YieldTurn, Requeue, Postpone, GiveUp, Abandon, OutcomeNotSaved, Interrupted,
         DropWithdrawn, Release, End, At
<1>1. task[s].id \in JobIds /\ task[s].doc \in Docs /\ task[s].kind \in Kinds
  BY <1>0, BusyTask
<1>2. "queued" \in Alive /\ "error" \in Alive  BY DEF Alive
<1>3. docs' = docs => SameLife  BY DEF SameLife
<1>4. Live(task[s].doc) /\ docs' = QueuedAgain(s) => SameLife
  BY <1>1, <1>2, StatusOfLive DEF QueuedAgain
<1>5. docs' = Label(s) => SameLife  BY <1>3, <1>4 DEF Label
<1>6. CASE YieldTurn(s) \/ Requeue(s) \/ Postpone(s)
  <2>1. ShapeKept  BY <1>0, <1>6, TaskReturns, RowReturnedKept
  <2>2. SameLife  BY <1>3, <1>4, <1>5, <1>6 DEF YieldTurn, Requeue, Postpone
  <2> QED  BY <2>1, <2>2, KeptTable
<1>7. CASE GiveUp(s) \/ Abandon(s)
  <2>1. task[s].kind # "delete"
    <3>1. task[s].pc \in {"abandoning", "givingUp"}  BY <1>7 DEF GiveUp, Abandon, At
    <3> QED  BY <1>0, <3>1 DEF DeleteKeepsTrying, OfKind, Busy
  <2>2. Shrunk /\ LiveLosses
    <3>1. jobs' = [jobs EXCEPT ![task[s].id] = NoRow]  BY <1>7 DEF GiveUp, Abandon
    <3> QED  BY <1>0, <2>1, <3>1, OwnRowDropped
  <2>3. SameLife
    <3>1. CASE docs' = docs  BY <1>3, <3>1
    <3>2. CASE docs' # docs
      <4>1. /\ Live(task[s].doc)
            /\ \/ docs' = [docs EXCEPT ![task[s].doc].status = "error"]
               \/ docs' = [docs EXCEPT ![task[s].doc].mark = TRUE]
        BY <1>7, <3>2 DEF GiveUp, Abandon
      <4>2. CASE docs' = [docs EXCEPT ![task[s].doc].status = "error"]
        <5>1. docs[task[s].doc].status \in Alive  BY <1>1, <4>1, LiveAlive
        <5> QED  BY <1>1, <1>2, <4>2, <5>1 DEF SameLife, TypeOK, DocRow
      <4>3. CASE docs' = [docs EXCEPT ![task[s].doc].mark = TRUE]
        BY <1>1, <4>1, <4>3 DEF SameLife, TypeOK, DocRow
      <4> QED  BY <4>1, <4>2, <4>3
    <3> QED  BY <3>1, <3>2
  <2> QED  BY <2>2, <2>3 DEF Fewer
<1>8. CASE Release(s)
  <2>1. CASE docs' = docs /\ jobs' = jobs  BY <2>1, SameTable
  <2>2. CASE ~(docs' = docs /\ jobs' = jobs)
    <3>0. RowReturned(s) /\ docs' = Label(s)  BY <1>8, <2>2, ReleaseReturns
    <3>1. ShapeKept  BY <1>0, <3>0, RowReturnedKept
    <3>2. SameLife  BY <1>5, <3>0
    <3> QED  BY <3>1, <3>2, KeptTable
  <2> QED  BY <2>1, <2>2
<1>9. CASE OutcomeNotSaved(s) \/ Interrupted(s) \/ DropWithdrawn(s) \/ End(s)
  BY <1>9, SameTable DEF OutcomeNotSaved, Interrupted, DropWithdrawn, End
<1> QED  BY <1>6, <1>7, <1>8, <1>9 DEF Outcome

(* What DeletionIsOrdered says of one document after a step. *)
OrderedAfter(d) ==
    /\ ~Live(d)' => RowsOf(d, Kinds \ {"delete"})' = {}
    /\ RowsOf(d, {"delete"})' # {}
         <=> ~Live(d)' /\ docs'[d].status \notin {"none", "erased"}

(* Such steps keep the key of the table and the order of deletion. *)
LEMMA TableKept ==
  ASSUME TypeOK, TypeOK', OneRowPerKind, DeletionIsOrdered, NoneUnmarked, Fewer \/ OneMore
  PROVE  OneRowPerKind' /\ DeletionIsOrdered' /\ NoneUnmarked' /\ RowsStep
<1>1. SameLife /\ LiveLosses  BY DEF Fewer, OneMore
<1>0. NoneUnmarked'  BY <1>1 DEF SameLife, NoneUnmarked, Alive
<1>2. \A d \in Docs : /\ Live(d)' <=> Live(d)
                      /\ docs'[d].status \in {"none", "erased"}
                           <=> docs[d].status \in {"none", "erased"}
  BY <1>1, LiveKept
<1>3. \A j \in Rows : jobs[j] \in JobRow /\ jobs[j].doc \in Docs /\ jobs[j].kind \in Kinds
  BY DEF Rows, TypeOK, JobRow
<1>4. CASE Fewer
  <2>1. Shrunk  BY <1>4 DEF Fewer
  <2>2. OneRowPerKind' /\ RowsStep
    BY <2>1 DEF Shrunk, SameShape, OneRowPerKind, RowsStep
  <2>3. ASSUME NEW d \in Docs, ~Live(d)
        PROVE  \A kinds : RowsOf(d, kinds)' = RowsOf(d, kinds)
    <3>1. \A j \in Rows : jobs[j].doc = d => j \in Rows'  BY <1>1, <2>3 DEF LiveLosses
    <3> QED  BY <2>1, <3>1 DEF RowsOf, Shrunk, SameShape
  <2>4. ASSUME NEW d \in Docs, Live(d)  PROVE RowsOf(d, {"delete"})' = {}
    <3>1. RowsOf(d, {"delete"}) = {}  BY <2>4 DEF DeletionIsOrdered
    <3> QED  BY <2>1, <3>1 DEF RowsOf, Shrunk, SameShape
  <2>5. DeletionIsOrdered'
    <3> SUFFICES ASSUME NEW d \in Docs
                 PROVE  OrderedAfter(d)
      BY DEF DeletionIsOrdered, OrderedAfter
    <3>1. CASE Live(d)  BY <1>2, <2>4, <3>1 DEF OrderedAfter
    <3>2. CASE ~Live(d)  BY <1>2, <2>3, <3>2 DEF DeletionIsOrdered, OrderedAfter
    <3> QED  BY <3>1, <3>2
  <2> QED  BY <1>0, <2>2, <2>5
<1>5. CASE OneMore
  <2>1. PICK i \in JobIds, e \in Docs, k \in Kinds \ {"delete"} : Live(e) /\ Added(i, e, k)
    BY <1>5 DEF OneMore
  <2>2. OneRowPerKind' /\ RowsStep
    BY <2>1 DEF Added, SameShape, OneRowPerKind, RowsStep
  <2>3. ASSUME NEW d \in Docs, ~Live(d)
        PROVE  \A kinds : RowsOf(d, kinds)' = RowsOf(d, kinds)
    <3>1. \A j \in Rows : jobs[j].doc = d => j \in Rows' /\ j # i
      BY <1>1, <2>1, <2>3 DEF LiveLosses, Added, Fresh
    <3>2. jobs'[i].doc # d  BY <2>1, <2>3 DEF Added
    <3> QED  BY <2>1, <3>1, <3>2 DEF RowsOf, Added, SameShape
  <2>4. ASSUME NEW d \in Docs, Live(d)  PROVE RowsOf(d, {"delete"})' = {}
    <3>1. RowsOf(d, {"delete"}) = {}  BY <2>4 DEF DeletionIsOrdered
    <3> QED  BY <2>1, <3>1 DEF RowsOf, Added, SameShape
  <2>5. DeletionIsOrdered'
    <3> SUFFICES ASSUME NEW d \in Docs
                 PROVE  OrderedAfter(d)
      BY DEF DeletionIsOrdered, OrderedAfter
    <3>1. CASE Live(d)  BY <1>2, <2>4, <3>1 DEF OrderedAfter
    <3>2. CASE ~Live(d)  BY <1>2, <2>3, <3>2 DEF DeletionIsOrdered, OrderedAfter
    <3> QED  BY <3>1, <3>2
  <2> QED  BY <1>0, <2>2, <2>5
<1> QED  BY <1>4, <1>5, <1>0

(* The operations that change which documents there are. *)

LEMMA UploadTable ==
  ASSUME TypeOK, OneRowPerKind, DeletionIsOrdered, NoneUnmarked, NEW d \in Docs, Upload(d)
  PROVE  OneRowPerKind' /\ DeletionIsOrdered' /\ NoneUnmarked' /\ RowsStep
<1>1. /\ docs[d].status = "none" /\ docs' = [docs EXCEPT ![d].status = "queued"]
      /\ \A e \in Docs \ {d} : docs'[e] = docs[e]
  BY DEF Upload, TypeOK
<1>2. RowsOf(d, {"delete"}) = {} /\ RowsOf(d, Kinds \ {"delete"}) = {}
  BY <1>1 DEF DeletionIsOrdered, Live
<1>3. RowsOf(d, Kinds) = {}  BY <1>2 DEF RowsOf
<1>4. PICK i \in JobIds :
        Fresh(i) /\ jobs' = [jobs EXCEPT ![i] = NewJob(d, "index", DefaultPriority["index"])]
  BY DEF Upload
<1>5. DefaultPriority["index"] \in Priorities /\ "index" \in Kinds
  BY DefaultPriorityType DEF Kinds
<1>6. Added(i, d, "index") /\ Rows \subseteq Rows'
  <2>1. RowsOf(d, {"index"}) = {}  BY <1>3, <1>5 DEF RowsOf
  <2> QED  BY <1>4, <1>5, <2>1, AddsOnlyRow
<1>7. OneRowPerKind' /\ RowsStep  BY <1>6 DEF Added, SameShape, OneRowPerKind, RowsStep
<1>8. Live(d)' /\ NoneUnmarked'
  BY <1>1 DEF Live, NoneUnmarked, TypeOK, DocRow
<1>9. DeletionIsOrdered'
  <2> SUFFICES ASSUME NEW e \in Docs
               PROVE  OrderedAfter(e)
    BY DEF DeletionIsOrdered, OrderedAfter
  <2>1. CASE e = d
    <3>1. RowsOf(d, {"delete"})' = {}  BY <1>2, <1>6 DEF Added, SameShape, RowsOf
    <3> QED  BY <1>8, <2>1, <3>1 DEF OrderedAfter
  <2>2. CASE e # d
    <3>1. \A kinds : RowsOf(e, kinds)' = RowsOf(e, kinds)
      BY <1>6, <2>2 DEF Added, SameShape, RowsOf, Fresh
    <3>2. docs'[e] = docs[e] /\ (Live(e)' <=> Live(e))  BY <1>1, <2>2 DEF Live
    <3> QED  BY <3>1, <3>2 DEF DeletionIsOrdered, OrderedAfter
  <2> QED  BY <2>1, <2>2
<1> QED  BY <1>7, <1>8, <1>9


LEMMA DeleteTable ==
  ASSUME TypeOK, OneRowPerKind, DeletionIsOrdered, NoneUnmarked, NEW d \in Docs, Delete(d)
  PROVE  OneRowPerKind' /\ DeletionIsOrdered' /\ NoneUnmarked' /\ RowsStep
<1> DEFINE others == {"index", "context", "reprocess"}
           gone == RowsOf(d, others)
<1>0. Live(d) /\ RowsOf(d, {"delete"}) = {}  BY DEF Delete, DeletionIsOrdered
<1>1. /\ Live(d) /\ docs' = [docs EXCEPT ![d].deleted = TRUE] /\ RowsOf(d, {"delete"}) = {}
      /\ \A e \in Docs \ {d} : docs'[e] = docs[e]
  BY <1>0 DEF Delete, TypeOK
<1>2. docs'[d].status = docs[d].status /\ docs'[d].deleted
  BY <1>1 DEF TypeOK, DocRow
<1>3. PICK i \in JobIds :
        /\ Fresh(i)
        /\ jobs' = [[j \in JobIds |-> IF j \in gone THEN NoRow ELSE jobs[j]] EXCEPT
                       ![i] = NewJob(d, "delete", DefaultPriority["delete"])]
  BY DEF Delete, Without
<1>4. Added(i, d, "delete") /\ Rows \ Rows' \subseteq gone
  <2>1. DefaultPriority["delete"] \in Priorities /\ "delete" \in Kinds
    BY DefaultPriorityType DEF Kinds
  <2>2. gone \in SUBSET JobIds /\ RowsOf(d, {"delete"}) \subseteq gone
    BY <1>1 DEF RowsOf, Rows
  <2> HIDE DEF gone
  <2> QED  BY <1>3, <2>1, <2>2, AddsRow
<1>5. Rows' \cap gone = {}
  <2>1. i \notin gone  BY <1>3 DEF Fresh, RowsOf
  <2>2. \A j \in gone : j \in JobIds /\ jobs'[j] = NoRow
    BY <1>3, <2>1 DEF RowsOf, Rows, TypeOK
  <2> QED  BY <2>2 DEF Rows
<1>6. OneRowPerKind' /\ RowsStep  BY <1>4 DEF Added, SameShape, OneRowPerKind, RowsStep
<1>7. DeletionIsOrdered'
  <2> SUFFICES ASSUME NEW e \in Docs
               PROVE  OrderedAfter(e)
    BY DEF DeletionIsOrdered, OrderedAfter
  <2>1. CASE e = d
    <3>1. RowsOf(d, Kinds \ {"delete"})' = {}
      <4>1. Kinds \ {"delete"} = others  BY DEF Kinds
      <4>2. i \notin RowsOf(d, others)'  BY <1>4 DEF Added, RowsOf
      <4>3. \A j \in Rows' \ {i} : j \notin RowsOf(d, others)'
        BY <1>4, <1>5 DEF Added, SameShape, RowsOf
      <4> QED  BY <4>1, <4>2, <4>3 DEF RowsOf
    <3>2. i \in RowsOf(d, {"delete"})'  BY <1>4 DEF Added, RowsOf
    <3>3. ~Live(d)' /\ docs'[d].status \notin {"none", "erased"}  BY <1>1, <1>2 DEF Live
    <3> QED  BY <2>1, <3>1, <3>2, <3>3 DEF OrderedAfter
  <2>2. CASE e # d
    <3>1. \A kinds : RowsOf(e, kinds)' = RowsOf(e, kinds)
      <4>1. \A j \in Rows : jobs[j].doc = e => j \in Rows'
        BY <1>4, <2>2 DEF RowsOf
      <4> QED  BY <1>4, <2>2, <4>1 DEF Added, SameShape, RowsOf, Fresh
    <3>2. docs'[e] = docs[e] /\ (Live(e)' <=> Live(e))  BY <1>1, <2>2 DEF Live
    <3> QED  BY <3>1, <3>2 DEF DeletionIsOrdered, OrderedAfter
  <2> QED  BY <2>1, <2>2
<1>8. NoneUnmarked'  BY <1>1, <1>2 DEF NoneUnmarked, Live
<1> QED  BY <1>6, <1>7, <1>8

LEMMA EraseTable ==
  ASSUME TypeOK, OneRowPerKind, DeletionIsOrdered, NoneUnmarked, NEW s \in Slots, Erase(s)
  PROVE  OneRowPerKind' /\ DeletionIsOrdered' /\ NoneUnmarked' /\ Shrunk
<1> DEFINE d == task[s].doc
<1>1. d \in Docs  BY BusyTask DEF Erase, At
<1>2. /\ docs'[d].status = "erased"
      /\ \A e \in Docs \ {d} : docs'[e] = docs[e]
  BY <1>1 DEF Erase, TypeOK, DocRow
<1>3. /\ \A j \in JobIds : jobs'[j] = IF j \in RowsOf(d, Kinds) THEN NoRow ELSE jobs[j]
      /\ Rows' = Rows \ RowsOf(d, Kinds)
  BY DEF Erase, Without, Rows
<1>4. \A j \in Rows : j \in JobIds /\ jobs[j].kind \in Kinds  BY DEF Rows, TypeOK, JobRow
<1>5. /\ \A j \in Rows' : j \in Rows /\ jobs'[j] = jobs[j] /\ jobs[j].doc # d
      /\ \A j \in Rows : jobs[j].doc # d => j \in Rows'
  BY <1>3, <1>4 DEF RowsOf
<1>6. OneRowPerKind' /\ Shrunk  BY <1>5 DEF OneRowPerKind, Shrunk, SameShape
<1>7. DeletionIsOrdered'
  <2> SUFFICES ASSUME NEW e \in Docs
               PROVE  OrderedAfter(e)
    BY DEF DeletionIsOrdered, OrderedAfter
  <2>1. CASE e = d
    <3>1. RowsOf(e, Kinds \ {"delete"})' = {} /\ RowsOf(e, {"delete"})' = {}
      BY <1>5, <2>1 DEF RowsOf
    <3> QED  BY <1>2, <2>1, <3>1 DEF OrderedAfter
  <2>2. CASE e # d
    <3>1. \A kinds : RowsOf(e, kinds)' = RowsOf(e, kinds)  BY <1>5, <2>2 DEF RowsOf
    <3>2. docs'[e] = docs[e] /\ (Live(e)' <=> Live(e))  BY <1>2, <2>2 DEF Live
    <3> QED  BY <3>1, <3>2 DEF DeletionIsOrdered, OrderedAfter
  <2> QED  BY <2>1, <2>2
<1>8. NoneUnmarked'  BY <1>2 DEF NoneUnmarked
<1> QED  BY <1>6, <1>7, <1>8


LEMMA TableStep ==
  ASSUME TypeOK, Agreement, OneRowPerKind, DeletionIsOrdered, NoneUnmarked, DeleteKeepsTrying,
         Next
  PROVE  OneRowPerKind' /\ DeletionIsOrdered' /\ NoneUnmarked' /\ RowsStep
<1>1. TypeOK'  BY NextTypeOK
<1>2. CASE \E d \in Docs : Upload(d)  BY <1>2, UploadTable
<1>3. CASE \E d \in Docs : Delete(d)  BY <1>3, DeleteTable
<1>4. CASE \E s \in Slots : Erase(s)
  BY <1>4, EraseTable DEF Shrunk, RowsStep
<1>5. CASE Fewer \/ OneMore  BY <1>1, <1>5, TableKept
<1>6. CASE \E d \in Docs : Request(d) /\ ~Upload(d) /\ ~Delete(d)  BY <1>5, <1>6, RequestTable
<1>7. CASE \/ SetPaused \/ Process
           \/ \E j \in JobIds : Clock(j) \/ ClaimReplyLost(j)
           \/ \E s \in Slots : Renew(s) \/ \E j \in JobIds : Claim(s, j)
  BY <1>5, <1>7, OtherTable
<1>8. CASE \E s \in Slots : Work(s) /\ ~Erase(s)  BY <1>5, <1>8, WorkTable
<1>9. CASE \E s \in Slots : Outcome(s)  BY <1>5, <1>9, OutcomeTable
<1> QED  BY <1>2, <1>3, <1>4, <1>6, <1>7, <1>8, <1>9 DEF Next

LEMMA AgreementStep ==
  ASSUME TypeOK, Agreement, RowsStep, Next
  PROVE  Agreement'
<1>1. ASSUME NEW s \in Busy, task[s].id \in Rows'
      PROVE  /\ jobs'[task[s].id].doc = task[s].doc
             /\ jobs'[task[s].id].kind = task[s].kind
  BY <1>1 DEF RowsStep, Fresh, SameShape, Agreement, HasRow
<1>2. CASE SameTasks  BY <1>1, <1>2 DEF SameTasks, Agreement, HasRow
<1>3. CASE Busy' = {}  BY <1>3 DEF Agreement
<1>4. ASSUME NEW s \in Slots, NEW j \in JobIds, Claim(s, j)  PROVE Agreement'
  <2>1. j \in Rows /\ jobs' = Taken(j)  BY <1>4 DEF Claim, NextInTurn
  <2>2. jobs'[j].doc = jobs[j].doc /\ jobs'[j].kind = jobs[j].kind
    BY <2>1, TakenTable DEF ShapeKept, SameShape
  <2>3. /\ task'[s].id = j /\ task'[s].doc = jobs[j].doc /\ task'[s].kind = jobs[j].kind
        /\ \A t \in Slots \ {s} : task'[t] = task[t]
    BY <1>4 DEF Claim, TypeOK
  <2>4. ASSUME NEW t \in Busy', HasRow(t)'
        PROVE  jobs'[task'[t].id].doc = task'[t].doc /\ jobs'[task'[t].id].kind = task'[t].kind
    <3>1. CASE t = s  BY <2>2, <2>3, <3>1
    <3>2. CASE t # s
      <4>1. t \in Busy /\ task'[t] = task[t]  BY <2>3, <3>2 DEF Busy
      <4> QED  BY <1>1, <2>4, <4>1 DEF HasRow
    <3> QED  BY <3>1, <3>2
  <2> QED  BY <2>4 DEF Agreement
<1>5. ASSUME NEW s \in Slots, End(s)  PROVE Agreement'
  <2>1. \A t \in Busy' : t \in Busy /\ task'[t] = task[t]  BY <1>5 DEF End, Busy, TypeOK
  <2> QED  BY <1>1, <2>1 DEF Agreement, HasRow
<1> QED  BY <1>2, <1>3, <1>4, <1>5, StepsOfTasks

LEMMA DeletePc ==
  ASSUME TypeOK, DeleteKeepsTrying, NEW s \in Slots, Work(s) \/ Outcome(s),
         task[s].kind = "delete"
  PROVE  /\ task'[s] = Idle \/ task'[s].pc \notin {"abandoning", "givingUp"}
         /\ \A t \in Slots \ {s} : task'[t] = task[t]
<1>1. task[s] # Idle
  BY DEF Work, StartIndex, StartReprocess, TakePortion, SavePortion, Erase, Replace, CleanUp,
         NoticeWithdrawal, YieldPoint, WorkFails, Reject, Outcome, YieldTurn, Requeue, Postpone,
         GiveUp, Abandon, OutcomeNotSaved, Interrupted, DropWithdrawn, Release, End, At
<1>2. task[s] \in TaskRow /\ task \in [Slots -> TaskRow \union {Idle}]
  BY <1>1, BusyTask DEF TypeOK
<1>3. ASSUME NEW pc, pc \notin {"abandoning", "givingUp"},
             Goes(s, pc) \/ task' = [task EXCEPT ![s].pc = pc]
      PROVE  task'[s].pc \notin {"abandoning", "givingUp"}
  BY <1>2, <1>3 DEF Goes, TaskRow
<1>4. CASE Erase(s)  BY <1>2, <1>3, <1>4 DEF Erase, Goes
<1>5. CASE CleanUp(s)  BY <1>2, <1>5 DEF CleanUp, TaskRow
<1>6. CASE WorkFails(s)
  <2>1. Goes(s, "postponing")  BY <1>6 DEF WorkFails, AfterFailure
  <2> QED  BY <1>2, <1>3, <2>1 DEF Goes
<1>7. Work(s) => Erase(s) \/ CleanUp(s) \/ WorkFails(s)
  BY DEF Work, StartIndex, StartReprocess, TakePortion, SavePortion, Replace, NoticeWithdrawal,
         YieldPoint, Reject, OfKind, ProcessingKinds
<1>8. CASE Outcome(s) /\ ~End(s)
  <2>1. \/ \E pc \in {"handedBack", "postponed", "closed"} : Goes(s, pc)
        \/ \E pc \in {"unwinding", "released"} : task' = [task EXCEPT ![s].pc = pc]
    BY <1>8 DEF Outcome, YieldTurn, Requeue, Postpone, GiveUp, Abandon, OutcomeNotSaved,
                Interrupted, DropWithdrawn, Release
  <2> QED  BY <1>2, <1>3, <2>1 DEF Goes
<1>9. CASE End(s)  BY <1>2, <1>9 DEF End
<1> QED  BY <1>4, <1>5, <1>6, <1>7, <1>8, <1>9


LEMMA DeleteStep ==
  ASSUME TypeOK, DeleteKeepsTrying, Next
  PROVE  DeleteKeepsTrying'
<1> DEFINE Trying(t) == t = Idle \/ t.kind # "delete" \/ t.pc \notin {"abandoning", "givingUp"}
<1>0. task \in [Slots -> TaskRow \union {Idle}]  BY DEF TypeOK
<1>1. \A s \in Slots : Trying(task[s])  BY DEF DeleteKeepsTrying, OfKind, Busy
<1>2. SUFFICES \A s \in Slots : Trying(task'[s])
  BY <1>2 DEF DeleteKeepsTrying, OfKind, Busy
<1>3. CASE task' = task  BY <1>1, <1>3
<1>4. CASE Process
  <2>1. CASE Start \/ Stopped  BY <1>1, <2>1 DEF Start, Stopped
  <2>2. CASE Crash  BY <2>2 DEF Crash
  <2>3. CASE Stop
    <3> SUFFICES ASSUME NEW s \in Slots, task[s] # Idle  PROVE Trying(task'[s])
      BY <2>3 DEF Stop
    <3>1. task'[s] = [task[s] EXCEPT !.cancelled = TRUE] /\ task[s] \in TaskRow
      BY <1>0, <2>3 DEF Stop
    <3>2. task'[s].kind = task[s].kind /\ task'[s].pc = task[s].pc  BY <3>1 DEF TaskRow
    <3> QED  BY <1>1, <3>2
  <2> QED  BY <1>4, <2>1, <2>2, <2>3 DEF Process
<1>5. ASSUME NEW s \in Slots, NEW j \in JobIds, Claim(s, j)
      PROVE  \A t \in Slots : Trying(task'[t])
  <2>1. /\ task'[s].kind = jobs[j].kind /\ task'[s].pc = FirstStep(j)
        /\ \A t \in Slots \ {s} : task'[t] = task[t]
    BY <1>0, <1>5 DEF Claim
  <2>2. jobs[j].kind = "delete" => FirstStep(j) = "taken"  BY DEF FirstStep
  <2> QED  BY <1>1, <2>1, <2>2
<1>6. ASSUME NEW s \in Slots, Renew(s)
      PROVE  \A t \in Slots : Trying(task'[t])
  <2>1. CASE task' = task  BY <1>1, <2>1
  <2>2. CASE task' = [task EXCEPT ![s].cancelled = TRUE, ![s].renewing = FALSE]
    <3>1. task[s] \in TaskRow  BY <1>6, BusyTask DEF Renew
    <3>2. task'[s].kind = task[s].kind /\ task'[s].pc = task[s].pc
      BY <1>0, <2>2, <3>1 DEF TaskRow
    <3> QED  BY <1>0, <1>1, <1>6, <2>2, <3>2 DEF Renew
  <2> QED  BY <1>6, <2>1, <2>2 DEF Renew
<1>7. ASSUME NEW s \in Slots, Work(s) \/ Outcome(s)
      PROVE  \A t \in Slots : Trying(task'[t])
  <2>1. CASE task[s].kind = "delete"  BY <1>1, <1>7, <2>1, DeletePc
  <2>2. CASE task[s].kind # "delete"
    <3>1. SameTasks \/ End(s)  BY <1>7, WorkSame, OutcomeSame
    <3>2. task[s] # Idle
      BY <1>7 DEF Work, StartIndex, StartReprocess, TakePortion, SavePortion, Erase, Replace,
         CleanUp, NoticeWithdrawal, YieldPoint, WorkFails, Reject, Outcome, YieldTurn, Requeue,
         Postpone, GiveUp, Abandon, OutcomeNotSaved, Interrupted, DropWithdrawn, Release, End, At
    <3>3. \A t \in Slots \ {s} : task'[t] = task[t]
      <4>1. CASE Work(s)
        BY <1>0, <4>1 DEF Work, StartIndex, StartReprocess, TakePortion, SavePortion, Erase,
           Replace, CleanUp, NoticeWithdrawal, YieldPoint, WorkFails, Reject, Goes
      <4>2. CASE Outcome(s)
        BY <1>0, <4>2 DEF Outcome, YieldTurn, Requeue, Postpone, GiveUp, Abandon,
           OutcomeNotSaved, Interrupted, DropWithdrawn, Release, End, Goes
      <4> QED  BY <1>7, <4>1, <4>2
    <3>4. task'[s] = Idle \/ task'[s].kind # "delete"
      BY <1>0, <2>2, <3>1, <3>2 DEF SameTasks, Busy, End
    <3> QED  BY <1>1, <3>3, <3>4
  <2> QED  BY <2>1, <2>2
<1> QED
  BY <1>3, <1>4, <1>5, <1>6, <1>7
     DEF Next, Request, Upload, Delete, RetryError, RetryReprocess, Reindex, ReprocessStart,
         SetPaused, Clock, LeaseExpires, BecomesDue, ClaimReplyLost, memory

LEMMA TableInvStep == TableInv /\ [Next]_vars => TableInv'
<1> SUFFICES ASSUME TableInv, [Next]_vars PROVE TableInv'  OBVIOUS
<1>1. CASE UNCHANGED vars
  BY <1>1 DEF vars, TableInv, TypeOK, Agreement, ProcessingExact, OneProcessingTask,
              OneRowPerKind, DeletionIsOrdered, NoneUnmarked, DeleteKeepsTrying, HasRow, Rows,
              RowsOf, Busy, OfKind, Live
<1>2. CASE Next
  <2> USE DEF TableInv
  <2>1. TypeOK'  BY <1>2, NextTypeOK
  <2>2. OneProcessingTask' /\ ProcessingExact'  BY <1>2, PlacesStep
  <2>3. OneRowPerKind' /\ DeletionIsOrdered' /\ NoneUnmarked' /\ RowsStep
    BY <1>2, TableStep
  <2>4. Agreement'  BY <1>2, <2>3, AgreementStep
  <2>5. DeleteKeepsTrying'  BY <1>2, DeleteStep
  <2> QED  BY <2>1, <2>2, <2>3, <2>4, <2>5
<1> QED  BY <1>1, <1>2

(* What makes the two theorems below inductive. *)
LEMMA TableInvariant == Spec => []TableInv
<1>1. Init => TableInv
  <2> SUFFICES ASSUME Init PROVE TableInv  OBVIOUS
  <2>1. Busy = {} /\ Rows = {} /\ TypeOK  BY InitTypeOK DEF Init, Busy, Rows
  <2>2. OneProcessingTask /\ ProcessingExact /\ Agreement /\ DeleteKeepsTrying
    BY <2>1 DEF Init, OneProcessingTask, ProcessingExact, Agreement, DeleteKeepsTrying
  <2>3. OneRowPerKind /\ DeletionIsOrdered /\ NoneUnmarked
    BY <2>1 DEF Init, OneRowPerKind, DeletionIsOrdered, NoneUnmarked, RowsOf
  <2> QED  BY <2>1, <2>2, <2>3 DEF TableInv
<1> QED  BY <1>1, TableInvStep, PTL DEF Spec

(* No interleaving of requests, tasks, stops and lost replies leaves two    *)
(* jobs of a kind.  Uploads and deletions insert theirs unasked and never   *)
(* meet the unique key of kb_jobs; the retry of an error may, and is        *)
(* refused by it (KbService.retry, SqlJobQueue.add).                        *)
THEOREM OneJobPerKind == Spec => []OneRowPerKind
  BY TableInvariant, PTL DEF TableInv

(* A deleted document has its delete job and no other until it is erased,   *)
(* whatever tasks and requests were under way when it was deleted.          *)
THEOREM DeletionOrder == Spec => []DeletionIsOrdered
  BY TableInvariant, PTL DEF TableInv

(* Both of them at once: what the model checker finds for the job table of  *)
(* one document and two places holds of every table.                        *)
THEOREM TableOrder == Spec => []JobsAreOrdered
<1>1. TableInv => JobsAreOrdered  BY DEF TableInv, JobsAreOrdered
<1> QED  BY <1>1, TableInvariant, PTL

-----------------------------------------------------------------------------
(* The status a user sees follows the jobs, as long as no commit succeeds   *)
(* without its reply (NoneQueuedWithoutJob is what happens otherwise).      *)

(* A task of "index" that gives its job up as abandoned found no document.  *)
AbandonedIsGone ==
    \A s \in Busy : OfKind(s, {"index"}) /\ task[s].pc = "abandoning" => ~Live(task[s].doc)

(* The document of a task was added. *)
TasksOfDocs == \A s \in Busy : docs[task[s].doc].status # "none"

(* A job that is given back is not renewed any more. *)
GivenBack == {"yielding", "requeueing", "handedBack"}

Quiet(t) == t.pc \in GivenBack => ~t.renewing

GivenBackIsQuiet == \A s \in Busy : Quiet(task[s])

(* The inductive invariant of the statuses. *)
StatusInv ==
    /\ TableInv
    /\ StatusFollowsJobs
    /\ AbandonedIsGone
    /\ TasksOfDocs
    /\ GivenBackIsQuiet

(* A task goes on: towards its outcome and not back, and of an index it is  *)
(* abandoned only if the document is gone.                                  *)
Follows(s) ==
    /\ task'[s].id = task[s].id /\ task'[s].doc = task[s].doc /\ task'[s].kind = task[s].kind
    /\ task'[s].pc \in BeforeOutcome => task[s].pc \in BeforeOutcome
    /\ /\ task'[s].pc = "abandoning" /\ task[s].pc # "abandoning" /\ OfKind(s, {"index"})
       => ~Live(task[s].doc)
    /\ Quiet(task[s]) => Quiet(task'[s])

OthersRest(s) == \A t \in Slots \ {s} : task'[t] = task[t]

LEMMA MovedTo ==
  ASSUME TypeOK, NEW s \in Slots, NEW new \in TaskRow, task' = [task EXCEPT ![s] = new]
  PROVE  OthersRest(s) /\ task'[s] = new /\ task'[s] # Idle
<1>1. new # Idle  BY MarkersAssumption
<1> QED  BY <1>1 DEF OthersRest, TypeOK

LEMMA GoesTo ==
  ASSUME TypeOK, NEW s \in Slots, task[s] # Idle, NEW pc \in Steps, Goes(s, pc)
  PROVE  /\ OthersRest(s) /\ task'[s] # Idle
         /\ task'[s].id = task[s].id /\ task'[s].doc = task[s].doc
         /\ task'[s].kind = task[s].kind
         /\ task'[s].pc \in {pc, "unwinding"} /\ task'[s].renewing = task[s].renewing
<1> DEFINE to == IF task[s].cancelled THEN "unwinding" ELSE pc
<1>1. task[s] \in TaskRow /\ task \in [Slots -> TaskRow \union {Idle}]  BY BusyTask DEF TypeOK
<1>2. to \in Steps /\ to \in {pc, "unwinding"}  BY DEF Steps
<1> DEFINE new == [task[s] EXCEPT !.pc = to]
<1> HIDE DEF to
<1>3. /\ new \in TaskRow /\ new.id = task[s].id /\ new.doc = task[s].doc
      /\ new.kind = task[s].kind /\ new.pc = to /\ new.renewing = task[s].renewing
  BY <1>1, <1>2 DEF TaskRow
<1>4. task' = [task EXCEPT ![s] = new]  BY <1>1 DEF Goes, to
<1> HIDE DEF new
<1> QED  BY <1>2, <1>3, <1>4, MovedTo

LEMMA StopsRenewing ==
  ASSUME TypeOK, NEW s \in Slots, task[s] # Idle, NEW pc \in Steps,
         task' = [task EXCEPT ![s].renewing = FALSE,
                    ![s].pc = IF task[s].cancelled THEN "unwinding" ELSE pc]
  PROVE  /\ OthersRest(s) /\ task'[s] # Idle
         /\ task'[s].id = task[s].id /\ task'[s].doc = task[s].doc
         /\ task'[s].kind = task[s].kind
         /\ task'[s].pc \in {pc, "unwinding"} /\ task'[s].renewing = FALSE
<1> DEFINE to == IF task[s].cancelled THEN "unwinding" ELSE pc
<1>1. task[s] \in TaskRow /\ task \in [Slots -> TaskRow \union {Idle}]  BY BusyTask DEF TypeOK
<1>2. to \in Steps /\ to \in {pc, "unwinding"}  BY DEF Steps
<1> DEFINE new == [[task[s] EXCEPT !.renewing = FALSE] EXCEPT !.pc = to]
<1> HIDE DEF to
<1>3. /\ new \in TaskRow /\ new.id = task[s].id /\ new.doc = task[s].doc
      /\ new.kind = task[s].kind /\ new.pc = to /\ new.renewing = FALSE
  BY <1>1, <1>2 DEF TaskRow
<1>4. task' = [task EXCEPT ![s] = new]  BY <1>1 DEF to
<1> HIDE DEF new
<1> QED  BY <1>2, <1>3, <1>4, MovedTo

LEMMA WorkFollows ==
  ASSUME TypeOK, IndexTaskOwnsRow, NEW s \in Slots, Work(s)
  PROVE  task[s] # Idle /\ task'[s] # Idle /\ Follows(s) /\ OthersRest(s)
<1> USE DEF BeforeOutcome, GivenBack, Quiet
<1>0. task[s] # Idle /\ s \in Busy
  BY DEF Work, StartIndex, StartReprocess, TakePortion, SavePortion, Erase, Replace, CleanUp,
         NoticeWithdrawal, YieldPoint, WorkFails, Reject, At, Busy
<1>1. {"working", "abandoning", "closed", "requeueing", "replaced", "yielding", "postponing",
       "givingUp", "unwinding"} \subseteq Steps
  BY DEF Steps
<1>2. ASSUME NEW pc \in Steps, Goes(s, pc), pc \notin GivenBack,
             pc \in BeforeOutcome => task[s].pc \in BeforeOutcome,
             pc = "abandoning" /\ OfKind(s, {"index"}) => ~Live(task[s].doc)
      PROVE  task'[s] # Idle /\ Follows(s) /\ OthersRest(s)
  BY <1>0, <1>2, GoesTo DEF Follows
<1>3. CASE StartIndex(s) \/ StartReprocess(s) \/ TakePortion(s) \/ Erase(s)
  <2>1. task[s].pc = "taken"
    BY <1>3 DEF StartIndex, StartReprocess, TakePortion, Erase, At
  <2>2. \/ Goes(s, "working") \/ Goes(s, "closed")
        \/ /\ Goes(s, "abandoning")
           /\ OfKind(s, {"index"}) => ~Live(task[s].doc)
    BY <1>3 DEF StartIndex, StartReprocess, TakePortion, Erase, OfKind
  <2> QED  BY <1>0, <1>1, <1>2, <2>1, <2>2
<1>4. CASE Replace(s) \/ NoticeWithdrawal(s)
  <2>1. task[s].pc = "working"  BY <1>4 DEF Replace, NoticeWithdrawal, At
  <2>2. OfKind(s, {"index"}) /\ ~HasRow(s) => ~Live(task[s].doc)
    BY <1>0, <2>1 DEF IndexTaskOwnsRow
  <2>3. \/ Goes(s, "replaced") \/ Goes(s, AfterFailure(s))
        \/ /\ Goes(s, "abandoning")
           /\ OfKind(s, {"index"}) => ~Live(task[s].doc)
    BY <1>4, <2>2 DEF Replace, NoticeWithdrawal, StillWanted
  <2>4. AfterFailure(s) \in {"givingUp", "postponing"}  BY DEF AfterFailure
  <2> QED  BY <1>0, <1>1, <1>2, <2>1, <2>3, <2>4
<1>5. CASE WorkFails(s) \/ Reject(s)
  <2>1. task[s].pc \in {"taken", "working"}  BY <1>5 DEF WorkFails, Reject, At
  <2>2. Goes(s, AfterFailure(s)) \/ Goes(s, "givingUp")  BY <1>5 DEF WorkFails, Reject
  <2>3. AfterFailure(s) \in {"givingUp", "postponing"}  BY DEF AfterFailure
  <2> QED  BY <1>0, <1>1, <1>2, <2>1, <2>2, <2>3
<1>6. CASE SavePortion(s)
  <2>1. task[s].pc = "working" /\ ~OfKind(s, {"index"})
    BY <1>6 DEF SavePortion, At, OfKind
  <2>2. CASE Goes(s, "abandoning")  BY <1>0, <1>1, <1>2, <2>1, <2>2
  <2>3. CASE task' = [task EXCEPT ![s].renewing = FALSE,
                        ![s].pc = IF task[s].cancelled THEN "unwinding" ELSE "requeueing"]
    BY <1>0, <1>1, <2>1, <2>3, StopsRenewing DEF Follows
  <2> QED  BY <1>6, <2>2, <2>3 DEF SavePortion
<1>7. CASE CleanUp(s)
  <2>1. task' = [task EXCEPT ![s].renewing = FALSE,
                        ![s].pc = IF task[s].cancelled THEN "unwinding" ELSE "closed"]
    BY <1>7 DEF CleanUp
  <2>2. /\ OthersRest(s) /\ task'[s] # Idle
        /\ task'[s].id = task[s].id /\ task'[s].doc = task[s].doc
        /\ task'[s].kind = task[s].kind
        /\ task'[s].pc \in {"closed", "unwinding"} /\ task'[s].renewing = FALSE
    BY <1>0, <1>1, <2>1, StopsRenewing
  <2> QED  BY <1>0, <2>2 DEF Follows
<1>8. CASE YieldPoint(s)
  <2>1. /\ task[s].pc = "working"
        /\ task' = [task EXCEPT ![s].renewing = FALSE,
                        ![s].pc = IF task[s].cancelled THEN "unwinding" ELSE "yielding"]
    BY <1>8 DEF YieldPoint, At
  <2> QED  BY <1>0, <1>1, <2>1, StopsRenewing DEF Follows
<1> QED  BY <1>0, <1>3, <1>4, <1>5, <1>6, <1>7, <1>8 DEF Work

LEMMA OutcomeFollows ==
  ASSUME TypeOK, NEW s \in Slots, Outcome(s)
  PROVE  /\ task[s] # Idle /\ OthersRest(s)
         /\ task'[s] = Idle \/ (Follows(s) /\ task'[s].pc \notin BeforeOutcome)
<1> USE DEF BeforeOutcome, GivenBack, Quiet
<1>0. task[s] # Idle /\ s \in Busy
  BY DEF Outcome, YieldTurn, Requeue, Postpone, GiveUp, Abandon, OutcomeNotSaved, Interrupted,
         DropWithdrawn, Release, End, At, Busy
<1>1. task[s] \in TaskRow /\ task \in [Slots -> TaskRow \union {Idle}]
  BY <1>0, BusyTask DEF TypeOK
<1>2. {"handedBack", "postponed", "closed", "unwinding", "released"} \subseteq Steps
  BY DEF Steps
<1>3. CASE \/ YieldTurn(s) \/ Requeue(s) \/ Postpone(s) \/ GiveUp(s) \/ Abandon(s)
           \/ OutcomeNotSaved(s)
  <2>1. PICK pc \in {"handedBack", "postponed", "closed"} :
          Goes(s, pc) /\ (pc = "handedBack" => task[s].pc \in {"yielding", "requeueing"})
    BY <1>3 DEF YieldTurn, Requeue, Postpone, GiveUp, Abandon, OutcomeNotSaved, At
  <2> QED  BY <1>0, <1>2, <2>1, GoesTo DEF Follows
<1>4. CASE Interrupted(s) \/ DropWithdrawn(s) \/ Release(s)
  <2>1. PICK pc \in {"unwinding", "released"} : task' = [task EXCEPT ![s].pc = pc]
    BY <1>4 DEF Interrupted, DropWithdrawn, Release
  <2> DEFINE new == [task[s] EXCEPT !.pc = pc]
  <2>2. /\ new \in TaskRow /\ new.id = task[s].id /\ new.doc = task[s].doc
        /\ new.kind = task[s].kind /\ new.pc = pc /\ new.renewing = task[s].renewing
    BY <1>1, <1>2 DEF TaskRow
  <2>3. task' = [task EXCEPT ![s] = new]  BY <1>1, <2>1
  <2> HIDE DEF new
  <2> QED  BY <1>0, <1>2, <2>2, <2>3, MovedTo DEF Follows
<1>5. CASE End(s)  BY <1>0, <1>1, <1>5 DEF End, OthersRest
<1> QED  BY <1>3, <1>4, <1>5, <1>0 DEF Outcome

LEMMA SameFollows ==
  ASSUME NEW t \in Slots, task'[t] = task[t]
  PROVE  Follows(t)
  BY DEF Follows, Quiet

(* Every task that is there after a step is one that went on, or a new one. *)
LEMMA TasksFollow ==
  ASSUME TypeOK, IndexTaskOwnsRow, Next
  PROVE  \A t \in Slots : task'[t] # Idle =>
            (task[t] # Idle /\ Follows(t)) \/ \E j \in JobIds : Claim(t, j)
<1> SUFFICES ASSUME NEW t \in Slots, task'[t] # Idle
             PROVE  (task[t] # Idle /\ Follows(t)) \/ \E j \in JobIds : Claim(t, j)
  OBVIOUS
<1>0. task \in [Slots -> TaskRow \union {Idle}]  BY DEF TypeOK
<1>1. CASE task'[t] = task[t]  BY <1>1, SameFollows
<1>2. CASE task' = task  BY <1>1, <1>2
<1>3. CASE Process
  <2>1. CASE Start \/ Stopped  BY <1>2, <2>1 DEF Start, Stopped
  <2>2. CASE Crash  BY <2>2 DEF Crash
  <2>3. CASE Stop
    <3>1. task[t] # Idle /\ task'[t] = [task[t] EXCEPT !.cancelled = TRUE]  BY <2>3 DEF Stop
    <3>2. task[t] \in TaskRow  BY <1>0, <3>1
    <3>3. /\ task'[t].id = task[t].id /\ task'[t].doc = task[t].doc
          /\ task'[t].kind = task[t].kind /\ task'[t].pc = task[t].pc
          /\ task'[t].renewing = task[t].renewing
      BY <3>1, <3>2 DEF TaskRow
    <3> QED  BY <3>1, <3>3 DEF Follows, Quiet
  <2> QED  BY <1>3, <2>1, <2>2, <2>3 DEF Process
<1>4. ASSUME NEW s \in Slots, NEW j \in JobIds, Claim(s, j)
      PROVE  (task[t] # Idle /\ Follows(t)) \/ Claim(t, j)
  <2>1. CASE t = s  BY <1>4, <2>1
  <2>2. CASE t # s  BY <1>0, <1>1, <1>4, <2>2 DEF Claim
  <2> QED  BY <2>1, <2>2
<1>5. ASSUME NEW s \in Slots, Renew(s)  PROVE task[t] # Idle /\ Follows(t)
  <2>1. CASE task' = task  BY <1>2, <2>1, SameFollows
  <2>2. CASE task' = [task EXCEPT ![s].cancelled = TRUE, ![s].renewing = FALSE]
    <3> DEFINE new == [[task[s] EXCEPT !.cancelled = TRUE] EXCEPT !.renewing = FALSE]
    <3>1. task[s] \in TaskRow /\ task[s] # Idle  BY <1>0, <1>5 DEF Renew
    <3>2. /\ new \in TaskRow /\ new.id = task[s].id /\ new.doc = task[s].doc
          /\ new.kind = task[s].kind /\ new.pc = task[s].pc /\ new.renewing = FALSE
      BY <3>1 DEF TaskRow
    <3>3. task' = [task EXCEPT ![s] = new]  BY <1>0, <2>2
    <3> HIDE DEF new
    <3>4. OthersRest(s) /\ task'[s] = new  BY <3>2, <3>3, MovedTo
    <3>5. Follows(s)  BY <3>2, <3>4 DEF Follows, Quiet
    <3> QED  BY <3>1, <3>4, <3>5, SameFollows DEF OthersRest
  <2> QED  BY <1>5, <2>1, <2>2 DEF Renew
<1>6. ASSUME NEW s \in Slots, Work(s)  PROVE task[t] # Idle /\ Follows(t)
  BY <1>6, WorkFollows, SameFollows DEF OthersRest
<1>7. ASSUME NEW s \in Slots, Outcome(s)  PROVE task[t] # Idle /\ Follows(t)
  BY <1>7, OutcomeFollows, SameFollows DEF OthersRest
<1> QED
  BY <1>2, <1>3, <1>4, <1>5, <1>6, <1>7, SameFollows
     DEF Next, Request, Upload, Delete, RetryError, RetryReprocess, Reindex, ReprocessStart,
         SetPaused, Clock, LeaseExpires, BecomesDue, ClaimReplyLost, memory

(* A document is added once; a deleted one does not come back. *)
LEMMA LifeStep ==
  ASSUME TypeOK, Agreement, DeletionIsOrdered, DeleteKeepsTrying, Next
  PROVE  \A d \in Docs : /\ Live(d)' => Live(d) \/ docs[d].status = "none"
                         /\ docs'[d].status = "none" => docs[d].status = "none"
<1>0. docs \in [Docs -> DocRow]  BY DEF TypeOK
<1>1. CASE SameLife  BY <1>1, LiveKept DEF SameLife, Alive
<1>2. CASE \E d \in Docs : Upload(d)  BY <1>0, <1>2 DEF Upload, Live, DocRow
<1>3. CASE \E d \in Docs : Delete(d)  BY <1>0, <1>3 DEF Delete, Live, DocRow
<1>4. CASE \E s \in Slots : Erase(s)
  <2>1. PICK s \in Slots : Erase(s)  BY <1>4
  <2>2. task[s].doc \in Docs  BY <2>1, BusyTask DEF Erase, At
  <2>3. /\ docs'[task[s].doc].status = "erased"
        /\ \A e \in Docs \ {task[s].doc} : docs'[e] = docs[e]
    BY <1>0, <2>1, <2>2 DEF Erase, DocRow
  <2> QED  BY <2>3 DEF Live
<1>5. CASE Fewer \/ OneMore  BY <1>1, <1>5 DEF Fewer, OneMore
<1>6. CASE \E d \in Docs : Request(d) /\ ~Upload(d) /\ ~Delete(d)  BY <1>5, <1>6, RequestTable
<1>7. CASE \/ SetPaused \/ Process
           \/ \E j \in JobIds : Clock(j) \/ ClaimReplyLost(j)
           \/ \E s \in Slots : Renew(s) \/ \E j \in JobIds : Claim(s, j)
  BY <1>5, <1>7, OtherTable
<1>8. CASE \E s \in Slots : Work(s) /\ ~Erase(s)  BY <1>5, <1>8, WorkTable
<1>9. CASE \E s \in Slots : Outcome(s)  BY <1>5, <1>9, OutcomeTable
<1> QED  BY <1>2, <1>3, <1>4, <1>6, <1>7, <1>8, <1>9 DEF Next

(* The rows after a change of the table: those of gone left, i of e and k came. *)
Exchanged(gone, i, e, k) ==
    \A d, kinds : RowsOf(d, kinds)' =
        (RowsOf(d, kinds) \ gone) \union (IF d = e /\ k \in kinds THEN {i} ELSE {})

LEMMA RowsWithNew ==
  ASSUME NEW gone, NEW i \in JobIds, Fresh(i),
         NEW e \in Docs, NEW k \in Kinds, NEW p \in Priorities,
         jobs'[i] = NewJob(e, k, p),
         \A j \in JobIds \ {i} : jobs'[j] = IF j \in gone THEN NoRow ELSE jobs[j]
  PROVE  Exchanged(gone, i, e, k)
<1> SUFFICES ASSUME NEW d, NEW kinds
             PROVE  RowsOf(d, kinds)' =
                      (RowsOf(d, kinds) \ gone) \union (IF d = e /\ k \in kinds THEN {i} ELSE {})
  BY DEF Exchanged
<1>1. NewJob(e, k, p) \in JobRow  BY NewJobType
<1>2. NewJob(e, k, p) # NoRow  BY <1>1, MarkersAssumption
<1>3. jobs'[i].doc = e /\ jobs'[i].kind = k /\ jobs'[i] # NoRow
  BY <1>2 DEF NewJob
<1>4. i \notin Rows  BY DEF Fresh
<1> QED  BY <1>3, <1>4 DEF RowsOf, Rows

LEMMA RowsWithOneMore ==
  ASSUME TypeOK, NEW i \in JobIds, Fresh(i), NEW e \in Docs, NEW k \in Kinds,
         NEW p \in Priorities, jobs' = [jobs EXCEPT ![i] = NewJob(e, k, p)]
  PROVE  Exchanged({}, i, e, k)
<1> DEFINE gone == {}
<1>1. /\ jobs'[i] = NewJob(e, k, p)
      /\ \A j \in JobIds \ {i} : jobs'[j] = IF j \in gone THEN NoRow ELSE jobs[j]
  BY DEF TypeOK
<1> HIDE DEF gone
<1>2. Exchanged(gone, i, e, k)  BY <1>1, RowsWithNew
<1> QED  BY <1>2 DEF gone

LEMMA RowsWithoutOne ==
  ASSUME TypeOK, NEW i \in JobIds, jobs' = [jobs EXCEPT ![i] = NoRow], NEW d, NEW kinds
  PROVE  RowsOf(d, kinds)' = RowsOf(d, kinds) \ {i}
  BY DEF TypeOK, RowsOf, Rows

LEMMA RowsKept ==
  ASSUME ShapeKept, NEW d, NEW kinds
  PROVE  RowsOf(d, kinds)' = RowsOf(d, kinds)
  BY DEF ShapeKept, SameShape, RowsOf

(* How a step may change a document that is not deleted after it.  It stays *)
(* as it is, enters the queue, is reprocessed, or an index task leaves it.  *)
InQueue == {"queued", "processing"}

Calm(d) ==
    /\ Live(d)
    /\ docs'[d].status = docs[d].status \/ {docs[d].status, docs'[d].status} \subseteq InQueue
    /\ RowsOf(d, {"index"})' = RowsOf(d, {"index"})
    /\ RowsOf(d, {"reprocess"})' \subseteq RowsOf(d, {"reprocess"})

Enters(d) ==
    /\ docs'[d].status = "queued"
    /\ RowsOf(d, {"index"}) \subseteq RowsOf(d, {"index"})'
    /\ RowsOf(d, {"index"})' # {} /\ RowsOf(d, {"reprocess"})' = {}

IsReprocessed(d) ==
    /\ Live(d)
    /\ docs[d].status = "ready" /\ docs'[d].status = "ready"
    /\ RowsOf(d, {"index"})' = RowsOf(d, {"index"})

IsLeft(d) ==
    /\ docs'[d].status \in {"ready", "error"}
    /\ RowsOf(d, {"index"})' = {} /\ RowsOf(d, {"reprocess"})' = {}
    /\ \E s \in Busy : /\ OfKind(s, {"index"}) /\ task[s].doc = d
                       /\ task'[s] = Idle \/ task'[s].pc \notin BeforeOutcome

Changes == \A d \in Docs : Live(d)' => Calm(d) \/ Enters(d) \/ IsReprocessed(d) \/ IsLeft(d)

LEMMA Untouched ==
  ASSUME NEW d \in Docs, Live(d)', docs'[d] = docs[d],
         \A k \in {"index", "reprocess"} : RowsOf(d, {k})' = RowsOf(d, {k})
  PROVE  Calm(d)
<1>1. Live(d)  BY DEF Live
<1> QED  BY <1>1 DEF Calm

LEMMA NothingChanges ==
  ASSUME docs' = docs, ShapeKept
  PROVE  Changes
<1>1. \A d \in Docs, k \in {"index", "reprocess"} : RowsOf(d, {k})' = RowsOf(d, {k})
  BY RowsKept
<1> QED  BY <1>1, Untouched DEF Changes

LEMMA SameRowsKeepShape ==
  ASSUME jobs' = jobs
  PROVE  ShapeKept
  BY DEF ShapeKept, SameShape, Rows

LEMMA RequestChanges ==
  ASSUME TypeOK, DeletionIsOrdered, StatusFollowsJobs, NEW d \in Docs, Request(d)
  PROVE  Changes
<1>0. /\ DefaultPriority["index"] \in Priorities /\ DefaultPriority["delete"] \in Priorities
      /\ DefaultPriority["reprocess"] \in Priorities
      /\ {"index", "delete", "reprocess"} \subseteq Kinds
  BY DefaultPriorityType DEF Kinds
<1>1. /\ docs \in [Docs -> DocRow]
      /\ \A e \in Docs \ {d} : docs'[e] = docs[e]
  BY DEF TypeOK, Request, Upload, Delete, RetryError, RetryReprocess, Reindex, ReprocessStart
<1> DEFINE queued == [docs EXCEPT ![d].status = "queued"]
<1>2. docs' = queued => docs'[d].status = "queued"  BY <1>1 DEF DocRow
<1>3. ASSUME NEW i \in JobIds, Fresh(i),
             jobs' = [jobs EXCEPT ![i] = NewJob(d, "index", DefaultPriority["index"])],
             docs' = queued, RowsOf(d, {"reprocess"}) = {}
      PROVE  Changes
  <2>1. Exchanged({}, i, d, "index")
    <3> DEFINE p == DefaultPriority["index"]
    <3>1. jobs' = [jobs EXCEPT ![i] = NewJob(d, "index", p)] /\ p \in Priorities
      BY <1>0, <1>3
    <3>2. "index" \in Kinds /\ Fresh(i)  BY <1>0, <1>3
    <3> HIDE DEF p
    <3> QED  BY <3>1, <3>2, RowsWithOneMore
  <2>2. Enters(d)  BY <1>2, <1>3, <2>1 DEF Enters, Exchanged
  <2>3. \A e \in Docs \ {d}, k \in {"index", "reprocess"} : RowsOf(e, {k})' = RowsOf(e, {k})
    BY <2>1 DEF Exchanged
  <2> QED  BY <1>1, <2>2, <2>3, Untouched DEF Changes
<1>4. CASE Upload(d)
  <2>1. RowsOf(d, Kinds \ {"delete"}) = {}  BY <1>4 DEF Upload, DeletionIsOrdered, Live
  <2>2. RowsOf(d, {"reprocess"}) = {}  BY <1>0, <2>1 DEF RowsOf
  <2> QED  BY <1>3, <1>4, <2>2 DEF Upload
<1>5. CASE RetryError(d)
  <2>1. RowsOf(d, {"reprocess"}) = {}
    BY <1>5 DEF RetryError, StatusFollowsJobs, ReprocessOnlyReady
  <2>2. CASE docs' = docs /\ jobs' = jobs
    <3>1. \A e \in Docs : docs'[e] = docs[e] /\ \A k \in {"index", "reprocess"} :
             RowsOf(e, {k})' = RowsOf(e, {k})
      BY <2>2 DEF RowsOf, Rows
    <3> QED  BY <3>1, Untouched DEF Changes
  <2>3. CASE ~(docs' = docs /\ jobs' = jobs)
    BY <1>3, <1>5, <2>1, <2>3 DEF RetryError
  <2> QED  BY <2>2, <2>3
<1>6. CASE Delete(d)
  <2>1. ~Live(d)'  BY <1>1, <1>6 DEF Delete, Live, DocRow
  <2> DEFINE gone == RowsOf(d, {"index", "context", "reprocess"})
             p == DefaultPriority["delete"]
  <2>2. PICK i \in JobIds :
          /\ Fresh(i)
          /\ jobs' = [[j \in JobIds |-> IF j \in gone THEN NoRow ELSE jobs[j]] EXCEPT
                         ![i] = NewJob(d, "delete", p)]
    BY <1>6 DEF Delete, Without
  <2>3. gone \in SUBSET JobIds /\ \A e \in Docs \ {d} : \A k : RowsOf(e, {k}) \cap gone = {}
    BY DEF RowsOf, Rows
  <2>4. p \in Priorities /\ "delete" \in Kinds  BY <1>0
  <2>7. jobs'[i] = NewJob(d, "delete", p)  BY <2>2
  <2>8. \A j \in JobIds \ {i} : jobs'[j] = IF j \in gone THEN NoRow ELSE jobs[j]
    BY <2>2
  <2> HIDE DEF gone, p
  <2>5. Exchanged(gone, i, d, "delete")
    BY <2>2, <2>4, <2>7, <2>8, RowsWithNew
  <2>6. \A e \in Docs \ {d}, k \in {"index", "reprocess"} : RowsOf(e, {k})' = RowsOf(e, {k})
    BY <2>3, <2>5 DEF Exchanged
  <2> QED  BY <1>1, <2>1, <2>6, Untouched DEF Changes
<1>7. CASE RetryReprocess(d) \/ ReprocessStart(d)
  <2>1. Live(d) /\ docs[d].status = "ready" /\ docs'[d].status = "ready"
    BY <1>1, <1>7 DEF RetryReprocess, ReprocessStart, DocRow
  <2>2. CASE \E i \in JobIds, p \in Priorities :
               Fresh(i) /\ jobs' = [jobs EXCEPT ![i] = NewJob(d, "reprocess", p)]
    <3>1. PICK i \in JobIds, p \in Priorities :
            Fresh(i) /\ jobs' = [jobs EXCEPT ![i] = NewJob(d, "reprocess", p)]
      BY <2>2
    <3>2. Exchanged({}, i, d, "reprocess")
      BY <1>0, <3>1, RowsWithOneMore
    <3>3. RowsOf(d, {"index"})' = RowsOf(d, {"index"})  BY <3>2 DEF Exchanged
    <3>4. \A e \in Docs \ {d}, k \in {"index", "reprocess"} : RowsOf(e, {k})' = RowsOf(e, {k})
      BY <3>2 DEF Exchanged
    <3> QED  BY <1>1, <2>1, <3>3, <3>4, Untouched DEF Changes, IsReprocessed
  <2>3. CASE \E j \in RowsOf(d, {"reprocess"}) :
               jobs' = [jobs EXCEPT ![j].prio = DefaultPriority["index"]]
    <3>1. PICK j \in RowsOf(d, {"reprocess"}) :
            jobs' = [jobs EXCEPT ![j].prio = DefaultPriority["index"]]
      BY <2>3
    <3>2. j \in JobIds /\ jobs[j] \in JobRow /\ jobs[j] # NoRow  BY DEF RowsOf, Rows, TypeOK
    <3> DEFINE row == [jobs[j] EXCEPT !.prio = DefaultPriority["index"]]
    <3>3. row \in JobRow /\ row.doc = jobs[j].doc /\ row.kind = jobs[j].kind
      BY <1>0, <3>2 DEF JobRow
    <3>4. jobs' = [jobs EXCEPT ![j] = row]  BY <3>1, <3>2 DEF TypeOK
    <3> HIDE DEF row
    <3>5. ShapeKept  BY <3>2, <3>3, <3>4, KeepsRow
    <3>6. \A e, k : RowsOf(e, {k})' = RowsOf(e, {k})  BY <3>5, RowsKept
    <3> QED  BY <1>1, <2>1, <3>6, Untouched DEF Changes, IsReprocessed
  <2> QED  BY <1>0, <1>7, <2>2, <2>3 DEF RetryReprocess, ReprocessStart
<1>8. CASE Reindex(d)
  <2> DEFINE gone == RowsOf(d, {"reprocess", "context"})
             table == [j \in JobIds |-> IF j \in gone THEN NoRow ELSE jobs[j]]
             p == DefaultPriority["index"]
  <2>1. jobs' \in ResetOrAdd(d, table) /\ docs' = queued  BY <1>8 DEF Reindex, Without
  <2>2. gone \in SUBSET JobIds /\ \A e \in Docs \ {d} : \A k : RowsOf(e, {k}) \cap gone = {}
    BY DEF RowsOf, Rows
  <2>3. RowsOf(d, {"reprocess"}) \subseteq gone /\ RowsOf(d, {"index"}) \cap gone = {}
    BY DEF RowsOf
  <2>4. p \in Priorities  BY <1>0
  <2>5. CASE RowsOf(d, {"index"}) = {}
    <3>1. PICK i \in JobIds : Fresh(i) /\ jobs' = [table EXCEPT ![i] = NewJob(d, "index", p)]
      BY <2>1, <2>5 DEF ResetOrAdd, NewIndexJob
    <3>5. jobs'[i] = NewJob(d, "index", p)  BY <3>1
    <3>6. \A j \in JobIds \ {i} : jobs'[j] = IF j \in gone THEN NoRow ELSE jobs[j]
      BY <3>1
    <3> HIDE DEF gone, p
    <3>2. Exchanged(gone, i, d, "index")
      BY <1>0, <2>4, <3>1, <3>5, <3>6, RowsWithNew
    <3>3. Enters(d)  BY <1>2, <2>1, <2>3, <2>5, <3>2 DEF Enters, Exchanged
    <3>4. \A e \in Docs \ {d}, k \in {"index", "reprocess"} : RowsOf(e, {k})' = RowsOf(e, {k})
      BY <2>2, <3>2 DEF Exchanged
    <3> QED  BY <1>1, <3>3, <3>4, Untouched DEF Changes
  <2>6. CASE RowsOf(d, {"index"}) # {}
    <3>1. PICK j \in RowsOf(d, {"index"}) :
             jobs' = [table EXCEPT ![j].attempts = 0, ![j].due = TRUE]
      BY <2>1, <2>6 DEF ResetOrAdd
    <3>2. j \in JobIds /\ jobs[j] # NoRow /\ jobs[j] \in JobRow /\ j \notin gone
      BY DEF RowsOf, Rows, TypeOK
    <3> DEFINE row == [[jobs[j] EXCEPT !.attempts = 0] EXCEPT !.due = TRUE]
    <3>3. row \in JobRow /\ row.doc = jobs[j].doc /\ row.kind = jobs[j].kind
      BY <3>2 DEF JobRow
    <3>4. row # NoRow  BY <3>3, MarkersAssumption
    <3>5. jobs' = [table EXCEPT ![j] = row]  BY <3>1, <3>2
    <3> HIDE DEF row
    <3>6. jobs'[j] = row /\ \A k \in JobIds \ {j} : jobs'[k] = table[k]  BY <3>2, <3>5
    <3>7. Rows' = Rows \ gone /\ \A k \in Rows' : SameShape(k)
      BY <3>2, <3>3, <3>4, <3>6 DEF Rows, SameShape
    <3> HIDE DEF gone
    <3>8. \A e \in Docs, k \in Kinds : RowsOf(e, {k})' = RowsOf(e, {k}) \ gone
      BY <3>7 DEF RowsOf, SameShape
    <3>11. {"index", "reprocess"} \subseteq Kinds  BY DEF Kinds
    <3>9. Enters(d)  BY <1>2, <2>1, <2>3, <2>6, <3>8, <3>11 DEF Enters
    <3>10. \A e \in Docs \ {d}, k \in {"index", "reprocess"} : RowsOf(e, {k})' = RowsOf(e, {k})
      <4> SUFFICES ASSUME NEW e \in Docs \ {d}, NEW k \in {"index", "reprocess"}
                   PROVE  RowsOf(e, {k})' = RowsOf(e, {k})
        OBVIOUS
      <4>1. RowsOf(e, {k}) \cap gone = {}  BY <2>2
      <4>2. RowsOf(e, {k})' = RowsOf(e, {k}) \ gone  BY <3>8, <3>11
      <4> QED  BY <4>1, <4>2
    <3> QED  BY <1>1, <3>9, <3>10, Untouched DEF Changes
  <2> QED  BY <2>5, <2>6
<1> QED  BY <1>4, <1>5, <1>6, <1>7, <1>8 DEF Request

(* Time, the process, claims and renewals keep the rows and their labels. *)
LEMMA OtherChanges ==
  ASSUME TypeOK, QueuedIffIndexJob,
         \/ SetPaused \/ Process
         \/ \E j \in JobIds : Clock(j) \/ ClaimReplyLost(j)
         \/ \E s \in Slots : Renew(s) \/ \E j \in JobIds : Claim(s, j)
  PROVE  Changes
<1> USE DEF database, memory
<1>1. CASE Start
  <2>1. ShapeKept  BY <1>1, SameRowsKeepShape DEF Start
  <2>2. \A d \in Docs, k \in {"index", "reprocess"} : RowsOf(d, {k})' = RowsOf(d, {k})
    BY <2>1, RowsKept
  <2>3. ASSUME NEW d \in Docs, Live(d)'  PROVE Calm(d)
    <3>1. docs[d] \in DocRow  BY DEF TypeOK
    <3>2. CASE docs'[d] = docs[d]  BY <2>2, <2>3, <3>2, Untouched
    <3>3. CASE docs'[d] # docs[d]
      <4>1. docs[d].status = "processing" /\ docs'[d] = [docs[d] EXCEPT !.status = "queued"]
        BY <1>1, <3>3 DEF Start
      <4>2. docs'[d].status = "queued" /\ docs'[d].deleted = docs[d].deleted
        BY <3>1, <4>1 DEF DocRow
      <4> QED  BY <2>2, <2>3, <4>1, <4>2 DEF Calm, Live, InQueue
    <3> QED  BY <3>2, <3>3
  <2> QED  BY <2>3 DEF Changes
<1>2. CASE SetPaused \/ Crash \/ Stop \/ Stopped
  BY <1>2, NothingChanges, SameRowsKeepShape DEF SetPaused, Crash, Stop, Stopped
<1>3. ASSUME NEW j \in JobIds, Clock(j)  PROVE Changes
  <2>1. j \in Rows /\ jobs[j] \in JobRow /\ docs' = docs
    BY <1>3 DEF Clock, LeaseExpires, BecomesDue, Rows, TypeOK
  <2> DEFINE r1 == [jobs[j] EXCEPT !.lease = "expired"]
             r2 == [jobs[j] EXCEPT !.due = TRUE]
  <2>2. /\ r1 \in JobRow /\ r1.doc = jobs[j].doc /\ r1.kind = jobs[j].kind
        /\ r2 \in JobRow /\ r2.doc = jobs[j].doc /\ r2.kind = jobs[j].kind
    BY <2>1 DEF JobRow
  <2>3. jobs' = [jobs EXCEPT ![j] = r1] \/ jobs' = [jobs EXCEPT ![j] = r2]
    BY <1>3 DEF Clock, LeaseExpires, BecomesDue, TypeOK
  <2>4. jobs[j] # NoRow  BY <2>1 DEF Rows
  <2> HIDE DEF r1, r2
  <2>5. ShapeKept  BY <2>2, <2>3, <2>4, KeepsRow
  <2> QED  BY <2>1, <2>5, NothingChanges
<1>4. ASSUME NEW j \in JobIds, ClaimReplyLost(j)  PROVE Changes
  BY <1>4, TakenTable, NothingChanges DEF ClaimReplyLost, NextInTurn
<1>5. ASSUME NEW s \in Slots, NEW j \in JobIds, Claim(s, j)  PROVE Changes
  BY <1>5, TakenTable, NothingChanges DEF Claim, NextInTurn
<1>6. ASSUME NEW s \in Slots, Renew(s)  PROVE Changes
  <2>1. docs' = docs /\ task[s] # Idle  BY <1>6 DEF Renew
  <2>2. CASE jobs' = jobs  BY <2>1, <2>2, NothingChanges, SameRowsKeepShape
  <2>3. CASE /\ task[s].id \in Rows
             /\ jobs' = [jobs EXCEPT ![task[s].id].lease = "held"]
    <3> DEFINE i == task[s].id
               row == [jobs[i] EXCEPT !.lease = "held"]
    <3>1. i \in JobIds /\ jobs[i] \in JobRow /\ jobs[i] # NoRow  BY <2>3 DEF Rows, TypeOK
    <3>2. row \in JobRow /\ row.doc = jobs[i].doc /\ row.kind = jobs[i].kind
      BY <3>1 DEF JobRow
    <3>3. jobs' = [jobs EXCEPT ![i] = row]  BY <2>3, <3>1 DEF TypeOK
    <3> HIDE DEF row, i
    <3>4. ShapeKept  BY <3>1, <3>2, <3>3, KeepsRow
    <3> QED  BY <2>1, <3>4, NothingChanges
  <2> QED  BY <1>6, <2>2, <2>3 DEF Renew
<1> QED  BY <1>1, <1>2, <1>3, <1>4, <1>5, <1>6 DEF Process

(* The row of a task is the one of its document and kind. *)
LEMMA OwnRow ==
  ASSUME TypeOK, Agreement, OneRowPerKind, NEW s \in Slots, task[s] # Idle, HasRow(s)
  PROVE  RowsOf(task[s].doc, {task[s].kind}) = {task[s].id}
<1>1. jobs[task[s].id].doc = task[s].doc /\ jobs[task[s].id].kind = task[s].kind
  BY DEF Agreement, Busy
<1> QED  BY <1>1 DEF HasRow, RowsOf, OneRowPerKind

(* The rows after the job of a task was removed. *)
Dropped(s) ==
    \A d \in Docs, k \in Kinds :
        /\ RowsOf(d, {k})' \subseteq RowsOf(d, {k})
        /\ d # task[s].doc \/ k # task[s].kind \/ ~HasRow(s) => RowsOf(d, {k})' = RowsOf(d, {k})
        /\ HasRow(s) /\ d = task[s].doc /\ k = task[s].kind => RowsOf(d, {k})' = {}

LEMMA DropsOwn ==
  ASSUME TypeOK, Agreement, OneRowPerKind, NEW s \in Slots, task[s] # Idle,
         jobs' = [jobs EXCEPT ![task[s].id] = NoRow]
  PROVE  Dropped(s)
<1>1. task[s].id \in JobIds  BY BusyTask
<1>2. HasRow(s) => /\ jobs[task[s].id].doc = task[s].doc
                   /\ jobs[task[s].id].kind = task[s].kind
  BY DEF Agreement, Busy
<1>3. HasRow(s) => RowsOf(task[s].doc, {task[s].kind}) = {task[s].id}  BY OwnRow
<1>4. task[s].id \in Rows => HasRow(s)  BY DEF HasRow
<1> SUFFICES ASSUME NEW d \in Docs, NEW k \in Kinds
             PROVE
               /\ RowsOf(d, {k})' \subseteq RowsOf(d, {k})
               /\ d # task[s].doc \/ k # task[s].kind \/ ~HasRow(s)
                    => RowsOf(d, {k})' = RowsOf(d, {k})
               /\ HasRow(s) /\ d = task[s].doc /\ k = task[s].kind => RowsOf(d, {k})' = {}
  BY DEF Dropped
<1>5. RowsOf(d, {k})' = RowsOf(d, {k}) \ {task[s].id}  BY <1>1, RowsWithoutOne
<1>6. task[s].id \in RowsOf(d, {k}) => HasRow(s) /\ d = task[s].doc /\ k = task[s].kind
  BY <1>2, <1>4 DEF RowsOf
<1>7. d # task[s].doc \/ k # task[s].kind \/ ~HasRow(s) => RowsOf(d, {k})' = RowsOf(d, {k})
  BY <1>5, <1>6
<1>8. HasRow(s) /\ d = task[s].doc /\ k = task[s].kind => RowsOf(d, {k})' = {}
  BY <1>3, <1>5
<1> QED  BY <1>5, <1>7, <1>8

LEMMA WorkChanges ==
  ASSUME ~LostReplies, TypeOK, Agreement, OneRowPerKind, StatusFollowsJobs,
         NEW s \in Slots, Work(s)
  PROVE  Changes
<1> USE DEF database
<1>0. task[s] # Idle /\ s \in Busy
  BY DEF Work, StartIndex, StartReprocess, TakePortion, SavePortion, Erase, Replace, CleanUp,
         NoticeWithdrawal, YieldPoint, WorkFails, Reject, At, Busy
<1>d. PICK d \in Docs : d = task[s].doc  BY <1>0, BusyTask
<1> USE <1>d
<1>1. task[s].id \in JobIds /\ d = task[s].doc /\ docs \in [Docs -> DocRow]
  BY <1>0, <1>d, BusyTask DEF TypeOK
<1>2. CASE docs' = docs /\ jobs' = jobs  BY <1>2, NothingChanges, SameRowsKeepShape
<1>3. CASE StartIndex(s) /\ docs' # docs
  <2>1. /\ Live(d) /\ docs' = [docs EXCEPT ![d].status = "processing"] /\ jobs' = jobs
        /\ task[s].pc = "taken" /\ OfKind(s, {"index"})
    BY <1>3 DEF StartIndex, At
  <2>2. HasRow(s)
    BY <1>0, <2>1 DEF StatusFollowsJobs, IndexTaskOwnsRow, BeforeOutcome
  <2>3. RowsOf(d, {"index"}) # {}  BY <1>0, <2>1, <2>2, OwnRow DEF OfKind
  <2>4. docs[d].status \in InQueue
    BY <1>1, <2>1, <2>3 DEF StatusFollowsJobs, QueuedIffIndexJob, InQueue
  <2>5. ShapeKept  BY <2>1, SameRowsKeepShape
  <2>6. \A e \in Docs, k \in {"index", "reprocess"} : RowsOf(e, {k})' = RowsOf(e, {k})
    BY <2>5, RowsKept
  <2>7. docs'[d].status = "processing" /\ \A e \in Docs \ {d} : docs'[e] = docs[e]
    BY <1>1, <2>1 DEF DocRow
  <2>8. Calm(d)  BY <2>1, <2>4, <2>6, <2>7 DEF Calm, InQueue
  <2> QED  BY <2>6, <2>7, <2>8, Untouched DEF Changes
<1>4. CASE TakePortion(s) /\ jobs' # jobs
  <2>1. /\ docs' = docs /\ task[s].kind = "context"
        /\ jobs' = [jobs EXCEPT ![task[s].id] = NoRow]
    BY <1>4 DEF TakePortion, OfKind
  <2>2. \A e \in Docs, k \in {"index", "reprocess"} : RowsOf(e, {k})' = RowsOf(e, {k})
    BY <1>0, <2>1, DropsOwn DEF Dropped, Kinds
  <2> QED  BY <2>1, <2>2, Untouched DEF Changes
<1>5. CASE Erase(s)
  <2>1. docs'[d].status = "erased" /\ \A e \in Docs \ {d} : docs'[e] = docs[e]
    BY <1>1, <1>5 DEF Erase, DocRow
  <2>2. /\ \A j \in JobIds : jobs'[j] = IF j \in RowsOf(d, Kinds) THEN NoRow ELSE jobs[j]
        /\ Rows' = Rows \ RowsOf(d, Kinds)
    BY <1>5 DEF Erase, Without, Rows
  <2>3. \A e \in Docs \ {d}, k \in {"index", "reprocess"} : RowsOf(e, {k})' = RowsOf(e, {k})
    BY <2>2 DEF RowsOf, Rows
  <2>4. ~Live(d)'  BY <2>1 DEF Live
  <2> QED  BY <2>1, <2>3, <2>4, Untouched DEF Changes
<1>6. CASE Replace(s) /\ StillWanted(s)
  <2>d. PICK k \in ProcessingKinds : k = task[s].kind  BY <1>6 DEF Replace, OfKind
  <2> USE <2>d
  <2> DEFINE others(e, l) == e # d \/ l # k
  <2>1. Live(d) /\ HasRow(s) /\ k \in ProcessingKinds
    BY <1>6 DEF Replace, StillWanted, OfKind
  <2>2. RowsOf(d, {k}) = {task[s].id}  BY <1>0, <2>1, OwnRow
  <2>3. /\ \A e \in Docs, l \in {"index", "reprocess"} :
              others(e, l) => RowsOf(e, {l})' = RowsOf(e, {l})
        /\ RowsOf(d, {k})' = {}
    <3>1. CASE jobs' = [jobs EXCEPT ![task[s].id] = NoRow]
      BY <1>0, <2>1, <3>1, DropsOwn DEF Dropped, Kinds, ProcessingKinds
    <3>2. CASE jobs' # [jobs EXCEPT ![task[s].id] = NoRow]
      <4> DEFINE gone == {task[s].id}
                 p == ContextPriority(s)
      <4>1. PICK j \in JobIds :
              /\ Fresh(j)
              /\ jobs' = [jobs EXCEPT ![task[s].id] = NoRow, ![j] = NewJob(d, "context", p)]
        BY <1>6, <3>2 DEF Replace, Completed, DoneWithContext
      <4>2. [jobs EXCEPT ![task[s].id] = NoRow] =
              [i \in JobIds |-> IF i \in gone THEN NoRow ELSE jobs[i]]
        BY <1>1 DEF TypeOK
      <4>3. p \in Priorities /\ "context" \in Kinds /\ gone \in SUBSET JobIds
        BY <1>1, DefaultPriorityType
           DEF ContextPriority, BulkContextPriority, Priorities, Kinds
      <4>4. /\ jobs'[j] = NewJob(d, "context", p)
            /\ \A i \in JobIds \ {j} : jobs'[i] = IF i \in gone THEN NoRow ELSE jobs[i]
        BY <4>1, <4>2
      <4> HIDE DEF gone, p
      <4>5. Exchanged(gone, j, d, "context")
        BY <1>1, <4>1, <4>3, <4>4, RowsWithNew
      <4>6. \A e \in Docs, l \in {"index", "reprocess"} : RowsOf(e, {l})' = RowsOf(e, {l}) \ gone
        BY <4>5 DEF Exchanged
      <4>7. \A e \in Docs, l \in {"index", "reprocess"} :
              others(e, l) => task[s].id \notin RowsOf(e, {l})
        BY <2>2 DEF RowsOf
      <4>8. \A e \in Docs, l \in {"index", "reprocess"} :
              others(e, l) => RowsOf(e, {l})' = RowsOf(e, {l})
        <5> SUFFICES ASSUME NEW e \in Docs, NEW l \in {"index", "reprocess"}, others(e, l)
                     PROVE  RowsOf(e, {l})' = RowsOf(e, {l})
          OBVIOUS
        <5>1. RowsOf(e, {l})' = RowsOf(e, {l}) \ gone  BY <4>6
        <5>2. task[s].id \notin RowsOf(e, {l})  BY <4>7
        <5> QED  BY <5>1, <5>2 DEF gone
      <4>9. RowsOf(d, {k})' = {}
        <5>1. RowsOf(d, {k})' = RowsOf(d, {k}) \ gone  BY <4>6 DEF ProcessingKinds
        <5> QED  BY <2>2, <5>1 DEF gone
      <4> QED  BY <4>8, <4>9
    <3> QED  BY <3>1, <3>2
  <2>4. \A e \in Docs \ {d} : docs'[e] = docs[e]  BY <1>1, <1>6 DEF Replace
  <2>5. CASE k = "index"
    <3>1. docs'[d].status = "ready"  BY <1>1, <1>6, <2>5 DEF Replace, DocRow, StillWanted
    <3>2. RowsOf(d, {"reprocess"}) = {}
      BY <1>1, <2>2, <2>5 DEF StatusFollowsJobs, ReprocessOnlyReady
    <3>3. task'[s].pc \notin BeforeOutcome
      <4>1. Goes(s, "replaced") /\ "replaced" \in Steps
        BY <1>6 DEF Replace, Steps, StillWanted
      <4> QED  BY <1>0, <4>1, GoesTo DEF BeforeOutcome
    <3>4. IsLeft(d)  BY <1>0, <1>1, <2>3, <2>5, <3>1, <3>2, <3>3 DEF IsLeft, OfKind
    <3> QED  BY <2>3, <2>4, <3>4, Untouched DEF Changes
  <2>6. CASE k = "reprocess"
    <3>1. docs'[d].status = docs[d].status
      BY <1>1, <1>6, <2>6 DEF Replace, DocRow, StillWanted
    <3>2. Calm(d)  BY <1>1, <2>1, <2>3, <2>6, <3>1 DEF Calm
    <3> QED  BY <2>3, <2>4, <3>2, Untouched DEF Changes
  <2> QED  BY <2>1, <2>5, <2>6 DEF ProcessingKinds
<1> QED
  BY <1>2, <1>3, <1>4, <1>5, <1>6
     DEF Work, StartIndex, StartReprocess, TakePortion, SavePortion, Replace, CleanUp,
         NoticeWithdrawal, YieldPoint, WorkFails, Reject

LEMMA OutcomeChanges ==
  ASSUME TypeOK, Agreement, OneRowPerKind, DeletionIsOrdered, StatusFollowsJobs,
         AbandonedIsGone, DeleteKeepsTrying, NEW s \in Slots, Outcome(s)
  PROVE  Changes
<1> USE DEF database
<1>0. task[s] # Idle /\ s \in Busy
  BY DEF Outcome, YieldTurn, Requeue, Postpone, GiveUp, Abandon, OutcomeNotSaved, Interrupted,
         DropWithdrawn, Release, End, At, Busy
<1>d. PICK d \in Docs : d = task[s].doc  BY <1>0, BusyTask
<1> USE <1>d
<1>1. d = task[s].doc /\ task[s].kind \in Kinds /\ docs \in [Docs -> DocRow]
  BY <1>0, <1>d, BusyTask DEF TypeOK
<1>2. CASE docs' = docs /\ jobs' = jobs  BY <1>2, NothingChanges, SameRowsKeepShape
<1>3. ASSUME HasRow(s), OfKind(s, {"index"}), Live(d)  PROVE docs[d].status \in InQueue
  <2>1. RowsOf(d, {"index"}) # {}  BY <1>0, <1>3, OwnRow DEF OfKind
  <2> QED  BY <1>1, <1>3, <2>1 DEF StatusFollowsJobs, QueuedIffIndexJob, InQueue
<1>4. ASSUME ShapeKept, docs' = docs \/ (docs' = QueuedAgain(s) /\ Live(d) /\ HasRow(s)
                                          /\ OfKind(s, {"index"}))
      PROVE  Changes
  <2>1. CASE docs' = docs  BY <1>4, <2>1, NothingChanges
  <2>2. CASE docs' = QueuedAgain(s) /\ Live(d) /\ HasRow(s) /\ OfKind(s, {"index"})
    <3>1. docs'[d].status = "queued" /\ \A e \in Docs \ {d} : docs'[e] = docs[e]
      BY <1>1, <2>2 DEF QueuedAgain, DocRow
    <3>2. \A e \in Docs, k \in {"index", "reprocess"} : RowsOf(e, {k})' = RowsOf(e, {k})
      BY <1>4, RowsKept
    <3>3. Calm(d)  BY <1>1, <1>3, <2>2, <3>1, <3>2 DEF Calm, InQueue
    <3> QED  BY <3>1, <3>2, <3>3, Untouched DEF Changes
  <2> QED  BY <1>4, <2>1, <2>2
<1>5. CASE YieldTurn(s) \/ Requeue(s)
  <2>1. ShapeKept  BY <1>0, <1>5, TaskReturns, RowReturnedKept
  <2>2. docs' = docs \/ docs' = Label(s)  BY <1>5 DEF YieldTurn, Requeue
  <2> QED  BY <1>4, <2>1, <2>2 DEF Label
<1>6. CASE Postpone(s)
  <2>1. task[s].pc = "postponing"  BY <1>6 DEF Postpone, At
  <2>2. OfKind(s, {"index"}) /\ Live(d) => HasRow(s)
    BY <1>0, <2>1 DEF StatusFollowsJobs, IndexTaskOwnsRow, BeforeOutcome
  <2>3. ShapeKept  BY <1>0, <1>6, TaskReturns, RowReturnedKept
  <2>4. docs' = docs \/ (docs' = QueuedAgain(s) /\ OfKind(s, {"index"}) /\ Live(d))
    BY <1>6 DEF Postpone
  <2> QED  BY <1>4, <2>2, <2>3, <2>4
<1>7. CASE Release(s) /\ ~(docs' = docs /\ jobs' = jobs)
  <2>1. RowReturned(s) /\ docs' = Label(s)  BY <1>7, ReleaseReturns
  <2>2. ShapeKept  BY <1>0, <2>1, RowReturnedKept
  <2> QED  BY <1>4, <2>1, <2>2 DEF Label
<1>8. CASE GiveUp(s) \/ Abandon(s)
  <2>1. /\ jobs' = [jobs EXCEPT ![task[s].id] = NoRow]
        /\ \A e \in Docs \ {d} : docs'[e] = docs[e]
    BY <1>1, <1>8 DEF GiveUp, Abandon
  <2>d. PICK k \in Kinds : k = task[s].kind  BY <1>1
  <2> USE <2>d
  <2>8. {"index", "reprocess"} \subseteq Kinds  BY DEF Kinds
  <2>2. /\ \A e \in Docs, l \in Kinds : e # d \/ l # k => RowsOf(e, {l})' = RowsOf(e, {l})
        /\ HasRow(s) => RowsOf(d, {k})' = {}
        /\ ~HasRow(s) => \A e \in Docs, l \in Kinds : RowsOf(e, {l})' = RowsOf(e, {l})
        /\ \A e \in Docs, l \in Kinds : RowsOf(e, {l})' \subseteq RowsOf(e, {l})
    <3>1. Dropped(s)  BY <1>0, <2>1, DropsOwn
    <3>2. d \in Docs /\ d = task[s].doc  BY <1>1
    <3> HIDE DEF database
    <3> QED  BY <2>d, <3>1, <3>2 DEF Dropped
  <2>c. ASSUME NEW e \in Docs \ {d}, Live(e)'
        PROVE  Calm(e)
    <3>1. e # d /\ docs'[e] = docs[e]  BY <2>1
    <3>2. \A l \in {"index", "reprocess"} : RowsOf(e, {l})' = RowsOf(e, {l})
      BY <2>2, <2>8, <3>1
    <3> HIDE DEF database
    <3> QED  BY <2>c, <3>1, <3>2, Untouched
  <2>3. SUFFICES ASSUME Live(d)'  PROVE Calm(d) \/ IsLeft(d)
    BY <2>c DEF Changes
  <2>4. Live(d)
    BY <1>1, <1>8, <2>3 DEF GiveUp, Abandon, Live, DocRow
  <2>5. CASE GiveUp(s) /\ OfKind(s, {"index"})
    <3>1. HasRow(s)
      BY <1>0, <2>4, <2>5 DEF GiveUp, At, StatusFollowsJobs, IndexTaskOwnsRow, BeforeOutcome
    <3>2. RowsOf(d, {"index"})' = {} /\ RowsOf(d, {"index"}) # {}
      BY <1>0, <2>2, <2>5, <3>1, OwnRow DEF OfKind
    <3>3. RowsOf(d, {"reprocess"}) = {}
      BY <1>1, <3>2 DEF StatusFollowsJobs, ReprocessOnlyReady
    <3>4. docs'[d].status = "error"
      <4>1. docs' = [docs EXCEPT ![d].status = "error"]  BY <1>1, <2>4, <2>5 DEF GiveUp, OfKind
      <4> QED  BY <1>1, <4>1 DEF DocRow
    <3>5. task'[s].pc \notin BeforeOutcome
      <4>1. Goes(s, "closed") /\ "closed" \in Steps  BY <2>5 DEF GiveUp, Steps
      <4> QED  BY <1>0, <4>1, GoesTo DEF BeforeOutcome
    <3>6. RowsOf(d, {"reprocess"})' = {}  BY <2>2, <2>8, <3>3
    <3> QED  BY <1>0, <2>5, <3>2, <3>4, <3>5, <3>6 DEF IsLeft
  <2>6. CASE ~OfKind(s, {"index"})
    <3>1. docs'[d].status = docs[d].status
      BY <1>1, <1>8, <2>6 DEF GiveUp, Abandon, OfKind, DocRow
    <3> QED  BY <2>2, <2>4, <2>6, <2>8, <3>1 DEF Calm, OfKind
  <2>7. CASE Abandon(s) /\ OfKind(s, {"index"})
    BY <1>0, <2>4, <2>7 DEF Abandon, At, AbandonedIsGone
  <2> QED  BY <1>8, <2>5, <2>6, <2>7
<1> QED
  BY <1>2, <1>5, <1>6, <1>7, <1>8 DEF Outcome, OutcomeNotSaved, Interrupted, DropWithdrawn, End

LEMMA ChangesFollow ==
  ASSUME ~LostReplies, StatusInv, Next
  PROVE  Changes
<1> USE DEF StatusInv, TableInv
<1>1. QueuedIffIndexJob  BY DEF StatusFollowsJobs
<1>2. CASE \E d \in Docs : Request(d)  BY <1>2, RequestChanges
<1>3. CASE \/ SetPaused \/ Process
           \/ \E j \in JobIds : Clock(j) \/ ClaimReplyLost(j)
           \/ \E s \in Slots : Renew(s) \/ \E j \in JobIds : Claim(s, j)
  BY <1>1, <1>3, OtherChanges
<1>4. CASE \E s \in Slots : Work(s)  BY <1>4, WorkChanges
<1>5. CASE \E s \in Slots : Outcome(s)  BY <1>5, OutcomeChanges
<1> QED  BY <1>2, <1>3, <1>4, <1>5 DEF Next

(* The statuses and the jobs agree after such a change. *)
LEMMA StatusStep ==
  ASSUME TypeOK', DeletionIsOrdered', StatusFollowsJobs, Changes
  PROVE  QueuedIffIndexJob' /\ ReprocessOnlyReady'
<1>1. ASSUME NEW d \in Docs, Live(d)'
      PROVE  /\ docs'[d].status \in InQueue <=> RowsOf(d, {"index"})' # {}
             /\ RowsOf(d, {"reprocess"})' # {} => docs'[d].status = "ready"
  <2>1. Live(d) =>
          /\ docs[d].status \in InQueue <=> RowsOf(d, {"index"}) # {}
          /\ RowsOf(d, {"reprocess"}) # {} => docs[d].status = "ready"
    BY DEF StatusFollowsJobs, QueuedIffIndexJob, ReprocessOnlyReady, InQueue
  <2>2. CASE Calm(d)  BY <2>1, <2>2 DEF Calm, InQueue
  <2>3. CASE Enters(d)  BY <2>3 DEF Enters, InQueue
  <2>4. CASE IsReprocessed(d)  BY <2>1, <2>4 DEF IsReprocessed
  <2>5. CASE IsLeft(d)  BY <2>5 DEF IsLeft, InQueue
  <2> QED  BY <1>1, <2>2, <2>3, <2>4, <2>5 DEF Changes
<1>2. QueuedIffIndexJob'  BY <1>1 DEF QueuedIffIndexJob, InQueue
<1>3. ReprocessOnlyReady'
  <2> SUFFICES ASSUME NEW d \in Docs, RowsOf(d, {"reprocess"})' # {}
               PROVE  docs'[d].status = "ready" /\ RowsOf(d, {"index"})' = {}
    BY DEF ReprocessOnlyReady
  <2>1. RowsOf(d, Kinds \ {"delete"})' # {}
    BY DEF RowsOf, Kinds
  <2>2. Live(d)'  BY <2>1 DEF DeletionIsOrdered
  <2> QED  BY <1>1, <2>2 DEF InQueue
<1> QED  BY <1>2, <1>3

(* An index task keeps its row until its outcome. *)
LEMMA OwnsRowStep ==
  ASSUME ~LostReplies, StatusInv, TypeOK', Next
  PROVE  IndexTaskOwnsRow'
<1> USE DEF StatusInv, TableInv
<1>0. IndexTaskOwnsRow  BY DEF StatusFollowsJobs
<1> SUFFICES ASSUME NEW t \in Slots, NEW d, task'[t] # Idle, task'[t].kind = "index",
                    task'[t].pc \in BeforeOutcome, task'[t].doc = d, Live(d)'
             PROVE  task'[t].id \in Rows'
  BY DEF IndexTaskOwnsRow, Busy, OfKind, HasRow, Live
<1>1. ASSUME NEW j \in JobIds, Claim(t, j)  PROVE task'[t].id \in Rows'
  <2>1. j \in Rows /\ jobs' = Taken(j)  BY <1>1 DEF Claim, NextInTurn
  <2>2. Rows' = Rows  BY <2>1, TakenTable DEF ShapeKept
  <2>3. task'[t].id = j  BY <1>1 DEF Claim, TypeOK
  <2> QED  BY <2>1, <2>2, <2>3
<1>2. CASE task[t] # Idle /\ Follows(t)
  <2>1. /\ task[t].kind = "index" /\ task[t].pc \in BeforeOutcome /\ t \in Busy
        /\ task'[t].id = task[t].id /\ task[t].doc = d
    BY <1>2 DEF Follows, Busy
  <2>2. d \in Docs  BY <1>2, <2>1, BusyTask
  <2>3. Live(d)
    <3>1. Live(d) \/ docs[d].status = "none"  BY <2>1, <2>2, LifeStep
    <3> QED  BY <2>1, <3>1 DEF TasksOfDocs
  <2>4. RowsOf(d, {"index"}) = {task[t].id}
    BY <1>0, <1>2, <2>1, <2>3, OwnRow DEF IndexTaskOwnsRow, OfKind
  <2>5. RowsOf(d, {"index"}) \subseteq RowsOf(d, {"index"})' => task'[t].id \in Rows'
    BY <2>1, <2>4 DEF RowsOf
  <2>6. ~IsLeft(d)
    <3> SUFFICES ASSUME NEW s \in Busy, OfKind(s, {"index"}), task[s].doc = d,
                        task'[s] = Idle \/ task'[s].pc \notin BeforeOutcome
                 PROVE  FALSE
      BY DEF IsLeft
    <3>1. s = t  BY <2>1 DEF OneProcessingTask, OfKind, ProcessingKinds
    <3> QED  BY <3>1
  <2>7. Calm(d) \/ Enters(d) \/ IsReprocessed(d)
    BY <2>1, <2>2, <2>6, ChangesFollow DEF Changes
  <2> QED  BY <2>5, <2>7 DEF Calm, Enters, IsReprocessed
<1> QED  BY <1>0, <1>1, <1>2, TasksFollow

LEMMA TasksStep ==
  ASSUME StatusInv, Next
  PROVE  AbandonedIsGone' /\ TasksOfDocs' /\ GivenBackIsQuiet'
<1> USE DEF StatusInv, TableInv
<1>0. IndexTaskOwnsRow  BY DEF StatusFollowsJobs
<1> SUFFICES ASSUME NEW t \in Slots, NEW d, task'[t] # Idle, task'[t].doc = d
             PROVE  /\ task'[t].kind = "index" /\ task'[t].pc = "abandoning" => ~Live(d)'
                    /\ docs'[d].status # "none"
                    /\ Quiet(task'[t])
  BY DEF AbandonedIsGone, TasksOfDocs, GivenBackIsQuiet, Busy, OfKind, Live, Quiet
<1>1. ASSUME NEW j \in JobIds, Claim(t, j)
      PROVE  /\ task'[t].pc \in {"taken", "givingUp"}
             /\ docs'[d].status # "none"
  <2>1. /\ task'[t].pc = FirstStep(j) /\ d = jobs[j].doc
        /\ docs' = docs /\ j \in Rows
    BY <1>1 DEF Claim, NextInTurn, TypeOK
  <2>2. jobs[j].doc \in Docs /\ jobs[j].kind \in Kinds  BY <2>1 DEF Rows, TypeOK, JobRow
  <2>3. j \in RowsOf(d, Kinds \ {"delete"}) \/ j \in RowsOf(d, {"delete"})
    BY <2>1, <2>2 DEF RowsOf
  <2>4. docs[d].status # "none"
    BY <2>1, <2>2, <2>3 DEF DeletionIsOrdered, Live
  <2> QED  BY <2>1, <2>4 DEF FirstStep
<1>2. CASE task[t] # Idle /\ Follows(t)
  <2>1. t \in Busy /\ d = task[t].doc /\ d \in Docs  BY <1>2, BusyTask DEF Busy, Follows
  <2>2. docs[d].status # "none" /\ docs'[d].status # "none"
    BY <2>1, LifeStep DEF TasksOfDocs
  <2>3. task'[t].kind = "index" /\ task'[t].pc = "abandoning" => ~Live(d)
    BY <1>2, <2>1 DEF Follows, AbandonedIsGone, OfKind
  <2>4. Live(d)' => Live(d)  BY <2>1, <2>2, LifeStep
  <2> QED  BY <1>2, <2>1, <2>2, <2>3, <2>4 DEF Follows, GivenBackIsQuiet
<1> QED  BY <1>0, <1>1, <1>2, TasksFollow DEF Quiet, GivenBack


(* Who leases a job. *)
LEMMA LeasesStep ==
  ASSUME ~LostReplies, StatusInv, Next, NEW j \in JobIds, LeasedAgain(j)
  PROVE  ClaimedNow(j) \/ \E s \in Busy : task[s].id = j /\ task[s].pc # "handedBack"
<1> USE DEF StatusInv, TableInv
<1>1. /\ jobs[j] \in JobRow /\ jobs[j].lease = "free" /\ j \in Rows
      /\ jobs'[j] # NoRow /\ jobs'[j].lease = "held"
  BY DEF LeasedAgain, Rows, TypeOK
<1>2. jobs'[j] # jobs[j]  BY <1>1
<1>3. \A d, k, p : NewJob(d, k, p).lease = "free"  BY DEF NewJob
<1>4. jobs \in [JobIds -> JobRow \union {NoRow}]  BY DEF TypeOK
<1>5. ASSUME NEW s \in Slots, NEW i \in JobIds, Claim(s, i)  PROVE ClaimedNow(j)
  <2>1. jobs' = Taken(i) /\ task[s] = Idle  BY <1>5 DEF Claim
  <2>2. i = j  BY <1>2, <1>4, <2>1 DEF Taken
  <2>3. task'[s].id = j /\ task'[s] # Idle  BY <1>5, <2>2, ClaimedTask
  <2> QED  BY <2>1, <2>3 DEF ClaimedNow
<1>6. ASSUME NEW s \in Slots, Renew(s)
      PROVE  \E t \in Busy : task[t].id = j /\ task[t].pc # "handedBack"
  <2>1. task[s].id = j  BY <1>2, <1>4, <1>6 DEF Renew
  <2>2. s \in Busy /\ task[s].renewing  BY <1>6 DEF Renew, Busy
  <2>3. task[s].pc # "handedBack"  BY <2>2 DEF GivenBackIsQuiet, Quiet, GivenBack
  <2> QED  BY <2>1, <2>2, <2>3
<1>7. ASSUME NEW d \in Docs, Request(d)  PROVE FALSE
  <2>0. /\ DefaultPriority["index"] \in Priorities
        /\ {"index", "delete", "reprocess"} \subseteq Kinds
    BY DefaultPriorityType DEF Kinds
  <2>1. CASE Upload(d) \/ RetryError(d) \/ ReprocessStart(d)
    BY <1>1, <1>3, <1>4, <2>0, <2>1 DEF Upload, RetryError, ReprocessStart
  <2>2. CASE Delete(d)  BY <1>1, <1>3, <1>4, <2>0, <2>2 DEF Delete, Without
  <2>3. CASE RetryReprocess(d)
    <3>1. ASSUME NEW i \in RowsOf(d, {"reprocess"}),
                 jobs' = [jobs EXCEPT ![i].prio = DefaultPriority["index"]]
          PROVE  FALSE
      <4>1. i = j  BY <1>2, <1>4, <3>1
      <4>2. jobs'[j] = [jobs[j] EXCEPT !.prio = DefaultPriority["index"]]
        BY <1>4, <3>1, <4>1
      <4> QED  BY <1>1, <4>2 DEF JobRow
    <3> QED  BY <1>1, <1>3, <1>4, <2>0, <2>3, <3>1 DEF RetryReprocess
  <2>4. CASE Reindex(d)
    <3> DEFINE table == Without(d, {"reprocess", "context"})
    <3>1. jobs' \in ResetOrAdd(d, table)  BY <2>4 DEF Reindex
    <3>2. table \in [JobIds -> JobRow \union {NoRow}] /\ (table[j] = jobs[j] \/ table[j] = NoRow)
      BY <1>4 DEF Without
    <3> HIDE DEF table
    <3>3. CASE RowsOf(d, {"index"}) = {}
      BY <1>1, <1>3, <2>0, <3>1, <3>2, <3>3 DEF ResetOrAdd, NewIndexJob
    <3>4. CASE RowsOf(d, {"index"}) # {}
      <4>1. PICK i \in RowsOf(d, {"index"}) :
               jobs' = [table EXCEPT ![i].attempts = 0, ![i].due = TRUE]
        BY <3>1, <3>4 DEF ResetOrAdd
      <4>2. i # j => jobs'[j] = table[j]  BY <3>2, <4>1
      <4>3. i = j  BY <1>1, <1>2, <3>2, <4>2
      <4>4. table[j] = jobs[j]
        BY <4>3 DEF table, Without, RowsOf
      <4>5. jobs'[j] = [[jobs[j] EXCEPT !.attempts = 0] EXCEPT !.due = TRUE]
        BY <3>2, <4>1, <4>3, <4>4
      <4> QED  BY <1>1, <4>5 DEF JobRow
    <3> QED  BY <3>3, <3>4
  <2> QED  BY <1>7, <2>1, <2>2, <2>3, <2>4 DEF Request
<1>8. ASSUME NEW i \in JobIds, Clock(i)  PROVE FALSE
  <2>1. \/ jobs' = [jobs EXCEPT ![i].lease = "expired"]
        \/ jobs' = [jobs EXCEPT ![i].due = TRUE]
    BY <1>8 DEF Clock, LeaseExpires, BecomesDue
  <2>2. i = j  BY <1>2, <1>4, <2>1
  <2>3. \/ jobs'[j] = [jobs[j] EXCEPT !.lease = "expired"]
        \/ jobs'[j] = [jobs[j] EXCEPT !.due = TRUE]
    BY <1>4, <2>1, <2>2
  <2> QED  BY <1>1, <2>3 DEF JobRow
<1>9. ASSUME NEW s \in Slots, Work(s)  PROVE FALSE
  <2>0. "context" \in Kinds  BY DEF Kinds
  <2>1. task[s] # Idle
    BY <1>9 DEF Work, StartIndex, StartReprocess, TakePortion, SavePortion, Erase, Replace,
       CleanUp, NoticeWithdrawal, YieldPoint, WorkFails, Reject, At
  <2>2. task[s].id \in JobIds /\ task[s].doc \in Docs  BY <2>1, BusyTask
  <2>3. CASE TakePortion(s)  BY <1>1, <1>2, <1>4, <2>3 DEF TakePortion
  <2>4. CASE Erase(s)  BY <1>1, <1>2, <2>4 DEF Erase, Without
  <2>5. CASE Replace(s)
    <3>1. jobs' \in Completed(s)  BY <1>2, <2>5 DEF Replace
    <3>2. jobs' = [jobs EXCEPT ![task[s].id] = NoRow] \/ jobs' \in DoneWithContext(s)
      BY <3>1 DEF Completed
    <3>3. jobs' # [jobs EXCEPT ![task[s].id] = NoRow]  BY <1>1, <1>2, <1>4
    <3>4. PICK i \in JobIds :
             jobs' = [jobs EXCEPT ![task[s].id] = NoRow,
                                  ![i] = NewJob(task[s].doc, "context", ContextPriority(s))]
      BY <3>2, <3>3 DEF DoneWithContext
    <3> QED  BY <1>1, <1>2, <1>3, <1>4, <2>0, <2>2, <3>4
  <2> QED
    BY <1>2, <1>9, <2>3, <2>4, <2>5
       DEF Work, StartIndex, StartReprocess, SavePortion, CleanUp, NoticeWithdrawal, YieldPoint,
           WorkFails, Reject, database
<1>10. ASSUME NEW s \in Slots, Outcome(s)  PROVE FALSE
  <2>1. task[s] # Idle
    BY <1>10 DEF Outcome, YieldTurn, Requeue, Postpone, GiveUp, Abandon, OutcomeNotSaved,
       Interrupted, DropWithdrawn, Release, End, At
  <2>2. task[s].id \in JobIds  BY <2>1, BusyTask
  <2>3. CASE GiveUp(s) \/ Abandon(s)  BY <1>1, <1>2, <1>4, <2>3 DEF GiveUp, Abandon
  <2>4. CASE YieldTurn(s) \/ Requeue(s) \/ Postpone(s) \/ Release(s)
    <3> DEFINE i == task[s].id
               r1 == [jobs[i] EXCEPT !.lease = "free", !.attempts = 0]
               r2 == [jobs[i] EXCEPT !.lease = "free", !.due = FALSE]
               r3 == [jobs[i] EXCEPT !.lease = "free", !.attempts = Uncounted(@)]
    <3>1. \E r \in {r1, r2, r3} : jobs' = [jobs EXCEPT ![i] = r]
      BY <1>2, <2>4 DEF YieldTurn, Requeue, Postpone, Release, RowBecomes
    <3>2. i = j  BY <1>2, <1>4, <3>1
    <3>3. jobs'[j] \in {r1, r2, r3}  BY <1>4, <3>1, <3>2
    <3>4. r1.lease = "free" /\ r2.lease = "free" /\ r3.lease = "free"
      BY <1>1, <3>2 DEF JobRow
    <3> QED  BY <1>1, <3>3, <3>4
  <2> QED
    BY <1>2, <1>10, <2>3, <2>4
       DEF Outcome, OutcomeNotSaved, Interrupted, DropWithdrawn, End, database
<1>11. CASE SetPaused \/ Process
  BY <1>2, <1>11 DEF SetPaused, Process, Start, Crash, Stop, Stopped, database
<1> QED  BY <1>5, <1>6, <1>7, <1>8, <1>9, <1>10, <1>11 DEF Next, ClaimReplyLost

LEMMA StatusInvariant ==
  ASSUME ~LostReplies
  PROVE  Spec => []StatusInv
<1>1. Init => StatusInv
  <2> SUFFICES ASSUME Init PROVE StatusInv  OBVIOUS
  <2>1. Busy = {} /\ Rows = {} /\ TypeOK  BY InitTypeOK DEF Init, Busy, Rows
  <2>2. OneProcessingTask /\ ProcessingExact /\ Agreement /\ DeleteKeepsTrying
    BY <2>1 DEF Init, OneProcessingTask, ProcessingExact, Agreement, DeleteKeepsTrying
  <2>3. OneRowPerKind /\ DeletionIsOrdered /\ NoneUnmarked
    BY <2>1 DEF Init, OneRowPerKind, DeletionIsOrdered, NoneUnmarked, RowsOf
  <2>4. StatusFollowsJobs
    BY <2>1 DEF Init, StatusFollowsJobs, QueuedIffIndexJob, ReprocessOnlyReady,
                IndexTaskOwnsRow, RowsOf, Live
  <2>5. AbandonedIsGone /\ TasksOfDocs /\ GivenBackIsQuiet
    BY <2>1 DEF AbandonedIsGone, TasksOfDocs, GivenBackIsQuiet
  <2> QED  BY <2>1, <2>2, <2>3, <2>4, <2>5 DEF StatusInv, TableInv
<1>2. StatusInv /\ [Next]_vars => StatusInv'
  <2> SUFFICES ASSUME StatusInv, [Next]_vars PROVE StatusInv'  OBVIOUS
  <2>1. TableInv'  BY TableInvStep DEF StatusInv
  <2>2. CASE UNCHANGED vars
    <3>1. StatusFollowsJobs'
      BY <2>2 DEF vars, StatusInv, StatusFollowsJobs, QueuedIffIndexJob, ReprocessOnlyReady,
                  IndexTaskOwnsRow, HasRow, Rows, RowsOf, Busy, OfKind, Live
    <3>2. AbandonedIsGone' /\ TasksOfDocs' /\ GivenBackIsQuiet'
      BY <2>2 DEF vars, StatusInv, AbandonedIsGone, TasksOfDocs, GivenBackIsQuiet, Busy, OfKind,
                  Live
    <3> QED  BY <2>1, <3>1, <3>2 DEF StatusInv
  <2>3. CASE Next
    <3>1. QueuedIffIndexJob' /\ ReprocessOnlyReady'
      BY <2>1, <2>3, ChangesFollow, StatusStep DEF StatusInv, TableInv
    <3>2. IndexTaskOwnsRow'  BY <2>1, <2>3, OwnsRowStep DEF TableInv
    <3>3. AbandonedIsGone' /\ TasksOfDocs' /\ GivenBackIsQuiet'  BY <2>3, TasksStep
    <3> QED  BY <2>1, <3>1, <3>2, <3>3 DEF StatusInv, StatusFollowsJobs
  <2> QED  BY <2>2, <2>3
<1> QED  BY <1>1, <1>2, PTL DEF Spec

(* If a commit and its reply do not part, no document waits without a job   *)
(* or is indexed behind its user's back, reprocessing waits only at a ready *)
(* document, and an index task owns the row of its job until its outcome.   *)
THEOREM StatusesFollow ==
  ASSUME ~LostReplies
  PROVE  Spec => []StatusFollowsJobs
<1>1. StatusInv => StatusFollowsJobs  BY DEF StatusInv
<1> QED  BY <1>1, StatusInvariant, PTL

(* A job that was given back is leased again by a new claim only: never by  *)
(* the renewal of the task that gave it back, however late that comes.      *)
THEOREM YieldedJobsStayFree ==
  ASSUME ~LostReplies
  PROVE  Spec => YieldedStaysFree
<1> DEFINE Kept ==
      \A j \in JobIds : LeasedAgain(j) =>
          ClaimedNow(j) \/ \E s \in Busy : task[s].id = j /\ task[s].pc # "handedBack"
<1>1. StatusInv /\ [Next]_vars => [Kept]_vars
  <2> SUFFICES ASSUME StatusInv, Next PROVE Kept  OBVIOUS
  <2> QED  BY LeasesStep
<1> QED  BY <1>1, StatusInvariant, PTL DEF Spec, YieldedStaysFree

=============================================================================
