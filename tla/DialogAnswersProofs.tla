------------------------ MODULE DialogAnswersProofs ------------------------
(***************************************************************************)
(* The safety of DialogAnswers for every number of answers, requests and   *)
(* blocks, every set of kinds and every set of faults.                     *)
(*                                                                         *)
(* Between the lock of the row and the end of a recheck a request holds    *)
(* the dialog: one request at most, and what it has read of last message,  *)
(* summary and blocks stays so.  A task exists only while nobody holds the *)
(* dialog past its commit and no summary is being written.                 *)
(***************************************************************************)
EXTENDS DialogHistory, FiniteSetTheorems, WellFoundedInduction, TLAPS

(* A request that holds the row of the dialog, or checks a block again. *)
Held(r) == request[r] # None /\ request[r].pc \in Locked \union Checking

Summing == parse # None /\ parse.pc \in {"summarize", "save"}

RequestsAreKnown ==
    \A r \in Requests : request[r] # None =>
        /\ request[r].pc = "look" <=> request[r].kind \in {"view", "open"}
        /\ request[r].pc \in Checking => request[r].kind = "recheck"
        /\ request[r].kind = "recheck" =>
              /\ dialog.kind = "sql"
              /\ request[r].answer \in Answers /\ request[r].block \in Blocks
        /\ request[r].kind = "view" => request[r].answer \in Answers
        /\ request[r].pc = "summary" => dialog.kind = "docparse"
        /\ request[r].pc \in Locked => dialog.state = "ready"
        /\ process = "stopping" => request[r].pc \in Checking

(* There is one of them at most. *)
OneHolds == \A r, s \in Requests : Held(r) /\ Held(s) => r = s

(* What it has read of the dialog is still so, and nobody else works on it. *)
HolderIsAlone ==
    \A r \in Requests : request[r] # None =>
        /\ request[r].pc \in Checking \/ (request[r].pc = "commit" /\ request[r].kind = "recheck")
              => rechecking
        /\ request[r].pc \in Checking \union {"commit"} => \A a \in Answers : task[a] = None
        /\ request[r].pc = "commit" /\ Asking(r) =>
              /\ request[r].answer \in active \intersect Answers
              /\ row[request[r].answer] = None
        /\ request[r].pc = "write" =>
              /\ request[r].copy # None
              /\ row[request[r].answer] # None => row[request[r].answer].run = request[r].copy
        /\ request[r].pc \in {"last", "commit"} =>
              /\ StatusOf(last) = "streaming" => request[r].seen = "streaming"
              /\ ~Summing
        /\ request[r].pc = "summary" /\ Summing => request[r].seen = "streaming"

(* A task is marked, works on the last message, and what it is still to write is not there. *)
TasksAreLast ==
    \A a \in Answers : task[a] # None =>
        /\ a \in active
        /\ a = last \/ dialog.state = "deleted"
        /\ ~Summing
        /\ row[a] # None =>
              /\ task[a].pc \in {"produce", "save"} => row[a].status = "streaming"
              /\ task[a].pc \in {"produce", "save", "test", "store"} => row[a].run = None

(* One answer is formed at most: a deleted one ends before there is another. *)
OneTask == \A a, b \in Answers : task[a] # None /\ task[b] # None => a = b

(* A dialog that is not there, or not yet, has nothing; one with a document has a summary. *)
DialogIsWhole ==
    /\ dialog.state # "ready" =>
          last = None /\ summary = None /\ \A a \in Answers : row[a] = None
    /\ dialog.state = "ready" /\ dialog.kind = "docparse" => summary # None
    /\ dialog.state \in {"absent", "hidden"} =>
          dialog.kind = "docparse" /\ dialog.title = "none"

ParseIsKnown ==
    parse # None =>
        /\ forming /\ dialog.kind = "docparse"
        /\ parse.pc \in {"read", "publish"} => dialog.state = "hidden"
        /\ parse.pc \in {"summarize", "save"} /\ summary # None => summary.status = "streaming"

ProcessIsKnown ==
    process = "down" =>
        /\ active = {} /\ ~rechecking /\ ~forming /\ parse = None
        /\ \A a \in Answers : task[a] = None
        /\ \A r \in Requests : request[r] = None

DialogInv ==
    /\ TypeOK
    /\ RequestsAreKnown
    /\ OneHolds
    /\ HolderIsAlone
    /\ TasksAreLast
    /\ OneTask
    /\ OnlyLastUnfinished
    /\ DialogIsWhole
    /\ ParseIsKnown
    /\ ProcessIsKnown
-----------------------------------------------------------------------------
(* What a step may do to requests, rows and the dialog.                    *)

LEMMA Put ==
    ASSUME TypeOK, NEW r \in Requests, NEW q, Becomes(r, q)
    PROVE  request'[r] = q /\ \A s \in Requests \ {r} : request'[s] = request[s]
BY DEF TypeOK, Becomes

LEMMA Turned ==
    ASSUME TypeOK, NEW r \in Requests, request[r] # None, NEW pc, Goes(r, pc)
    PROVE  /\ request'[r] = [request[r] EXCEPT !.pc = pc]
           /\ request'[r].pc = pc
           /\ request'[r].kind = request[r].kind /\ request'[r].answer = request[r].answer
           /\ request'[r].block = request[r].block /\ request'[r].seen = request[r].seen
           /\ request'[r].copy = request[r].copy
           /\ \A s \in Requests \ {r} : request'[s] = request[s]
<1>1. request[r] \in Request  BY DEF TypeOK
<1>2. request' = [request EXCEPT ![r] = [request[r] EXCEPT !.pc = pc]]  BY DEF Goes
<1>3. /\ request'[r] = [request[r] EXCEPT !.pc = pc]
      /\ \A s \in Requests \ {r} : request'[s] = request[s]
  BY <1>2 DEF TypeOK
<1> QED  BY <1>1, <1>3 DEF Request

Others(r) == \A s \in Requests \ {r} : request'[s] = request[s]

Continues(r) ==
    /\ request[r] # None
    /\ request'[r].kind = request[r].kind /\ request'[r].block = request[r].block
    /\ request'[r].answer = request[r].answer \/ Asking(r)

(* A request begins: nothing is held. *)
Begins(r) ==
    /\ process = "up" /\ request[r] = None /\ Others(r)
    /\ \/ request'[r].pc = "asked" /\ request'[r].kind \in {"send", "again", "memory"}
       \/ /\ request'[r].pc = "asked" /\ request'[r].kind = "recheck" /\ dialog.kind = "sql"
          /\ request'[r].answer \in Answers /\ request'[r].block \in Blocks
       \/ request'[r].pc = "look" /\ request'[r].kind = "view" /\ request'[r].answer \in Answers
       \/ request'[r].pc = "look" /\ request'[r].kind = "open"

(* It takes the lock, ... *)
Locks(r) ==
    /\ Continues(r) /\ Others(r) /\ LockFree /\ dialog.state = "ready"
    /\ request[r].pc = "asked"
    /\ \/ request'[r].pc = "summary" /\ dialog.kind = "docparse"
       \/ request'[r].pc = "last" /\ dialog.kind # "docparse" /\ ~rechecking

(* ... goes on with it, ... *)
GoesOn(r) ==
    /\ Continues(r) /\ Others(r)
    /\ \/ request[r].pc = "summary" /\ request'[r].pc = "last"
       \/ request[r].pc = "last" /\ request'[r].pc = "commit"
       \/ /\ request[r].pc = "commit" /\ request[r].kind = "recheck"
          /\ request'[r].pc = "test"
       \/ request[r].pc \in Checking /\ request'[r].pc \in Checking

(* ... and gives it up. *)
GivesUp(r) ==
    /\ Others(r)
    /\ \/ request'[r] = None
       \/ /\ Continues(r) /\ request[r].pc \in {"summary", "last"}
          /\ request'[r].pc = "asked"

LEMMA RequestSteps ==
    ASSUME DialogInv, [Next]_vars
    PROVE  \/ UNCHANGED request
           \/ \A r \in Requests : request'[r] = None
           \/ \E r \in Requests : Begins(r) \/ Locks(r) \/ GoesOn(r) \/ GivesUp(r)
<1>1. TypeOK /\ RequestsAreKnown  BY DEF DialogInv
<1>2. ASSUME NEW r \in Requests, NEW kind \in {"send", "again", "memory"}, Ask(r, kind)
      PROVE  Begins(r)
  <2>1. request'[r] = New(kind, "asked") /\ Others(r)
    BY <1>1, <1>2, Put DEF Ask, Others
  <2> QED  BY <1>2, <2>1 DEF Ask, Begins, New
<1>3. ASSUME NEW r \in Requests, NEW a \in Answers, NEW b \in Blocks, AskRecheck(r, a, b)
      PROVE  Begins(r)
  <2>1. /\ request'[r] = [New("recheck", "asked") EXCEPT !.answer = a, !.block = b]
        /\ Others(r)
    BY <1>1, <1>3, Put DEF AskRecheck, Others
  <2> QED  BY <1>3, <2>1 DEF AskRecheck, Begins, New
<1>4. ASSUME NEW r \in Requests, View(r) PROVE Begins(r)
  <2>1. CASE /\ StatusOf(last) = "streaming"
             /\ Becomes(r, [New("view", "look") EXCEPT !.answer = last])
    <3>1. last \in Answers  BY <1>1, <2>1 DEF StatusOf, TypeOK
    <3>2. request'[r] = [New("view", "look") EXCEPT !.answer = last] /\ Others(r)
      BY <1>1, <2>1, Put DEF Others
    <3> QED  BY <1>4, <3>1, <3>2 DEF View, Begins, New
  <2>2. CASE Becomes(r, New("open", "look"))
    <3>1. request'[r] = New("open", "look") /\ Others(r)
      BY <1>1, <2>2, Put DEF Others
    <3> QED  BY <1>4, <3>1 DEF View, Begins, New
  <2> QED  BY <1>4, <2>1, <2>2 DEF View
<1>5. ASSUME NEW r \in Requests, request[r] # None PROVE request[r] \in Request
  BY <1>1, <1>5 DEF TypeOK
<1>6. ASSUME NEW r \in Requests, Lock(r) PROVE Locks(r)
  <2>1. At(r, "asked") /\ dialog.state = "ready" /\ LockFree  BY <1>6 DEF Lock
  <2>2. CASE /\ dialog.kind = "docparse"
             /\ Becomes(r, [request[r] EXCEPT !.pc = "summary", !.seen = summary.status])
    <3>1. /\ request'[r] = [request[r] EXCEPT !.pc = "summary", !.seen = summary.status]
          /\ Others(r)
      BY <1>1, <2>2, Put DEF Others
    <3> QED  BY <1>5, <2>1, <2>2, <3>1 DEF At, Locks, Continues, Request
  <2>3. CASE /\ dialog.kind # "docparse" /\ ~rechecking
             /\ Becomes(r, [request[r] EXCEPT !.pc = "last", !.seen = StatusOf(last)])
    <3>1. /\ request'[r] = [request[r] EXCEPT !.pc = "last", !.seen = StatusOf(last)]
          /\ Others(r)
      BY <1>1, <2>3, Put DEF Others
    <3> QED  BY <1>5, <2>1, <2>3, <3>1 DEF At, Locks, Continues, Request
  <2> QED  BY <1>6, <2>2, <2>3 DEF Lock
<1>7. ASSUME NEW r \in Requests, request[r] # None,
             request[r].pc \in {"summary", "last"}, Becomes(r, AskedAgain(r))
      PROVE  GivesUp(r)
  <2>1. request'[r] = AskedAgain(r) /\ Others(r)  BY <1>1, <1>7, Put DEF Others
  <2> QED  BY <1>5, <1>7, <2>1 DEF AskedAgain, GivesUp, Continues, Request
<1>8. ASSUME NEW r \in Requests, CheckSummary(r) PROVE GoesOn(r) \/ GivesUp(r)
  <2>1. request[r] # None /\ request[r].pc = "summary"  BY <1>8 DEF CheckSummary, At
  <2>2. CASE SummaryBlocks(r)  BY <1>7, <1>8, <2>1, <2>2 DEF CheckSummary
  <2>3. CASE ~SummaryBlocks(r)
    <3>1. /\ request'[r] = [request[r] EXCEPT !.pc = "last", !.seen = StatusOf(last),
                                              !.repair = request[r].seen = "streaming"]
          /\ Others(r)
      BY <1>1, <1>8, <2>3, Put DEF CheckSummary, Others
    <3> QED  BY <1>5, <2>1, <3>1 DEF GoesOn, Continues, Request
  <2> QED  BY <2>2, <2>3
<1>9. ASSUME NEW r \in Requests, Busy(r) PROVE GivesUp(r)
  BY <1>7, <1>9 DEF Busy, At
<1>10. ASSUME NEW r \in Requests, NEW a \in Answers, MarkAnswer(r, a) PROVE GoesOn(r)
  <2>1. request[r] # None /\ request[r].pc = "last" /\ Asking(r)
    BY <1>10 DEF MarkAnswer, At, Asking
  <2>2. request'[r] = [request[r] EXCEPT !.pc = "commit", !.answer = a] /\ Others(r)
    BY <1>1, <1>10, Put DEF MarkAnswer, Others
  <2> QED  BY <1>5, <2>1, <2>2 DEF GoesOn, Continues, Request
<1>11. ASSUME NEW r \in Requests, MarkRecheck(r) \/ PassMemory(r) PROVE GoesOn(r)
  <2>1. request[r] # None /\ request[r].pc = "last" /\ Goes(r, "commit")
    BY <1>11 DEF MarkRecheck, PassMemory, At
  <2> QED  BY <1>1, <2>1, Turned DEF GoesOn, Continues, Others
<1>12. ASSUME NEW r \in Requests, Commit(r) PROVE GoesOn(r) \/ GivesUp(r)
  <2>1. request[r] # None /\ request[r].pc = "commit"  BY <1>12 DEF Commit, At
  <2>2. CASE request[r].kind = "recheck"
    <3>1. request'[r] = [request[r] EXCEPT !.pc = "test", !.seen = "none"] /\ Others(r)
      BY <1>1, <1>12, <2>2, Put DEF Commit, Others
    <3> QED  BY <1>5, <2>1, <2>2, <3>1 DEF GoesOn, Continues, Request
  <2>3. CASE request[r].kind # "recheck"
    BY <1>1, <1>12, <2>3, Put DEF Commit, Others, GivesUp
  <2> QED  BY <2>2, <2>3
<1>13. ASSUME NEW r \in Requests,
              Refuse(r) \/ CommitReplyLost(r) \/ EndRecheck(r) \/ Look(r) \/ RecheckFinished(r)
       PROVE  GivesUp(r)
  <2>1. Becomes(r, None)
    BY <1>13 DEF Refuse, CommitReplyLost, EndRecheck, Look, RecheckFinished
  <2> QED  BY <1>1, <2>1, Put DEF GivesUp, Others
<1>14. ASSUME NEW r \in Requests, Recheck(r) \/ ReadBlocks(r) \/ WriteBlocks(r)
       PROVE  GoesOn(r)
  <2>1. request[r] # None /\ request[r].pc \in Checking
    BY <1>14 DEF Recheck, ReadBlocks, WriteBlocks, At, Checking
  <2>2. CASE \E next \in {"read", "end"} : Goes(r, next)
    BY <1>1, <2>1, <2>2, Turned DEF GoesOn, Continues, Others, Checking
  <2>3. CASE \E copy : Becomes(r, [request[r] EXCEPT !.pc = "write", !.copy = copy])
    <3>1. PICK copy : Becomes(r, [request[r] EXCEPT !.pc = "write", !.copy = copy])
      BY <2>3
    <3>2. request'[r] = [request[r] EXCEPT !.pc = "write", !.copy = copy] /\ Others(r)
      BY <1>1, <3>1, Put DEF Others
    <3> QED  BY <1>5, <2>1, <3>2 DEF GoesOn, Continues, Request, Checking
  <2>4. CASE Becomes(r, [request[r] EXCEPT !.pc = "end", !.copy = None])
    <3>1. request'[r] = [request[r] EXCEPT !.pc = "end", !.copy = None] /\ Others(r)
      BY <1>1, <2>4, Put DEF Others
    <3> QED  BY <1>5, <2>1, <3>1 DEF GoesOn, Continues, Request, Checking
  <2> QED  BY <1>14, <2>2, <2>3, <2>4 DEF Recheck, ReadBlocks, WriteBlocks
<1>15. ASSUME NEW a \in Answers, Answering(a) \/ SaveTitle(a) PROVE UNCHANGED request
  BY <1>15 DEF Answering, Produce, Save, SaveFails, Test, Store, Edit, End, SaveTitle
<1>16. CASE Rename \/ Delete \/ StartParse \/ ParseStep \/ Stop \/ Start \/ UNCHANGED vars
  BY <1>16 DEF Rename, Delete, StartParse, ParseStep, ReadDocument, Publish, PublishFails,
               Summarize, SaveSummary, Discard, EndParse, Stop, Start, vars
<1>17. CASE Cancelled  BY <1>13, <1>17 DEF Cancelled
<1>18. CASE Exit \/ Crash  BY <1>18 DEF Exit, Crash, Wiped
<1>19. ASSUME NEW r \in Requests, Accept(r) PROVE Locks(r) \/ GoesOn(r) \/ GivesUp(r)
  BY <1>6, <1>8, <1>9, <1>10, <1>11, <1>12, <1>13, <1>19 DEF Accept
<1>20. ASSUME NEW r \in Requests, Rechecking(r) PROVE GoesOn(r) \/ GivesUp(r)
  BY <1>13, <1>14, <1>20 DEF Rechecking
<1> QED
  BY <1>2, <1>3, <1>4, <1>13, <1>15, <1>16, <1>17, <1>18, <1>19, <1>20 DEF Next

LEMMA HoldsStep ==
    ASSUME DialogInv, [Next]_vars
    PROVE  OneHolds'
<1>1. OneHolds /\ RequestsAreKnown /\ HolderIsAlone  BY DEF DialogInv
<1>2. CASE UNCHANGED request  BY <1>1, <1>2 DEF OneHolds, Held
<1>3. CASE \A r \in Requests : request'[r] = None  BY <1>3 DEF OneHolds, Held
<1>4. ASSUME NEW r \in Requests, Others(r), Held(r)' => Held(r)
      PROVE  OneHolds'
  BY <1>1, <1>4 DEF OneHolds, Held, Others
<1>5. ASSUME NEW r \in Requests, Begins(r) \/ GivesUp(r) PROVE OneHolds'
  <2>1. ~Held(r)'  BY <1>5 DEF Begins, GivesUp, Held, Locked, Checking
  <2> QED  BY <1>4, <1>5, <2>1 DEF Begins, GivesUp
<1>6. ASSUME NEW r \in Requests, GoesOn(r) PROVE OneHolds'
  <2>1. Held(r)  BY <1>6 DEF GoesOn, Continues, Held, Locked, Checking
  <2> QED  BY <1>4, <1>6, <2>1 DEF GoesOn
<1>7. ASSUME NEW r \in Requests, Locks(r) PROVE OneHolds'
  <2>1. ASSUME NEW s \in Requests, Held(s) PROVE FALSE
    <3>1. request[s] # None /\ request[s].pc \in Checking  BY <1>7, <2>1 DEF Locks, LockFree, Held
    <3>2. rechecking /\ dialog.kind = "sql"
      BY <1>1, <3>1 DEF HolderIsAlone, RequestsAreKnown
    <3> QED  BY <1>7, <3>2 DEF Locks
  <2> QED  BY <1>7, <2>1 DEF Locks, Others, OneHolds, Held
<1> QED  BY <1>2, <1>3, <1>5, <1>6, <1>7, RequestSteps

(* The kind of a dialog stays, one in use can only be deleted, and not while it is held. *)
LEMMA DialogSteps ==
    ASSUME DialogInv, [Next]_vars
    PROVE  /\ dialog'.kind = dialog.kind
           /\ dialog'.state = "ready" \/ dialog.state # "ready" \/ Delete
           /\ dialog'.state = dialog.state
              \/ (dialog.state \in {"absent", "hidden"} /\ request' = request
                    /\ UNCHANGED <<row, last, task>>
                    /\ (dialog'.state = "ready" => Published))
              \/ Delete
           /\ dialog.state = "deleted" => dialog'.state = "deleted"
           /\ dialog'.state = "absent" => dialog.state = "absent"
<1>1. dialog \in Dialog /\ ParseIsKnown  BY DEF DialogInv, TypeOK
<1>2. CASE StartParse \/ Publish \/ PublishFails \/ Discard \/ Start
  <2>1. \/ dialog' = dialog
        \/ /\ dialog' = [dialog EXCEPT !.state = "hidden"] /\ dialog.state = "absent"
           /\ request' = request /\ UNCHANGED <<row, last, task>>
        \/ /\ dialog' = [dialog EXCEPT !.state = "ready", !.title = "model"]
           /\ dialog.state = "hidden" /\ Published
           /\ request' = request /\ UNCHANGED <<row, last, task>>
        \/ /\ dialog' = [dialog EXCEPT !.state = "deleted"] /\ dialog.state = "hidden"
           /\ request' = request /\ UNCHANGED <<last, task>>
           /\ (Discard \/ Start)
    BY <1>1, <1>2 DEF StartParse, Publish, PublishFails, Discard, Start, Published, Parsing,
                      ParseIsKnown, Unhidden
  <2>2. dialog.state = "hidden" /\ (Discard \/ Start) => UNCHANGED row
    <3>1. ASSUME dialog.state = "hidden", Start PROVE UNCHANGED row
      <4>1. \A a \in Answers : row[a] = None  BY <3>1 DEF DialogInv, DialogIsWhole
      <4>2. row' = [a \in Answers |-> Interrupted(row[a])]  BY <3>1 DEF Start
      <4>3. row \in [Answers -> Row \union {None}]  BY DEF DialogInv, TypeOK
      <4>4. row' = [a \in Answers |-> row[a]]  BY <4>1, <4>2 DEF Interrupted
      <4> QED  BY <4>3, <4>4
    <3> QED  BY <3>1 DEF Discard
  <2> QED  BY <1>1, <2>1, <2>2 DEF Dialog
<1>3. CASE Delete  BY <1>1, <1>3 DEF Delete, Dialog
<1>4. CASE Rename  BY <1>1, <1>4 DEF Rename, Dialog
<1>5. CASE \E a \in Answers : SaveTitle(a)
  <2>1. dialog' = dialog \/ dialog' = [dialog EXCEPT !.title = "model"]
    BY <1>5 DEF SaveTitle, Titled
  <2> QED  BY <1>1, <2>1 DEF Dialog
<1>6. CASE UNCHANGED dialog  BY <1>6
<1>7. ASSUME NEW r \in Requests,
             \/ \E kind \in {"send", "again", "memory"} : Ask(r, kind)
             \/ \E a \in Answers, b \in Blocks : AskRecheck(r, a, b)
             \/ Accept(r) \/ Rechecking(r) \/ View(r) \/ Look(r)
      PROVE  UNCHANGED dialog
  BY <1>7 DEF Ask, AskRecheck, Accept, Lock, CheckSummary, Busy, MarkRecheck, PassMemory, MarkAnswer,
              Commit, Refuse, CommitReplyLost, Rechecking, Recheck, ReadBlocks, WriteBlocks,
              EndRecheck, View, Look
<1>8. ASSUME NEW a \in Answers, Answering(a) PROVE UNCHANGED dialog
  BY <1>8 DEF Answering, Produce, Save, SaveFails, Test, Store, Edit, End
<1>9. CASE ReadDocument \/ Summarize \/ SaveSummary \/ EndParse \/ Stop \/ Cancelled \/ Exit \/ Crash
           \/ UNCHANGED vars
  BY <1>9 DEF ReadDocument, Summarize, SaveSummary, EndParse, Stop, Cancelled, Exit, Crash, vars
<1> QED
  BY <1>2, <1>3, <1>4, <1>5, <1>6, <1>7, <1>8, <1>9 DEF Next, ParseStep

LEMMA ProcessSteps ==
    ASSUME [Next]_vars, process' = "stopping"
    PROVE  \/ process = "stopping"
           \/ UNCHANGED request /\ \A r \in Requests : request[r] # None => request[r].pc \in Checking
<1>1. CASE Stop  BY <1>1 DEF Stop
<1>2. CASE Exit \/ Crash \/ Start  BY <1>2 DEF Exit, Crash, Wiped, Start
<1>3. CASE process' = process  BY <1>3
<1>4. ASSUME NEW r \in Requests,
             \/ \E kind \in {"send", "again", "memory"} : Ask(r, kind)
             \/ \E a \in Answers, b \in Blocks : AskRecheck(r, a, b)
             \/ Accept(r) \/ Rechecking(r) \/ View(r) \/ Look(r)
      PROVE  UNCHANGED process
  BY <1>4 DEF Ask, AskRecheck, Accept, Lock, CheckSummary, Busy, MarkRecheck, PassMemory, MarkAnswer,
              Commit, Refuse, CommitReplyLost, Rechecking, Recheck, ReadBlocks, WriteBlocks,
              EndRecheck, View, Look
<1>5. ASSUME NEW a \in Answers, Answering(a) \/ SaveTitle(a) PROVE UNCHANGED process
  BY <1>5 DEF Answering, Produce, Save, SaveFails, Test, Store, Edit, End, SaveTitle
<1>6. CASE Rename \/ Delete \/ StartParse \/ ParseStep \/ Cancelled \/ UNCHANGED vars
  BY <1>6 DEF Rename, Delete, StartParse, ParseStep, ReadDocument, Publish, PublishFails,
              Summarize, SaveSummary, Discard, EndParse, Cancelled, vars
<1> QED  BY <1>1, <1>2, <1>3, <1>4, <1>5, <1>6 DEF Next

(* What is known of one request. *)
Known(r) ==
    /\ request[r].pc = "look" <=> request[r].kind \in {"view", "open"}
    /\ request[r].pc \in Checking => request[r].kind = "recheck"
    /\ request[r].kind = "recheck" =>
          /\ dialog.kind = "sql"
          /\ request[r].answer \in Answers /\ request[r].block \in Blocks
    /\ request[r].kind = "view" => request[r].answer \in Answers
    /\ request[r].pc = "summary" => dialog.kind = "docparse"
    /\ request[r].pc \in Locked => dialog.state = "ready"

LEMMA RequestsStep ==
    ASSUME DialogInv, [Next]_vars
    PROVE  RequestsAreKnown'
<1>1. RequestsAreKnown /\ dialog'.kind = dialog.kind  BY DialogSteps DEF DialogInv
<1>2. ASSUME NEW r \in Requests, request[r] # None PROVE Known(r)
  BY <1>1, <1>2 DEF RequestsAreKnown, Known
<1>3. ASSUME NEW r \in Requests, request[r] # None, request[r].pc \in Locked
      PROVE  dialog'.state = "ready"
  <2>1. dialog.state = "ready"  BY <1>2, <1>3 DEF Known
  <2>2. ~Delete  BY <1>3 DEF Delete, LockFree
  <2> QED  BY <2>1, <2>2, DialogSteps
<1>4. ASSUME NEW r \in Requests, request'[r] # None, request'[r] = request[r]
      PROVE  Known(r)'
  BY <1>1, <1>2, <1>3, <1>4 DEF Known
<1>5. ASSUME NEW r \in Requests, Begins(r) \/ Locks(r) \/ GoesOn(r) \/ GivesUp(r),
             request'[r] # None
      PROVE  Known(r)'
  <2>1. CASE Begins(r)  BY <1>1, <2>1 DEF Begins, Known, Checking, Locked
  <2>2. CASE Locks(r)
    <3>1. ~Delete \/ ~Locks(r) \/ request' = request  BY DEF Delete
    <3>2. request' # request  BY <2>2 DEF Locks
    <3>3. dialog'.state = "ready"  BY <2>2, <3>1, <3>2, DialogSteps DEF Locks
    <3>4. Known(r)  BY <1>2, <2>2 DEF Locks, Continues
    <3> QED  BY <1>1, <2>2, <3>3, <3>4 DEF Locks, Continues, Known, Asking, Checking, Locked
  <2>3. CASE GoesOn(r)
    <3>1. Known(r)  BY <1>2, <2>3 DEF GoesOn, Continues
    <3>2. request'[r].pc \in Locked => dialog'.state = "ready"
      BY <1>3, <2>3 DEF GoesOn, Continues, Checking, Locked
    <3> QED  BY <1>1, <2>3, <3>1, <3>2 DEF GoesOn, Continues, Known, Asking, Checking, Locked
  <2>4. CASE GivesUp(r)
    <3>1. Known(r)  BY <1>2, <1>5, <2>4 DEF GivesUp, Continues
    <3> QED  BY <1>1, <1>5, <2>4, <3>1 DEF GivesUp, Continues, Known, Asking, Checking, Locked
  <2> QED  BY <1>5, <2>1, <2>2, <2>3, <2>4
<1>6. ASSUME NEW r \in Requests, request'[r] # None, request'[r] = request[r],
             process' = "stopping"
      PROVE  request'[r].pc \in Checking
  BY <1>1, <1>6, ProcessSteps DEF RequestsAreKnown
<1>7. ASSUME NEW r \in Requests, Begins(r) \/ Locks(r) \/ GoesOn(r) \/ GivesUp(r),
             request'[r] # None, process' = "stopping"
      PROVE  request'[r].pc \in Checking
  <2>1. CASE UNCHANGED request  BY <1>6, <1>7, <2>1
  <2>2. CASE process = "stopping"
    <3>1. request[r] # None => request[r].pc \in Checking
      BY <1>1, <2>2 DEF RequestsAreKnown
    <3> QED  BY <1>7, <2>2, <3>1
             DEF Begins, Locks, GoesOn, GivesUp, Continues, Checking
  <2> QED  BY <1>7, <2>1, <2>2, ProcessSteps
<1>8. ASSUME NEW r \in Requests, request'[r] # None
      PROVE  Known(r)' /\ (process' = "stopping" => request'[r].pc \in Checking)
  <2>1. CASE request'[r] = request[r]  BY <1>4, <1>6, <1>8, <2>1
  <2>2. CASE request'[r] # request[r]
    <3>1. PICK s \in Requests : Begins(s) \/ Locks(s) \/ GoesOn(s) \/ GivesUp(s)
      BY <1>8, <2>2, RequestSteps
    <3>2. r = s  BY <2>2, <3>1 DEF Begins, Locks, GoesOn, GivesUp, Others
    <3> QED  BY <1>5, <1>7, <1>8, <3>1, <3>2
  <2> QED  BY <2>1, <2>2
<1> QED  BY <1>8 DEF RequestsAreKnown, Known
-----------------------------------------------------------------------------
(* Rows and tasks.                                                         *)

(* Answers stay, with what was found for them; what is settled keeps its state. *)
RowsKept ==
    \A a \in Answers :
        /\ row'[a] = None <=> row[a] = None
        /\ row[a] # None =>
              /\ row'[a] \in Row /\ row'[a].run = row[a].run
              /\ row'[a].status = row[a].status
                 \/ (row[a].status = "streaming" /\ row'[a].status # "streaming")

LEMMA RowTypes ==
    ASSUME TypeOK, NEW a \in Answers, row[a] # None
    PROVE  row[a] \in Row /\ row[a].run \in Runs /\ Interrupted(row[a]) \in Row
           /\ Interrupted(row[a]).run = row[a].run
           /\ Interrupted(row[a]).status # "streaming"
           /\ (row[a].status # "streaming" => Interrupted(row[a]) = row[a])
BY DEF TypeOK, Row, Interrupted

LEMMA NothingOfNone == Interrupted(None) = None
BY DEF Interrupted

LEMMA SavedRow ==
    ASSUME TypeOK, NEW a \in Answers, NEW status \in Outcomes
    PROVE  /\ Saved(a, status) \in [Answers -> Row \union {None}]
           /\ \A b \in Answers \ {a} : Saved(a, status)[b] = row[b]
           /\ row[a] = None => Saved(a, status)[a] = None
           /\ row[a] # None =>
                 /\ Saved(a, status)[a] \in Row /\ Saved(a, status)[a] # None
                 /\ Saved(a, status)[a].run = row[a].run /\ Saved(a, status)[a].status = status
<1>1. row \in [Answers -> Row \union {None}]  BY DEF TypeOK
<1>2. CASE row[a] = None  BY <1>1, <1>2 DEF Saved
<1>3. CASE row[a] # None
  <2>1. Saved(a, status) = [row EXCEPT ![a] = [row[a] EXCEPT !.status = status]]
    BY <1>3 DEF Saved
  <2>2. row[a] \in Row  BY <1>1, <1>3
  <2>3. /\ [row[a] EXCEPT !.status = status] \in Row
        /\ [row[a] EXCEPT !.status = status].run = row[a].run
        /\ [row[a] EXCEPT !.status = status].status = status
    BY <2>2 DEF Row
  <2> QED  BY <1>1, <1>3, <2>1, <2>3, RecordAssumption
<1> QED  BY <1>2, <1>3

LEMMA RowSteps ==
    ASSUME DialogInv, [Next]_vars
    PROVE  \/ RowsKept /\ UNCHANGED last /\ row' \in [Answers -> Row \union {None}]
           \/ \E r \in Requests : (Commit(r) \/ CommitReplyLost(r) \/ WriteBlocks(r))
           \/ \E a \in Answers : Store(a)
           \/ Delete
<1>1. TypeOK /\ TasksAreLast /\ row \in [Answers -> Row \union {None}]  BY DEF DialogInv, TypeOK
<1>2. CASE UNCHANGED <<row, last>>  BY <1>1, <1>2 DEF RowsKept
<1>3. ASSUME NEW a \in Answers, UNCHANGED last, row' = [row EXCEPT ![a] = Interrupted(@)]
      PROVE  RowsKept /\ row' \in [Answers -> Row \union {None}]
  <2>1. row'[a] = Interrupted(row[a]) /\ \A b \in Answers \ {a} : row'[b] = row[b]
    BY <1>1, <1>3
  <2>2. row[a] # None => Interrupted(row[a]) # None  BY <1>1, RowTypes, RecordAssumption
  <2>3. Interrupted(row[a]) \in Row \union {None}  BY <1>1, RowTypes, NothingOfNone
  <2>4. row' \in [Answers -> Row \union {None}]  BY <1>1, <1>3, <2>3
  <2> QED  BY <1>1, <2>1, <2>2, <2>4, RowTypes, NothingOfNone DEF RowsKept
<1>4. ASSUME NEW r \in Requests, Look(r)
      PROVE  RowsKept /\ UNCHANGED last /\ row' \in [Answers -> Row \union {None}]
  <2>1. CASE row' = row  BY <1>1, <1>4, <2>1 DEF RowsKept, Look
  <2>2. CASE row' # row
    <3>1. /\ request[r] # None /\ request[r].kind = "view"
          /\ row' = [row EXCEPT ![request[r].answer] = Interrupted(@)]
      BY <1>4, <2>2 DEF Look, At
    <3>2. request[r].answer \in Answers  BY <3>1 DEF DialogInv, RequestsAreKnown
    <3> QED  BY <1>3, <1>4, <3>1, <3>2 DEF Look
  <2> QED  BY <2>1, <2>2
<1>5. CASE Start
  <2>1. \A a \in Answers : row'[a] = Interrupted(row[a])  BY <1>5 DEF Start
  <2>2. \A a \in Answers : row[a] # None => Interrupted(row[a]) # None
    BY <1>1, RowTypes, RecordAssumption
  <2>3. \A a \in Answers : Interrupted(row[a]) \in Row \union {None}
    BY <1>1, RowTypes, NothingOfNone
  <2>4. row' \in [Answers -> Row \union {None}]  BY <1>5, <2>3 DEF Start
  <2>5. UNCHANGED last  BY <1>5 DEF Start
  <2> QED  BY <1>1, <2>1, <2>2, <2>4, <2>5, RowTypes, NothingOfNone DEF RowsKept
<1>6. ASSUME NEW a \in Answers, Save(a) \/ SaveFails(a)
      PROVE  RowsKept /\ UNCHANGED last /\ row' \in [Answers -> Row \union {None}]
  <2>1. task[a] # None /\ task[a].pc = "save"  BY <1>6 DEF Save, SaveFails, Doing
  <2>2. task[a].outcome \in Outcomes  BY <1>1, <2>1 DEF TypeOK, Task
  <2>3. row[a] # None => row[a].status = "streaming"  BY <1>1, <2>1 DEF TasksAreLast
  <2>4. row' = row \/ row' = Saved(a, task[a].outcome)  BY <1>6 DEF Save, SaveFails
  <2>5. UNCHANGED last  BY <1>6 DEF Save, SaveFails
  <2>6. CASE row' = row  BY <1>1, <2>5, <2>6 DEF RowsKept
  <2>7. CASE row' = Saved(a, task[a].outcome)
    BY <1>1, <2>2, <2>3, <2>5, <2>7, SavedRow DEF RowsKept, Outcomes
  <2> QED  BY <2>4, <2>6, <2>7
<1>7. ASSUME NEW a \in Answers, Answering(a) \/ SaveTitle(a), ~Store(a), ~Save(a), ~SaveFails(a)
      PROVE  UNCHANGED <<row, last>>
  BY <1>7 DEF Answering, Produce, Test, Edit, End, SaveTitle
<1>8. ASSUME NEW r \in Requests,
             \/ \E kind \in {"send", "again", "memory"} : Ask(r, kind)
             \/ \E a \in Answers, b \in Blocks : AskRecheck(r, a, b)
             \/ Accept(r) \/ Rechecking(r) \/ View(r),
             ~Commit(r), ~CommitReplyLost(r), ~WriteBlocks(r)
      PROVE  UNCHANGED <<row, last>>
  BY <1>8 DEF Ask, AskRecheck, Accept, Lock, CheckSummary, Busy, MarkRecheck, PassMemory, MarkAnswer,
              Refuse, Rechecking, Recheck, ReadBlocks, EndRecheck, View
<1>9. ASSUME Rename \/ StartParse \/ ParseStep \/ Stop \/ Cancelled \/ Exit \/ Crash \/ UNCHANGED vars
      PROVE  UNCHANGED <<row, last>>
  BY <1>9 DEF Rename, StartParse, ParseStep, ReadDocument, Publish, PublishFails, Summarize,
              SaveSummary, Discard, EndParse, Stop, Cancelled, Exit, Crash, vars
<1> QED  BY <1>2, <1>4, <1>5, <1>6, <1>7, <1>8, <1>9 DEF Next, Answering

(* What a commit writes: only the answer it asked for can be unfinished, and it is the last. *)
LEMMA CommitRows ==
    ASSUME DialogInv, NEW r \in Requests, At(r, "commit"), Written(r)
    PROVE  /\ row' \in [Answers -> Row \union {None}]
           /\ \A a \in Answers :
                 /\ row'[a] # None /\ row'[a].status = "streaming" => Asking(r) /\ a = last'
                 /\ row[a] # None /\ row'[a] # None =>
                       /\ row'[a].run = row[a].run
                       /\ row[a].status # "streaming" => row'[a].status = row[a].status
           /\ Asking(r) => last' = request[r].answer /\ row'[last'] = Empty /\ last' \in Answers
           /\ ~Asking(r) =>
                 last' = last /\ \A a \in Answers : row'[a] = None <=> row[a] = None
<1> DEFINE a0 == request[r].answer
           kept == IF request[r].kind = "again" THEN [Settled(r) EXCEPT ![last] = None]
                   ELSE Settled(r)
<1>1. TypeOK /\ row \in [Answers -> Row \union {None}] /\ (last # None => last \in Answers)
  BY DEF DialogInv, TypeOK
<1>2. request[r] # None /\ request[r].pc = "commit"  BY DEF At
<1>3. Asking(r) => a0 \in Answers /\ row[a0] = None
  BY <1>2 DEF DialogInv, HolderIsAlone
<1>4. \A a \in Answers :
        row[a] # None /\ row[a].status = "streaming" => a = last /\ request[r].seen = "streaming"
  <2>1. ASSUME NEW a \in Answers, row[a] # None, row[a].status = "streaming"
        PROVE  a = last /\ request[r].seen = "streaming"
    <3>1. a = last  BY <2>1 DEF DialogInv, OnlyLastUnfinished
    <3>2. StatusOf(last) = "streaming"  BY <2>1, <3>1, NoneAssumption DEF StatusOf
    <3> QED  BY <1>2, <3>1, <3>2 DEF DialogInv, HolderIsAlone
  <2> QED  BY <2>1
<1>5. /\ Settled(r) \in [Answers -> Row \union {None}]
      /\ \A a \in Answers :
            /\ Settled(r)[a] = None <=> row[a] = None
            /\ row[a] # None => Settled(r)[a] \in {row[a], Interrupted(row[a])}
            /\ row[a] # None => Settled(r)[a].status # "streaming"
  <2>1. CASE last # None /\ request[r].seen = "streaming"
    <3>1. Settled(r) = [row EXCEPT ![last] = Interrupted(row[last])]  BY <2>1 DEF Settled
    <3>2. row[last] # None  BY <1>1, <2>1 DEF TypeOK
    <3>3. Interrupted(row[last]) \in Row /\ Interrupted(row[last]).status # "streaming"
      BY <1>1, <2>1, <3>2, RowTypes
    <3> QED  BY <1>1, <1>4, <2>1, <3>1, <3>2, <3>3, RecordAssumption
  <2>2. CASE ~(last # None /\ request[r].seen = "streaming")
    <3>1. Settled(r) = row  BY <2>2 DEF Settled
    <3> QED  BY <1>1, <1>4, <2>2, <3>1, NoneAssumption
  <2> QED  BY <2>1, <2>2
<1>6. /\ kept \in [Answers -> Row \union {None}]
      /\ \A a \in Answers : kept[a] = None \/ kept[a] = Settled(r)[a]
      /\ request[r].kind # "again" => kept = Settled(r)
  <2>1. CASE request[r].kind # "again"  BY <1>5, <2>1
  <2>2. CASE request[r].kind = "again"
    <3>1. kept = [Settled(r) EXCEPT ![last] = None]  BY <2>2
    <3> QED  BY <1>5, <2>2, <3>1
  <2> QED  BY <2>1, <2>2
<1>7. /\ row' = IF Asking(r) THEN [kept EXCEPT ![a0] = Empty] ELSE kept
      /\ last' = IF Asking(r) THEN a0 ELSE last
  BY DEF Written
<1> HIDE DEF kept
<1>8. Empty \in Row /\ Empty.status = "streaming"  BY DEF Empty, Row, Runs
<1>9. \A a \in Answers : kept[a] # None =>
        /\ row[a] # None /\ kept[a] \in {row[a], Interrupted(row[a])}
        /\ kept[a].status # "streaming"
  BY <1>5, <1>6
<1>10. \A a \in Answers : kept[a] # None =>
        /\ row[a] # None /\ kept[a].run = row[a].run /\ kept[a].status # "streaming"
        /\ row[a].status # "streaming" => kept[a].status = row[a].status
  BY <1>1, <1>9, RowTypes
<1>11. CASE Asking(r)
  <2>1. row' = [kept EXCEPT ![a0] = Empty] /\ last' = a0  BY <1>7, <1>11
  <2>2. row'[a0] = Empty /\ \A a \in Answers \ {a0} : row'[a] = kept[a]
    BY <1>3, <1>6, <1>11, <2>1
  <2>3. row' \in [Answers -> Row \union {None}]  BY <1>6, <1>8, <2>1
  <2> QED  BY <1>3, <1>10, <1>11, <2>1, <2>2, <2>3
<1>12. CASE ~Asking(r)
  <2>1. row' = kept /\ last' = last  BY <1>7, <1>12
  <2>2. kept = Settled(r)  BY <1>6, <1>12 DEF Asking
  <2> QED  BY <1>5, <1>6, <1>10, <1>12, <2>1, <2>2
<1> QED  BY <1>11, <1>12

(* Beside the last message nothing is unfinished: what was is settled by the commit. *)
LEMMA LastStep ==
    ASSUME DialogInv, [Next]_vars
    PROVE  /\ OnlyLastUnfinished'
           /\ row' \in [Answers -> Row \union {None}]
           /\ last' \in Answers \union {None}
           /\ last' # None => row'[last'] # None
<1>1. /\ TypeOK /\ OnlyLastUnfinished
      /\ row \in [Answers -> Row \union {None}] /\ last \in Answers \union {None}
      /\ last # None => row[last] # None
  BY DEF DialogInv, TypeOK
<1>2. CASE RowsKept /\ UNCHANGED last /\ row' \in [Answers -> Row \union {None}]
  BY <1>1, <1>2 DEF RowsKept, OnlyLastUnfinished
<1>3. ASSUME NEW r \in Requests, Commit(r) \/ CommitReplyLost(r)
      PROVE  /\ OnlyLastUnfinished' /\ row' \in [Answers -> Row \union {None}]
             /\ last' \in Answers \union {None} /\ (last' # None => row'[last'] # None)
  <2>1. At(r, "commit") /\ Written(r)  BY <1>3 DEF Commit, CommitReplyLost
  <2>2. Empty # None  BY RecordAssumption DEF Empty, Row, Runs
  <2>3. CASE Asking(r)  BY <2>1, <2>2, <2>3, CommitRows DEF OnlyLastUnfinished
  <2>4. CASE ~Asking(r)  BY <1>1, <2>1, <2>4, CommitRows DEF OnlyLastUnfinished
  <2> QED  BY <2>3, <2>4
<1>4. ASSUME NEW a \in Answers, Store(a)
      PROVE  /\ OnlyLastUnfinished' /\ row' \in [Answers -> Row \union {None}]
             /\ last' \in Answers \union {None} /\ (last' # None => row'[last'] # None)
  <2>1. UNCHANGED last  BY <1>4 DEF Store
  <2>2. CASE row' = row  BY <1>1, <2>1, <2>2 DEF OnlyLastUnfinished
  <2>3. CASE row' # row
    <3> DEFINE stored == [row[a] EXCEPT !.run = [b \in Blocks |-> 1]]
    <3>1. row[a] # None /\ row' = [row EXCEPT ![a] = stored]  BY <1>4, <2>3 DEF Store
    <3>2. row[a] \in Row  BY <1>1, <3>1
    <3>3. [b \in Blocks |-> 1] \in Runs  BY DEF Runs, Versions
    <3>4. stored \in Row /\ stored.status = row[a].status  BY <3>2, <3>3 DEF Row
    <3>5. stored # None  BY <3>4, RecordAssumption
    <3> HIDE DEF stored
    <3> QED  BY <1>1, <2>1, <3>1, <3>4, <3>5 DEF OnlyLastUnfinished
  <2> QED  BY <2>2, <2>3
<1>5. ASSUME NEW r \in Requests, WriteBlocks(r)
      PROVE  /\ OnlyLastUnfinished' /\ row' \in [Answers -> Row \union {None}]
             /\ last' \in Answers \union {None} /\ (last' # None => row'[last'] # None)
  <2>1. UNCHANGED last  BY <1>5 DEF WriteBlocks
  <2>2. CASE row' = row  BY <1>1, <2>1, <2>2 DEF OnlyLastUnfinished
  <2>3. CASE row' # row
    <3> DEFINE a == request[r].answer
    <3>1. request[r] # None /\ request[r].pc = "write"  BY <1>5 DEF WriteBlocks, At
    <3>2. request[r].kind = "recheck" /\ a \in Answers
      BY <3>1 DEF DialogInv, RequestsAreKnown, Checking
    <3>3. request[r].copy # None  BY <3>1 DEF DialogInv, HolderIsAlone
    <3>4. request[r].copy \in [Blocks -> Versions]  BY <1>1, <3>1, <3>3 DEF TypeOK, Request, Runs
    <3>5. PICK v \in Versions :
            /\ row[a] # None
            /\ row' = [row EXCEPT ![a].run = [request[r].copy EXCEPT ![request[r].block] = v]]
      BY <1>5, <2>3 DEF WriteBlocks
    <3> DEFINE run == [request[r].copy EXCEPT ![request[r].block] = v]
               written == [row[a] EXCEPT !.run = run]
    <3>6. run \in Runs  BY <3>4 DEF Runs
    <3>7. row[a] \in Row /\ row' = [row EXCEPT ![a] = written]  BY <1>1, <3>2, <3>5
    <3> HIDE DEF run
    <3>8. written \in Row /\ written.status = row[a].status  BY <3>6, <3>7 DEF Row
    <3>9. written # None  BY <3>8, RecordAssumption
    <3> HIDE DEF written, a
    <3> QED  BY <1>1, <2>1, <3>2, <3>5, <3>7, <3>8, <3>9 DEF OnlyLastUnfinished
  <2> QED  BY <2>2, <2>3
<1>6. CASE Delete  BY <1>6 DEF Delete, OnlyLastUnfinished
<1> QED  BY <1>2, <1>3, <1>4, <1>5, <1>6, RowSteps

(* What a task may do: it goes forward, to the writing of what is not there yet, and ends. *)
Later(a) ==
    LET from == task[a].pc
        to == task'[a].pc
    IN  /\ task[a] # None /\ task'[a] \in Task
        /\ \/ to = from \/ to = "end"
           \/ from = "produce" /\ to = "save"
           \/ from = "save" /\ to \in {"test", "edit"}
           \/ from = "test" /\ to = "store"

LEMMA TaskSteps ==
    ASSUME DialogInv, [Next]_vars
    PROVE  \/ UNCHANGED task
           \/ \A a \in Answers : task'[a] = None
           \/ \E r \in Requests : Commit(r)
           \/ \E a \in Answers :
                 /\ task[a] # None /\ \A b \in Answers \ {a} : task'[b] = task[b]
                 /\ \/ Finished(a) /\ task'[a] = None
                    \/ Later(a) /\ (Answering(a) \/ SaveTitle(a)) /\ UNCHANGED active
                 /\ UNCHANGED <<last, rechecking, request>>
<1>1. TypeOK /\ task \in [Answers -> Task \union {None}]  BY DEF DialogInv, TypeOK
<1>2. ASSUME NEW a \in Answers, Finished(a), task[a] # None, UNCHANGED <<last, request>>
      PROVE  /\ \A b \in Answers \ {a} : task'[b] = task[b]
             /\ task'[a] = None /\ UNCHANGED <<last, rechecking, request>>
  BY <1>1, <1>2 DEF Finished
<1>3. ASSUME NEW a \in Answers, task[a] # None, NEW pc \in {"save", "test", "store", "edit", "end"},
             NEW outcome \in Outcomes, task' = [task EXCEPT ![a].pc = pc, ![a].outcome = outcome]
      PROVE  /\ \A b \in Answers \ {a} : task'[b] = task[b]
             /\ task'[a].pc = pc /\ task'[a] \in Task
  BY <1>1, <1>3 DEF Task
<1>4. ASSUME NEW a \in Answers, task[a] # None, NEW pc \in {"save", "test", "store", "edit", "end"},
             TaskGoes(a, pc)
      PROVE  /\ \A b \in Answers \ {a} : task'[b] = task[b]
             /\ task'[a].pc = pc /\ task'[a] \in Task
  BY <1>1, <1>4 DEF Task, TaskGoes
<1>5. ASSUME NEW a \in Answers, Produce(a)
      PROVE  Later(a) /\ \A b \in Answers \ {a} : task'[b] = task[b]
  <2>1. task[a] # None /\ task[a].pc = "produce"  BY <1>5 DEF Produce, Doing
  <2>2. PICK pc \in {"save", "end"}, outcome \in Outcomes :
          task' = [task EXCEPT ![a].pc = pc, ![a].outcome = outcome]
    <3>1. CASE \E o \in {"complete", "error"} :
                 task' = [task EXCEPT ![a].pc = "save", ![a].outcome = o]
      BY <3>1 DEF Outcomes
    <3>2. CASE \E why \in Interruptions(a) :
                 task' = [task EXCEPT ![a].pc = IF why = "dialog_deleted" THEN "end" ELSE "save",
                                      ![a].outcome = OutcomeOf(why)]
      BY <3>2 DEF Outcomes, OutcomeOf
    <3> QED  BY <1>5, <3>1, <3>2 DEF Produce
  <2>3. /\ \A b \in Answers \ {a} : task'[b] = task[b]
        /\ task'[a].pc = pc /\ task'[a] \in Task
    BY <1>3, <2>1, <2>2
  <2> QED  BY <2>1, <2>2, <2>3 DEF Later
<1>6. ASSUME NEW a \in Answers,
             Save(a) \/ SaveFails(a) \/ Test(a) \/ Store(a) \/ Edit(a)
      PROVE  Later(a) /\ \A b \in Answers \ {a} : task'[b] = task[b]
  <2>1. task[a] # None  BY <1>6 DEF Save, SaveFails, Test, Store, Edit, Doing
  <2>2. PICK pc \in {"test", "edit", "store", "end"} :
          /\ TaskGoes(a, pc)
          /\ pc = "end" \/ (task[a].pc = "save" /\ pc \in {"test", "edit"})
             \/ (task[a].pc = "test" /\ pc = "store")
    BY <1>6 DEF Save, SaveFails, Test, Store, Edit, Doing
  <2>3. /\ \A b \in Answers \ {a} : task'[b] = task[b]
        /\ task'[a].pc = pc /\ task'[a] \in Task
    BY <1>4, <2>1, <2>2
  <2> QED  BY <2>1, <2>2, <2>3 DEF Later
<1>7. ASSUME NEW a \in Answers, SaveTitle(a)
      PROVE  Later(a) /\ \A b \in Answers \ {a} : task'[b] = task[b]
  <2>1. task[a] # None /\ task' = [task EXCEPT ![a].titling = FALSE]  BY <1>7 DEF SaveTitle
  <2>2. /\ task'[a] \in Task /\ task'[a].pc = task[a].pc
        /\ \A b \in Answers \ {a} : task'[b] = task[b]
    BY <1>1, <2>1 DEF Task
  <2> QED  BY <2>1, <2>2 DEF Later
<1>8. ASSUME NEW a \in Answers, Answering(a) \/ SaveTitle(a)
      PROVE  /\ task[a] # None /\ \A b \in Answers \ {a} : task'[b] = task[b]
             /\ \/ Finished(a) /\ task'[a] = None
                \/ Later(a) /\ (Answering(a) \/ SaveTitle(a)) /\ UNCHANGED active
             /\ UNCHANGED <<last, rechecking, request>>
  <2>1. CASE End(a)
    <3>1. Finished(a) /\ task[a] # None /\ UNCHANGED <<last, request>>
      BY <2>1 DEF End, Doing
    <3> QED  BY <1>2, <3>1
  <2>2. CASE ~End(a)
    <3>1. UNCHANGED <<active, last, rechecking, request>>
      BY <1>8, <2>2 DEF Answering, Produce, Save, SaveFails, Test, Store, Edit, SaveTitle, memory
    <3>2. Later(a) /\ \A b \in Answers \ {a} : task'[b] = task[b]
      BY <1>5, <1>6, <1>7, <1>8, <2>2 DEF Answering
    <3> QED  BY <1>8, <3>1, <3>2 DEF Later
  <2> QED  BY <2>1, <2>2
<1>9. ASSUME Cancelled
      PROVE  \/ UNCHANGED task
             \/ \E a \in Answers :
                   /\ task[a] # None /\ \A b \in Answers \ {a} : task'[b] = task[b]
                   /\ Finished(a) /\ task'[a] = None
                   /\ UNCHANGED <<last, rechecking, request>>
  <2>1. UNCHANGED last  BY <1>9 DEF Cancelled
  <2>2. CASE \E a \in Answers : task[a] # None /\ Finished(a) /\ UNCHANGED <<parse, request>>
    BY <1>2, <2>1, <2>2
  <2> QED  BY <1>9, <2>2 DEF Cancelled
<1>10. CASE Exit \/ Crash  BY <1>10 DEF Exit, Crash, Wiped
<1>11. ASSUME NEW r \in Requests,
              \/ \E kind \in {"send", "again", "memory"} : Ask(r, kind)
              \/ \E a \in Answers, b \in Blocks : AskRecheck(r, a, b)
              \/ Accept(r) \/ Rechecking(r) \/ View(r) \/ Look(r),
              ~Commit(r)
      PROVE  UNCHANGED task
  BY <1>11 DEF Ask, AskRecheck, Accept, Lock, CheckSummary, Busy, MarkRecheck, PassMemory, MarkAnswer,
               Refuse, CommitReplyLost, Rechecking, Recheck, ReadBlocks, WriteBlocks, EndRecheck,
               View, Look
<1>12. ASSUME Rename \/ Delete \/ StartParse \/ ParseStep \/ Stop \/ Start \/ UNCHANGED vars
       PROVE  UNCHANGED task
  BY <1>12 DEF Rename, Delete, StartParse, ParseStep, ReadDocument, Publish, PublishFails, Summarize,
               SaveSummary, Discard, EndParse, Stop, Start, vars
<1> QED  BY <1>8, <1>9, <1>10, <1>11, <1>12 DEF Next
-----------------------------------------------------------------------------
(* The dialog, its summary and the parsing.                                *)

LEMMA SummaryStep ==
    ASSUME DialogInv, [Next]_vars
    PROVE  /\ summary' \in Summary \union {None}
           /\ \/ summary' = None <=> summary = None
              \/ Published /\ summary' # None /\ ~Delete
              \/ Delete
           /\ Summing' => (Summing /\ summary' = summary) \/ Publish \/ Delete
<1>1. TypeOK /\ summary \in Summary \union {None} /\ ParseIsKnown /\ ProcessIsKnown /\ HolderIsAlone
  BY DEF DialogInv, TypeOK
<1>2. [status |-> "error", text |-> "empty"] \in Summary /\ [status |-> "streaming", text |-> "empty"] \in Summary
  BY DEF Summary, Outcomes
<1>3. CutShort \in Summary \union {None} /\ (CutShort = None <=> summary = None)
  BY <1>2, RecordAssumption DEF CutShort
<1>4. ASSUME NEW r \in Requests, Repaired(r) = summary', UNCHANGED parse, request[r] # None,
             request[r].pc \in {"last", "commit"}
      PROVE  /\ summary' \in Summary \union {None} /\ (summary' = None <=> summary = None)
             /\ ~Summing'
  <2>1. ~Summing  BY <1>1, <1>4 DEF HolderIsAlone
  <2> QED  BY <1>1, <1>3, <1>4, <2>1 DEF Repaired, Summing
<1>5. ASSUME NEW r \in Requests, Busy(r) \/ Commit(r) \/ CommitReplyLost(r)
      PROVE  /\ summary' \in Summary \union {None} /\ (summary' = None <=> summary = None)
             /\ ~Summing'
  BY <1>4, <1>5 DEF Busy, Commit, CommitReplyLost, Written, At
<1>6. ASSUME NEW r \in Requests, Look(r)
      PROVE  /\ summary' \in Summary \union {None} /\ (summary' = None <=> summary = None)
             /\ Summing' => Summing /\ summary' = summary
  BY <1>1, <1>3, <1>6 DEF Look, Summing, ParseIsKnown
<1>7. CASE SaveSummary
  <2>1. parse \in Parse /\ parse' = [parse EXCEPT !.pc = "end"] /\ ~Delete
    BY <1>1, <1>7 DEF SaveSummary, Parsing, TypeOK, Delete, vars, Parse
  <2>2. SummarySaved \in Summary \union {None} /\ (SummarySaved = None <=> summary = None)
    <3>1. summary # None => SummarySaved \in Summary
      BY <2>1 DEF SummarySaved, Summary, Parse
    <3> QED  BY <3>1, RecordAssumption DEF SummarySaved
  <2>3. ~Summing'  BY <2>1 DEF Summing, Parse
  <2> QED  BY <1>1, <1>7, <2>2, <2>3 DEF SaveSummary
<1>8. CASE Publish \/ PublishFails
  <2>1. CASE Published
    <3>1. summary' \in Summary /\ summary' # None
      BY <1>2, <2>1, RecordAssumption DEF Published
    <3>2. ~Delete
      BY <2>1, <3>1 DEF Delete
    <3>3. PublishFails => ~Summing'
      BY <1>1 DEF PublishFails, Parsing, Summing, TypeOK, Parse
    <3> QED  BY <1>8, <2>1, <3>1, <3>2, <3>3
  <2>2. CASE UNCHANGED summary /\ PublishFails
    <3>1. ~Summing'  BY <1>1, <2>2 DEF PublishFails, Parsing, Summing, TypeOK, Parse
    <3> QED  BY <1>1, <2>2, <3>1
  <2> QED  BY <1>8, <2>1, <2>2 DEF Publish, PublishFails
<1>9. CASE Start
  <2>1. summary # None => [summary EXCEPT !.status = "error"] \in Summary
    BY <1>1 DEF Summary, Outcomes
  <2>2. ~Summing'  BY <1>1, <1>9 DEF Start, ProcessIsKnown, Summing
  <2> QED  BY <1>1, <1>9, <2>1, <2>2, RecordAssumption DEF Start
<1>10. CASE Delete  BY <1>10 DEF Delete
<1>11. ASSUME UNCHANGED <<summary, parse>>
       PROVE  /\ summary' \in Summary \union {None} /\ (summary' = None <=> summary = None)
              /\ Summing' => Summing /\ summary' = summary
  BY <1>1, <1>11 DEF Summing
<1>12. ASSUME UNCHANGED summary, parse' # None => parse'.pc \notin {"summarize", "save"}
       PROVE  /\ summary' \in Summary \union {None} /\ (summary' = None <=> summary = None)
              /\ ~Summing'
  BY <1>1, <1>12 DEF Summing
<1>13. CASE StartParse
  <2>1. CASE parse' = [pc |-> "read", outcome |-> "error"]
    BY <1>12, <1>13, <2>1 DEF StartParse
  <2>2. CASE UNCHANGED parse  BY <1>11, <1>13, <2>2 DEF StartParse
  <2> QED  BY <1>13, <2>1, <2>2 DEF StartParse
<1>14. CASE ReadDocument \/ Discard \/ EndParse
  <2>1. parse # None => parse \in Parse  BY <1>1 DEF TypeOK
  <2>2. parse' # None => parse'.pc \notin {"summarize", "save"}
    BY <1>14, <2>1 DEF ReadDocument, Discard, EndParse, Parsing, Parse
  <2> QED  BY <1>12, <1>14, <2>2 DEF ReadDocument, Discard, EndParse
<1>15. CASE Summarize
  <2>1. Summing  BY <1>15 DEF Summarize, Parsing, Summing
  <2> QED  BY <1>1, <1>15, <2>1 DEF Summarize
<1>16. CASE Exit \/ Crash  BY <1>12, <1>16 DEF Exit, Crash, Wiped
<1>17. CASE Cancelled
  <2>1. UNCHANGED summary  BY <1>17 DEF Cancelled
  <2>2. UNCHANGED parse \/ (parse' # None => parse'.pc \notin {"summarize", "save"})
    <3>1. parse # None => parse \in Parse  BY <1>1 DEF TypeOK
    <3> QED  BY <1>17, <3>1 DEF Cancelled, Parse
  <2> QED  BY <1>11, <1>12, <2>1, <2>2
<1>18. ASSUME NEW r \in Requests,
              \/ \E kind \in {"send", "again", "memory"} : Ask(r, kind)
              \/ \E a \in Answers, b \in Blocks : AskRecheck(r, a, b)
              \/ Accept(r) \/ Rechecking(r) \/ View(r),
              ~Busy(r), ~Commit(r), ~CommitReplyLost(r)
       PROVE  UNCHANGED <<summary, parse>>
  BY <1>18 DEF Ask, AskRecheck, Accept, Lock, CheckSummary, MarkRecheck, PassMemory, MarkAnswer,
               Refuse, Rechecking, Recheck, ReadBlocks, WriteBlocks, EndRecheck, View
<1>19. ASSUME NEW a \in Answers, Answering(a) \/ SaveTitle(a) PROVE UNCHANGED <<summary, parse>>
  BY <1>19 DEF Answering, Produce, Save, SaveFails, Test, Store, Edit, End, SaveTitle
<1>20. ASSUME Rename \/ Stop \/ UNCHANGED vars PROVE UNCHANGED <<summary, parse>>
  BY <1>20 DEF Rename, Stop, vars
<1> QED
  BY <1>5, <1>6, <1>7, <1>8, <1>9, <1>10, <1>11, <1>13, <1>14, <1>15, <1>16, <1>17, <1>18, <1>19, <1>20
     DEF Next, ParseStep

(* Without a row there are no answers, and none come. *)
LEMMA NoRowsStay ==
    ASSUME DialogInv, [Next]_vars, dialog.state # "ready"
    PROVE  last' = None /\ \A a \in Answers : row'[a] = None
<1>1. last = None /\ \A a \in Answers : row[a] = None  BY DEF DialogInv, DialogIsWhole
<1>2. ASSUME NEW r \in Requests, Commit(r) \/ CommitReplyLost(r) PROVE FALSE
  BY <1>2 DEF Commit, CommitReplyLost, At, DialogInv, RequestsAreKnown, Locked
<1>3. ASSUME NEW r \in Requests, WriteBlocks(r) PROVE UNCHANGED <<row, last>>
  <2>1. request[r].answer \in Answers
    BY <1>3 DEF WriteBlocks, At, DialogInv, RequestsAreKnown, Checking
  <2> QED  BY <1>1, <1>3, <2>1 DEF WriteBlocks
<1>4. ASSUME NEW a \in Answers, Store(a) PROVE UNCHANGED <<row, last>>
  BY <1>1, <1>4 DEF Store
<1>5. CASE Delete  BY <1>5 DEF Delete
<1> QED  BY <1>1, <1>2, <1>3, <1>4, <1>5, RowSteps DEF RowsKept

LEMMA TitleSteps ==
    ASSUME DialogInv, [Next]_vars
    PROVE  \/ dialog'.title = dialog.title
           \/ dialog.state = "ready" /\ (dialog'.title = "user" \/ dialog.title = "none" \/ Delete)
           \/ Published /\ dialog.state = "hidden"
<1>1. dialog \in Dialog /\ ParseIsKnown  BY DEF DialogInv, TypeOK
<1>2. CASE Rename  BY <1>1, <1>2 DEF Rename, Dialog
<1>3. CASE Delete  BY <1>3 DEF Delete
<1>4. CASE \E a \in Answers : SaveTitle(a)  BY <1>1, <1>4 DEF SaveTitle, Titled, Dialog
<1>5. CASE StartParse \/ ParseStep \/ Start
  BY <1>1, <1>5 DEF StartParse, ParseStep, ReadDocument, Publish, PublishFails, Summarize, SaveSummary,
                    Discard, EndParse, Start, Unhidden, Dialog, Parsing, ParseIsKnown
<1>6. ASSUME NEW r \in Requests,
             \/ \E kind \in {"send", "again", "memory"} : Ask(r, kind)
             \/ \E a \in Answers, b \in Blocks : AskRecheck(r, a, b)
             \/ Accept(r) \/ Rechecking(r) \/ View(r) \/ Look(r)
      PROVE  UNCHANGED dialog
  BY <1>6 DEF Ask, AskRecheck, Accept, Lock, CheckSummary, Busy, MarkRecheck, PassMemory, MarkAnswer,
              Commit, Refuse, CommitReplyLost, Rechecking, Recheck, ReadBlocks, WriteBlocks,
              EndRecheck, View, Look
<1>7. ASSUME NEW a \in Answers, Answering(a) PROVE UNCHANGED dialog
  BY <1>7 DEF Answering, Produce, Save, SaveFails, Test, Store, Edit, End
<1>8. ASSUME Stop \/ Cancelled \/ Exit \/ Crash \/ UNCHANGED vars PROVE UNCHANGED dialog
  BY <1>8 DEF Stop, Cancelled, Exit, Crash, vars
<1> QED  BY <1>2, <1>3, <1>4, <1>5, <1>6, <1>7, <1>8 DEF Next

LEMMA WholeStep ==
    ASSUME DialogInv, [Next]_vars
    PROVE  DialogIsWhole'
<1>1. DialogIsWhole /\ dialog'.kind = dialog.kind /\ dialog \in Dialog
  BY DialogSteps DEF DialogInv, TypeOK
<1>2. CASE Delete
  <2>1. dialog'.state = "deleted" /\ last' = None /\ summary' = None /\ \A a \in Answers : row'[a] = None
    BY <1>1, <1>2 DEF Delete, Dialog
  <2> QED  BY <2>1 DEF DialogIsWhole
<1>3. ASSUME Published
      PROVE  dialog'.state = "ready" /\ dialog'.title = "model" /\ summary' # None
  <2>1. [status |-> "streaming", text |-> "empty"] \in Summary  BY DEF Summary, Outcomes
  <2> QED  BY <1>1, <1>3, <2>1, RecordAssumption DEF Published, Dialog
<1>4. CASE ~Delete
  <2>1. dialog'.state # "ready" => dialog.state # "ready"  BY <1>4, DialogSteps
  <2>2. dialog'.state # "ready" => summary' = None
    BY <1>1, <1>3, <1>4, <2>1, SummaryStep DEF DialogIsWhole
  <2>3. dialog'.state # "ready" => last' = None /\ \A a \in Answers : row'[a] = None
    BY <2>1, NoRowsStay
  <2>4. dialog'.state = "ready" /\ dialog'.kind = "docparse" => summary' # None
    <3>1. CASE dialog.state = "ready"  BY <1>1, <1>4, <3>1, SummaryStep DEF DialogIsWhole
    <3>2. CASE dialog.state # "ready" /\ dialog'.state = "ready"
      BY <1>3, <1>4, <3>2, DialogSteps
    <3> QED  BY <3>1, <3>2
  <2>5. dialog'.state \in {"absent", "hidden"} =>
          dialog'.kind = "docparse" /\ dialog'.title = "none"
    <3>1. dialog'.state \in {"absent", "hidden"} => dialog.state \in {"absent", "hidden"}
      BY <1>1, <1>4, DialogSteps DEF Dialog
    <3>2. dialog'.state \in {"absent", "hidden"} => dialog'.title = dialog.title
      BY <1>3, <3>1, TitleSteps
    <3> QED  BY <1>1, <3>1, <3>2 DEF DialogIsWhole
  <2> QED  BY <2>2, <2>3, <2>4, <2>5 DEF DialogIsWhole
<1> QED  BY <1>2, <1>4

LEMMA ParseStepped ==
    ASSUME DialogInv, [Next]_vars
    PROVE  ParseIsKnown' /\ parse' \in Parse \union {None} /\ forming' \in BOOLEAN
<1>1. /\ ParseIsKnown /\ ProcessIsKnown /\ parse \in Parse \union {None} /\ forming \in BOOLEAN
      /\ dialog \in Dialog /\ DialogIsWhole /\ dialog'.kind = dialog.kind
  BY DialogSteps DEF DialogInv, TypeOK
<1>2. Summing' /\ summary' # None => summary'.status = "streaming"
  <2>1. CASE Publish
    <3>1. summary' = [status |-> "streaming", text |-> "empty"]  BY <2>1 DEF Publish, Published
    <3> QED  BY <3>1
  <2>2. CASE Delete  BY <2>2 DEF Delete
  <2>3. CASE Summing /\ summary' = summary  BY <1>1, <2>3 DEF ParseIsKnown, Summing
  <2> QED  BY <2>1, <2>2, <2>3, SummaryStep
<1>3. ASSUME NEW pc \in {"read", "publish", "summarize", "save", "discard", "end"}, NEW outcome \in Outcomes
      PROVE  [pc |-> pc, outcome |-> outcome] \in Parse
  BY DEF Parse
<1>4. ASSUME NEW pc \in {"read", "publish", "summarize", "save", "discard", "end"},
             parse # None, parse' = [parse EXCEPT !.pc = pc], UNCHANGED forming,
             pc \in {"read", "publish"} => dialog'.state = "hidden"
      PROVE  ParseIsKnown' /\ parse' \in Parse \union {None} /\ forming' \in BOOLEAN
  <2>1. parse' \in Parse /\ parse'.pc = pc  BY <1>1, <1>4 DEF Parse
  <2> QED  BY <1>1, <1>2, <1>4, <2>1 DEF ParseIsKnown, Summing
<1>5. CASE StartParse
  <2>1. dialog'.state = "hidden" /\ dialog.kind = "docparse"
    BY <1>1, <1>5 DEF StartParse, DialogIsWhole, Dialog
  <2>2. CASE forming' = TRUE /\ parse' = [pc |-> "read", outcome |-> "error"]
    BY <1>1, <1>3, <2>1, <2>2 DEF ParseIsKnown, Outcomes
  <2>3. CASE UNCHANGED <<forming, parse>>
    BY <1>1, <1>2, <2>1, <2>3 DEF ParseIsKnown, Summing
  <2> QED  BY <1>5, <2>2, <2>3 DEF StartParse
<1>6. CASE ReadDocument
  <2>1. /\ parse # None /\ parse.pc = "read" /\ UNCHANGED <<forming, dialog>>
        /\ \E next \in {"publish", "discard"} : parse' = [parse EXCEPT !.pc = next]
    BY <1>6 DEF ReadDocument, Parsing, memory
  <2> QED  BY <1>1, <1>4, <2>1 DEF ParseIsKnown
<1>7. CASE Publish \/ PublishFails
  <2>1. /\ parse # None /\ UNCHANGED forming
        /\ \E next \in {"summarize", "discard"} : parse' = [parse EXCEPT !.pc = next]
    BY <1>7 DEF Publish, PublishFails, Parsing, memory
  <2> QED  BY <1>4, <2>1
<1>8. CASE Summarize
  <2>1. parse # None /\ parse.pc = "summarize" /\ UNCHANGED forming
    BY <1>8 DEF Summarize, Parsing, memory
  <2>2. CASE \E o \in Outcomes : parse' = [pc |-> "save", outcome |-> o]
    BY <1>1, <1>2, <1>3, <2>1, <2>2 DEF ParseIsKnown, Summing
  <2>3. CASE parse' = [parse EXCEPT !.pc = "end"]  BY <1>4, <2>1, <2>3
  <2> QED  BY <1>8, <2>2, <2>3 DEF Summarize
<1>9. CASE SaveSummary \/ Discard
  BY <1>4, <1>9 DEF SaveSummary, Discard, Parsing, memory
<1>10. ASSUME parse' = None, forming' \in BOOLEAN
       PROVE  ParseIsKnown' /\ parse' \in Parse \union {None} /\ forming' \in BOOLEAN
  BY <1>10 DEF ParseIsKnown
<1>11. CASE EndParse \/ Exit \/ Crash
  BY <1>10, <1>11 DEF EndParse, Exit, Crash, Wiped
<1>12. ASSUME UNCHANGED <<parse, forming>>, parse # None /\ parse.pc \in {"read", "publish"} =>
                UNCHANGED dialog \/ Delete
       PROVE  ParseIsKnown' /\ parse' \in Parse \union {None} /\ forming' \in BOOLEAN
  BY <1>1, <1>2, <1>12 DEF ParseIsKnown, Summing, Delete
<1>13. CASE Cancelled
  <2>1. UNCHANGED <<dialog>>  BY <1>13 DEF Cancelled
  <2>2. CASE parse # None /\ UNCHANGED <<memory, task, request>>
             /\ parse' = [parse EXCEPT !.pc = IF parse.pc \in {"read", "publish"} THEN "discard" ELSE "end"]
    BY <1>4, <2>2 DEF memory
  <2>3. CASE UNCHANGED <<parse, forming>>  BY <1>12, <2>1, <2>3
  <2> QED  BY <1>13, <2>2, <2>3 DEF Cancelled, Finished, RecheckFinished
<1>14. CASE Start
  <2>1. parse = None /\ UNCHANGED <<parse, forming>>
    BY <1>1, <1>14 DEF Start, ProcessIsKnown, memory
  <2> QED  BY <1>10, <1>1, <2>1
<1>15. ASSUME NEW r \in Requests,
              \/ \E kind \in {"send", "again", "memory"} : Ask(r, kind)
              \/ \E a \in Answers, b \in Blocks : AskRecheck(r, a, b)
              \/ Accept(r) \/ Rechecking(r) \/ View(r) \/ Look(r)
       PROVE  UNCHANGED <<parse, forming, dialog>>
  BY <1>15 DEF Ask, AskRecheck, Accept, Lock, CheckSummary, Busy, MarkRecheck, PassMemory, MarkAnswer,
               Commit, Refuse, CommitReplyLost, Unmark, Rechecking, Recheck, ReadBlocks, WriteBlocks,
               EndRecheck, RecheckFinished, View, Look, memory
<1>16. ASSUME NEW a \in Answers, Answering(a) PROVE UNCHANGED <<parse, forming, dialog>>
  BY <1>16 DEF Answering, Produce, Save, SaveFails, Test, Store, Edit, End, Finished, memory
<1>17. ASSUME NEW a \in Answers, SaveTitle(a)
       PROVE  /\ UNCHANGED <<parse, forming>>
              /\ parse # None /\ parse.pc \in {"read", "publish"} => UNCHANGED dialog \/ Delete
  BY <1>1, <1>17 DEF SaveTitle, Titled, ParseIsKnown, memory
<1>18. CASE Rename
  BY <1>1, <1>12, <1>18 DEF Rename, ParseIsKnown, memory
<1>19. CASE Delete  BY <1>12, <1>19 DEF Delete, memory
<1>20. CASE Stop \/ UNCHANGED vars  BY <1>12, <1>20 DEF Stop, memory, vars
<1> QED
  BY <1>5, <1>6, <1>7, <1>8, <1>9, <1>11, <1>12, <1>13, <1>14, <1>15, <1>16, <1>17, <1>18, <1>19, <1>20
     DEF Next, ParseStep

LEMMA ProcessStep ==
    ASSUME DialogInv, [Next]_vars
    PROVE  ProcessIsKnown' /\ process' \in {"up", "stopping", "down"}
<1>1. ProcessIsKnown /\ process \in {"up", "stopping", "down"}  BY DEF DialogInv, TypeOK
<1>2. CASE Exit \/ Crash  BY <1>2 DEF Exit, Crash, Wiped, ProcessIsKnown
<1>3. CASE Start \/ Stop  BY <1>3 DEF Start, Stop, ProcessIsKnown
<1>4. CASE process # "down" /\ process' = process  BY <1>1, <1>4 DEF ProcessIsKnown
<1>5. CASE UNCHANGED vars  BY <1>1, <1>5 DEF ProcessIsKnown, vars
<1>6. ASSUME NEW r \in Requests,
             \/ \E kind \in {"send", "again", "memory"} : Ask(r, kind)
             \/ \E a \in Answers, b \in Blocks : AskRecheck(r, a, b)
             \/ View(r)
      PROVE  process # "down" /\ process' = process
  BY <1>6 DEF Ask, AskRecheck, View
<1>7. ASSUME NEW r \in Requests, Accept(r) \/ Rechecking(r) \/ Look(r)
      PROVE  process # "down" /\ process' = process
  <2>1. request[r] # None /\ process' = process
    BY <1>7 DEF Accept, Lock, CheckSummary, Busy, MarkRecheck, PassMemory, MarkAnswer, Commit, Refuse,
                CommitReplyLost, Rechecking, Recheck, ReadBlocks, WriteBlocks, EndRecheck, Look, At
  <2> QED  BY <1>1, <2>1 DEF ProcessIsKnown
<1>8. ASSUME NEW a \in Answers, Answering(a) \/ SaveTitle(a)
      PROVE  process # "down" /\ process' = process
  BY <1>8 DEF Answering, Produce, Save, SaveFails, Test, Store, Edit, End, SaveTitle, Doing
<1>9. ASSUME Rename \/ Delete \/ StartParse \/ ParseStep \/ Cancelled
      PROVE  process # "down" /\ process' = process
  BY <1>9 DEF Rename, Delete, StartParse, ParseStep, ReadDocument, Publish, PublishFails, Summarize,
              SaveSummary, Discard, EndParse, Parsing, Cancelled
<1> QED  BY <1>2, <1>3, <1>4, <1>5, <1>6, <1>7, <1>8, <1>9 DEF Next
-----------------------------------------------------------------------------
(* The tasks that form answers.                                            *)

LEMMA CommitIsAlone ==
    ASSUME DialogInv, NEW r \in Requests, Commit(r) \/ CommitReplyLost(r)
    PROVE  /\ request[r] # None /\ request[r].pc = "commit" /\ ~Summing
           /\ \A a \in Answers : task[a] = None
           /\ UNCHANGED <<parse, dialog>>
BY DEF Commit, CommitReplyLost, At, DialogInv, HolderIsAlone

LEMMA WriteIsAlone ==
    ASSUME DialogInv, NEW r \in Requests, Rechecking(r)
    PROVE  /\ request[r] # None /\ request[r].pc \in Checking
           /\ \A a \in Answers : task[a] = None
           /\ request[r].answer \in Answers
BY DEF Rechecking, Recheck, ReadBlocks, WriteBlocks, EndRecheck, At, Checking, DialogInv, HolderIsAlone,
       RequestsAreKnown

(* Nobody but its task writes an answer that is being formed; it may be deleted. *)
LEMMA RowOfTask ==
    ASSUME DialogInv, [Next]_vars, NEW a \in Answers, task[a] # None, ~Answering(a)
    PROVE  row'[a] = row[a] \/ row'[a] = None
<1>1. /\ TypeOK /\ row \in [Answers -> Row \union {None}] /\ a \in active /\ process # "down"
  BY DEF DialogInv, TypeOK, TasksAreLast, ProcessIsKnown
<1>2. ASSUME NEW b \in Answers, Answering(b) \/ SaveTitle(b) PROVE row'[a] = row[a]
  <2>1. CASE b = a
    <3>1. row' = row  BY <1>2, <2>1 DEF SaveTitle
    <3> QED  BY <3>1
  <2>2. CASE b # a /\ (Save(b) \/ SaveFails(b))
    <3>1. task[b].outcome \in Outcomes  BY <2>2 DEF Save, SaveFails, Doing, DialogInv, TypeOK, Task
    <3>2. row' = row \/ row' = Saved(b, task[b].outcome)  BY <2>2 DEF Save, SaveFails
    <3> QED  BY <1>1, <2>2, <3>1, <3>2, SavedRow
  <2>3. CASE b # a /\ Store(b)  BY <1>1, <2>3 DEF Store
  <2>4. CASE ~(Save(b) \/ SaveFails(b) \/ Store(b))
    BY <1>2, <2>4 DEF Answering, Produce, Test, Edit, End, SaveTitle
  <2> QED  BY <1>2, <2>1, <2>2, <2>3, <2>4
<1>3. ASSUME NEW r \in Requests, Look(r) PROVE row'[a] = row[a]
  BY <1>1, <1>3 DEF Look
<1>4. ASSUME NEW r \in Requests, Accept(r) \/ Rechecking(r) PROVE row' = row
  <2>1. ~Commit(r) /\ ~CommitReplyLost(r)  BY CommitIsAlone
  <2>2. ~Rechecking(r)  BY WriteIsAlone
  <2> QED  BY <1>4, <2>1, <2>2 DEF Accept, Lock, CheckSummary, Busy, MarkRecheck, PassMemory, MarkAnswer,
                                   Refuse
<1>5. ASSUME NEW r \in Requests,
             \/ \E kind \in {"send", "again", "memory"} : Ask(r, kind)
             \/ \E b \in Answers, c \in Blocks : AskRecheck(r, b, c)
             \/ View(r)
      PROVE  row' = row
  BY <1>5 DEF Ask, AskRecheck, View
<1>6. CASE Delete  BY <1>6 DEF Delete
<1>7. CASE Rename \/ StartParse \/ ParseStep \/ Stop \/ Cancelled \/ Exit \/ Crash \/ UNCHANGED vars
  BY <1>7 DEF Rename, StartParse, ParseStep, ReadDocument, Publish, PublishFails, Summarize,
              SaveSummary, Discard, EndParse, Stop, Cancelled, Exit, Crash, vars
<1>8. ~Start  BY <1>1 DEF Start
<1> QED  BY <1>2, <1>3, <1>4, <1>5, <1>6, <1>7, <1>8 DEF Next

(* A mark is dropped by the task that holds it, or for a request that started none. *)
LEMMA MarkOfTask ==
    ASSUME DialogInv, [Next]_vars, NEW a \in Answers, task[a] # None, task'[a] # None
    PROVE  a \in active'
<1>1. TypeOK /\ a \in active  BY DEF DialogInv, TasksAreLast
<1>2. ASSUME NEW b \in Answers, Finished(b) PROVE a \in active'
  <2>1. b # a  BY <1>1, <1>2 DEF Finished, TypeOK
  <2> QED  BY <1>1, <1>2, <2>1 DEF Finished
<1>3. ASSUME NEW b \in Answers, Answering(b) \/ SaveTitle(b) PROVE a \in active'
  BY <1>1, <1>2, <1>3 DEF Answering, Produce, Save, SaveFails, Test, Store, Edit, End, SaveTitle, memory
<1>4. ASSUME NEW r \in Requests, Accept(r) \/ Rechecking(r) PROVE a \in active'
  <2>1. ~Commit(r) /\ ~CommitReplyLost(r) /\ ~Rechecking(r)  BY CommitIsAlone, WriteIsAlone
  <2>2. ~At(r, "commit")  BY DEF At, DialogInv, HolderIsAlone
  <2> QED  BY <1>1, <1>4, <2>1, <2>2
           DEF Accept, Lock, CheckSummary, Busy, MarkRecheck, PassMemory, MarkAnswer, Refuse, Unmark,
               memory
<1>5. ASSUME NEW r \in Requests,
             \/ \E kind \in {"send", "again", "memory"} : Ask(r, kind)
             \/ \E b \in Answers, c \in Blocks : AskRecheck(r, b, c)
             \/ View(r) \/ Look(r)
      PROVE  UNCHANGED active
  BY <1>5 DEF Ask, AskRecheck, View, Look, memory
<1>6. ASSUME Rename \/ Delete \/ StartParse \/ ParseStep \/ Stop \/ Start \/ UNCHANGED vars
      PROVE  UNCHANGED active
  BY <1>6 DEF Rename, Delete, StartParse, ParseStep, ReadDocument, Publish, PublishFails, Summarize,
              SaveSummary, Discard, EndParse, Stop, Start, memory, vars
<1>7. CASE Cancelled  BY <1>1, <1>2, <1>7 DEF Cancelled, RecheckFinished, memory
<1>8. ~Exit /\ ~Crash  BY DEF Exit, Crash, Wiped
<1> QED  BY <1>1, <1>3, <1>4, <1>5, <1>6, <1>7, <1>8 DEF Next

(* What is known of one task. *)
Working(a) ==
    /\ a \in active
    /\ a = last \/ dialog.state = "deleted"
    /\ ~Summing
    /\ row[a] # None =>
          /\ task[a].pc \in {"produce", "save"} => row[a].status = "streaming"
          /\ task[a].pc \in {"produce", "save", "test", "store"} => row[a].run = None

LEMMA TasksStep ==
    ASSUME DialogInv, [Next]_vars
    PROVE  TasksAreLast'
<1>1. /\ TypeOK /\ TasksAreLast /\ ParseIsKnown /\ DialogIsWhole /\ dialog \in Dialog
      /\ task \in [Answers -> Task \union {None}] /\ row \in [Answers -> Row \union {None}]
  BY DEF DialogInv, TypeOK
<1>2. ASSUME NEW a \in Answers, task[a] # None PROVE Working(a)
  BY <1>1, <1>2 DEF TasksAreLast, Working
<1>3. ASSUME NEW a \in Answers, task[a] # None
      PROVE  (a = last' \/ dialog'.state = "deleted") /\ ~Summing'
  <2>1. Working(a)  BY <1>2, <1>3
  <2>2. CASE Delete
    <3>1. dialog'.state = "deleted" /\ (Summing' <=> Summing)
      BY <1>1, <2>2 DEF Delete, Dialog, Summing
    <3> QED  BY <2>1, <3>1 DEF Working
  <2>3. CASE ~Delete
    <3>1. ~Publish
      BY <1>1, <2>1, NoneAssumption DEF Publish, Parsing, ParseIsKnown, DialogIsWhole, Working
    <3>2. ~Summing'  BY <2>1, <2>3, <3>1, SummaryStep DEF Working
    <3>3. last' = last
      <4>1. \A r \in Requests : ~Commit(r) /\ ~CommitReplyLost(r) /\ ~WriteBlocks(r)
        BY <1>3, CommitIsAlone, WriteIsAlone DEF Rechecking
      <4>2. \A b \in Answers : Store(b) => last' = last  BY DEF Store
      <4> QED  BY <2>3, <4>1, <4>2, RowSteps
    <3> QED  BY <2>1, <3>2, <3>3, DialogSteps DEF Working
  <2> QED  BY <2>2, <2>3
<1>4. ASSUME NEW a \in Answers, task[a] # None, task'[a] = task[a], ~Answering(a)
      PROVE  Working(a)'
  BY <1>2, <1>3, <1>4, RowOfTask, MarkOfTask DEF Working
<1>5. ASSUME NEW a \in Answers, SaveTitle(a), task'[a] # None PROVE Working(a)'
  <2>1. task[a] # None /\ task' = [task EXCEPT ![a].titling = FALSE] /\ row' = row
        /\ UNCHANGED active
    BY <1>5 DEF SaveTitle, memory
  <2>2. task[a] \in Task /\ task'[a] = [task[a] EXCEPT !.titling = FALSE]  BY <1>1, <2>1
  <2>3. task'[a].pc = task[a].pc  BY <2>2 DEF Task
  <2> QED  BY <1>2, <1>3, <2>1, <2>3 DEF Working
<1>6. ASSUME NEW a \in Answers, Answering(a), Later(a), UNCHANGED active PROVE Working(a)'
  <2>1. task[a] # None /\ Working(a)  BY <1>2, <1>6 DEF Later
  <2>2. CASE UNCHANGED row
    <3>1. /\ task'[a].pc \in {"produce", "save"} => task[a].pc \in {"produce", "save"}
          /\ task'[a].pc \in {"produce", "save", "test", "store"} =>
                task[a].pc \in {"produce", "save", "test", "store"}
      BY <1>6 DEF Later
    <3> QED  BY <1>3, <1>6, <2>1, <2>2, <3>1 DEF Working
  <2>3. CASE Save(a)
    <3>1. task[a].pc = "save" /\ row' = Saved(a, task[a].outcome) /\ task[a].outcome \in Outcomes
      BY <1>1, <2>1, <2>3 DEF Save, Doing, Task
    <3>2. task'[a].pc \in {"test", "edit", "end"}
      BY <1>1, <2>1, <2>3 DEF Save, TaskGoes, Task
    <3>3. row'[a] # None => row[a] # None /\ row'[a].run = row[a].run
      BY <1>1, <3>1, SavedRow
    <3> QED  BY <1>3, <1>6, <2>1, <3>1, <3>2, <3>3 DEF Working
  <2>4. CASE SaveFails(a) \/ Store(a)
    <3>1. task'[a].pc = "end"  BY <1>1, <2>1, <2>4 DEF SaveFails, Store, TaskGoes, Task
    <3> QED  BY <1>3, <1>6, <2>1, <3>1 DEF Working
  <2> QED  BY <1>6, <2>2, <2>3, <2>4 DEF Answering, Produce, Test, Edit, End
<1>7. ASSUME NEW r \in Requests, Commit(r), NEW a \in Answers, task'[a] # None
      PROVE  Working(a)'
  <2>1. /\ request[r] # None /\ request[r].pc = "commit" /\ ~Summing' /\ task[a] = None
        /\ At(r, "commit") /\ Written(r) /\ UNCHANGED active
    BY <1>7, CommitIsAlone DEF Commit, Summing, memory
  <2>2. Asking(r) /\ a = request[r].answer
    BY <1>1, <1>7, <2>1 DEF Commit
  <2>3. a \in active  BY <2>1, <2>2 DEF DialogInv, HolderIsAlone
  <2>4. last' = a /\ row'[a] = Empty  BY <2>1, <2>2, CommitRows
  <2>5. Empty.status = "streaming" /\ Empty.run = None  BY DEF Empty
  <2> QED  BY <2>1, <2>3, <2>4, <2>5 DEF Working
<1>8. ASSUME NEW a \in Answers, task'[a] # None PROVE Working(a)'
  <2>1. CASE Answering(a)
    <3>1. task[a] # None  BY <2>1 DEF Answering, Produce, Save, SaveFails, Test, Store, Edit, End, Doing
    <3>2. CASE UNCHANGED task
      <4>1. ~End(a)  BY <1>8, <3>1, <3>2, <1>1 DEF End, Finished
      <4>2. UNCHANGED active
        BY <2>1, <4>1 DEF Answering, Produce, Save, SaveFails, Test, Store, Edit, memory
      <4>3. task'[a] \in Task  BY <1>1, <3>1, <3>2
      <4> QED  BY <1>6, <2>1, <3>1, <3>2, <4>2, <4>3 DEF Later
    <3>3. CASE \E r \in Requests : Commit(r)  BY <1>7, <1>8, <3>3
    <3>4. ASSUME NEW b \in Answers, \A c \in Answers \ {b} : task'[c] = task[c],
                 task[b] # None,
                 \/ Finished(b) /\ task'[b] = None
                 \/ Later(b) /\ (Answering(b) \/ SaveTitle(b)) /\ UNCHANGED active,
                 UNCHANGED <<last, rechecking, request>>
          PROVE  Working(a)'
      <4>1. CASE b = a
        <5>1. Later(a) /\ UNCHANGED active  BY <1>8, <3>4, <4>1
        <5> QED  BY <1>6, <2>1, <5>1
      <4>2. CASE b # a
        <5>1. ~End(a)  BY <1>1, <1>8, <3>1, <3>4, <4>2 DEF End, Finished
        <5>2. UNCHANGED active
          BY <2>1, <5>1 DEF Answering, Produce, Save, SaveFails, Test, Store, Edit, memory
        <5>3. task'[a] = task[a] /\ task'[a] \in Task  BY <1>1, <3>1, <3>4, <4>2
        <5> QED  BY <1>6, <2>1, <3>1, <5>2, <5>3 DEF Later
      <4> QED  BY <4>1, <4>2
    <3> QED  BY <1>8, <3>2, <3>3, <3>4, TaskSteps
  <2>2. CASE SaveTitle(a)  BY <1>5, <1>8, <2>2
  <2>3. CASE ~Answering(a) /\ ~SaveTitle(a)
    <3>1. CASE task[a] # None /\ task'[a] = task[a]  BY <1>4, <2>3, <3>1
    <3>2. CASE \E r \in Requests : Commit(r)  BY <1>7, <1>8, <3>2
    <3> QED  BY <1>8, <2>3, <3>1, <3>2, TaskSteps
  <2> QED  BY <2>1, <2>2, <2>3
<1> QED  BY <1>8 DEF TasksAreLast, Working
-----------------------------------------------------------------------------
(* Who holds the dialog.                                                   *)

(* What is known of the request that holds the dialog, or checks a block. *)
Alone(r) ==
    /\ request[r].pc \in Checking \/ (request[r].pc = "commit" /\ request[r].kind = "recheck")
          => rechecking
    /\ request[r].pc \in Checking \union {"commit"} => \A a \in Answers : task[a] = None
    /\ request[r].pc = "commit" /\ Asking(r) =>
          /\ request[r].answer \in active \intersect Answers
          /\ row[request[r].answer] = None
    /\ request[r].pc = "write" =>
          /\ request[r].copy # None
          /\ row[request[r].answer] # None => row[request[r].answer].run = request[r].copy
    /\ request[r].pc \in {"last", "commit"} =>
          /\ StatusOf(last) = "streaming" => request[r].seen = "streaming"
          /\ ~Summing
    /\ request[r].pc = "summary" /\ Summing => request[r].seen = "streaming"

(* A step of somebody else. *)
LEMMA HeldBeside ==
    ASSUME DialogInv, [Next]_vars, NEW r \in Requests, Held(r), request'[r] = request[r]
    PROVE  Alone(r)'
<1>1. /\ TypeOK /\ OneHolds /\ Alone(r) /\ request[r] # None /\ row \in [Answers -> Row \union {None}]
      /\ task \in [Answers -> Task \union {None}] /\ ParseIsKnown /\ dialog \in Dialog
      /\ request[r] \in Request
  BY DEF DialogInv, TypeOK, HolderIsAlone, Held, Alone
<1>2. /\ request[r].pc \in Locked => dialog.state = "ready" /\ process # "stopping" /\ ~Delete
      /\ request[r].pc \in Checking => request[r].kind = "recheck" /\ request[r].answer \in Answers
  <2>1. request[r].pc \in Locked => ~Delete  BY <1>1 DEF Delete, LockFree
  <2> QED  BY <1>1, <2>1 DEF DialogInv, RequestsAreKnown, Locked, Checking
<1>3. ASSUME NEW s \in Requests, Commit(s) \/ CommitReplyLost(s) \/ Rechecking(s) PROVE FALSE
  <2>1. request[s] # None /\ request[s].pc \in Checking \union {"commit"}
    BY <1>3, CommitIsAlone, WriteIsAlone
  <2>2. s = r  BY <1>1, <2>1 DEF OneHolds, Held, Locked, Checking
  <2>3. \/ \E q : Becomes(r, q) /\ (q = None \/ (q # request[r] /\ q.pc # request[r].pc))
        \/ \E pc : Goes(r, pc) /\ pc # request[r].pc
    <3>1. CASE Commit(r)
      <4>1. request[r].pc = "commit"  BY <3>1, CommitIsAlone
      <4>2. CASE request[r].kind = "recheck"
        <5> DEFINE q == [request[r] EXCEPT !.pc = "test", !.seen = "none"]
        <5>1. Becomes(r, q)  BY <3>1, <4>2 DEF Commit
        <5>2. q.pc = "test"  BY <1>1 DEF Request
        <5> QED  BY <4>1, <5>1, <5>2
      <4>3. CASE request[r].kind # "recheck"  BY <3>1, <4>3 DEF Commit
      <4> QED  BY <4>2, <4>3
    <3>2. CASE CommitReplyLost(r)  BY <3>2 DEF CommitReplyLost
    <3>3. CASE Recheck(r)  BY <3>3 DEF Recheck, At
    <3>4. CASE ReadBlocks(r)
      <4>1. request[r].pc = "read"  BY <3>4 DEF ReadBlocks, At
      <4>2. CASE Goes(r, "end")  BY <4>1, <4>2
      <4>3. CASE Becomes(r, [request[r] EXCEPT !.pc = "write", !.copy = row[request[r].answer].run])
        <5> DEFINE q == [request[r] EXCEPT !.pc = "write", !.copy = row[request[r].answer].run]
        <5>1. q.pc = "write"  BY <1>1 DEF Request
        <5> QED  BY <4>1, <4>3, <5>1
      <4> QED  BY <3>4, <4>2, <4>3 DEF ReadBlocks
    <3>5. CASE WriteBlocks(r)
      <4>1. request[r].pc = "write"  BY <3>5 DEF WriteBlocks, At
      <4> DEFINE q == [request[r] EXCEPT !.pc = "end", !.copy = None]
      <4>2. q.pc = "end" /\ Becomes(r, q)  BY <1>1, <3>5 DEF Request, WriteBlocks
      <4> QED  BY <4>1, <4>2
    <3>6. CASE EndRecheck(r)  BY <3>6 DEF EndRecheck, RecheckFinished
    <3> QED  BY <1>3, <2>2, <3>1, <3>2, <3>3, <3>4, <3>5, <3>6 DEF Rechecking
  <2>4. CASE \E q : Becomes(r, q) /\ (q = None \/ (q # request[r] /\ q.pc # request[r].pc))
    <3>1. PICK q : Becomes(r, q) /\ (q = None \/ (q # request[r] /\ q.pc # request[r].pc))
      BY <2>4
    <3>2. request'[r] = q  BY <1>1, <3>1, Put
    <3> QED  BY <1>1, <3>1, <3>2
  <2>5. CASE \E pc : Goes(r, pc) /\ pc # request[r].pc
    <3>1. PICK pc : Goes(r, pc) /\ pc # request[r].pc  BY <2>5
    <3>2. request'[r].pc = pc  BY <1>1, <3>1, Turned
    <3> QED  BY <3>1, <3>2
  <2> QED  BY <2>3, <2>4, <2>5
<1>4. request[r].pc \in Checking \union {"commit"} => \A a \in Answers : task'[a] = None
  <2>1. ASSUME request[r].pc \in Checking \union {"commit"}, NEW a \in Answers
        PROVE  task'[a] = None
    <3>1. \A b \in Answers : task[b] = None  BY <1>1, <2>1 DEF Alone
    <3> QED  BY <1>3, <3>1, TaskSteps
  <2> QED  BY <2>1
<1>5. /\ \A a \in Answers :
            /\ row[a] = None /\ ~Delete => row'[a] = None
            /\ row'[a] # None => row[a] # None
            /\ row'[a] # None /\ row'[a].status = "streaming" => row[a].status = "streaming"
            /\ row'[a] # None /\ (\A b \in Answers : task[b] = None) => row'[a].run = row[a].run
      /\ ~Delete => last' = last
  <2>1. CASE RowsKept /\ UNCHANGED last  BY <2>1 DEF RowsKept
  <2>2. ASSUME NEW b \in Answers, Store(b)
        PROVE  /\ task[b] # None /\ last' = last
               /\ \A a \in Answers : /\ row[a] = None <=> row'[a] = None
                                     /\ row[a] # None => row'[a].status = row[a].status
    <3>1. task[b] # None /\ last' = last  BY <2>2 DEF Store, Doing
    <3>2. CASE row' = row  BY <3>1, <3>2
    <3>3. CASE row' # row
      <4> DEFINE stored == [row[b] EXCEPT !.run = [c \in Blocks |-> 1]]
      <4>1. row[b] # None /\ row' = [row EXCEPT ![b] = stored]  BY <2>2, <3>3 DEF Store
      <4>2. [c \in Blocks |-> 1] \in Runs /\ row[b] \in Row  BY <1>1, <4>1 DEF Runs, Versions
      <4>3. stored \in Row /\ stored.status = row[b].status  BY <4>2 DEF Row
      <4>4. stored # None  BY <4>3, RecordAssumption
      <4> HIDE DEF stored
      <4> QED  BY <1>1, <3>1, <4>1, <4>3, <4>4
    <3> QED  BY <3>2, <3>3
  <2>3. CASE Delete  BY <2>3 DEF Delete
  <2>4. \A s \in Requests : ~(Commit(s) \/ CommitReplyLost(s) \/ WriteBlocks(s))
    BY <1>3 DEF Rechecking
  <2> QED  BY <2>1, <2>2, <2>3, <2>4, RowSteps
<1>6. ASSUME request[r].pc \in Locked PROVE Summing' => Summing
  <2>1. ~Publish  BY <1>1, <1>2, <1>6 DEF Publish, Parsing, ParseIsKnown
  <2> QED  BY <1>2, <1>6, <2>1, SummaryStep
<1>7. rechecking /\ (request[r].pc \in Checking \/ (request[r].pc = "commit" /\ request[r].kind = "recheck"))
        => rechecking'
  <2>1. ASSUME NEW s \in Requests, s # r,
               Refuse(s) \/ RecheckFinished(s)
        PROVE  Refuse(s) => rechecking' = rechecking
    <3>1. Refuse(s) => ~At(s, "commit")
      BY <1>1, <2>1 DEF OneHolds, Held, At, Locked
    <3> QED  BY <3>1 DEF Refuse, Unmark
  <2>2. ASSUME NEW s \in Requests, Refuse(s) PROVE s # r
    <3>1. Becomes(s, None)  BY <2>2 DEF Refuse
    <3>2. request'[s] = None  BY <1>1, <3>1, Put
    <3> QED  BY <1>1, <3>2
  <2>3. CASE Cancelled
    <3>1. CASE \E s \in Requests : request[s] # None /\ RecheckFinished(s)
      <4>1. PICK s \in Requests : request[s] # None /\ RecheckFinished(s)  BY <3>1
      <4>2. request[s].pc \in Checking
        BY <2>3, <4>1 DEF Cancelled, DialogInv, RequestsAreKnown
      <4>3. s = r  BY <1>1, <4>1, <4>2 DEF OneHolds, Held
      <4>4. request'[s] = None  BY <1>1, <4>1, Put DEF RecheckFinished
      <4> QED  BY <1>1, <4>3, <4>4
    <3>2. CASE ~\E s \in Requests : request[s] # None /\ RecheckFinished(s)
      BY <2>3, <3>2 DEF Cancelled, Finished, memory
    <3> QED  BY <3>1, <3>2
  <2>4. ASSUME NEW s \in Requests,
               \/ \E kind \in {"send", "again", "memory"} : Ask(s, kind)
               \/ \E a \in Answers, b \in Blocks : AskRecheck(s, a, b)
               \/ Accept(s) \/ Rechecking(s) \/ View(s) \/ Look(s)
        PROVE  rechecking => rechecking'
    <3>1. ~Commit(s) /\ ~CommitReplyLost(s) /\ ~Rechecking(s)  BY <1>3
    <3>2. Refuse(s) => rechecking' = rechecking  BY <2>1, <2>2
    <3> QED  BY <2>4, <3>1, <3>2
             DEF Ask, AskRecheck, Accept, Lock, CheckSummary, Busy, MarkRecheck, PassMemory,
                 MarkAnswer, View, Look, memory
  <2>5. ASSUME NEW a \in Answers, Answering(a) \/ SaveTitle(a) PROVE rechecking' = rechecking
    BY <2>5 DEF Answering, Produce, Save, SaveFails, Test, Store, Edit, End, Finished, SaveTitle, memory
  <2>6. ASSUME Rename \/ Delete \/ StartParse \/ ParseStep \/ Stop \/ Start \/ UNCHANGED vars
        PROVE  rechecking' = rechecking
    BY <2>6 DEF Rename, Delete, StartParse, ParseStep, ReadDocument, Publish, PublishFails, Summarize,
                SaveSummary, Discard, EndParse, Stop, Start, memory, vars
  <2>7. ~Exit /\ ~Crash  BY <1>1 DEF Exit, Crash, Wiped
  <2> QED  BY <2>3, <2>4, <2>5, <2>6, <2>7 DEF Next
<1>8. ASSUME request[r].pc = "commit", Asking(r)
      PROVE  request[r].answer \in active'
  <2>1. request[r].answer \in active /\ (\A a \in Answers : task[a] = None)
    BY <1>1, <1>8 DEF Alone
  <2>2. ASSUME NEW s \in Requests,
               \/ \E kind \in {"send", "again", "memory"} : Ask(s, kind)
               \/ \E a \in Answers, b \in Blocks : AskRecheck(s, a, b)
               \/ Accept(s) \/ Rechecking(s) \/ View(s) \/ Look(s)
        PROVE  active \subseteq active'
    <3>1. ~Commit(s) /\ ~CommitReplyLost(s) /\ ~Rechecking(s)  BY <1>3
    <3>2. CASE Refuse(s)
      <4>1. request'[s] = None  BY <1>1, <3>2, Put DEF Refuse
      <4>2. ~At(s, "commit")  BY <1>1, <4>1 DEF OneHolds, Held, At, Locked
      <4> QED  BY <3>2, <4>2 DEF Refuse, Unmark
    <3> QED  BY <2>2, <3>1, <3>2
             DEF Ask, AskRecheck, Accept, Lock, CheckSummary, Busy, MarkRecheck, PassMemory,
                 MarkAnswer, View, Look, memory
  <2>3. ASSUME NEW a \in Answers, Answering(a) \/ SaveTitle(a) PROVE FALSE
    BY <2>1, <2>3 DEF Answering, Produce, Save, SaveFails, Test, Store, Edit, End, SaveTitle, Doing
  <2>4. ASSUME Rename \/ Delete \/ StartParse \/ ParseStep \/ Stop \/ Start \/ UNCHANGED vars
        PROVE  active' = active
    BY <2>4 DEF Rename, Delete, StartParse, ParseStep, ReadDocument, Publish, PublishFails, Summarize,
                SaveSummary, Discard, EndParse, Stop, Start, memory, vars
  <2>5. ~Exit /\ ~Crash /\ ~Cancelled
    BY <1>1, <1>2, <1>8 DEF Exit, Crash, Wiped, Cancelled, Locked
  <2> QED  BY <2>1, <2>2, <2>3, <2>4, <2>5 DEF Next
<1>9. StatusOf(last)' = "streaming" /\ ~Delete => StatusOf(last) = "streaming"
  BY <1>1, <1>5 DEF StatusOf, TypeOK
<1>10. request'[r].pc = "commit" /\ Asking(r)' =>
          /\ request'[r].answer \in active' \intersect Answers
          /\ row'[request'[r].answer] = None
  <2>1. ASSUME request[r].pc = "commit", Asking(r)
        PROVE  /\ request[r].answer \in active' \intersect Answers
               /\ row'[request[r].answer] = None
    <3>1. request[r].answer \in Answers /\ row[request[r].answer] = None  BY <1>1, <2>1 DEF Alone
    <3>2. ~Delete  BY <1>2, <2>1 DEF Locked
    <3> QED  BY <1>5, <1>8, <2>1, <3>1, <3>2
  <2> QED  BY <2>1 DEF Asking
<1>11. request'[r].pc = "write" =>
          /\ request'[r].copy # None
          /\ row'[request'[r].answer] # None => row'[request'[r].answer].run = request'[r].copy
  <2>1. ASSUME request[r].pc = "write"
        PROVE  /\ request[r].copy # None
               /\ row'[request[r].answer] # None => row'[request[r].answer].run = request[r].copy
    <3>1. request[r].answer \in Answers /\ \A b \in Answers : task[b] = None
      BY <1>1, <1>2, <2>1 DEF Alone, Checking
    <3>2. /\ request[r].copy # None
          /\ row[request[r].answer] # None => row[request[r].answer].run = request[r].copy
      BY <1>1, <2>1 DEF Alone
    <3> QED  BY <1>5, <3>1, <3>2
  <2> QED  BY <2>1
<1>12. request'[r].pc \in {"last", "commit"} =>
          /\ StatusOf(last)' = "streaming" => request'[r].seen = "streaming"
          /\ ~Summing'
  <2>1. ASSUME request[r].pc \in {"last", "commit"}
        PROVE  (StatusOf(last)' = "streaming" => request[r].seen = "streaming") /\ ~Summing'
    <3>1. request[r].pc \in Locked /\ ~Delete  BY <1>2, <2>1 DEF Locked
    <3>2. (StatusOf(last) = "streaming" => request[r].seen = "streaming") /\ ~Summing
      BY <1>1, <2>1 DEF Alone
    <3> QED  BY <1>6, <1>9, <3>1, <3>2
  <2> QED  BY <2>1
<1>13. request'[r].pc = "summary" /\ Summing' => request'[r].seen = "streaming"
  <2>1. ASSUME request[r].pc = "summary", Summing' PROVE request[r].seen = "streaming"
    <3>1. Summing  BY <1>6, <2>1 DEF Locked
    <3> QED  BY <1>1, <2>1, <3>1 DEF Alone
  <2> QED  BY <2>1
<1>14. request'[r].pc \in Checking \/ (request'[r].pc = "commit" /\ request'[r].kind = "recheck")
          => rechecking'
  BY <1>1, <1>7 DEF Alone
<1> QED  BY <1>4, <1>10, <1>11, <1>12, <1>13, <1>14 DEF Alone

(* A request holds the dialog after a step of its own. *)
LEMMA HolderSteps ==
    ASSUME DialogInv, [Next]_vars, NEW r \in Requests, Held(r)', request'[r] # request[r]
    PROVE  \/ Lock(r) \/ CheckSummary(r) \/ MarkRecheck(r) \/ PassMemory(r)
           \/ \E a \in Answers : MarkAnswer(r, a)
           \/ Commit(r) \/ Recheck(r) \/ ReadBlocks(r) \/ WriteBlocks(r)
<1>1. TypeOK  BY DEF DialogInv
<1>2. ASSUME NEW s \in Requests, s # r, NEW q, Becomes(s, q) PROVE FALSE
  BY <1>1, <1>2, Put
<1>3. ASSUME NEW s \in Requests, s # r, NEW pc, Goes(s, pc) PROVE FALSE
  BY <1>3 DEF Goes, DialogInv, TypeOK
<1>4. ASSUME NEW s \in Requests, s # r,
             \/ \E kind \in {"send", "again", "memory"} : Ask(s, kind)
             \/ \E a \in Answers, b \in Blocks : AskRecheck(s, a, b)
             \/ View(s) \/ Look(s) \/ Rechecking(s)
      PROVE  FALSE
  BY <1>2, <1>3, <1>4 DEF Ask, AskRecheck, View, Look, Rechecking, Recheck, ReadBlocks, WriteBlocks,
                          EndRecheck, RecheckFinished
<1>5. ASSUME NEW s \in Requests, s # r, Accept(s) PROVE FALSE
  BY <1>2, <1>3, <1>5 DEF Accept, Lock, CheckSummary, Busy, MarkRecheck, PassMemory, MarkAnswer, Commit,
                          Refuse, CommitReplyLost
<1>6. ASSUME NEW q, Becomes(r, q), q = None \/ q.pc \in {"asked", "look"} PROVE FALSE
  <2>1. request'[r] = q  BY <1>1, <1>6, Put
  <2> QED  BY <1>6, <2>1 DEF Held, Locked, Checking
<1>7. ASSUME \/ \E kind \in {"send", "again", "memory"} : Ask(r, kind)
             \/ \E a \in Answers, b \in Blocks : AskRecheck(r, a, b)
             \/ View(r)
      PROVE  FALSE
  <2>1. ASSUME NEW kind PROVE New(kind, "asked").pc = "asked" /\ New(kind, "look").pc = "look"
    BY DEF New
  <2>2. ASSUME NEW a, NEW b
        PROVE  [New("recheck", "asked") EXCEPT !.answer = a, !.block = b].pc = "asked"
    BY DEF New
  <2>3. ASSUME NEW a PROVE [New("view", "look") EXCEPT !.answer = a].pc = "look"
    BY DEF New
  <2>4. ~\E kind \in {"send", "again", "memory"} : Ask(r, kind)  BY <1>6, <2>1 DEF Ask
  <2>5. ~\E a \in Answers, b \in Blocks : AskRecheck(r, a, b)  BY <1>6, <2>2 DEF AskRecheck
  <2>6. ASSUME View(r) PROVE FALSE
    <3>1. ~Becomes(r, New("open", "look"))  BY <1>6, <2>1
    <3>2. ~Becomes(r, [New("view", "look") EXCEPT !.answer = last])  BY <1>6, <2>3
    <3> QED  BY <2>6, <3>1, <3>2 DEF View
  <2> QED  BY <1>7, <2>4, <2>5, <2>6
<1>8. ~Look(r) /\ ~EndRecheck(r) /\ ~Refuse(r) /\ ~CommitReplyLost(r)
  BY <1>6 DEF Look, EndRecheck, RecheckFinished, Refuse, CommitReplyLost
<1>9. ~Busy(r)
  <2>1. request[r] # None => AskedAgain(r).pc = "asked"
    BY <1>1 DEF AskedAgain, TypeOK, Request
  <2> QED  BY <1>6, <2>1 DEF Busy, At
<1>10. ASSUME NEW a \in Answers, Answering(a) \/ SaveTitle(a) PROVE FALSE
  BY <1>10 DEF Answering, Produce, Save, SaveFails, Test, Store, Edit, End, SaveTitle
<1>11. ASSUME Rename \/ Delete \/ StartParse \/ ParseStep \/ Stop \/ Start \/ UNCHANGED vars PROVE FALSE
  BY <1>11 DEF Rename, Delete, StartParse, ParseStep, ReadDocument, Publish, PublishFails, Summarize,
               SaveSummary, Discard, EndParse, Stop, Start, vars
<1>12. ~Exit /\ ~Crash  BY DEF Exit, Crash, Wiped, Held
<1>13. ~Cancelled
  <2>1. ASSUME NEW s \in Requests, RecheckFinished(s) PROVE FALSE
    BY <1>2, <1>6, <2>1 DEF RecheckFinished
  <2> QED  BY <2>1 DEF Cancelled
<1>14. PICK s \in Requests :
           \/ \E kind \in {"send", "again", "memory"} : Ask(s, kind)
           \/ \E a \in Answers, b \in Blocks : AskRecheck(s, a, b)
           \/ Accept(s) \/ Rechecking(s) \/ View(s) \/ Look(s)
  BY <1>10, <1>11, <1>12, <1>13 DEF Next
<1>15. Accept(r) \/ Rechecking(r)  BY <1>4, <1>5, <1>7, <1>8, <1>14
<1> QED  BY <1>8, <1>9, <1>15 DEF Accept, Rechecking

(* What it then knows. *)
LEMMA HeldItself ==
    ASSUME DialogInv, [Next]_vars, NEW r \in Requests, Held(r)', request'[r] # request[r]
    PROVE  Alone(r)'
<1>1. /\ TypeOK /\ TasksAreLast /\ ParseIsKnown /\ DialogIsWhole /\ dialog \in Dialog
      /\ request \in [Requests -> Request \union {None}]
  BY DEF DialogInv, TypeOK
<1>2. request[r] # None =>
        /\ Alone(r) /\ request[r] \in Request
        /\ request[r].pc \in Locked => dialog.state = "ready"
        /\ request[r].pc \in Checking => request[r].kind = "recheck" /\ request[r].answer \in Answers
  BY <1>1 DEF DialogInv, HolderIsAlone, RequestsAreKnown, Alone
<1>3. CASE Lock(r)
  <2>1. request[r] # None /\ UNCHANGED <<row, last, parse>> /\ dialog.state = "ready"
    BY <1>3 DEF Lock, At
  <2>2. CASE dialog.kind = "docparse" /\ Becomes(r, [request[r] EXCEPT !.pc = "summary", !.seen = summary.status])
    <3>1. request'[r] = [request[r] EXCEPT !.pc = "summary", !.seen = summary.status]
      BY <1>1, <2>2, Put
    <3>2. request'[r].pc = "summary" /\ request'[r].seen = summary.status
      BY <1>2, <2>1, <3>1 DEF Request
    <3>3. Summing' => summary.status = "streaming"
      BY <1>1, <2>1, <2>2 DEF Summing, ParseIsKnown, DialogIsWhole
    <3> QED  BY <3>2, <3>3 DEF Alone, Checking
  <2>3. CASE dialog.kind # "docparse" /\ Becomes(r, [request[r] EXCEPT !.pc = "last", !.seen = StatusOf(last)])
    <3>1. request'[r] = [request[r] EXCEPT !.pc = "last", !.seen = StatusOf(last)]
      BY <1>1, <2>3, Put
    <3>2. request'[r].pc = "last" /\ request'[r].seen = StatusOf(last)
      BY <1>2, <2>1, <3>1 DEF Request
    <3>3. ~Summing' /\ StatusOf(last)' = StatusOf(last)
      BY <1>1, <2>1, <2>3 DEF Summing, ParseIsKnown, StatusOf
    <3> QED  BY <3>2, <3>3 DEF Alone, Checking
  <2> QED  BY <1>3, <2>2, <2>3 DEF Lock
<1>4. CASE CheckSummary(r)
  <2>1. request[r] # None /\ request[r].pc = "summary" /\ UNCHANGED <<row, last, parse>>
    BY <1>4 DEF CheckSummary, At
  <2>2. CASE SummaryBlocks(r)
    <3>1. request'[r] = AskedAgain(r)  BY <1>1, <1>4, <2>2, Put DEF CheckSummary
    <3>2. request'[r].pc = "asked"  BY <1>2, <2>1, <3>1 DEF AskedAgain, Request
    <3> QED  BY <3>2 DEF Held, Locked, Checking
  <2>3. CASE ~SummaryBlocks(r)
    <3>1. request'[r] = [request[r] EXCEPT !.pc = "last", !.seen = StatusOf(last),
                                           !.repair = request[r].seen = "streaming"]
      BY <1>1, <1>4, <2>3, Put DEF CheckSummary
    <3>2. request'[r].pc = "last" /\ request'[r].seen = StatusOf(last)
      BY <1>2, <2>1, <3>1 DEF Request
    <3>3. ~Summing  BY <1>1, <1>2, <2>1, <2>3 DEF Alone, SummaryBlocks, ParseIsKnown, Summing
    <3>4. ~Summing' /\ StatusOf(last)' = StatusOf(last)  BY <2>1, <3>3 DEF Summing, StatusOf
    <3> QED  BY <3>2, <3>4 DEF Alone, Checking
  <2> QED  BY <2>2, <2>3
<1>5. ASSUME At(r, "last"), Idle
      PROVE  /\ \A a \in Answers : task[a] = None
             /\ ~Summing /\ (StatusOf(last) = "streaming" => request[r].seen = "streaming")
  BY <1>1, <1>2, <1>5 DEF At, Locked, Idle, TasksAreLast, Alone
<1>6. CASE MarkRecheck(r) \/ PassMemory(r)
  <2>1. /\ request[r] # None /\ At(r, "last") /\ Idle /\ Goes(r, "commit")
        /\ UNCHANGED <<row, last, parse, task>>
        /\ \/ request[r].kind = "recheck" /\ rechecking' = TRUE
           \/ request[r].kind = "memory"
    BY <1>6 DEF MarkRecheck, PassMemory, At
  <2>2. /\ request'[r].pc = "commit" /\ request'[r].kind = request[r].kind
        /\ request'[r].seen = request[r].seen
    BY <1>1, <2>1, Turned
  <2>3. ~Asking(r)'  BY <2>1, <2>2 DEF Asking
  <2>4. /\ ~Summing' /\ (StatusOf(last)' = "streaming" => request'[r].seen = "streaming")
        /\ \A a \in Answers : task'[a] = None
    BY <1>5, <2>1, <2>2 DEF Summing, StatusOf
  <2>5. request'[r].kind = "recheck" => rechecking'  BY <2>1, <2>2
  <2> QED  BY <2>2, <2>3, <2>4, <2>5 DEF Alone, Checking
<1>7. ASSUME NEW a \in Answers, MarkAnswer(r, a) PROVE Alone(r)'
  <2>1. /\ request[r] # None /\ At(r, "last") /\ Idle
        /\ request'[r] = [request[r] EXCEPT !.pc = "commit", !.answer = a]
        /\ UNCHANGED <<row, last, parse, task>>
        /\ request[r].kind \in {"send", "again"} /\ row[a] = None /\ a \in active'
    BY <1>1, <1>7, Put DEF MarkAnswer, At, Fresh
  <2>2. /\ request'[r].pc = "commit" /\ request'[r].kind = request[r].kind
        /\ request'[r].seen = request[r].seen /\ request'[r].answer = a
    BY <1>2, <2>1 DEF Request
  <2>3. request'[r].answer \in active' \intersect Answers /\ row'[request'[r].answer] = None
    BY <2>1, <2>2
  <2>4. /\ ~Summing' /\ (StatusOf(last)' = "streaming" => request'[r].seen = "streaming")
        /\ \A b \in Answers : task'[b] = None
    BY <1>5, <2>1, <2>2 DEF Summing, StatusOf
  <2>5. request'[r].kind # "recheck"  BY <2>1, <2>2
  <2> QED  BY <2>2, <2>3, <2>4, <2>5 DEF Alone, Checking
<1>8. CASE Commit(r)
  <2>1. /\ request[r] # None /\ request[r].pc = "commit" /\ \A a \in Answers : task[a] = None
        /\ UNCHANGED rechecking
    BY <1>8, CommitIsAlone DEF Commit, memory
  <2>2. request[r].kind = "recheck"
    <3>1. request[r].kind # "recheck" => request'[r] = None  BY <1>1, <1>8, Put DEF Commit
    <3> QED  BY <3>1 DEF Held
  <2>3. task' = task /\ request'[r] = [request[r] EXCEPT !.pc = "test", !.seen = "none"]
    BY <1>1, <1>8, <2>2, Put DEF Commit, Asking
  <2>4. request'[r].pc = "test"  BY <1>2, <2>1, <2>3 DEF Request
  <2>5. rechecking'  BY <1>2, <2>1, <2>2 DEF Alone
  <2> QED  BY <2>1, <2>3, <2>4, <2>5 DEF Alone
<1>9. CASE Recheck(r) \/ ReadBlocks(r) \/ WriteBlocks(r)
  <2>1. request[r] # None /\ request[r].pc \in Checking /\ UNCHANGED <<rechecking, task>>
    BY <1>9 DEF Recheck, ReadBlocks, WriteBlocks, At, Checking, memory
  <2>2. rechecking' /\ \A a \in Answers : task'[a] = None  BY <1>2, <2>1 DEF Alone
  <2>3. request'[r].pc \in {"read", "write", "end"}
    <3>1. CASE Recheck(r)
      BY <1>1, <2>1, <3>1, Turned DEF Recheck
    <3>2. CASE ReadBlocks(r) /\ Goes(r, "end")
      BY <1>1, <2>1, <3>2, Turned
    <3>3. CASE ReadBlocks(r) /\ Becomes(r, [request[r] EXCEPT !.pc = "write", !.copy = row[request[r].answer].run])
      <4>1. request'[r] = [request[r] EXCEPT !.pc = "write", !.copy = row[request[r].answer].run]
        BY <1>1, <3>3, Put
      <4> QED  BY <1>2, <2>1, <4>1 DEF Request
    <3>4. CASE WriteBlocks(r)
      <4>1. request'[r] = [request[r] EXCEPT !.pc = "end", !.copy = None]
        BY <1>1, <3>4, Put DEF WriteBlocks
      <4> QED  BY <1>2, <2>1, <4>1 DEF Request
    <3> QED  BY <1>9, <3>1, <3>2, <3>3, <3>4 DEF ReadBlocks
  <2>4. ASSUME request'[r].pc = "write"
        PROVE  /\ request'[r].copy # None
               /\ row'[request'[r].answer] # None => row'[request'[r].answer].run = request'[r].copy
    <3>1. ReadBlocks(r) /\ row' = row
      <4>1. ~Recheck(r)  BY <1>1, <2>1, <2>4, Turned DEF Recheck
      <4>2. ~WriteBlocks(r)
        <5>1. WriteBlocks(r) => request'[r] = [request[r] EXCEPT !.pc = "end", !.copy = None]
          BY <1>1, Put DEF WriteBlocks
        <5> QED  BY <1>2, <2>1, <2>4, <5>1 DEF Request
      <4> QED  BY <1>9, <4>1, <4>2 DEF ReadBlocks
    <3> DEFINE a == request[r].answer
    <3>2. ASSUME Goes(r, "end") PROVE FALSE
      <4>1. request'[r].pc = "end"  BY <1>1, <2>1, <3>2, Turned
      <4> QED  BY <2>4, <4>1
    <3>3. row[a] # None /\ row[a].run # None
          /\ request'[r] = [request[r] EXCEPT !.pc = "write", !.copy = row[a].run]
      BY <1>1, <3>1, <3>2, Put DEF ReadBlocks
    <3>4. request'[r].copy = row[a].run /\ request'[r].answer = a
      BY <1>2, <2>1, <3>3 DEF Request
    <3> QED  BY <3>1, <3>3, <3>4
  <2> QED  BY <2>2, <2>3, <2>4 DEF Alone
<1> QED  BY <1>3, <1>4, <1>6, <1>7, <1>8, <1>9, HolderSteps

LEMMA AloneStep ==
    ASSUME DialogInv, [Next]_vars
    PROVE  HolderIsAlone'
<1>1. ASSUME NEW r \in Requests, Held(r)' PROVE Alone(r)'
  <2>1. CASE request'[r] = request[r]
    <3>1. Held(r)  BY <1>1, <2>1 DEF Held
    <3> QED  BY <2>1, <3>1, HeldBeside
  <2>2. CASE request'[r] # request[r]  BY <1>1, <2>2, HeldItself
  <2> QED  BY <2>1, <2>2
<1>2. ASSUME NEW r \in Requests, request'[r] # None, ~Held(r)' PROVE Alone(r)'
  BY <1>2 DEF Alone, Held, Locked, Checking
<1> QED  BY <1>1, <1>2 DEF HolderIsAlone, Alone

-----------------------------------------------------------------------------
(* Types.                                                                  *)

LEMMA RequestTypes ==
    ASSUME DialogInv, [Next]_vars
    PROVE  request' \in [Requests -> Request \union {None}]
<1>1. /\ TypeOK /\ DialogIsWhole /\ dialog \in Dialog /\ summary \in Summary \union {None}
      /\ row \in [Answers -> Row \union {None}] /\ last \in Answers \union {None}
      /\ request \in [Requests -> Request \union {None}]
  BY DEF DialogInv, TypeOK
<1>2. ASSUME NEW r \in Requests, NEW q \in Request \union {None}, Becomes(r, q)
      PROVE  request' \in [Requests -> Request \union {None}]
  BY <1>1, <1>2 DEF Becomes
<1>3. ASSUME NEW r \in Requests, request[r] # None, NEW pc \in Locked \union Checking, Goes(r, pc)
      PROVE  request' \in [Requests -> Request \union {None}]
  <2>1. [request[r] EXCEPT !.pc = pc] \in Request  BY <1>1, <1>3 DEF Request
  <2>2. request' = [request EXCEPT ![r] = [request[r] EXCEPT !.pc = pc]]  BY <1>3 DEF Goes
  <2> QED  BY <1>1, <2>1, <2>2
<1>4. StatusOf(last) \in {"none"} \union {"streaming", "interrupted"} \union Outcomes
  BY <1>1 DEF StatusOf, Row
<1>5. ASSUME NEW r \in Requests,
             \/ \E kind \in {"send", "again", "memory"} : Ask(r, kind)
             \/ \E a \in Answers, b \in Blocks : AskRecheck(r, a, b)
             \/ View(r)
      PROVE  request' \in [Requests -> Request \union {None}]
  <2>1. ASSUME NEW kind \in {"send", "again", "memory", "recheck", "view", "open"}, NEW pc \in {"asked", "look"}
        PROVE  New(kind, pc) \in Request
    BY <2>1 DEF New, Request, Runs
  <2>2. ASSUME NEW kind \in {"send", "again", "memory"}, Ask(r, kind)
        PROVE  request' \in [Requests -> Request \union {None}]
    <3>1. New(kind, "asked") \in Request  BY <2>1
    <3> QED  BY <1>2, <2>2, <3>1 DEF Ask
  <2>3. ASSUME NEW a \in Answers, NEW b \in Blocks, AskRecheck(r, a, b)
        PROVE  request' \in [Requests -> Request \union {None}]
    <3>1. [New("recheck", "asked") EXCEPT !.answer = a, !.block = b] \in Request
      <4>1. New("recheck", "asked") \in Request  BY <2>1
      <4> QED  BY <4>1 DEF Request
    <3> QED  BY <1>2, <2>3, <3>1 DEF AskRecheck
  <2>4. CASE View(r)
    <3>1. [New("view", "look") EXCEPT !.answer = last] \in Request /\ New("open", "look") \in Request
      <4>1. New("view", "look") \in Request /\ New("open", "look") \in Request  BY <2>1
      <4> QED  BY <1>1, <4>1 DEF Request
    <3> QED  BY <1>2, <2>4, <3>1 DEF View
  <2> QED  BY <1>5, <2>2, <2>3, <2>4
<1>6. ASSUME NEW r \in Requests, Lock(r) PROVE request' \in [Requests -> Request \union {None}]
  <2>1. request[r] \in Request /\ dialog.state = "ready"  BY <1>1, <1>6 DEF Lock, At
  <2>2. CASE dialog.kind = "docparse" /\ Becomes(r, [request[r] EXCEPT !.pc = "summary", !.seen = summary.status])
    <3>1. summary \in Summary  BY <1>1, <2>1, <2>2 DEF DialogIsWhole
    <3>2. [request[r] EXCEPT !.pc = "summary", !.seen = summary.status] \in Request
      BY <2>1, <3>1 DEF Request, Summary, Locked
    <3> QED  BY <1>2, <2>2, <3>2
  <2>3. CASE Becomes(r, [request[r] EXCEPT !.pc = "last", !.seen = StatusOf(last)])
    <3>1. [request[r] EXCEPT !.pc = "last", !.seen = StatusOf(last)] \in Request
      BY <1>4, <2>1 DEF Request, Locked
    <3> QED  BY <1>2, <2>3, <3>1
  <2> QED  BY <1>6, <2>2, <2>3 DEF Lock
<1>7. ASSUME NEW r \in Requests, CheckSummary(r) \/ Busy(r)
      PROVE  request' \in [Requests -> Request \union {None}]
  <2>1. request[r] \in Request  BY <1>1, <1>7 DEF CheckSummary, Busy, At
  <2>2. AskedAgain(r) \in Request  BY <2>1 DEF AskedAgain, Request
  <2>3. [request[r] EXCEPT !.pc = "last", !.seen = StatusOf(last), !.repair = request[r].seen = "streaming"]
          \in Request
    <3> DEFINE status == StatusOf(last)
               unfinished == request[r].seen = "streaming"
    <3>1. status \in {"none"} \union {"streaming", "interrupted"} \union Outcomes /\ unfinished \in BOOLEAN
      BY <1>4
    <3> HIDE DEF status, unfinished
    <3>2. [request[r] EXCEPT !.pc = "last", !.seen = status, !.repair = unfinished] \in Request
      BY <2>1, <3>1 DEF Request, Locked
    <3> QED  BY <3>2 DEF status, unfinished
  <2> QED  BY <1>2, <1>7, <2>2, <2>3 DEF CheckSummary, Busy
<1>8. ASSUME NEW r \in Requests, MarkRecheck(r) \/ PassMemory(r) \/ Recheck(r)
      PROVE  request' \in [Requests -> Request \union {None}]
  BY <1>3, <1>8 DEF MarkRecheck, PassMemory, Recheck, At, Locked, Checking
<1>9. ASSUME NEW r \in Requests, NEW a \in Answers, MarkAnswer(r, a)
      PROVE  request' \in [Requests -> Request \union {None}]
  <2>1. request[r] \in Request  BY <1>1, <1>9 DEF MarkAnswer, At
  <2>2. [request[r] EXCEPT !.pc = "commit", !.answer = a] \in Request  BY <2>1 DEF Request, Locked
  <2> QED  BY <1>2, <1>9, <2>2 DEF MarkAnswer
<1>10. ASSUME NEW r \in Requests, Commit(r) PROVE request' \in [Requests -> Request \union {None}]
  <2>1. request[r] \in Request  BY <1>1, <1>10 DEF Commit, At
  <2>2. [request[r] EXCEPT !.pc = "test", !.seen = "none"] \in Request  BY <2>1 DEF Request, Checking
  <2> QED  BY <1>2, <1>10, <2>2 DEF Commit
<1>11. ASSUME NEW r \in Requests, Becomes(r, None) PROVE request' \in [Requests -> Request \union {None}]
  BY <1>2, <1>11
<1>12. ASSUME NEW r \in Requests, ReadBlocks(r) PROVE request' \in [Requests -> Request \union {None}]
  <2>1. request[r] # None /\ request[r] \in Request /\ request[r].answer \in Answers
    BY <1>1, <1>12 DEF ReadBlocks, At, Checking, DialogInv, RequestsAreKnown
  <2>2. CASE Goes(r, "end")  BY <1>3, <2>1, <2>2 DEF Checking
  <2>3. CASE row[request[r].answer] # None
             /\ Becomes(r, [request[r] EXCEPT !.pc = "write", !.copy = row[request[r].answer].run])
    <3>1. row[request[r].answer].run \in Runs  BY <1>1, <2>1, <2>3, RowTypes
    <3>2. [request[r] EXCEPT !.pc = "write", !.copy = row[request[r].answer].run] \in Request
      BY <2>1, <3>1 DEF Request, Checking
    <3> QED  BY <1>2, <2>3, <3>2
  <2> QED  BY <1>12, <2>2, <2>3 DEF ReadBlocks
<1>13. ASSUME NEW r \in Requests, WriteBlocks(r) PROVE request' \in [Requests -> Request \union {None}]
  <2>1. request[r] \in Request  BY <1>1, <1>13 DEF WriteBlocks, At
  <2>2. [request[r] EXCEPT !.pc = "end", !.copy = None] \in Request  BY <2>1 DEF Request, Checking, Runs
  <2> QED  BY <1>2, <1>13, <2>2 DEF WriteBlocks
<1>14. ASSUME NEW r \in Requests,
              \/ \E kind \in {"send", "again", "memory"} : Ask(r, kind)
              \/ \E a \in Answers, b \in Blocks : AskRecheck(r, a, b)
              \/ Accept(r) \/ Rechecking(r) \/ View(r) \/ Look(r)
       PROVE  request' \in [Requests -> Request \union {None}]
  <2>1. CASE Refuse(r) \/ CommitReplyLost(r) \/ EndRecheck(r) \/ Look(r)
    BY <1>11, <2>1 DEF Refuse, CommitReplyLost, EndRecheck, RecheckFinished, Look
  <2> QED  BY <1>5, <1>6, <1>7, <1>8, <1>9, <1>10, <1>12, <1>13, <1>14, <2>1 DEF Accept, Rechecking
<1>15. CASE Cancelled  BY <1>1, <1>11, <1>15 DEF Cancelled, RecheckFinished
<1>16. CASE Exit \/ Crash  BY <1>16 DEF Exit, Crash, Wiped
<1>17. ASSUME NEW a \in Answers, Answering(a) \/ SaveTitle(a) PROVE UNCHANGED request
  BY <1>17 DEF Answering, Produce, Save, SaveFails, Test, Store, Edit, End, SaveTitle
<1>18. ASSUME Rename \/ Delete \/ StartParse \/ ParseStep \/ Stop \/ Start \/ UNCHANGED vars
       PROVE  UNCHANGED request
  BY <1>18 DEF Rename, Delete, StartParse, ParseStep, ReadDocument, Publish, PublishFails, Summarize,
               SaveSummary, Discard, EndParse, Stop, Start, vars
<1> QED  BY <1>1, <1>14, <1>15, <1>16, <1>17, <1>18 DEF Next

LEMMA TaskTypes ==
    ASSUME DialogInv, [Next]_vars
    PROVE  task' \in [Answers -> Task \union {None}] /\ active' \in SUBSET Answers /\ rechecking' \in BOOLEAN
<1>1. /\ TypeOK /\ task \in [Answers -> Task \union {None}] /\ active \in SUBSET Answers
      /\ rechecking \in BOOLEAN
  BY DEF DialogInv, TypeOK
<1>2. ASSUME NEW r \in Requests, Commit(r) PROVE task' \in [Answers -> Task \union {None}]
  <2>1. [pc |-> "produce", outcome |-> "error", titling |-> NeedsTitle] \in Task
    BY DEF Task, Outcomes, NeedsTitle
  <2> QED  BY <1>1, <1>2, <2>1 DEF Commit
<1>4. ASSUME NEW a \in Answers, Finished(a)
      PROVE  task' \in [Answers -> Task \union {None}] /\ active' \in SUBSET Answers /\ rechecking' = rechecking
  BY <1>1, <1>4 DEF Finished
<1>5. ASSUME NEW a \in Answers, Answering(a) \/ SaveTitle(a)
      PROVE  task' \in [Answers -> Task \union {None}] /\ active' \in SUBSET Answers /\ rechecking' \in BOOLEAN
  <2>1. task[a] # None /\ task[a] \in Task
    BY <1>1, <1>5 DEF Answering, Produce, Save, SaveFails, Test, Store, Edit, End, SaveTitle, Doing
  <2>2. ASSUME NEW pc \in {"save", "test", "store", "edit", "end"}
        PROVE  [task[a] EXCEPT !.pc = pc] \in Task
    BY <2>1 DEF Task
  <2>3. ASSUME NEW pc \in {"save", "test", "store", "edit", "end"}, TaskGoes(a, pc)
        PROVE  task' \in [Answers -> Task \union {None}]
    <3>1. task' = [task EXCEPT ![a] = [task[a] EXCEPT !.pc = pc]]  BY <2>3 DEF TaskGoes
    <3> QED  BY <1>1, <2>2, <3>1
  <2>4. ASSUME NEW pc \in {"save", "end"}, NEW o \in Outcomes,
               task' = [task EXCEPT ![a].pc = pc, ![a].outcome = o]
        PROVE  task' \in [Answers -> Task \union {None}]
    <3>1. task' = [task EXCEPT ![a] = [task[a] EXCEPT !.pc = pc, !.outcome = o]]  BY <1>1, <2>4
    <3>2. [task[a] EXCEPT !.pc = pc, !.outcome = o] \in Task  BY <2>1 DEF Task
    <3> QED  BY <1>1, <3>1, <3>2
  <2>5. ASSUME Produce(a) PROVE task' \in [Answers -> Task \union {None}]
    BY <2>4, <2>5 DEF Produce, OutcomeOf, Outcomes
  <2>6. ASSUME Save(a) \/ SaveFails(a) \/ Test(a) \/ Store(a) \/ Edit(a)
        PROVE  task' \in [Answers -> Task \union {None}]
    BY <2>3, <2>6 DEF Save, SaveFails, Test, Store, Edit
  <2>7. CASE End(a)  BY <1>1, <1>4, <2>7 DEF End
  <2>8. CASE SaveTitle(a)
    <3>1. task' = [task EXCEPT ![a] = [task[a] EXCEPT !.titling = FALSE]]  BY <2>8 DEF SaveTitle
    <3>2. [task[a] EXCEPT !.titling = FALSE] \in Task  BY <2>1 DEF Task
    <3>3. UNCHANGED memory  BY <2>8 DEF SaveTitle
    <3> QED  BY <1>1, <3>1, <3>2, <3>3 DEF memory
  <2>9. CASE (Produce(a) \/ Save(a) \/ SaveFails(a) \/ Test(a) \/ Store(a) \/ Edit(a))
    <3>1. UNCHANGED memory  BY <2>9 DEF Produce, Save, SaveFails, Test, Store, Edit
    <3> QED  BY <1>1, <2>5, <2>6, <2>9, <3>1 DEF memory
  <2> QED  BY <1>5, <2>7, <2>8, <2>9 DEF Answering
<1>6. ASSUME NEW r \in Requests,
             \/ \E kind \in {"send", "again", "memory"} : Ask(r, kind)
             \/ \E a \in Answers, b \in Blocks : AskRecheck(r, a, b)
             \/ Accept(r) \/ Rechecking(r) \/ View(r) \/ Look(r)
      PROVE  task' \in [Answers -> Task \union {None}] /\ active' \in SUBSET Answers /\ rechecking' \in BOOLEAN
  <2>1. (UNCHANGED task \/ Commit(r)) /\ active' \in SUBSET Answers /\ rechecking' \in BOOLEAN
    BY <1>1, <1>6
       DEF Ask, AskRecheck, Accept, Lock, CheckSummary, Busy, MarkRecheck, PassMemory, MarkAnswer,
           Commit, Refuse, CommitReplyLost, Unmark, Rechecking, Recheck, ReadBlocks, WriteBlocks,
           EndRecheck, RecheckFinished, View, Look, memory
  <2> QED  BY <1>1, <1>2, <2>1
<1>7. CASE Cancelled  BY <1>1, <1>4, <1>7 DEF Cancelled, RecheckFinished, memory
<1>8. CASE Exit \/ Crash  BY <1>8 DEF Exit, Crash, Wiped
<1>9. ASSUME Rename \/ Delete \/ StartParse \/ ParseStep \/ Stop \/ Start \/ UNCHANGED vars
      PROVE  UNCHANGED <<task, active, rechecking>>
  BY <1>9 DEF Rename, Delete, StartParse, ParseStep, ReadDocument, Publish, PublishFails, Summarize,
              SaveSummary, Discard, EndParse, Stop, Start, memory, vars
<1> QED  BY <1>1, <1>5, <1>6, <1>7, <1>8, <1>9 DEF Next

LEMMA DialogTypesStep ==
    ASSUME DialogInv, [Next]_vars
    PROVE  dialog' \in Dialog
<1>1. dialog \in Dialog  BY DEF DialogInv, TypeOK
<1>2. CASE Rename \/ Delete \/ StartParse \/ ParseStep \/ Start
  BY <1>1, <1>2 DEF Rename, Delete, StartParse, ParseStep, ReadDocument, Publish, PublishFails, Published,
                    Summarize, SaveSummary, Discard, EndParse, Start, Unhidden, Dialog
<1>3. ASSUME NEW r \in Requests,
             \/ \E kind \in {"send", "again", "memory"} : Ask(r, kind)
             \/ \E a \in Answers, b \in Blocks : AskRecheck(r, a, b)
             \/ Accept(r) \/ Rechecking(r) \/ View(r) \/ Look(r)
      PROVE  UNCHANGED dialog
  BY <1>3 DEF Ask, AskRecheck, Accept, Lock, CheckSummary, Busy, MarkRecheck, PassMemory, MarkAnswer,
              Commit, Refuse, CommitReplyLost, Rechecking, Recheck, ReadBlocks, WriteBlocks,
              EndRecheck, View, Look
<1>4. ASSUME NEW a \in Answers, Answering(a) \/ SaveTitle(a) PROVE dialog' \in Dialog
  BY <1>1, <1>4 DEF Answering, Produce, Save, SaveFails, Test, Store, Edit, End, SaveTitle, Titled, Dialog
<1>5. CASE Stop \/ Cancelled \/ Exit \/ Crash \/ UNCHANGED vars
  BY <1>1, <1>5 DEF Stop, Cancelled, Exit, Crash, vars
<1> QED  BY <1>1, <1>2, <1>3, <1>4, <1>5 DEF Next

LEMMA TypesStep ==
    ASSUME DialogInv, [Next]_vars
    PROVE  TypeOK'
BY LastStep, SummaryStep, ParseStepped, ProcessStep, RequestTypes, TaskTypes, DialogTypesStep DEF TypeOK

-----------------------------------------------------------------------------
(* The invariant.                                                          *)

LEMMA OneTaskStep ==
    ASSUME DialogInv, [Next]_vars
    PROVE  OneTask'
<1>1. TypeOK /\ OneTask /\ task \in [Answers -> Task \union {None}]  BY DEF DialogInv, TypeOK
<1>2. CASE UNCHANGED task  BY <1>1, <1>2 DEF OneTask
<1>3. CASE \A a \in Answers : task'[a] = None  BY <1>3 DEF OneTask
<1>4. ASSUME NEW r \in Requests, Commit(r) PROVE OneTask'
  <2>1. \A a \in Answers : task[a] = None  BY <1>4, CommitIsAlone
  <2>2. \A a \in Answers : task'[a] # None => a = request[r].answer
    BY <1>1, <1>4, <2>1 DEF Commit
  <2> QED  BY <2>2 DEF OneTask
<1>5. ASSUME NEW a \in Answers, task[a] # None, \A b \in Answers \ {a} : task'[b] = task[b]
      PROVE  OneTask'
  BY <1>1, <1>5 DEF OneTask
<1> QED  BY <1>2, <1>3, <1>4, <1>5, TaskSteps

LEMMA DialogStarts == Init => DialogInv
<1> SUFFICES ASSUME Init PROVE DialogInv
  OBVIOUS
<1>1. /\ process = "up" /\ summary = None /\ last = None /\ active = {} /\ rechecking = FALSE /\ forming = FALSE
      /\ parse = None /\ row = [a \in Answers |-> None] /\ task = [a \in Answers |-> None]
      /\ request = [r \in Requests |-> None]
  BY DEF Init
<1>2. /\ dialog \in Dialog /\ dialog.title = "none"
      /\ dialog.state \in {"absent", "ready"} /\ (dialog.state = "absent" <=> dialog.kind = "docparse")
  <2>1. PICK k \in Kinds :
            dialog = [kind |-> k, title |-> "none",
                      state |-> IF k = "docparse" THEN "absent" ELSE "ready"]
    BY DEF Init
  <2> QED  BY <2>1 DEF Dialog
<1>3. TypeOK  BY <1>1, <1>2 DEF TypeOK
<1>4. RequestsAreKnown /\ OneHolds /\ HolderIsAlone  BY <1>1 DEF RequestsAreKnown, OneHolds, Held, HolderIsAlone
<1>5. TasksAreLast /\ OneTask /\ OnlyLastUnfinished  BY <1>1 DEF TasksAreLast, OneTask, OnlyLastUnfinished
<1>6. DialogIsWhole /\ ParseIsKnown /\ ProcessIsKnown
  BY <1>1, <1>2 DEF DialogIsWhole, ParseIsKnown, ProcessIsKnown
<1> QED  BY <1>3, <1>4, <1>5, <1>6 DEF DialogInv

LEMMA DialogGoesOn == DialogInv /\ [Next]_vars => DialogInv'
BY TypesStep, RequestsStep, HoldsStep, AloneStep, TasksStep, OneTaskStep, LastStep, WholeStep,
   ParseStepped, ProcessStep
   DEF DialogInv

(* The steps above together: what the invariant says of requests, tasks, rows and marks    *)
(* holds whatever the handlers of dialogs/service.py and the tasks of generation.py and     *)
(* docparse.py do.                                                                          *)
THEOREM DialogInvariant == Spec => []DialogInv
BY DialogStarts, DialogGoesOn, PTL DEF Spec

-----------------------------------------------------------------------------
(* What the runs check.                                                    *)

(* Every variable has its type, for every number of answers and requests. *)
THEOREM DialogTypes == Spec => []TypeOK
<1>1. DialogInv => TypeOK  BY DEF DialogInv
<1> QED  BY <1>1, DialogInvariant, PTL

LEMMA OneAtMost ==
    ASSUME NEW S, \A x, y \in S : x = y
    PROVE  Cardinality(S) <= 1
<1>1. CASE S = {}  BY <1>1, FS_EmptySet
<1>2. CASE S # {}
  <2>1. PICK x : x \in S  BY <1>2
  <2>2. S = {x}  BY <2>1
  <2>3. Cardinality(S) = 1  BY <2>2, FS_Singleton
  <2> QED  BY <2>3
<1> QED  BY <1>1, <1>2

(* A dialog does one thing at a time, on its last message, and nobody takes it for dead:  *)
(* not two of an answer, a recheck and a summary, whatever requests, readers, deletions,  *)
(* stops, crashes and lost commits come between (generation.py, watch.py, docparse.py).   *)
THEOREM DialogDoesOneThing == Spec => []OneThingAtATime
<1>1. ASSUME DialogInv PROVE OneWorker
  <2>1. /\ OneTask /\ OneHolds /\ TasksAreLast /\ ParseIsKnown /\ RequestsAreKnown /\ HolderIsAlone
    BY <1>1 DEF DialogInv
  <2> DEFINE forming1 == {a \in Answers : task[a] # None}
             checks == {r \in Requests : request[r] # None /\ request[r].pc \in Checking}
             sums == IF parse # None /\ parse.pc \in {"summarize", "save"} THEN {"parse"} ELSE {}
  <2>2. \A a, b \in forming1 : a = b  BY <2>1 DEF OneTask
  <2>3. \A r, s \in checks : r = s  BY <2>1 DEF OneHolds, Held
  <2>4. \A x, y \in sums : x = y  OBVIOUS
  <2>5. checks # {} => forming1 = {} /\ parse = None
    BY <2>1 DEF HolderIsAlone, RequestsAreKnown, ParseIsKnown
  <2>6. forming1 # {} => sums = {}  BY <2>1 DEF TasksAreLast, Summing
  <2>7. checks # {} => sums = {}  BY <2>5
  <2>8. Workers = forming1 \union checks \union sums  BY DEF Workers
  <2> HIDE DEF forming1, checks, sums
  <2>9. \A x, y \in Workers : x = y  BY <2>2, <2>3, <2>4, <2>5, <2>6, <2>7, <2>8
  <2> QED  BY <2>9, OneAtMost DEF OneWorker
<1>2. ASSUME DialogInv PROVE WorkIsNotInterrupted
  <2>1. TasksAreLast /\ ParseIsKnown /\ DialogIsWhole  BY <1>2 DEF DialogInv
  <2>2. ASSUME NEW a \in Answers, task[a] # None, task[a].pc \in {"produce", "save"}, row[a] # None
        PROVE  row[a].status = "streaming" /\ a = last
    <3>1. dialog.state = "ready"  BY <2>1, <2>2 DEF DialogIsWhole
    <3> QED  BY <2>1, <2>2, <3>1 DEF TasksAreLast
  <2> QED  BY <2>1, <2>2 DEF WorkIsNotInterrupted, ParseIsKnown
<1>3. DialogInv => OneThingAtATime  BY <1>1, <1>2 DEF DialogInv, OneThingAtATime
<1> QED  BY <1>3, DialogInvariant, PTL

-----------------------------------------------------------------------------
(* What a step may never do.                                               *)

StatusStays ==
    \A a \in Answers :
        row[a] # None /\ row[a].status # "streaming" /\ row'[a] # None
          => row'[a].status = row[a].status

BlocksStay ==
    \A a \in Answers :
        row[a] # None /\ row'[a] # None /\ row[a].run # None
          => /\ row'[a].run # None
             /\ Cardinality({b \in Blocks : row'[a].run[b] # row[a].run[b]}) <= 1

(* A recheck writes the copy it made, changed in its block: nobody wrote in between. *)
LEMMA BlockIsReplaced ==
    ASSUME DialogInv, NEW r \in Requests, WriteBlocks(r)
    PROVE  StatusStays /\ BlocksStay
<1> DEFINE a == request[r].answer
           block == request[r].block
<1>1. /\ row \in [Answers -> Row \union {None}] /\ a \in Answers
      /\ row[a] # None => row[a].run # None /\ row[a].run = request[r].copy
  BY DEF DialogInv, TypeOK, RequestsAreKnown, HolderIsAlone, WriteBlocks, At, Checking
<1>2. CASE UNCHANGED row
  <2>1. ASSUME NEW c \in Answers PROVE Cardinality({b \in Blocks : row'[c].run[b] # row[c].run[b]}) <= 1
    <3>1. {b \in Blocks : row'[c].run[b] # row[c].run[b]} = {}  BY <1>2
    <3> QED  BY <3>1, FS_EmptySet
  <2> QED  BY <1>2, <2>1 DEF StatusStays, BlocksStay
<1>3. CASE row[a] # None
           /\ \E v \in Versions :
                row' = [row EXCEPT ![a].run = [request[r].copy EXCEPT ![block] = v]]
  <2>1. PICK v \in Versions : row' = [row EXCEPT ![a].run = [request[r].copy EXCEPT ![block] = v]]
    BY <1>3
  <2> DEFINE run == [row[a].run EXCEPT ![block] = v]
  <2>2. row[a] \in Row /\ row[a].run \in [Blocks -> Versions]
    BY <1>1, <1>3 DEF Row, Runs
  <2>3. run \in [Blocks -> Versions] /\ \A b \in Blocks \ {block} : run[b] = row[a].run[b]
    BY <2>2
  <2>4. run # None  BY <2>3, RecordAssumption
  <2>5. row' = [row EXCEPT ![a] = [row[a] EXCEPT !.run = run]]  BY <1>1, <1>3, <2>1
  <2> HIDE DEF run
  <2>6. /\ row'[a].run = run /\ row'[a].status = row[a].status
        /\ \A c \in Answers \ {a} : row'[c] = row[c]
    BY <1>1, <2>2, <2>5 DEF Row
  <2>7. ASSUME NEW c \in Answers PROVE Cardinality({b \in Blocks : row'[c].run[b] # row[c].run[b]}) <= 1
    <3>1. \A x, y \in {b \in Blocks : row'[c].run[b] # row[c].run[b]} : x = y
      BY <2>3, <2>6
    <3> QED  BY <3>1, OneAtMost
  <2> QED  BY <1>1, <1>3, <2>4, <2>6, <2>7 DEF StatusStays, BlocksStay
<1> QED  BY <1>2, <1>3 DEF WriteBlocks

LEMMA RowsStay ==
    ASSUME DialogInv, [Next]_vars
    PROVE  StatusStays /\ BlocksStay
<1>1. TypeOK /\ TasksAreLast /\ row \in [Answers -> Row \union {None}]  BY DEF DialogInv, TypeOK
<1>2. ASSUME NEW a \in Answers, row'[a].run = row[a].run
      PROVE  Cardinality({b \in Blocks : row'[a].run[b] # row[a].run[b]}) <= 1
  <2>1. {b \in Blocks : row'[a].run[b] # row[a].run[b]} = {}  BY <1>2
  <2> QED  BY <2>1, FS_EmptySet
<1>3. CASE RowsKept  BY <1>2, <1>3 DEF RowsKept, StatusStays, BlocksStay
<1>4. ASSUME NEW r \in Requests, Commit(r) \/ CommitReplyLost(r) PROVE StatusStays /\ BlocksStay
  <2>1. \A a \in Answers : row[a] # None /\ row'[a] # None =>
             /\ row'[a].run = row[a].run
             /\ row[a].status # "streaming" => row'[a].status = row[a].status
    BY <1>4, CommitRows DEF Commit, CommitReplyLost
  <2> QED  BY <1>2, <2>1 DEF StatusStays, BlocksStay
<1>5. ASSUME NEW a \in Answers, Store(a) PROVE StatusStays /\ BlocksStay
  <2>1. row[a] # None => row[a].run = None  BY <1>1, <1>5 DEF Store, Doing, TasksAreLast
  <2>2. \A b \in Answers \ {a} : row'[b] = row[b]  BY <1>1, <1>5 DEF Store
  <2>3. row[a] # None /\ row'[a] # None => row'[a].status = row[a].status
    <3>1. CASE row' = row  BY <3>1
    <3>2. CASE row[a] # None /\ row' = [row EXCEPT ![a] = [row[a] EXCEPT !.run = [b \in Blocks |-> 1]]]
      <4>1. row[a] \in Row  BY <1>1, <3>2
      <4>2. row'[a] = [row[a] EXCEPT !.run = [b \in Blocks |-> 1]]  BY <1>1, <3>2
      <4> QED  BY <4>1, <4>2 DEF Row
    <3>3. CASE row[a] = None  BY <3>3
    <3> QED  BY <1>5, <3>1, <3>2, <3>3 DEF Store
  <2> QED  BY <1>2, <2>1, <2>2, <2>3 DEF StatusStays, BlocksStay
<1>6. CASE Delete  BY <1>6 DEF Delete, StatusStays, BlocksStay
<1> QED  BY <1>3, <1>4, <1>5, <1>6, RowSteps, BlockIsReplaced

(* Nothing is written over what came later: over an answer that is saved, the record of   *)
(* another block, the title a user gave (set_sql_run, set_title_if_empty and the repair   *)
(* WHERE status = 'streaming' of dialogs/repositories.py).                                *)
THEOREM NothingIsOverwritten == Spec => NothingSavedIsOverwritten
<1> DEFINE TitleStays == dialog.title = "user" /\ dialog'.state = "ready" => dialog'.title = "user"
<1>1. DialogInv /\ [Next]_vars => StatusStays /\ BlocksStay  BY RowsStay
<1>2. ASSUME DialogInv, [Next]_vars PROVE TitleStays
  <2>1. CASE dialog.state = "hidden"
    <3>1. dialog.title = "none"  BY <1>2, <2>1 DEF DialogInv, DialogIsWhole
    <3> QED  BY <3>1
  <2>2. CASE Delete
    <3>1. dialog'.state = "deleted"  BY <1>2, <2>2 DEF Delete, DialogInv, TypeOK, Dialog
    <3> QED  BY <3>1
  <2> QED  BY <1>2, <2>1, <2>2, TitleSteps
<1>3. NothingSavedIsOverwritten <=> [][StatusStays]_row /\ [][BlocksStay]_row /\ [][TitleStays]_dialog
  BY DEF NothingSavedIsOverwritten, SavedStays, RecheckKeepsOtherBlocks, UserTitleStays, StatusStays,
         BlocksStay
<1> HIDE DEF TitleStays
<1> QED  BY <1>1, <1>2, <1>3, DialogInvariant, PTL DEF Spec
-----------------------------------------------------------------------------
(* What is given to the model.  First the helpers: the least and the greatest of a set of  *)
(* numbers, and the sums of a fold.                                                        *)

LEMMA LeastIs ==
  ASSUME NEW S \in SUBSET Nat, S # {}
  PROVE  Sets!Min(S) \in S /\ \A y \in S : Sets!Min(S) <= y
<1>1. IsWellFoundedOn(OpToRel(<, Nat), Nat)  BY NatLessThanWellFounded
<1>2. PICK x \in S : \A y \in S : ~(<<y, x>> \in OpToRel(<, Nat))  BY <1>1, WFMin
<1>3. \A y \in S : ~(y < x)  BY <1>2 DEF OpToRel
<1>4. \A y \in S : x <= y  BY <1>3
<1> QED  BY <1>4 DEF Sets!Min

LEMMA GreatestIs ==
  ASSUME NEW S \in SUBSET Nat, S # {}, NEW b \in Nat, \A x \in S : x <= b
  PROVE  Seqs!Max(S) \in S /\ \A y \in S : Seqs!Max(S) >= y
<1> DEFINE T == {b - x : x \in S}
           t == Sets!Min(T)
<1>1. T \in SUBSET Nat /\ T # {}
  <2>1. \A x \in S : b - x \in Nat  OBVIOUS
  <2> QED  BY <2>1
<1> HIDE DEF T, t
<1>2. t \in T /\ \A y \in T : t <= y  BY <1>1, LeastIs DEF t
<1>3. PICK x \in S : t = b - x  BY <1>2 DEF T
<1>4. \A y \in S : x >= y  BY <1>2, <1>3 DEF T
<1> QED  BY <1>4 DEF Seqs!Max

(* What the sums of a fold are over the places of a sequence of numbers: first for the     *)
(* sets of places the fold goes through, then for the beginnings of the sequence.          *)
SetSums(weights, n, sums) ==
    sums = [s \in SUBSET (1..n) |->
              IF s = {} THEN 0 ELSE sums[s \ {Seqs!Max(s)}] + weights[Seqs!Max(s)]]
CanBeSummed(weights, n) == \E sums : SetSums(weights, n, sums)
Weighs(weights, sums) ==
    /\ sums \in [0..Len(weights) -> Int]
    /\ sums[0] = 0
    /\ \A k \in 1..Len(weights) : sums[k] = sums[k - 1] + weights[k]

LEMMA GreatestPlace ==
  ASSUME NEW n \in Nat, NEW s \in SUBSET (1..n), s # {}
  PROVE  Seqs!Max(s) \in s /\ \A y \in s : Seqs!Max(s) >= y
<1>1. s \in SUBSET Nat /\ \A x \in s : x <= n  OBVIOUS
<1> QED  BY <1>1, GreatestIs

LEMMA SumsOneMore ==
  ASSUME NEW weights, NEW n \in Nat, CanBeSummed(weights, n)
  PROVE  CanBeSummed(weights, n + 1)
<1>1. PICK sums : SetSums(weights, n, sums)  BY DEF CanBeSummed
<1> DEFINE most(s) == Seqs!Max(s)
           Sum(g, s) == IF s = {} THEN 0 ELSE g[s \ {most(s)}] + weights[most(s)]
           more == [s \in SUBSET (1..n + 1) |-> Sum(sums, s)]
<1> HIDE DEF most
<1>2. ASSUME NEW s \in SUBSET (1..n + 1), s # {}
      PROVE  s \ {most(s)} \in SUBSET (1..n)
  <2>1. n + 1 \in Nat  OBVIOUS
  <2>2. most(s) \in s /\ \A y \in s : most(s) >= y  BY <1>2, <2>1, GreatestPlace DEF most
  <2>3. \A y \in s \ {most(s)} : y \in 1..n
    <3>1. ASSUME NEW y \in s, y # most(s) PROVE y \in 1..n
      <4>1. y \in 1..n + 1 /\ most(s) \in 1..n + 1 /\ most(s) >= y  BY <2>2
      <4> QED  BY <3>1, <4>1
    <3> QED  BY <3>1
  <2> QED  BY <2>3
<1>3. ASSUME NEW s \in SUBSET (1..n)
      PROVE  more[s] = sums[s]
  <2>1. s \in SUBSET (1..n + 1)  OBVIOUS
  <2>2. sums = [t \in SUBSET (1..n) |-> Sum(sums, t)]  BY <1>1 DEF SetSums, most
  <2> HIDE DEF Sum
  <2> QED  BY <2>1, <2>2
<1>4. ASSUME NEW s \in SUBSET (1..n + 1)
      PROVE  Sum(more, s) = Sum(sums, s)
  <2>1. CASE s = {}  BY <2>1
  <2>2. CASE s # {}
    <3>1. more[s \ {most(s)}] = sums[s \ {most(s)}]  BY <1>2, <1>3, <2>2
    <3> HIDE DEF more
    <3> QED  BY <3>1
  <2> QED  BY <2>1, <2>2
<1>5. more = [s \in SUBSET (1..n + 1) |-> Sum(more, s)]
  <2> HIDE DEF Sum
  <2>1. \A s \in SUBSET (1..n + 1) : Sum(more, s) = Sum(sums, s)  BY <1>4
  <2>2. [s \in SUBSET (1..n + 1) |-> Sum(more, s)] = [s \in SUBSET (1..n + 1) |-> Sum(sums, s)]
    BY <2>1
  <2> QED  BY <2>2
<1>6. SetSums(weights, n + 1, more)  BY <1>5 DEF SetSums, most
<1> QED  BY <1>6 DEF CanBeSummed

LEMMA SumsAll ==
  ASSUME NEW weights, NEW n \in Nat
  PROVE  CanBeSummed(weights, n)
<1> DEFINE Bad == {m \in Nat : ~CanBeSummed(weights, m)}
           least == Sets!Min(Bad)
<1>1. CanBeSummed(weights, 0)
  <2> DEFINE none == [s \in SUBSET (1..0) |-> 0]
  <2>1. \A s \in SUBSET (1..0) : s = {}  OBVIOUS
  <2>2. SetSums(weights, 0, none)  BY <2>1 DEF SetSums
  <2> QED  BY <2>2 DEF CanBeSummed
<1>2. ASSUME Bad # {}
      PROVE  FALSE
  <2>1. Bad \in SUBSET Nat  OBVIOUS
  <2> HIDE DEF Bad, least
  <2>2. least \in Bad /\ \A m \in Bad : least <= m  BY <1>2, <2>1, LeastIs DEF least
  <2>3. least \in Nat /\ ~CanBeSummed(weights, least)  BY <2>2 DEF Bad
  <2>4. least # 0  BY <1>1, <2>3
  <2>5. least - 1 \in Nat /\ least - 1 \notin Bad  BY <2>2, <2>3, <2>4
  <2>6. CanBeSummed(weights, least - 1)  BY <2>5 DEF Bad
  <2>7. CanBeSummed(weights, (least - 1) + 1)  BY <2>5, <2>6, SumsOneMore
  <2>8. (least - 1) + 1 = least  BY <2>3
  <2> QED  BY <2>3, <2>7, <2>8
<1> QED  BY <1>2

(* The sum over the first places, one more at a time. *)
LEMMA PlacesAreSummed ==
  ASSUME NEW weights \in Seq(Int), NEW sums, SetSums(weights, Len(weights), sums)
  PROVE  Weighs(weights, [k \in 0..Len(weights) |-> sums[1..k]])
<1> DEFINE n == Len(weights)
           part == [k \in 0..n |-> sums[1..k]]
<1>1. n \in Nat  OBVIOUS
<1>2. part[0] = 0
  <2>1. 1..0 = {} /\ {} \in SUBSET (1..n)  OBVIOUS
  <2>2. sums[{}] = 0  BY <2>1 DEF SetSums
  <2> QED  BY <1>1, <2>1, <2>2
<1>3. ASSUME NEW k \in 1..n
      PROVE  part[k] = part[k - 1] + weights[k]
  <2>1. 1..k \in SUBSET (1..n) /\ 1..k # {} /\ k \in Nat
    <3>1. k \in Nat /\ k <= n /\ 1 \in 1..k  BY <1>1
    <3>2. \A y \in 1..k : y \in 1..n  BY <1>1, <3>1
    <3> QED  BY <3>1, <3>2
  <2> DEFINE most == Seqs!Max(1..k)
  <2>2. most \in 1..k /\ \A y \in 1..k : most >= y
    <3>1. 1..k \in SUBSET (1..k)  OBVIOUS
    <3> QED  BY <2>1, <3>1, GreatestPlace
  <2>3. sums[1..k] = sums[(1..k) \ {most}] + weights[most]
    BY <2>1 DEF SetSums
  <2> HIDE DEF most
  <2>4. most = k /\ (1..k) \ {most} = 1..k - 1  BY <2>1, <2>2
  <2>5. k \in 0..n /\ k - 1 \in 0..n  BY <1>1
  <2> QED  BY <2>3, <2>4, <2>5
<1> HIDE DEF part
<1>4. ASSUME NEW k \in 0..n
      PROVE  part[k] \in Int
  <2> DEFINE Bad == {m \in 0..n : part[m] \notin Int}
             least == Sets!Min(Bad)
  <2>1. ASSUME Bad # {}
        PROVE  FALSE
    <3>1. Bad \in SUBSET Nat  BY <1>1
    <3> HIDE DEF Bad, least
    <3>2. least \in Bad /\ \A m \in Bad : least <= m  BY <2>1, <3>1, LeastIs DEF least
    <3>3. least \in 0..n /\ part[least] \notin Int  BY <3>2 DEF Bad
    <3>4. least # 0  BY <1>2, <3>3
    <3>5. least \in 1..n /\ least - 1 \in 0..n /\ least - 1 \notin Bad
      BY <1>1, <3>2, <3>3, <3>4
    <3>6. part[least - 1] \in Int  BY <3>5 DEF Bad
    <3>7. weights[least] \in Int  BY <3>5
    <3> QED  BY <1>3, <3>3, <3>5, <3>6, <3>7
  <2> QED  BY <2>1
<1>5. part \in [0..n -> Int]
  <2>1. part = [k \in 0..n |-> part[k]]  BY DEF part
  <2> QED  BY <1>4, <2>1
<1> QED  BY <1>2, <1>3, <1>5 DEF Weighs, part

(* The sums of a part of a sequence are differences of its own. *)
LEMMA PartWeighs ==
  ASSUME NEW weights \in Seq(Int), NEW sums, Weighs(weights, sums),
         NEW part \in Seq(Int), NEW of, Weighs(part, of),
         NEW d \in Nat, d + Len(part) <= Len(weights),
         \A k \in 1..Len(part) : part[k] = weights[d + k]
  PROVE  of[Len(part)] = sums[d + Len(part)] - sums[d]
<1> DEFINE m == Len(part)
           n == Len(weights)
           Bad == {k \in 0..m : of[k] # sums[d + k] - sums[d]}
           least == Sets!Min(Bad)
<1>1. m \in Nat /\ n \in Nat /\ d + m <= n  OBVIOUS
<1>2. /\ \A k \in 0..m : of[k] \in Int
      /\ \A k \in 0..n : sums[k] \in Int
      /\ of[0] = 0
      /\ \A k \in 1..m : of[k] = of[k - 1] + part[k]
      /\ \A k \in 1..n : sums[k] = sums[k - 1] + weights[k]
  BY DEF Weighs
<1>3. ASSUME Bad # {}
      PROVE  FALSE
  <2>1. Bad \in SUBSET Nat  BY <1>1
  <2> HIDE DEF Bad, least, m, n
  <2>2. least \in Bad /\ \A k \in Bad : least <= k  BY <1>3, <2>1, LeastIs DEF least
  <2>3. least \in 0..m /\ of[least] # sums[d + least] - sums[d]  BY <2>2 DEF Bad
  <2>4. least # 0
    <3>1. d + 0 = d /\ sums[d] \in Int  BY <1>1, <1>2
    <3> QED  BY <1>2, <2>3, <3>1
  <2>5. least - 1 \in 0..m /\ least - 1 \notin Bad  BY <1>1, <2>2, <2>3, <2>4
  <2>6. of[least - 1] = sums[d + (least - 1)] - sums[d]  BY <2>5 DEF Bad
  <2>7. of[least] = of[least - 1] + weights[d + least]
    <3>1. least \in 1..m  BY <1>1, <2>3, <2>4
    <3> QED  BY <1>2, <3>1 DEF m
  <2>8. d + least \in 1..n /\ (d + least) - 1 = d + (least - 1)  BY <1>1, <2>3, <2>4
  <2>9. sums[d + least] = sums[d + (least - 1)] + weights[d + least]  BY <1>2, <2>8
  <2>10. weights[d + least] \in Int  BY <2>8 DEF n
  <2>11. /\ d + (least - 1) \in 0..n /\ d \in 0..n /\ d + least \in 0..n
    BY <1>1, <2>3, <2>4
  <2>12. sums[d + (least - 1)] \in Int /\ sums[d] \in Int  BY <1>2, <2>11
  <2>13. of[least] = (sums[d + (least - 1)] - sums[d]) + weights[d + least]  BY <2>6, <2>7
  <2>14. of[least] = sums[d + least] - sums[d]  BY <2>9, <2>10, <2>12, <2>13
  <2> QED  BY <2>3, <2>14
<1>4. m \in 0..m  BY <1>1
<1>5. m \notin Bad
  <2> HIDE DEF Bad
  <2> QED  BY <1>3
<1> QED  BY <1>4, <1>5

-----------------------------------------------------------------------------
(* The sums of the model.                                                  *)

Sizable == Sizes \subseteq Nat /\ ImageSize \in Nat /\ MaxImages \in Nat
TokenSums(turns) == [k \in 1..Len(turns) |-> TurnTokens(turns[k])]
ImageSums(turns) == [k \in 1..Len(turns) |-> turns[k].images]

LEMMA TurnsAreSizable ==
  ASSUME Sizable, NEW turns \in Seq(Turn)
  PROVE  /\ TokenSums(turns) \in Seq(Int) /\ Len(TokenSums(turns)) = Len(turns)
         /\ ImageSums(turns) \in Seq(Int) /\ Len(ImageSums(turns)) = Len(turns)
<1>1. \A turn \in Turn : turn.text \in Int /\ turn.images \in Int
  <2>1. \A turn \in Turn : turn.text \in Sizes /\ turn.images \in 0..MaxImages + 1
    BY DEF Turn
  <2>2. \A n \in 0..MaxImages + 1 : n \in Int  BY DEF Sizable
  <2>3. \A n \in Sizes : n \in Int  BY DEF Sizable
  <2> QED  BY <2>1, <2>2, <2>3
<1>2. \A turn \in Turn : TurnTokens(turn) \in Int
  <2> SUFFICES ASSUME NEW turn \in Turn PROVE TurnTokens(turn) \in Int  OBVIOUS
  <2>1. ImageSize * turn.images \in Int  BY <1>1 DEF Sizable
  <2> QED  BY <1>1, <2>1 DEF TurnTokens
<1>3. Len(turns) \in Nat /\ \A k \in 1..Len(turns) : turns[k] \in Turn  OBVIOUS
<1>4. \A k \in 1..Len(turns) : TurnTokens(turns[k]) \in Int /\ turns[k].images \in Int
  BY <1>1, <1>2, <1>3
<1> QED  BY <1>3, <1>4 DEF TokenSums, ImageSums

LEMMA TokensAreSums ==
  ASSUME Sizable, NEW turns \in Seq(Turn)
  PROVE  \E sums : Weighs(TokenSums(turns), sums) /\ TurnsTokens(turns) = sums[Len(turns)]
<1> DEFINE n == Len(turns)
           w == TokenSums(turns)
           Folds(g) == g = [s \in SUBSET DOMAIN turns |->
                             IF s = {} THEN 0
                             ELSE g[s \ {Seqs!Max(s)}] + TurnTokens(turns[Seqs!Max(s)])]
           fold == CHOOSE g : Folds(g)
<1>1. n \in Nat /\ DOMAIN turns = 1..n  OBVIOUS
<1>2. TurnsTokens(turns) = fold[1..n]
  BY DEF TurnsTokens, Seqs!FoldLeft, Seqs!MapThenFoldSet
<1>3. \A g : Folds(g) <=> SetSums(w, n, g)
  <2>1. \A s \in SUBSET (1..n) : s # {} => w[Seqs!Max(s)] = TurnTokens(turns[Seqs!Max(s)])
    BY <1>1, GreatestPlace DEF TokenSums
  <2> SUFFICES ASSUME NEW g PROVE Folds(g) <=> SetSums(w, n, g)  OBVIOUS
  <2> DEFINE F(s) == IF s = {} THEN 0
                     ELSE g[s \ {Seqs!Max(s)}] + TurnTokens(turns[Seqs!Max(s)])
             G(s) == IF s = {} THEN 0 ELSE g[s \ {Seqs!Max(s)}] + w[Seqs!Max(s)]
  <2>2. \A s \in SUBSET (1..n) : F(s) = G(s)  BY <2>1
  <2>3. Folds(g) <=> g = [s \in SUBSET (1..n) |-> F(s)]  BY <1>1
  <2>4. SetSums(w, n, g) <=> g = [s \in SUBSET (1..n) |-> G(s)]  BY DEF SetSums
  <2> HIDE DEF F, G, Folds
  <2>5. [s \in SUBSET (1..n) |-> F(s)] = [s \in SUBSET (1..n) |-> G(s)]  BY <2>2
  <2> QED  BY <2>3, <2>4, <2>5
<1> HIDE DEF Folds, w
<1>4. \E g : Folds(g)  BY <1>1, <1>3, SumsAll DEF CanBeSummed
<1>5. SetSums(w, n, fold)
  <2>1. Folds(fold)  BY <1>4
  <2> QED  BY <1>3, <2>1
<1>6. w \in Seq(Int) /\ Len(w) = n  BY TurnsAreSizable DEF w
<1> HIDE DEF fold
<1>7. Weighs(w, [k \in 0..n |-> fold[1..k]])  BY <1>5, <1>6, PlacesAreSummed
<1>8. n \in 0..n  BY <1>1
<1> QED  BY <1>2, <1>7, <1>8 DEF w

LEMMA ImagesAreSums ==
  ASSUME Sizable, NEW turns \in Seq(Turn)
  PROVE  \E sums : Weighs(ImageSums(turns), sums) /\ Images(turns) = sums[Len(turns)]
<1> DEFINE n == Len(turns)
           w == ImageSums(turns)
           Folds(g) == g = [s \in SUBSET DOMAIN turns |->
                             IF s = {} THEN 0
                             ELSE g[s \ {Seqs!Max(s)}] + turns[Seqs!Max(s)].images]
           fold == CHOOSE g : Folds(g)
<1>1. n \in Nat /\ DOMAIN turns = 1..n  OBVIOUS
<1>2. Images(turns) = fold[1..n]
  BY DEF Images, Seqs!FoldLeft, Seqs!MapThenFoldSet
<1>3. \A g : Folds(g) <=> SetSums(w, n, g)
  <2>1. \A s \in SUBSET (1..n) : s # {} => w[Seqs!Max(s)] = turns[Seqs!Max(s)].images
    BY <1>1, GreatestPlace DEF ImageSums
  <2> SUFFICES ASSUME NEW g PROVE Folds(g) <=> SetSums(w, n, g)  OBVIOUS
  <2> DEFINE F(s) == IF s = {} THEN 0
                     ELSE g[s \ {Seqs!Max(s)}] + turns[Seqs!Max(s)].images
             G(s) == IF s = {} THEN 0 ELSE g[s \ {Seqs!Max(s)}] + w[Seqs!Max(s)]
  <2>2. \A s \in SUBSET (1..n) : F(s) = G(s)  BY <2>1
  <2>3. Folds(g) <=> g = [s \in SUBSET (1..n) |-> F(s)]  BY <1>1
  <2>4. SetSums(w, n, g) <=> g = [s \in SUBSET (1..n) |-> G(s)]  BY DEF SetSums
  <2> HIDE DEF F, G, Folds
  <2>5. [s \in SUBSET (1..n) |-> F(s)] = [s \in SUBSET (1..n) |-> G(s)]  BY <2>2
  <2> QED  BY <2>3, <2>4, <2>5
<1> HIDE DEF Folds, w
<1>4. \E g : Folds(g)  BY <1>1, <1>3, SumsAll DEF CanBeSummed
<1>5. SetSums(w, n, fold)
  <2>1. Folds(fold)  BY <1>4
  <2> QED  BY <1>3, <2>1
<1>6. w \in Seq(Int) /\ Len(w) = n  BY TurnsAreSizable DEF w
<1> HIDE DEF fold
<1>7. Weighs(w, [k \in 0..n |-> fold[1..k]])  BY <1>5, <1>6, PlacesAreSummed
<1>8. n \in 0..n  BY <1>1
<1> QED  BY <1>2, <1>7, <1>8 DEF w

(* What a part of a history weighs. *)
LEMMA PartIsDifference ==
  ASSUME Sizable, NEW history \in Seq(Turn),
         NEW tokens, Weighs(TokenSums(history), tokens),
         NEW images, Weighs(ImageSums(history), images),
         NEW d \in 0..Len(history), NEW e \in d..Len(history)
  PROVE  /\ TurnsTokens(SubSeq(history, d + 1, e)) = tokens[e] - tokens[d]
         /\ Images(SubSeq(history, d + 1, e)) = images[e] - images[d]
<1> DEFINE part == SubSeq(history, d + 1, e)
<1>1. /\ part \in Seq(Turn) /\ Len(part) = e - d
      /\ \A k \in 1..Len(part) : part[k] = history[d + k]
      /\ Len(history) \in Nat /\ d \in Nat /\ e - d \in Nat /\ d + (e - d) = e
      /\ d + (e - d) <= Len(history)
  <2>1. Len(history) \in Nat /\ d \in Nat /\ e \in Nat /\ d <= e /\ e <= Len(history)
    OBVIOUS
  <2>2. Len(part) = e - d  BY <2>1
  <2>3. \A k \in 1..e - d : part[k] = history[d + k] /\ d + k \in 1..Len(history)
    BY <2>1
  <2>4. part \in Seq(Turn)  BY <2>1
  <2> HIDE DEF part
  <2> QED  BY <2>1, <2>2, <2>3, <2>4
<1> HIDE DEF part
<1>2. TurnsTokens(part) = tokens[e] - tokens[d]
  <2>1. PICK of : Weighs(TokenSums(part), of) /\ TurnsTokens(part) = of[Len(part)]
    BY <1>1, TokensAreSums
  <2>2. /\ TokenSums(history) \in Seq(Int) /\ Len(TokenSums(history)) = Len(history)
        /\ TokenSums(part) \in Seq(Int) /\ Len(TokenSums(part)) = Len(part)
    BY <1>1, TurnsAreSizable
  <2>3. \A k \in 1..Len(part) : TokenSums(part)[k] = TokenSums(history)[d + k]
    <3> SUFFICES ASSUME NEW k \in 1..Len(part)
                 PROVE  TokenSums(part)[k] = TokenSums(history)[d + k]
      OBVIOUS
    <3>1. d + k \in 1..Len(history)  BY <1>1
    <3> QED  BY <1>1, <3>1 DEF TokenSums
  <2>4. of[Len(part)] = tokens[d + Len(part)] - tokens[d]
    <3> DEFINE w == TokenSums(history)
               v == TokenSums(part)
    <3>1. Weighs(w, tokens) /\ Weighs(v, of)  BY <2>1
    <3>2. \A k \in 1..Len(v) : v[k] = w[d + k]  BY <2>2, <2>3
    <3>3. d + Len(v) <= Len(w)  BY <1>1, <2>2
    <3>4. w \in Seq(Int) /\ v \in Seq(Int) /\ Len(v) = Len(part)  BY <2>2
    <3>5. w \in Seq(Int) /\ v \in Seq(Int) /\ d \in Nat  BY <1>1, <3>4
    <3> HIDE DEF w, v
    <3>6. of[Len(v)] = tokens[d + Len(v)] - tokens[d]
      BY <3>1, <3>2, <3>3, <3>5, PartWeighs
    <3> QED  BY <3>4, <3>6
  <2> QED  BY <1>1, <2>1, <2>4
<1>3. Images(part) = images[e] - images[d]
  <2>1. PICK of : Weighs(ImageSums(part), of) /\ Images(part) = of[Len(part)]
    BY <1>1, ImagesAreSums
  <2>2. /\ ImageSums(history) \in Seq(Int) /\ Len(ImageSums(history)) = Len(history)
        /\ ImageSums(part) \in Seq(Int) /\ Len(ImageSums(part)) = Len(part)
    BY <1>1, TurnsAreSizable
  <2>3. \A k \in 1..Len(part) : ImageSums(part)[k] = ImageSums(history)[d + k]
    <3> SUFFICES ASSUME NEW k \in 1..Len(part)
                 PROVE  ImageSums(part)[k] = ImageSums(history)[d + k]
      OBVIOUS
    <3>1. d + k \in 1..Len(history)  BY <1>1
    <3> QED  BY <1>1, <3>1 DEF ImageSums
  <2>4. of[Len(part)] = images[d + Len(part)] - images[d]
    <3> DEFINE w == ImageSums(history)
               v == ImageSums(part)
    <3>1. Weighs(w, images) /\ Weighs(v, of)  BY <2>1
    <3>2. \A k \in 1..Len(v) : v[k] = w[d + k]  BY <2>2, <2>3
    <3>3. d + Len(v) <= Len(w)  BY <1>1, <2>2
    <3>4. w \in Seq(Int) /\ v \in Seq(Int) /\ Len(v) = Len(part)  BY <2>2
    <3>5. w \in Seq(Int) /\ v \in Seq(Int) /\ d \in Nat  BY <1>1, <3>4
    <3> HIDE DEF w, v
    <3>6. of[Len(v)] = images[d + Len(v)] - images[d]
      BY <3>1, <3>2, <3>3, <3>5, PartWeighs
    <3> QED  BY <3>4, <3>6
  <2> QED  BY <1>1, <2>1, <2>4
<1> QED  BY <1>2, <1>3 DEF part

(* What is left, kept by subtraction, is what is left, by its own sums. *)
LEMMA LeftIs ==
  ASSUME Sizable, NEW history \in Seq(Turn), NEW head \in Int, NEW shown \in Int,
         NEW first \in 0..Len(history)
  PROVE  \A d \in first..Len(history) :
             LET kept == SubSeq(history, d + 1, Len(history))
             IN  Left(history, head, shown, first)[d] =
                   [tokens |-> head + TurnsTokens(kept), images |-> shown + Images(kept)]
<1>1. PICK tokens : /\ Weighs(TokenSums(history), tokens)
                    /\ TurnsTokens(history) = tokens[Len(history)]
  BY TokensAreSums
<1>2. PICK images : /\ Weighs(ImageSums(history), images)
                    /\ Images(history) = images[Len(history)]
  BY ImagesAreSums
<1> DEFINE n == Len(history)
           LeftOf(d) == [tokens |-> head + (tokens[n] - tokens[d]),
                         images |-> shown + (images[n] - images[d])]
           Beginning == [tokens |-> head + TurnsTokens(history)
                                  - TurnsTokens(SubSeq(history, 1, first)),
                     images |-> shown + Images(SubSeq(history, first + 1, n))]
           Less(left, d) == [tokens |-> left.tokens - TurnTokens(history[d]),
                             images |-> left.images - history[d].images]
           Right(g) == g = [d \in first..n |-> IF d = first THEN Beginning ELSE Less(g[d - 1], d)]
<1>3. /\ n \in Nat /\ first \in Nat
      /\ \A d \in 0..n : tokens[d] \in Int /\ images[d] \in Int
      /\ tokens[0] = 0 /\ images[0] = 0
      /\ \A d \in 1..n : tokens[d] = tokens[d - 1] + TurnTokens(history[d])
      /\ \A d \in 1..n : images[d] = images[d - 1] + history[d].images
      /\ \A d \in 1..n : TurnTokens(history[d]) \in Int /\ history[d].images \in Int
  <2>1. /\ n \in Nat /\ first \in Nat
        /\ TokenSums(history) \in Seq(Int) /\ Len(TokenSums(history)) = n
        /\ ImageSums(history) \in Seq(Int) /\ Len(ImageSums(history)) = n
    BY TurnsAreSizable
  <2>2. \A d \in 1..n : /\ TokenSums(history)[d] = TurnTokens(history[d])
                        /\ ImageSums(history)[d] = history[d].images
    BY DEF TokenSums, ImageSums
  <2> HIDE DEF n
  <2>3. \A d \in 1..n : TokenSums(history)[d] \in Int /\ ImageSums(history)[d] \in Int
    BY <2>1
  <2> QED  BY <1>1, <1>2, <2>1, <2>2, <2>3 DEF Weighs
<1>4. Beginning = LeftOf(first)
  <2>1. TurnsTokens(SubSeq(history, 0 + 1, first)) = tokens[first] - tokens[0]
    <3>1. 0 \in 0..n /\ first \in 0..n  BY <1>3
    <3> QED  BY <1>1, <1>2, <1>3, <3>1, PartIsDifference
  <2>2. Images(SubSeq(history, first + 1, n)) = images[n] - images[first]
    <3>1. first \in 0..n /\ n \in first..n  BY <1>3
    <3> QED  BY <1>1, <1>2, <3>1, PartIsDifference
  <2>3. tokens[first] \in Int /\ tokens[n] \in Int  BY <1>3
  <2>4. TurnsTokens(SubSeq(history, 1, first)) = tokens[first]
    BY <1>3, <2>1, <2>3
  <2> QED  BY <1>1, <2>2, <2>3, <2>4
<1>5. ASSUME NEW d \in first..n, d # first
      PROVE  Less(LeftOf(d - 1), d) = LeftOf(d)
  <2>1. d \in 1..n /\ d - 1 \in 0..n /\ d \in 0..n /\ n \in 0..n  BY <1>3, <1>5
  <2>2. /\ tokens[n] \in Int /\ tokens[d] \in Int /\ tokens[d - 1] \in Int
        /\ images[n] \in Int /\ images[d] \in Int /\ images[d - 1] \in Int
        /\ TurnTokens(history[d]) \in Int /\ history[d].images \in Int
        /\ tokens[d] = tokens[d - 1] + TurnTokens(history[d])
        /\ images[d] = images[d - 1] + history[d].images
    BY <1>3, <2>1
  <2>3. /\ (head + (tokens[n] - tokens[d - 1])) - TurnTokens(history[d])
             = head + (tokens[n] - tokens[d])
        /\ (shown + (images[n] - images[d - 1])) - history[d].images
             = shown + (images[n] - images[d])
    <3> DEFINE all == tokens[n]
               past == tokens[d]
               before == tokens[d - 1]
               this == TurnTokens(history[d])
               allImages == images[n]
               pastImages == images[d]
               beforeImages == images[d - 1]
               theseImages == history[d].images
    <3>1. /\ all \in Int /\ past \in Int /\ before \in Int /\ this \in Int
          /\ past = before + this
          /\ allImages \in Int /\ pastImages \in Int /\ beforeImages \in Int
          /\ theseImages \in Int /\ pastImages = beforeImages + theseImages
      BY <2>2
    <3> HIDE DEF all, past, before, this, allImages, pastImages, beforeImages, theseImages
    <3>2. (head + (all - before)) - this = head + (all - past)  BY <3>1
    <3>3. (shown + (allImages - beforeImages)) - theseImages = shown + (allImages - pastImages)
      BY <3>1
    <3> QED  BY <3>2, <3>3
             DEF all, past, before, this, allImages, pastImages, beforeImages, theseImages
  <2> QED  BY <2>3
<1> HIDE DEF Beginning, Less, LeftOf
<1>6. Right([d \in first..n |-> LeftOf(d)])
  <2> DEFINE g == [d \in first..n |-> LeftOf(d)]
             F(d) == IF d = first THEN Beginning ELSE Less(g[d - 1], d)
  <2>1. ASSUME NEW d \in first..n
        PROVE  LeftOf(d) = F(d)
    <3>1. CASE d = first  BY <1>4, <3>1
    <3>2. CASE d # first
      <4>1. d - 1 \in first..n  BY <1>3, <3>2
      <4> QED  BY <1>5, <3>2, <4>1
    <3> QED  BY <3>1, <3>2
  <2> HIDE DEF F
  <2>2. g = [d \in first..n |-> F(d)]  BY <2>1
  <2> QED  BY <2>2 DEF F
<1>7. Left(history, head, shown, first) = CHOOSE g : Right(g)
  BY DEF Left, Beginning, Less
<1> DEFINE left == Left(history, head, shown, first)
<1>8. Right(left)  BY <1>6, <1>7
<1> HIDE DEF left
<1>9. left[first] = LeftOf(first)
  <2>1. first \in first..n  BY <1>3
  <2> QED  BY <1>4, <1>8, <2>1
<1>10. ASSUME NEW d \in first..n, d # first
       PROVE  left[d] = Less(left[d - 1], d)
  BY <1>8, <1>10
<1>11. \A d \in first..n : left[d] = LeftOf(d)
  <2> DEFINE Bad == {d \in first..n : left[d] # LeftOf(d)}
             least == Sets!Min(Bad)
  <2>1. ASSUME Bad # {}
        PROVE  FALSE
    <3>1. Bad \in SUBSET Nat  BY <1>3
    <3> HIDE DEF Bad, least
    <3>2. least \in Bad /\ \A d \in Bad : least <= d  BY <2>1, <3>1, LeastIs DEF least
    <3>3. least \in first..n /\ left[least] # LeftOf(least)  BY <3>2 DEF Bad
    <3>4. least # first  BY <1>9, <3>3
    <3>5. least - 1 \in first..n /\ least - 1 \notin Bad  BY <1>3, <3>2, <3>3, <3>4
    <3>6. left[least - 1] = LeftOf(least - 1)  BY <3>5 DEF Bad
    <3> QED  BY <1>5, <1>10, <3>3, <3>4, <3>6
  <2> QED  BY <2>1
<1>12. ASSUME NEW d \in first..n
       PROVE  LET kept == SubSeq(history, d + 1, n)
              IN  LeftOf(d) = [tokens |-> head + TurnsTokens(kept),
                               images |-> shown + Images(kept)]
  <2>1. d \in 0..n /\ n \in d..n  BY <1>3
  <2>2. /\ TurnsTokens(SubSeq(history, d + 1, n)) = tokens[n] - tokens[d]
        /\ Images(SubSeq(history, d + 1, n)) = images[n] - images[d]
    BY <1>1, <1>2, <2>1, PartIsDifference
  <2> QED  BY <2>2 DEF LeftOf
<1> QED  BY <1>11, <1>12 DEF left

(* Of the ends that leave out at least so many, FitMemory takes the longest that fits. *)
LEMMA FitMemoryIs ==
  ASSUME Sizable, NEW history \in Seq(Turn), NEW limit \in Int, NEW head \in Int,
         NEW shown \in Int, NEW minDropped \in Nat
  PROVE  LET d == FitMemory(history, limit, head, shown, minDropped)
         IN  /\ d \in 0..Len(history) /\ (minDropped <= d \/ d = Len(history))
             /\ Fitted(history, limit, head, shown, d)
             /\ minDropped = 0 =>
                  \A c \in 0..d - 1 : ~Fitted(history, limit, head, shown, c)
<1> DEFINE n == Len(history)
           first == Sets!Min({minDropped, n})
           left == Left(history, head, shown, first)
           Fits(d) == left[d].tokens <= limit /\ left[d].images <= MaxImages
           Ends == {d \in first..n : d = n \/ (Fits(d) /\ history[d + 1].role = "user")}
           least == Sets!Min(Ends)
<1>1. n \in Nat  OBVIOUS
<1>2. first \in {minDropped, n} /\ first <= minDropped /\ first <= n
  <2>1. {minDropped, n} \in SUBSET Nat /\ {minDropped, n} # {}  BY <1>1
  <2> HIDE DEF n
  <2> QED  BY <2>1, LeastIs
<1>3. FitMemory(history, limit, head, shown, minDropped) = least  BY DEF FitMemory
<1> HIDE DEF first
<1>4. first \in 0..n  BY <1>1, <1>2
<1>5. ASSUME NEW d \in first..n
      PROVE  (d \in Ends) <=> Fitted(history, limit, head, shown, d)
  <2> DEFINE kept == SubSeq(history, d + 1, n)
  <2>1. left[d] = [tokens |-> head + TurnsTokens(kept), images |-> shown + Images(kept)]
    BY <1>4, LeftIs
  <2>2. Fits(d) <=> head + TurnsTokens(kept) <= limit /\ shown + Images(kept) <= MaxImages
    BY <2>1
  <2>3. kept = <<>> <=> d = n
    <3>1. d \in 0..n /\ Len(kept) = n - d  BY <1>1, <1>4
    <3>2. kept \in Seq(Turn)  BY <1>1, <1>4
    <3> HIDE DEF kept
    <3> QED  BY <1>1, <3>1, <3>2
  <2>4. d # n => kept[1] = history[d + 1]
    <3>1. d # n => d + 1 \in 1..n /\ Len(kept) = n - d /\ 1 \in 1..n - d  BY <1>1, <1>4
    <3> QED  BY <1>1, <1>4, <3>1
  <2> HIDE DEF Fits, kept
  <2>5. Fitted(history, limit, head, shown, d)
          <=> kept = <<>> \/ (Fits(d) /\ kept[1].role = "user")
    BY <2>2 DEF Fitted, kept
  <2> QED  BY <2>3, <2>4, <2>5
<1> HIDE DEF Fits
<1>6. Ends \in SUBSET Nat /\ n \in Ends  BY <1>1, <1>4
<1>7. least \in Ends /\ \A y \in Ends : least <= y
  <2> HIDE DEF Ends
  <2> QED  BY <1>6, LeastIs
<1>8. least \in first..n  BY <1>7
<1> HIDE DEF Ends, least
<1>9. Fitted(history, limit, head, shown, least)  BY <1>5, <1>7, <1>8
<1>10. minDropped = 0 => \A c \in 0..least - 1 : ~Fitted(history, limit, head, shown, c)
  <2> SUFFICES ASSUME minDropped = 0, NEW c \in 0..least - 1
               PROVE  ~Fitted(history, limit, head, shown, c)
    OBVIOUS
  <2>1. first = 0  BY <1>1, <1>2
  <2>2. c \in first..n /\ c < least /\ c \in Nat  BY <1>1, <1>4, <1>8, <2>1
  <2>3. c \notin Ends  BY <1>4, <1>7, <1>8, <2>2
  <2> QED  BY <1>5, <2>2, <2>3
<1>11. least \in 0..n /\ (minDropped <= least \/ least = n)
  BY <1>1, <1>2, <1>4, <1>8
<1> HIDE DEF n
<1> QED  BY <1>3, <1>9, <1>10, <1>11 DEF n

(* For histories of every length, texts and images of every size and every limit: the      *)
(* longest end of the history that fits, by its own sums, is given to the model, and after *)
(* a refusal at most half of it, which fits too (dialogs/context.py).                      *)
THEOREM LongestEndIsTaken == FitIsLargest
<1> SUFFICES ASSUME NEW history \in Seqs!BoundedSeq(Turn, Turns), NEW limit \in Limits,
                    NEW shown \in {0, 1}
             PROVE  LET d == FitMemory(history, limit, 1, shown, 0)
                        e == Retried(history, limit, 1, shown, d)
                    IN  /\ Fitted(history, limit, 1, shown, d)
                        /\ \A c \in 0..d - 1 : ~Fitted(history, limit, 1, shown, c)
                        /\ d < Len(history) =>
                             /\ Fitted(history, limit, 1, shown, e)
                             /\ 2 * (Len(history) - e) <= Len(history) - d
  BY DEF FitIsLargest
<1> DEFINE d == FitMemory(history, limit, 1, shown, 0)
           e == Retried(history, limit, 1, shown, d)
           n == Len(history)
           half == d + ((n - d) + 1) \div 2
           more == Sets!Max({d * 2, half})
<1>1. history \in Seq(Turn)
  <2>1. PICK m \in 0..Turns : history \in [1..m -> Turn]
    BY DEF Seqs!BoundedSeq, Seqs!SeqOf
  <2> QED  BY <2>1
<1>2. Sizable /\ limit \in Int /\ shown \in Int /\ 1 \in Int /\ 0 \in Nat
  BY SizesAssumption, CountsAssumption DEF Sizable
<1>3. n \in Nat  BY <1>1
<1>4. /\ d \in 0..n
      /\ Fitted(history, limit, 1, shown, d)
      /\ \A c \in 0..d - 1 : ~Fitted(history, limit, 1, shown, c)
  BY <1>1, <1>2, FitMemoryIs
<1> HIDE DEF d, n
<1>5. more \in Nat /\ half <= more /\ 2 * half >= d + n
  <2>1. half \in Nat /\ d * 2 \in Nat /\ 2 * half >= d + n  BY <1>3, <1>4
  <2> DEFINE S == {d * 2, half}
  <2> HIDE DEF half
  <2>2. S \in SUBSET Nat /\ S # {} /\ \A x \in S : x <= d * 2 + half  BY <2>1
  <2>3. \E x \in S : \A y \in S : x >= y  BY <2>1
  <2> HIDE DEF S
  <2>4. Sets!Max(S) \in S /\ \A y \in S : Sets!Max(S) >= y  BY <2>3 DEF Sets!Max
  <2> QED  BY <2>1, <2>4 DEF S
<1>6. e = FitMemory(history, limit, 1, shown, more)  BY DEF Retried, n
<1> HIDE DEF e, more, half
<1>7. /\ e \in 0..n /\ (more <= e \/ e = n)
      /\ Fitted(history, limit, 1, shown, e)
  BY <1>1, <1>2, <1>5, <1>6, FitMemoryIs DEF n
<1>8. half \in Int  BY <1>3, <1>4 DEF half
<1>9. 2 * (n - e) <= n - d  BY <1>3, <1>4, <1>5, <1>7, <1>8
<1> QED  BY <1>4, <1>7, <1>9 DEF d, e, n

-----------------------------------------------------------------------------
(* The turns of a dialog: one message after the other.                     *)

TurnsTo(messages, until, turns, n) ==
    IF n = 0 THEN <<>>
    ELSE IF n \in Said(messages, until) THEN Append(turns[n - 1], TurnOf(messages, n))
    ELSE turns[n - 1]
Tells(messages, until, turns, k) ==
    turns = [n \in 0..k |-> TurnsTo(messages, until, turns, n)]
CanBeTold(messages, until, k) == \E turns : Tells(messages, until, turns, k)

LEMMA TellsOneMore ==
  ASSUME NEW messages, NEW until, NEW k \in Nat, CanBeTold(messages, until, k)
  PROVE  CanBeTold(messages, until, k + 1)
<1>1. PICK turns : Tells(messages, until, turns, k)  BY DEF CanBeTold
<1> DEFINE T(g, n) == TurnsTo(messages, until, g, n)
           more == [n \in 0..k + 1 |-> T(turns, n)]
<1>2. ASSUME NEW n \in 0..k
      PROVE  more[n] = turns[n]
  <2>1. turns = [m \in 0..k |-> T(turns, m)]  BY <1>1 DEF Tells
  <2> HIDE DEF T
  <2>2. n \in 0..k + 1  OBVIOUS
  <2> QED  BY <2>1, <2>2
<1>3. ASSUME NEW n \in 0..k + 1
      PROVE  T(more, n) = T(turns, n)
  <2>1. CASE n = 0  BY <2>1 DEF TurnsTo
  <2>2. CASE n # 0
    <3>1. n - 1 \in 0..k  BY <2>2
    <3>2. more[n - 1] = turns[n - 1]  BY <1>2, <3>1
    <3> HIDE DEF more
    <3> QED  BY <3>2 DEF TurnsTo
  <2> QED  BY <2>1, <2>2
<1>4. more = [n \in 0..k + 1 |-> T(more, n)]
  <2> HIDE DEF T
  <2>1. [n \in 0..k + 1 |-> T(more, n)] = [n \in 0..k + 1 |-> T(turns, n)]  BY <1>3
  <2> QED  BY <2>1
<1>5. Tells(messages, until, more, k + 1)  BY <1>4 DEF Tells
<1> QED  BY <1>5 DEF CanBeTold

LEMMA TellsAll ==
  ASSUME NEW messages, NEW until, NEW k \in Nat
  PROVE  CanBeTold(messages, until, k)
<1> DEFINE Bad == {n \in Nat : ~CanBeTold(messages, until, n)}
           least == Sets!Min(Bad)
<1>1. CanBeTold(messages, until, 0)
  <2> DEFINE none == [n \in 0..0 |-> <<>>]
             T(n) == TurnsTo(messages, until, none, n)
  <2>1. \A n \in 0..0 : T(n) = <<>>
    <3>1. \A n \in 0..0 : n = 0  OBVIOUS
    <3> HIDE DEF none
    <3> QED  BY <3>1 DEF TurnsTo
  <2> HIDE DEF T
  <2>2. none = [n \in 0..0 |-> T(n)]  BY <2>1
  <2>3. Tells(messages, until, none, 0)  BY <2>2 DEF Tells, T
  <2> QED  BY <2>3 DEF CanBeTold
<1>2. ASSUME Bad # {}
      PROVE  FALSE
  <2>1. Bad \in SUBSET Nat  OBVIOUS
  <2> HIDE DEF Bad, least
  <2>2. least \in Bad /\ \A m \in Bad : least <= m  BY <1>2, <2>1, LeastIs DEF least
  <2>3. least \in Nat /\ ~CanBeTold(messages, until, least)  BY <2>2 DEF Bad
  <2>4. least # 0  BY <1>1, <2>3
  <2>5. least - 1 \in Nat /\ least - 1 \notin Bad  BY <2>2, <2>3, <2>4
  <2>6. CanBeTold(messages, until, least - 1)  BY <2>5 DEF Bad
  <2>7. CanBeTold(messages, until, (least - 1) + 1)  BY <2>5, <2>6, TellsOneMore
  <2>8. (least - 1) + 1 = least  BY <2>3
  <2> QED  BY <2>3, <2>7, <2>8
<1> QED  BY <1>2

(* The messages of a dialog: question and answer in turn. *)
LEMMA MessagesAre ==
  ASSUME NEW pairs \in Dialogs
  PROVE  /\ Len(pairs) \in Nat /\ Len(Messages(pairs)) = 2 * Len(pairs)
         /\ pairs \in [1..Len(pairs) -> Question \X Answer]
         /\ \A m \in 1..Len(pairs) :
              /\ 2 * m - 1 \in 1..2 * Len(pairs) /\ 2 * m \in 1..2 * Len(pairs)
              /\ Messages(pairs)[2 * m - 1] = pairs[m][1]
              /\ Messages(pairs)[2 * m] = pairs[m][2]
              /\ Messages(pairs)[2 * m - 1].role = "user"
              /\ Messages(pairs)[2 * m].role = "assistant"
         /\ \A i \in 1..2 * Len(pairs) :
              \E m \in 1..Len(pairs) : i = 2 * m - 1 \/ i = 2 * m
<1>1. PICK count \in 0..Pairs : pairs \in [1..count -> Question \X Answer]
  BY DEF Dialogs
<1> DEFINE L == Len(pairs)
<1>2. L \in Nat /\ pairs \in [1..L -> Question \X Answer]
  <2>1. count \in Nat  OBVIOUS
  <2>2. L = count  BY <1>1, <2>1
  <2> QED  BY <1>1, <2>1, <2>2
<1> HIDE DEF L
<1>3. Messages(pairs) = [i \in 1..2 * L |-> pairs[(i + 1) \div 2][2 - (i % 2)]]
  BY DEF Messages, L
<1>4. Len(Messages(pairs)) = 2 * L
  <2>1. 2 * L \in Nat  BY <1>2
  <2> QED  BY <1>3, <2>1
<1>5. ASSUME NEW m \in 1..L
      PROVE  /\ 2 * m - 1 \in 1..2 * L /\ 2 * m \in 1..2 * L
             /\ Messages(pairs)[2 * m - 1] = pairs[m][1]
             /\ Messages(pairs)[2 * m] = pairs[m][2]
             /\ pairs[m][1].role = "user" /\ pairs[m][2].role = "assistant"
  <2>1. 2 * m - 1 \in 1..2 * L /\ 2 * m \in 1..2 * L  BY <1>2
  <2>2. ((2 * m - 1) + 1) \div 2 = m /\ 2 - ((2 * m - 1) % 2) = 1  BY <1>2
  <2>3. (2 * m + 1) \div 2 = m /\ 2 - ((2 * m) % 2) = 2  BY <1>2
  <2>4. pairs[m] \in Question \X Answer  BY <1>2
  <2>5. pairs[m][1] \in Question /\ pairs[m][2] \in Answer  BY <2>4
  <2>6. pairs[m][1].role = "user" /\ pairs[m][2].role = "assistant"
    BY <2>5 DEF Question, Answer
  <2> QED  BY <1>3, <2>1, <2>2, <2>3, <2>6
<1>6. ASSUME NEW i \in 1..2 * L
      PROVE  \E m \in 1..L : i = 2 * m - 1 \/ i = 2 * m
  <2>1. (i + 1) \div 2 \in 1..L  BY <1>2
  <2>2. i = 2 * ((i + 1) \div 2) - 1 \/ i = 2 * ((i + 1) \div 2)  BY <1>2
  <2> QED  BY <2>1, <2>2
<1> QED  BY <1>2, <1>4, <1>5, <1>6 DEF L

LEMMA PairsAre ==
  ASSUME NEW pairs \in Dialogs, NEW m \in 1..Len(pairs)
  PROVE  /\ PairOf(Messages(pairs), 2 * m - 1) = 2 * m - 1
         /\ PairOf(Messages(pairs), 2 * m) = 2 * m - 1
<1> DEFINE messages == Messages(pairs)
           asked(i) == {j \in 1..i : messages[j].role = "user"}
<1>1. m \in Nat /\ Len(pairs) \in Nat  BY MessagesAre
<1>2. messages[2 * m - 1].role = "user" /\ messages[2 * m].role = "assistant"
  BY MessagesAre
<1> HIDE DEF messages
<1>3. ASSUME NEW i \in {2 * m - 1, 2 * m}
      PROVE  Sets!Max(asked(i)) = 2 * m - 1
  <2>1. 2 * m - 1 \in asked(i)  BY <1>1, <1>2
  <2>2. \A j \in asked(i) : j \in Nat /\ j <= 2 * m - 1
    <3> SUFFICES ASSUME NEW j \in asked(i) PROVE j \in Nat /\ j <= 2 * m - 1  OBVIOUS
    <3>1. j \in Nat /\ j <= 2 * m /\ messages[j].role = "user"  BY <1>1
    <3>2. j # 2 * m  BY <1>2, <3>1
    <3> QED  BY <1>1, <3>1, <3>2
  <2> HIDE DEF asked
  <2>3. \E x \in asked(i) : \A y \in asked(i) : x >= y  BY <1>1, <2>1, <2>2
  <2>4. /\ Sets!Max(asked(i)) \in asked(i)
        /\ \A y \in asked(i) : Sets!Max(asked(i)) >= y
    BY <2>3 DEF Sets!Max
  <2> QED  BY <1>1, <2>1, <2>2, <2>4
<1>4. ASSUME NEW i \in {2 * m - 1, 2 * m}
      PROVE  PairOf(messages, i) = 2 * m - 1
  <2>1. 2 * m - 1 \in asked(i)  BY <1>1, <1>2
  <2> QED  BY <1>3, <2>1 DEF PairOf
<1> QED  BY <1>4 DEF messages

(* Which messages are given: of a pair that counts the question, and the answer unless it  *)
(* is empty.                                                                               *)
Counts(pairs, n, m) == m > n /\ pairs[m][1].mode # "excluded"

LEMMA SaidAre ==
  ASSUME NEW pairs \in Dialogs, NEW n \in Nat, NEW m \in 1..Len(pairs)
  PROVE  /\ 2 * m - 1 \in Said(Messages(pairs), Border(n)) <=> Counts(pairs, n, m)
         /\ 2 * m \in Said(Messages(pairs), Border(n)) => Counts(pairs, n, m)
<1> DEFINE messages == Messages(pairs)
<1>1. /\ m \in Nat /\ DOMAIN messages = 1..2 * Len(pairs)
      /\ 2 * m - 1 \in 1..2 * Len(pairs) /\ 2 * m \in 1..2 * Len(pairs)
      /\ messages[2 * m - 1] = pairs[m][1]
      /\ messages[2 * m - 1].role = "user"
  BY MessagesAre DEF Messages
<1>2. PairOf(messages, 2 * m - 1) = 2 * m - 1 /\ PairOf(messages, 2 * m) = 2 * m - 1
  BY PairsAre
<1>3. (2 * m - 1 > 2 * n <=> m > n) /\ (2 * m > 2 * n <=> m > n)  BY <1>1
<1> HIDE DEF messages
<1> QED  BY <1>1, <1>2, <1>3 DEF Said, ConsideredHistory, Border, Counts, messages

(* What has been told up to a message. *)
ToldTo(messages, until, k) == Said(messages, until) \intersect (1..k)
AskedTo(messages, until, k) == {i \in ToldTo(messages, until, k) : messages[i].role = "user"}
AskedIn(turns) == {m \in DOMAIN turns : turns[m].role = "user"}
ToldWell(messages, until, turns, k) ==
    /\ turns \in Seq({TurnOf(messages, i) : i \in DOMAIN messages})
    /\ \A n \in DOMAIN turns : turns[n].role = "assistant" =>
         n > 1 /\ turns[n - 1].role = "user" /\ turns[n - 1].pair = turns[n].pair
    /\ Len(turns) = Cardinality(ToldTo(messages, until, k))
    /\ Cardinality(AskedIn(turns)) = Cardinality(AskedTo(messages, until, k))

LEMMA ToldOneMore ==
  ASSUME NEW pairs \in Dialogs, NEW n \in Nat, NEW turns,
         Tells(Messages(pairs), Border(n), turns, 2 * Len(pairs)),
         NEW k \in 1..2 * Len(pairs),
         ToldWell(Messages(pairs), Border(n), turns[k - 1], k - 1)
  PROVE  ToldWell(Messages(pairs), Border(n), turns[k], k)
<1> DEFINE messages == Messages(pairs)
           until == Border(n)
           S == Said(messages, until)
           All == {TurnOf(messages, i) : i \in DOMAIN messages}
<1>1. Len(pairs) \in Nat /\ DOMAIN messages = 1..2 * Len(pairs) /\ k \in Nat
  BY MessagesAre DEF Messages
<1>2. \A i \in 1..2 * Len(pairs) :
        turns[i] = IF i \in S THEN Append(turns[i - 1], TurnOf(messages, i)) ELSE turns[i - 1]
  <2> DEFINE T(i) == TurnsTo(messages, until, turns, i)
  <2>1. turns = [i \in 0..2 * Len(pairs) |-> T(i)]  BY DEF Tells
  <2> HIDE DEF T
  <2>2. \A i \in 1..2 * Len(pairs) : turns[i] = T(i) /\ i # 0  BY <1>1, <2>1
  <2> QED  BY <2>2 DEF T, TurnsTo
<1> DEFINE former == turns[k - 1]
           turn == TurnOf(messages, k)
<1>3. /\ former \in Seq(All)
      /\ \A m \in DOMAIN former : former[m].role = "assistant" =>
           m > 1 /\ former[m - 1].role = "user" /\ former[m - 1].pair = former[m].pair
      /\ Len(former) = Cardinality(ToldTo(messages, until, k - 1))
      /\ Cardinality(AskedIn(former)) = Cardinality(AskedTo(messages, until, k - 1))
  BY DEF ToldWell
<1>4. CASE k \notin S
  <2>1. ToldTo(messages, until, k) = ToldTo(messages, until, k - 1)
    <3>1. \A i \in S : i \in 1..k <=> i \in 1..k - 1  BY <1>1, <1>4
    <3> QED  BY <3>1 DEF ToldTo
  <2>2. AskedTo(messages, until, k) = AskedTo(messages, until, k - 1)  BY <2>1 DEF AskedTo
  <2>3. turns[k] = turns[k - 1]  BY <1>2, <1>4
  <2> QED  BY <2>1, <2>2, <2>3 DEF ToldWell
<1>5. CASE k \in S
  <2> DEFINE told == Append(former, turn)
  <2>1. turns[k] = told  BY <1>2, <1>5
  <2>2. turn \in All /\ turn.role = messages[k].role /\ turn.pair = PairOf(messages, k)
    BY <1>1 DEF TurnOf
  <2> HIDE DEF All, former, turn
  <2>3. /\ told \in Seq(All) /\ Len(told) = Len(former) + 1 /\ Len(former) \in Nat
        /\ DOMAIN told = 1..Len(former) + 1 /\ DOMAIN former = 1..Len(former)
        /\ told[Len(former) + 1] = turn
        /\ \A m \in 1..Len(former) : told[m] = former[m]
    BY <1>3, <2>2
  <2> HIDE DEF told
  <2>4. ASSUME turn.role = "assistant"
        PROVE  /\ Len(former) >= 1 /\ former[Len(former)].role = "user"
               /\ former[Len(former)].pair = turn.pair
    <3>1. PICK m \in 1..Len(pairs) : k = 2 * m - 1 \/ k = 2 * m  BY MessagesAre
    <3>2. k = 2 * m
      <4>1. messages[2 * m - 1].role = "user"  BY MessagesAre
      <4> QED  BY <2>2, <2>4, <3>1, <4>1
    <3>3. 2 * m - 1 \in S  BY <1>5, <3>2, SaidAre
    <3>4. m \in Nat /\ k - 1 = 2 * m - 1 /\ 2 * m - 1 \in 1..2 * Len(pairs)
      BY <1>1, <3>2, MessagesAre
    <3> DEFINE before == turns[(2 * m - 1) - 1]
               question == TurnOf(messages, 2 * m - 1)
    <3>5. former = Append(before, question)  BY <1>2, <3>3, <3>4 DEF former
    <3>6. question.role = "user" /\ question.pair = 2 * m - 1
      BY MessagesAre, PairsAre DEF TurnOf
    <3>7. turn.pair = 2 * m - 1  BY <2>2, <3>2, PairsAre
    <3> HIDE DEF before, question
    <3>8. former[Len(former)] = question /\ Len(former) >= 1
      <4>1. former # <<>>  BY <3>5
      <4>2. Len(former) >= 1  BY <1>3, <4>1
      <4> QED  BY <1>3, <3>5, <4>2
    <3> QED  BY <3>6, <3>7, <3>8
  <2>5. ASSUME NEW m \in DOMAIN told, told[m].role = "assistant"
        PROVE  m > 1 /\ told[m - 1].role = "user" /\ told[m - 1].pair = told[m].pair
    <3>1. CASE m = Len(former) + 1
      <4>1. turn.role = "assistant"  BY <2>3, <2>5, <3>1
      <4>2. Len(former) \in 1..Len(former) /\ m - 1 = Len(former)  BY <2>3, <2>4, <3>1, <4>1
      <4> QED  BY <2>3, <2>4, <3>1, <4>1, <4>2
    <3>2. CASE m # Len(former) + 1
      <4>1. m \in 1..Len(former) /\ told[m] = former[m]  BY <2>3, <3>2
      <4>2. m > 1 /\ former[m - 1].role = "user" /\ former[m - 1].pair = former[m].pair
        BY <1>3, <2>3, <2>5, <4>1
      <4>3. m - 1 \in 1..Len(former)  BY <2>3, <4>1, <4>2
      <4> QED  BY <2>3, <4>1, <4>2, <4>3
    <3> QED  BY <3>1, <3>2
  <2>6. /\ ToldTo(messages, until, k) = ToldTo(messages, until, k - 1) \union {k}
        /\ k \notin ToldTo(messages, until, k - 1)
        /\ IsFiniteSet(ToldTo(messages, until, k - 1))
    <3>1. \A i \in S : i \in 1..k <=> i \in 1..k - 1 \/ i = k  BY <1>1
    <3>2. k \notin 1..k - 1  BY <1>1
    <3>3. IsFiniteSet(1..k - 1)  BY <1>1, FS_Interval
    <3>4. ToldTo(messages, until, k - 1) \subseteq 1..k - 1  BY DEF ToldTo
    <3>5. IsFiniteSet(ToldTo(messages, until, k - 1))  BY <3>3, <3>4, FS_Subset
    <3> QED  BY <1>5, <3>1, <3>2, <3>5 DEF ToldTo
  <2>7. Len(told) = Cardinality(ToldTo(messages, until, k))
    BY <1>3, <2>3, <2>6, FS_AddElement
  <2>8. Cardinality(AskedIn(told)) = Cardinality(AskedTo(messages, until, k))
    <3>1. IsFiniteSet(AskedTo(messages, until, k - 1))
      BY <2>6, FS_Subset DEF AskedTo
    <3>2. IsFiniteSet(AskedIn(former)) /\ Len(former) + 1 \notin AskedIn(former)
      <4>1. AskedIn(former) \subseteq 1..Len(former)  BY <2>3 DEF AskedIn
      <4>2. IsFiniteSet(1..Len(former)) /\ Len(former) + 1 \notin 1..Len(former)
        BY <2>3, FS_Interval
      <4> QED  BY <4>1, <4>2, FS_Subset
    <3>3. k \notin AskedTo(messages, until, k - 1)  BY <2>6 DEF AskedTo
    <3>4. CASE messages[k].role = "user"
      <4>1. AskedIn(told) = AskedIn(former) \union {Len(former) + 1}
        BY <2>2, <2>3, <3>4 DEF AskedIn
      <4>2. AskedTo(messages, until, k) = AskedTo(messages, until, k - 1) \union {k}
        BY <2>6, <3>4 DEF AskedTo
      <4>3. Cardinality(AskedIn(told)) = Cardinality(AskedIn(former)) + 1
        BY <3>2, <4>1, FS_AddElement
      <4>4. Cardinality(AskedTo(messages, until, k))
              = Cardinality(AskedTo(messages, until, k - 1)) + 1
        BY <3>1, <3>3, <4>2, FS_AddElement
      <4> QED  BY <1>3, <4>3, <4>4
    <3>5. CASE messages[k].role # "user"
      <4>1. AskedIn(told) = AskedIn(former)  BY <2>2, <2>3, <3>5 DEF AskedIn
      <4>2. AskedTo(messages, until, k) = AskedTo(messages, until, k - 1)
        BY <2>6, <3>5 DEF AskedTo
      <4> QED  BY <1>3, <4>1, <4>2
    <3> QED  BY <3>4, <3>5
  <2> QED  BY <2>1, <2>3, <2>5, <2>7, <2>8 DEF ToldWell, All
<1> QED  BY <1>4, <1>5

(* All of it. *)
LEMMA TurnsAreTold ==
  ASSUME NEW pairs \in Dialogs, NEW n \in Nat
  PROVE  LET messages == Messages(pairs)
         IN  ToldWell(messages, Border(n), PairTurns(messages, Border(n)), 2 * Len(pairs))
<1> DEFINE messages == Messages(pairs)
           until == Border(n)
           L == 2 * Len(pairs)
           Told(g) == g = [i \in 0..Len(messages) |->
                             IF i = 0 THEN <<>>
                             ELSE IF i \in Said(messages, until)
                                  THEN Append(g[i - 1], TurnOf(messages, i))
                             ELSE g[i - 1]]
           turns == CHOOSE g : Told(g)
<1>1. Len(messages) = L /\ L \in Nat /\ DOMAIN messages = 1..L
  <2>1. Len(pairs) \in Nat /\ Len(messages) = 2 * Len(pairs)  BY MessagesAre
  <2>2. DOMAIN messages = 1..2 * Len(pairs)  BY DEF Messages
  <2> QED  BY <2>1, <2>2
<1>2. PairTurns(messages, until) = turns[L]  BY <1>1 DEF PairTurns
<1>3. \A g : Told(g) <=> Tells(messages, until, g, L)  BY <1>1 DEF Tells, TurnsTo
<1> HIDE DEF Told, messages, until, L
<1>4. Tells(messages, until, turns, L)
  <2>1. \E g : Told(g)  BY <1>1, <1>3, TellsAll DEF CanBeTold
  <2> QED  BY <1>3, <2>1
<1> HIDE DEF turns
<1>5. ToldWell(messages, until, turns[0], 0)
  <2>1. turns[0] = <<>>
    <3> DEFINE T(k) == TurnsTo(messages, until, turns, k)
    <3>1. turns = [k \in 0..L |-> T(k)]  BY <1>4 DEF Tells
    <3> HIDE DEF T
    <3>2. turns[0] = T(0)  BY <1>1, <3>1
    <3> QED  BY <3>2 DEF T, TurnsTo
  <2>2. ToldTo(messages, until, 0) = {} /\ AskedTo(messages, until, 0) = {}
    BY DEF ToldTo, AskedTo
  <2>3. AskedIn(<<>>) = {}  BY DEF AskedIn
  <2>4. Cardinality({}) = 0  BY FS_EmptySet
  <2> DEFINE All == {TurnOf(messages, i) : i \in DOMAIN messages}
             none == turns[0]
  <2>5. none \in Seq(All) /\ Len(none) = 0 /\ DOMAIN none = {}
    <3> HIDE DEF All
    <3> QED  BY <2>1
  <2>6. AskedIn(none) = {}  BY <2>1, <2>3
  <2> HIDE DEF none
  <2>7. ToldWell(messages, until, none, 0)
    BY <2>2, <2>4, <2>5, <2>6 DEF ToldWell, All
  <2> QED  BY <2>7 DEF none
<1>6. ASSUME NEW k \in 1..L, ToldWell(messages, until, turns[k - 1], k - 1)
      PROVE  ToldWell(messages, until, turns[k], k)
  BY <1>4, <1>6, ToldOneMore DEF messages, until, L
<1> DEFINE Bad == {k \in 0..L : ~ToldWell(messages, until, turns[k], k)}
           least == Sets!Min(Bad)
<1>7. ASSUME Bad # {}
      PROVE  FALSE
  <2>1. Bad \in SUBSET Nat  BY <1>1
  <2> HIDE DEF Bad, least
  <2>2. least \in Bad /\ \A m \in Bad : least <= m  BY <1>7, <2>1, LeastIs DEF least
  <2>3. least \in 0..L /\ ~ToldWell(messages, until, turns[least], least)  BY <2>2 DEF Bad
  <2>4. least # 0  BY <1>5, <2>3
  <2>5. least \in 1..L /\ least - 1 \in 0..L /\ least - 1 \notin Bad
    BY <1>1, <2>2, <2>3, <2>4
  <2>6. ToldWell(messages, until, turns[least - 1], least - 1)  BY <2>5 DEF Bad
  <2> QED  BY <1>6, <2>3, <2>5, <2>6
<1>8. L \in 0..L /\ L \notin Bad  BY <1>1, <1>7
<1>9. ToldWell(messages, until, turns[L], L)  BY <1>8
<1> QED  BY <1>2, <1>9 DEF messages, until, L

(* An answer is given with its question, wherever the history is cut. *)
LEMMA PairsAreAnswered ==
  ASSUME NEW pairs \in Dialogs, NEW n \in Nat, NEW limit
  PROVE  LET turns == PairTurns(Messages(pairs), Border(n))
         IN  Answered(turns, FitMemory(turns, limit, 0, 0, 0))
<1> DEFINE turns == PairTurns(Messages(pairs), Border(n))
           L == Len(turns)
           first == Sets!Min({0, L})
           left == Left(turns, 0, 0, first)
           Fits(d) == left[d].tokens <= limit /\ left[d].images <= MaxImages
           Ends == {d \in first..L : d = L \/ (Fits(d) /\ turns[d + 1].role = "user")}
           least == Sets!Min(Ends)
<1>1. ToldWell(Messages(pairs), Border(n), turns, 2 * Len(pairs))  BY TurnsAreTold
<1>2. L \in Nat /\ DOMAIN turns = 1..L
  <2> HIDE DEF turns
  <2> QED  BY <1>1 DEF ToldWell
<1>3. FitMemory(turns, limit, 0, 0, 0) = least  BY DEF FitMemory
<1> HIDE DEF turns, L
<1>4. first \in 0..L
  <2> DEFINE S == {0, L}
  <2>1. S \in SUBSET Nat /\ S # {} /\ \A x \in S : x \in 0..L  BY <1>2
  <2> HIDE DEF S
  <2>2. Sets!Min(S) \in S  BY <2>1, LeastIs
  <2> QED  BY <2>1, <2>2 DEF S
<1> HIDE DEF first, Fits
<1>5. Ends \in SUBSET Nat /\ L \in Ends  BY <1>2, <1>4
<1>6. least \in Ends
  <2> HIDE DEF Ends
  <2> QED  BY <1>5, LeastIs
<1>7. least \in 0..L /\ (least = L \/ turns[least + 1].role = "user")
  <2> HIDE DEF least
  <2>1. least \in first..L  BY <1>6
  <2>2. least = L \/ turns[least + 1].role = "user"  BY <1>6
  <2> QED  BY <1>2, <1>4, <2>1, <2>2
<1> HIDE DEF least, Ends
<1>8. ASSUME NEW m \in least + 1..L, turns[m].role = "assistant"
      PROVE  m > least + 1 /\ turns[m - 1].role = "user" /\ turns[m - 1].pair = turns[m].pair
  <2>1. m \in DOMAIN turns  BY <1>2, <1>7
  <2>2. m > 1 /\ turns[m - 1].role = "user" /\ turns[m - 1].pair = turns[m].pair
    BY <1>1, <1>8, <2>1 DEF ToldWell
  <2>3. m # least + 1
    <3>1. ASSUME m = least + 1 PROVE FALSE
      <4>1. least # L  BY <1>2, <1>7, <3>1
      <4> QED  BY <1>7, <1>8, <3>1, <4>1
    <3> QED  BY <3>1
  <2>4. m > least + 1  BY <1>2, <1>7, <2>3
  <2> QED  BY <2>2, <2>4
<1>9. Answered(turns, least)  BY <1>8 DEF Answered, L
<1> QED  BY <1>3, <1>9 DEF turns

(* What is left of the questions behind a border. *)
LEMMA QuestionsAre ==
  ASSUME NEW pairs \in Dialogs, NEW n \in Nat
  PROVE  LET messages == Messages(pairs)
             counted == {m \in 1..Len(pairs) : Counts(pairs, n, m)}
         IN  Cardinality(AskedTo(messages, Border(n), 2 * Len(pairs))) = Cardinality(counted)
<1> DEFINE messages == Messages(pairs)
           counted == {m \in 1..Len(pairs) : Counts(pairs, n, m)}
           asked == AskedTo(messages, Border(n), 2 * Len(pairs))
           f == [m \in counted |-> 2 * m - 1]
<1>1. Len(pairs) \in Nat  BY MessagesAre
<1>2. IsFiniteSet(counted)
  <2>1. IsFiniteSet(1..Len(pairs))  BY <1>1, FS_Interval
  <2> QED  BY <2>1, FS_Subset
<1>3. ASSUME NEW m \in counted
      PROVE  2 * m - 1 \in asked
  <2>1. m \in 1..Len(pairs) /\ Counts(pairs, n, m)  BY <1>3
  <2>2. 2 * m - 1 \in Said(messages, Border(n))  BY <2>1, SaidAre
  <2>3. 2 * m - 1 \in 1..2 * Len(pairs) /\ messages[2 * m - 1].role = "user"
    BY <2>1, MessagesAre
  <2> QED  BY <2>2, <2>3 DEF AskedTo, ToldTo
<1>4. ASSUME NEW i \in asked
      PROVE  \E m \in counted : i = 2 * m - 1
  <2>1. i \in Said(messages, Border(n)) /\ i \in 1..2 * Len(pairs) /\ messages[i].role = "user"
    BY <1>4 DEF AskedTo, ToldTo
  <2>2. PICK m \in 1..Len(pairs) : i = 2 * m - 1 \/ i = 2 * m  BY <2>1, MessagesAre
  <2>3. i # 2 * m
    <3>1. messages[2 * m].role = "assistant"  BY MessagesAre
    <3> QED  BY <2>1, <3>1
  <2>4. Counts(pairs, n, m)  BY <2>1, <2>2, <2>3, SaidAre
  <2> QED  BY <2>2, <2>3, <2>4
<1>5. \A m \in counted : m \in Nat  BY <1>1
<1> HIDE DEF counted, asked
<1>6. f \in Bijection(counted, asked)
  <2>1. f \in [counted -> asked]  BY <1>3
  <2>2. \A a, b \in counted : f[a] = f[b] => a = b
    <3>1. \A a \in counted : f[a] = 2 * a - 1  OBVIOUS
    <3> HIDE DEF f
    <3>2. ASSUME NEW a \in counted, NEW b \in counted, f[a] = f[b] PROVE a = b
      <4>1. a \in Nat /\ b \in Nat /\ 2 * a - 1 = 2 * b - 1  BY <1>5, <3>1, <3>2
      <4> QED  BY <4>1
    <3> QED  BY <3>2
  <2>3. \A i \in asked : \E m \in counted : f[m] = i  BY <1>4
  <2> HIDE DEF f
  <2> QED  BY <2>1, <2>2, <2>3 DEF Bijection, Injection, Surjection, IsInjective
<1>7. ExistsBijection(counted, asked)  BY <1>6 DEF ExistsBijection
<1>8. Cardinality(counted) = Cardinality(asked)  BY <1>2, <1>7, FS_Bijection
<1> QED  BY <1>8 DEF counted, asked

(* What may be summarised: the last considered pairs stay. *)
LEMMA RangeIs ==
  ASSUME KeepRecent \in Nat, NEW modes \in Seq(Modes), NEW until \in Nat,
         CompressRange(modes, until) # NoRange
  PROVE  LET latest == CompressRange(modes, until).last
         IN  /\ latest \in until + 1..Len(modes) /\ SetSummaryAccepts(modes, latest)
             /\ \E m \in until + 1..latest : modes[m] # "excluded"
             /\ Cardinality({m \in 1..Len(modes) : m > latest /\ modes[m] # "excluded"})
                   = KeepRecent
<1> DEFINE L == Len(modes)
           Considered(from, to) == {k \in from..to : modes[k] # "excluded"}
           late == {k \in DOMAIN modes : Cardinality(Considered(k, L)) = KeepRecent}
           most == Sets!Max(late)
<1>1. L \in Nat /\ DOMAIN modes = 1..L  OBVIOUS
<1>2. CompressRange(modes, until) =
        IF late = {} \/ Considered(until + 1, most - 1) = {} THEN NoRange
        ELSE [first |-> until + 1, last |-> most - 1]
  BY DEF CompressRange
<1>3. late # {} /\ Considered(until + 1, most - 1) # {}
      /\ CompressRange(modes, until).last = most - 1
  <2> HIDE DEF late, most, Considered
  <2> QED  BY <1>2
<1>4. most \in late
  <2>1. late \in SUBSET Nat /\ \A x \in late : x <= L  BY <1>1
  <2> HIDE DEF late, L
  <2> QED  BY <1>1, <1>3, <2>1, GreatestIs DEF Sets!Max, Seqs!Max
<1>5. most \in 1..L /\ Cardinality(Considered(most, L)) = KeepRecent  BY <1>1, <1>4
<1> HIDE DEF most, late, L
<1>6. PICK m \in until + 1..most - 1 : modes[m] # "excluded"  BY <1>3
<1>7. most - 1 \in until + 1..L /\ most - 1 \in 1..L  BY <1>1, <1>5, <1>6
<1>8. KeepRecent <= L - (most - 1)
  <2>1. IsFiniteSet(most..L) /\ Cardinality(most..L) = L - most + 1
    <3>1. most \in Int /\ L \in Int /\ ~(most > L)  BY <1>1, <1>5
    <3>2. IsFiniteSet(most..L)  BY <3>1, FS_Interval
    <3>3. Cardinality(most..L) = IF most > L THEN 0 ELSE L - most + 1  BY <3>1, FS_Interval
    <3> QED  BY <3>1, <3>2, <3>3
  <2>2. Considered(most, L) \subseteq most..L  OBVIOUS
  <2>3. Cardinality(Considered(most, L)) <= Cardinality(most..L)  BY <2>1, <2>2, FS_Subset
  <2> QED  BY <1>1, <1>5, <2>1, <2>3
<1>9. SetSummaryAccepts(modes, most - 1)
  BY <1>1, <1>7, <1>8 DEF SetSummaryAccepts, L
<1>10. {k \in 1..L : k > most - 1 /\ modes[k] # "excluded"} = Considered(most, L)
  BY <1>1, <1>5
<1> QED  BY <1>3, <1>5, <1>6, <1>7, <1>9, <1>10 DEF L

(* For dialogs of every length: whatever is dropped, excluded, summarised or empty, an     *)
(* answer is given with its question; what the portal offers to summarise it accepts, and  *)
(* the last considered questions stay (dialogs/context.py, dialogs/memory.py).             *)
THEOREM PairsAreKeptWhole == PairsStayWhole
<1> SUFFICES ASSUME NEW pairs \in Dialogs, NEW n \in 0..Len(pairs)
             PROVE  LET messages == Messages(pairs)
                        turns == PairTurns(messages, Border(n))
                        modes == [m \in DOMAIN pairs |-> pairs[m][1].mode]
                        range == CompressRange(modes, n)
                        after == PairTurns(messages, Border(range.last))
                    IN  /\ \A limit \in Limits : Answered(turns, FitMemory(turns, limit, 0, 0, 0))
                        /\ range # NoRange =>
                             /\ SetSummaryAccepts(modes, range.last)
                             /\ Len(after) < Len(turns)
                             /\ Cardinality({m \in DOMAIN after : after[m].role = "user"})
                                   = KeepRecent
  BY DEF PairsStayWhole
<1> DEFINE messages == Messages(pairs)
           L == Len(pairs)
           turns == PairTurns(messages, Border(n))
           modes == [m \in DOMAIN pairs |-> pairs[m][1].mode]
           range == CompressRange(modes, n)
           latest == range.last
           after == PairTurns(messages, Border(latest))
<1>1. L \in Nat /\ n \in Nat /\ pairs \in [1..L -> Question \X Answer]
  <2>1. L \in Nat /\ pairs \in [1..L -> Question \X Answer]  BY MessagesAre
  <2> HIDE DEF L
  <2>2. n \in 0..L  BY DEF L
  <2> QED  BY <2>1, <2>2
<1>2. \A limit \in Limits : Answered(turns, FitMemory(turns, limit, 0, 0, 0))
  BY <1>1, PairsAreAnswered
<1>3. ASSUME range # NoRange
      PROVE  /\ SetSummaryAccepts(modes, latest)
             /\ Len(after) < Len(turns)
             /\ Cardinality(AskedIn(after)) = KeepRecent
  <2>1. modes \in Seq(Modes) /\ Len(modes) = L /\ \A m \in 1..L : modes[m] = pairs[m][1].mode
    <3>1. DOMAIN pairs = 1..L  BY <1>1
    <3>2. \A m \in 1..L : pairs[m][1].mode \in Modes
      <4> SUFFICES ASSUME NEW m \in 1..L PROVE pairs[m][1].mode \in Modes  OBVIOUS
      <4>1. pairs[m] \in Question \X Answer  BY <1>1
      <4>2. pairs[m][1] \in Question  BY <4>1
      <4> QED  BY <4>2 DEF Question
    <3> HIDE DEF L
    <3> QED  BY <1>1, <3>1, <3>2
  <2> HIDE DEF L, modes
  <2>2. /\ latest \in n + 1..L /\ SetSummaryAccepts(modes, latest)
        /\ \E m \in n + 1..latest : modes[m] # "excluded"
        /\ Cardinality({m \in 1..L : m > latest /\ modes[m] # "excluded"}) = KeepRecent
    BY <1>1, <1>3, <2>1, RangeIs, CountsAssumption
  <2> HIDE DEF latest, range
  <2>3. latest \in Nat /\ latest > n  BY <1>1, <2>2
  <2> DEFINE saidBefore == ToldTo(messages, Border(n), 2 * L)
             saidAfter == ToldTo(messages, Border(latest), 2 * L)
  <2>4. /\ Len(turns) = Cardinality(saidBefore)
        /\ Len(after) = Cardinality(saidAfter)
        /\ Cardinality(AskedIn(after)) = Cardinality(AskedTo(messages, Border(latest), 2 * L))
    BY <1>1, <2>3, TurnsAreTold DEF ToldWell, L
  <2>5. Cardinality(AskedIn(after)) = KeepRecent
    <3> DEFINE counted == {m \in 1..L : Counts(pairs, latest, m)}
    <3>1. Cardinality(AskedTo(messages, Border(latest), 2 * L)) = Cardinality(counted)
      BY <2>3, QuestionsAre DEF L
    <3>2. counted = {m \in 1..L : m > latest /\ modes[m] # "excluded"}
      BY <2>1 DEF Counts
    <3> QED  BY <2>2, <2>4, <3>1, <3>2
  <2>6. Len(after) < Len(turns)
    <3>1. saidAfter \subseteq saidBefore
      <4>1. Border(latest) >= Border(n) /\ Border(latest) \in Nat /\ Border(n) \in Nat
        BY <1>1, <2>3 DEF Border
      <4>2. \A i \in 1..2 * L : i > Border(latest) => i > Border(n)  BY <1>1, <4>1
      <4> HIDE DEF messages
      <4> QED  BY <4>2 DEF ToldTo, Said, ConsideredHistory
    <3>2. PICK m \in n + 1..latest : modes[m] # "excluded"  BY <2>2
    <3>3. m \in 1..L /\ m > n /\ ~(m > latest)  BY <1>1, <2>2, <2>3
    <3>4. 2 * m - 1 \in saidBefore /\ 2 * m - 1 \notin saidAfter
      <4>1. Counts(pairs, n, m) /\ ~Counts(pairs, latest, m)
        BY <2>1, <3>2, <3>3 DEF Counts
      <4>2. m \in 1..Len(pairs)  BY <3>3 DEF L
      <4>3. 2 * m - 1 \in Said(messages, Border(n))  BY <1>1, <4>1, <4>2, SaidAre
      <4>4. 2 * m - 1 \notin Said(messages, Border(latest))  BY <2>3, <4>1, <4>2, SaidAre
      <4>5. 2 * m - 1 \in 1..2 * L  BY <1>1, <3>3
      <4> QED  BY <4>3, <4>4, <4>5 DEF ToldTo
    <3>5. IsFiniteSet(saidBefore)
      <4>1. IsFiniteSet(1..2 * L)  BY <1>1, FS_Interval
      <4>2. saidBefore \subseteq 1..2 * L  BY DEF ToldTo
      <4> QED  BY <4>1, <4>2, FS_Subset
    <3> HIDE DEF saidBefore, saidAfter
    <3>6. /\ Cardinality(saidAfter) <= Cardinality(saidBefore)
          /\ Cardinality(saidAfter) # Cardinality(saidBefore)
          /\ Cardinality(saidAfter) \in Nat /\ Cardinality(saidBefore) \in Nat
      <4>1. IsFiniteSet(saidAfter)  BY <3>1, <3>5, FS_Subset
      <4> QED  BY <3>1, <3>4, <3>5, <4>1, FS_Subset, FS_CardinalityType
    <3> QED  BY <2>4, <3>6
  <2> QED  BY <2>2, <2>5, <2>6
<1> QED  BY <1>2, <1>3 DEF AskedIn

(* Whenever an answer is formed, the history given is as long as it may be and of whole    *)
(* pairs, for every dialog, every budget and every size (dialogs/context.py).              *)
THEOREM GivenHistoryIsWhole == Spec => []HistoryIsGivenWhole
<1>1. HistoryIsGivenWhole
  BY LongestEndIsTaken, PairsAreKeptWhole
     DEF HistoryIsGivenWhole, LongestEndIsGiven, PairsAreGivenWhole
<1> QED  BY <1>1, PTL

=============================================================================
