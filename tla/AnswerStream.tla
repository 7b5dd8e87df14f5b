---------------------------- MODULE AnswerStream ----------------------------
(***************************************************************************)
(* One stream of events: an answer of a dialog (dialogs/generation.py) or  *)
(* a draft of a summary (dialogs/drafts.py), from the request to the model *)
(* (llm/bifrost.py) to the page (core/events.py).                          *)
(*                                                                         *)
(* The model, the page, the session, the dialog and the clock do as they   *)
(* please; the task waits for all of them at once (dialogs/watch.py).  The *)
(* model is read by a task of its own, so that an event may be there when  *)
(* the wait ends for another reason.  What the task does between two       *)
(* awaits is one action.  Streams of one employee follow each other.       *)
(***************************************************************************)
EXTENDS Naturals, Sequences, SequencesExt, FiniteSetsExt

CONSTANTS
    MaxSaid,    \* bound: what the model says in one stream
    MaxChars,   \* memory.max_chars, in the same unit
    Sizes       \* sizes of what it says at once

ASSUME SizesAssumption == {MaxSaid, MaxChars} \subseteq Nat /\ Sizes \subseteq 1..MaxSaid

VARIABLES
    kind,       \* of the stream: answer, draft
    session,    \* the session it was opened with exists
    subject,    \* the answer, for a draft the dialog, exists
    term,       \* the time of the stream is over
    look,       \* session and subject are to be looked at again
    request,    \* the request to the model, as BifrostChatModel.stream knows it
    pending,    \* what anext of that stream has come to
    task,       \* the task of the stream; its mark is in memory until it is idle
    outcome,    \* what is to be saved; a draft is not
    row,        \* the answer in the database
    channel,    \* events the page has not received
    page,       \* what it has received
    late        \* history: events of the model passed on after the stream was to be cut off

vars == <<kind, session, subject, term, look, request, pending, task, outcome, row,
          channel, page, late>>

world == <<kind, session, subject>>
clock == <<term, look, late>>
told == <<channel, page>>

Failures == {"model_overloaded", "model_unavailable", "context_overflow"}
Codes == {"model_overloaded", "model_unavailable", "message_too_long", "internal_error",
          "knowledge_unavailable", "generation_timeout", "session_ended", "dialog_deleted"}
Whole == {"complete", "length_limit"}
Status == Whole \union {"stopped", "error"}
Endings == {"done", "cut", "error"}     \* cut: done with length_limit, with truncated

Event == [type : {"start", "delta", "end"} \union Endings, size : 0..MaxSaid]

TypeOK ==
    /\ kind \in {"answer", "draft"}
    /\ {session, subject, term, look} \subseteq BOOLEAN
    /\ request \in [open : BOOLEAN, tail : BOOLEAN, received : BOOLEAN, said : 0..MaxSaid,
                    finish : {"none", "stop", "length"}, usage : BOOLEAN]
    /\ pending \in [is : {"none", "running", "text", "usage", "finished"} \union Failures,
                    size : 0..MaxSaid]
    /\ task \in [pc : {"idle", "asking", "waiting", "session", "subject", "closing", "saving",
                       "telling"},
                 attempt : 1..2]
    /\ outcome \in [status : Status, code : Codes, text : 0..MaxSaid]
    /\ row \in [status : Status \union {"streaming"}, text : 0..MaxSaid]
    /\ channel \in Seq(Event)
    /\ page \in [open : BOOLEAN, text : 0..MaxSaid, endings : Seq(Endings)]
    /\ late \in {"no", "due", "one", "more"}

NoRequest == [open |-> FALSE, tail |-> FALSE, received |-> FALSE, said |-> 0, finish |-> "none",
              usage |-> FALSE]
Nothing == [is |-> "none", size |-> 0]
Unsaved == [status |-> "error", code |-> "internal_error", text |-> 0]
Streaming == [status |-> "streaming", text |-> 0]
Say(type, size) == [type |-> type, size |-> size]

Init ==
    /\ kind = "answer"
    /\ session = TRUE /\ subject = TRUE
    /\ term = FALSE /\ look = FALSE /\ late = "no"
    /\ request = NoRequest /\ pending = Nothing
    /\ task = [pc |-> "idle", attempt |-> 1]
    /\ outcome = Unsaved /\ row = Streaming
    /\ channel = << >>
    /\ page = [open |-> FALSE, text |-> 0, endings |-> << >>]

Goes(pc) == task' = [task EXCEPT !.pc = pc]

-----------------------------------------------------------------------------
(* The page, the session and the dialog, the clock.                        *)

\* A stream is accepted: no draft of this employee and no answer of this dialog is going on.
\* Whether the tail of the model's stream is read is a setting (memory.enabled).
Start(k, tail) ==
    /\ task.pc = "idle" /\ ~page.open
    /\ tail => k = "answer"
    /\ kind' = k
    /\ session' = TRUE /\ subject' = TRUE
    /\ term' = FALSE /\ look' = FALSE /\ late' = "no"
    /\ request' = [NoRequest EXCEPT !.tail = tail]
    /\ task' = [pc |-> "asking", attempt |-> 1]
    /\ outcome' = Unsaved /\ row' = Streaming
    /\ channel' = <<Say("start", 0)>>
    /\ page' = [open |-> TRUE, text |-> 0, endings |-> << >>]
    /\ UNCHANGED pending

\* The channel gives out an event; behind the last one the connection is closed.
Receive ==
    /\ page.open /\ channel # << >>
    /\ LET e == Head(channel) IN
        page' = [open |-> e.type # "end",
                 text |-> page.text + e.size,
                 endings |-> IF e.type \in Endings THEN Append(page.endings, e.type)
                             ELSE page.endings]
    /\ channel' = Tail(channel)
    /\ UNCHANGED <<world, clock, request, pending, task, outcome, row>>

\* The page closes the connection.
Leave ==
    /\ page.open
    /\ page' = [page EXCEPT !.open = FALSE]
    /\ UNCHANGED <<world, clock, request, pending, task, outcome, row, channel>>

\* The session is deleted, the answer or the dialog is.
EndSession ==
    /\ session /\ task.pc # "idle"
    /\ session' = FALSE
    /\ UNCHANGED <<kind, subject, clock, request, pending, task, outcome, row, told>>

DeleteSubject ==
    /\ subject /\ task.pc # "idle"
    /\ subject' = FALSE
    /\ UNCHANGED <<kind, session, clock, request, pending, task, outcome, row, told>>

Due(gone) == IF gone /\ late = "no" THEN "due" ELSE late

LookDue ==
    /\ ~look /\ task.pc # "idle"
    /\ look' = TRUE
    /\ late' = Due(~session \/ ~subject)
    /\ UNCHANGED <<world, term, request, pending, task, outcome, row, told>>

TermEnds ==
    /\ ~term /\ task.pc # "idle"
    /\ term' = TRUE
    /\ late' = Due(TRUE)
    /\ UNCHANGED <<world, look, request, pending, task, outcome, row, told>>

-----------------------------------------------------------------------------
(* BifrostChatModel.stream: what anext comes to.                           *)

Reading == request.open /\ pending.is = "running"

Comes(what, size) == pending' = [is |-> what, size |-> size]

\* A chunk: some text, the reason of the end, the usage, any of them or none.  Behind the
\* reason only the usage is looked for.
Chunk(size, finish, usage) ==
    /\ Reading
    /\ request.said + size <= MaxSaid
    /\ IF request.finish = "none"
       THEN /\ request' = [request EXCEPT !.received = TRUE, !.said = @ + size,
                                          !.finish = finish,
                                          !.usage = @ \/ (usage /\ request.tail)]
            /\ IF size > 0 THEN Comes("text", size)
               ELSE IF finish # "none" /\ ~request.tail THEN Comes("finished", 0)
               ELSE UNCHANGED pending
       ELSE /\ size = 0 /\ finish = "none"
            /\ request' = [request EXCEPT !.usage = @ \/ usage]
            /\ UNCHANGED pending
    /\ UNCHANGED <<world, clock, task, outcome, row, told>>

\* Mutated form: the end of the body ends the answer.
BodyEndsWell ==
    /\ Reading
    /\ Comes(IF request.usage THEN "usage" ELSE "finished", 0)
    /\ UNCHANGED <<world, clock, request, task, outcome, row, told>>

\* [DONE] or the end of the body: without a reason the answer was broken off.
BodyEnds ==
    /\ Reading
    /\ Comes(IF request.finish = "none" THEN "model_unavailable"
             ELSE IF request.usage THEN "usage" ELSE "finished", 0)
    /\ UNCHANGED <<world, clock, request, task, outcome, row, told>>

\* The connection breaks, the model falls silent: behind the reason it does no harm.
Breaks ==
    /\ Reading
    /\ \E silent \in BOOLEAN :
        Comes(IF request.finish # "none" THEN "finished"
              ELSE IF silent /\ ~request.received THEN "model_overloaded"
              ELSE "model_unavailable", 0)
    /\ request' = [request EXCEPT !.usage = FALSE]
    /\ UNCHANGED <<world, clock, task, outcome, row, told>>

\* Any status but 200.
Refused ==
    /\ Reading /\ ~request.received
    /\ \E why \in Failures : Comes(why, 0)
    /\ UNCHANGED <<world, clock, request, task, outcome, row, told>>

-----------------------------------------------------------------------------
(* The task: StreamWatch.wait and what is done with an event.              *)

Ask ==
    /\ task.pc = "asking"
    /\ IF kind = "answer" /\ task.attempt = 1 /\ ~subject
       THEN /\ outcome' = [outcome EXCEPT !.code = "dialog_deleted"]
            /\ Goes("closing")
            /\ UNCHANGED <<request, pending>>
       ELSE /\ request' = [NoRequest EXCEPT !.open = TRUE, !.tail = request.tail]
            /\ Comes("running", 0)
            /\ Goes("waiting")
            /\ UNCHANGED outcome
    /\ UNCHANGED <<world, clock, row, told>>

\* The database, the knowledge base or the file of an image does not answer.
AskFails ==
    /\ task.pc = "asking" /\ kind = "answer"
    /\ \E code \in {"internal_error"} \union
                     (IF task.attempt = 1 THEN {"knowledge_unavailable"} ELSE {}) :
        outcome' = [outcome EXCEPT !.code = code]
    /\ Goes("closing")
    /\ UNCHANGED <<world, clock, request, pending, row, told>>

Interrupt(status, code) ==
    /\ outcome' = [outcome EXCEPT !.status = status, !.code = code]
    /\ Goes("closing")
    /\ UNCHANGED <<world, request, pending, row, told>>

Stop ==
    /\ task.pc = "waiting" /\ ~page.open
    /\ Interrupt("stopped", outcome.code)
    /\ UNCHANGED clock

\* Mutated form: the time is looked at when the model has said something.
TimeOutBehindEvent ==
    /\ task.pc = "waiting" /\ page.open /\ term /\ pending.is # "running"
    /\ Interrupt("error", "generation_timeout")
    /\ UNCHANGED clock

TimeOut ==
    /\ task.pc = "waiting" /\ page.open /\ term
    /\ Interrupt("error", "generation_timeout")
    /\ UNCHANGED clock

LookAgain ==
    /\ task.pc = "waiting" /\ page.open /\ ~term /\ look
    /\ look' = FALSE
    /\ Goes("session")
    /\ UNCHANGED <<world, term, late, request, pending, outcome, row, told>>

LookAtSession ==
    /\ task.pc = "session"
    /\ IF session
       THEN Goes("subject") /\ UNCHANGED <<world, request, pending, outcome, row, told>>
       ELSE Interrupt("error", "session_ended")
    /\ UNCHANGED clock

\* The database does not answer.
LookFails ==
    /\ task.pc \in {"session", "subject"}
    /\ Interrupt("error", "internal_error")
    /\ UNCHANGED clock

\* A text was passed on although the stream was to be cut off.
Late == late' = CASE late = "no" -> "no" [] late = "due" -> "one" [] OTHER -> "more"

\* The stream of the model goes on where it yielded.
Resumed ==
    Comes(IF pending.is = "usage" \/ (request.finish # "none" /\ ~request.tail)
          THEN "finished" ELSE "running", 0)

TakeText ==
    /\ pending.is = "text" /\ kind = "answer"
    /\ outcome' = [outcome EXCEPT !.text = @ + pending.size]
    /\ channel' = Append(channel, Say("delta", pending.size))
    /\ Goes("waiting") /\ Resumed /\ Late

\* Mutated form: the draft ends only with the piece behind a full one.
CutDraftLate ==
    /\ pending.is = "text" /\ kind = "draft"
    /\ LET room == MaxChars - outcome.text
           piece == Min({pending.size, room})
           delta == IF piece = 0 THEN << >> ELSE <<Say("delta", piece)>>
           full == room = 0
       IN  /\ channel' = channel \o delta \o (IF full THEN <<Say("cut", 0)>> ELSE << >>)
           /\ outcome' = [outcome EXCEPT !.text = @ + piece,
                                         !.status = IF full THEN "length_limit" ELSE @]
           /\ IF full THEN Goes("closing") /\ UNCHANGED pending
              ELSE Goes("waiting") /\ Resumed
    /\ Late

\* A draft is cut at memory.max_chars and ends there.
TakeDraft ==
    /\ pending.is = "text" /\ kind = "draft"
    /\ LET room == MaxChars - outcome.text
           piece == Min({pending.size, room})
           delta == IF piece = 0 THEN << >> ELSE <<Say("delta", piece)>>
           full == pending.size > room
       IN  /\ channel' = channel \o delta \o (IF full THEN <<Say("cut", 0)>> ELSE << >>)
           /\ outcome' = [outcome EXCEPT !.text = @ + piece,
                                         !.status = IF full THEN "length_limit" ELSE @]
           /\ IF full THEN Goes("closing") /\ UNCHANGED pending
              ELSE Goes("waiting") /\ Resumed
    /\ Late

TakeUsage ==
    /\ pending.is = "usage"
    /\ Goes("waiting") /\ Resumed
    /\ UNCHANGED <<outcome, channel, late>>

Ended == IF request.finish = "length" THEN "length_limit" ELSE "complete"
EndingOf(status) == IF status = "complete" THEN "done" ELSE "cut"

\* A draft ends at once, an answer when it is saved.
TakeFinished ==
    /\ pending.is = "finished"
    /\ outcome' = [outcome EXCEPT !.status = Ended]
    /\ channel' = IF kind = "draft" THEN Append(channel, Say(EndingOf(Ended), 0)) ELSE channel
    /\ Goes("closing")
    /\ UNCHANGED <<pending, late>>

TakeFailure ==
    /\ pending.is \in Failures
    /\ outcome' = [outcome EXCEPT !.status = "error",
                                  !.code = IF pending.is = "context_overflow"
                                           THEN "message_too_long" ELSE pending.is]
    /\ Goes("closing")
    /\ UNCHANGED <<pending, channel, late>>

Taken ==
    /\ TakeText \/ TakeDraft \/ TakeUsage \/ TakeFinished \/ TakeFailure
    /\ UNCHANGED <<world, term, look, request, row, page>>

\* Mutated form: what is there is taken before anything else is looked at.
TakeAtOnce == task.pc = "waiting" /\ Taken

Take == task.pc = "waiting" /\ page.open /\ ~term /\ ~look /\ Taken

LookAtSubject ==
    /\ task.pc = "subject"
    /\ \/ ~subject /\ Interrupt("error", "dialog_deleted") /\ UNCHANGED clock
       \/ subject /\ Taken
       \/ /\ subject /\ pending.is = "running"
          /\ Goes("waiting")
          /\ UNCHANGED <<world, clock, request, pending, outcome, row, told>>

-----------------------------------------------------------------------------
(* The end: the request is given up, the answer saved, the page told.      *)

\* Mutated form: only a request that has not answered is given up.
GivenUpIfRunning == request' = [request EXCEPT !.open = @ /\ pending.is # "running"]

\* The call in progress is cancelled, the stream of the model closed.
GivenUp == request' = [request EXCEPT !.open = FALSE]

\* Mutated form: it is tried as often as there is some history left.
CloseAndRetry ==
    /\ task.pc = "closing"
    /\ GivenUp
    /\ pending' = Nothing
    /\ \/ /\ kind = "answer" /\ pending.is = "context_overflow"
          /\ outcome.code = "message_too_long"
          /\ task' = [pc |-> "asking", attempt |-> task.attempt + 1]
          /\ outcome' = Unsaved
       \/ /\ Goes(IF kind = "draft" \/ outcome.code = "dialog_deleted" THEN "telling"
                  ELSE "saving")
          /\ UNCHANGED outcome
    /\ UNCHANGED <<world, clock, row, told>>

\* An answer refused for its length is tried once more with less of the history, if there is
\* any.
Close ==
    /\ task.pc = "closing"
    /\ GivenUp
    /\ pending' = Nothing
    /\ \/ /\ kind = "answer" /\ pending.is = "context_overflow"
          /\ outcome.code = "message_too_long" /\ task.attempt = 1
          /\ task' = [pc |-> "asking", attempt |-> task.attempt + 1]
          /\ outcome' = Unsaved
       \/ /\ Goes(IF kind = "draft" \/ outcome.code = "dialog_deleted" THEN "telling"
                  ELSE "saving")
          /\ UNCHANGED outcome
    /\ UNCHANGED <<world, clock, row, told>>

Saved == IF subject THEN [status |-> outcome.status, text |-> outcome.text] ELSE row

Save ==
    /\ task.pc = "saving"
    /\ row' = Saved
    /\ Goes("telling")
    /\ UNCHANGED <<world, clock, request, pending, outcome, told>>

\* Mutated form: the failure is logged only.
SaveFailsQuietly ==
    /\ task.pc = "saving"
    /\ row' \in {row, Saved}
    /\ Goes("telling")
    /\ UNCHANGED <<world, clock, request, pending, outcome, told>>

\* All attempts fail, the last perhaps after it was committed.
SaveFails ==
    /\ task.pc = "saving"
    /\ row' \in {row, Saved}
    /\ outcome' = [outcome EXCEPT !.status = "error", !.code = "internal_error"]
    /\ Goes("telling")
    /\ UNCHANGED <<world, clock, request, pending, told>>

\* What follows a whole answer, a test or an edit, is watched too.
CutOff ==
    {"no"} \union (IF ~page.open THEN {"stopped"} ELSE {})
      \union (IF session /\ subject THEN {} ELSE {"error"})

Tell ==
    /\ task.pc = "telling" /\ kind = "answer"
    /\ \E why \in IF outcome.status \in Whole THEN CutOff ELSE {outcome.status} :
        channel' = channel
            \o (CASE why = "no" -> <<Say(EndingOf(outcome.status), 0)>>
                  [] why = "error" -> <<Say("error", 0)>>
                  [] why = "stopped" -> << >>)
            \o <<Say("end", 0)>>
    /\ Goes("idle")
    /\ UNCHANGED <<world, clock, request, pending, outcome, row, page>>

\* The end of a draft, whose ending it has been told.
TellDraft ==
    /\ task.pc = "telling" /\ kind = "draft"
    /\ channel' = channel \o (IF outcome.status = "error" THEN <<Say("error", 0)>> ELSE << >>)
                          \o <<Say("end", 0)>>
    /\ Goes("idle")
    /\ UNCHANGED <<world, clock, request, pending, outcome, row, page>>

-----------------------------------------------------------------------------
World == EndSession \/ DeleteSubject \/ LookDue \/ Leave

Model ==
    \/ \E size \in {0} \union Sizes, finish \in {"none", "stop", "length"}, usage \in BOOLEAN :
         Chunk(size, finish, usage)
    \/ BodyEnds \/ Breaks \/ Refused

Asking == Ask \/ AskFails

Waiting == Stop \/ TimeOut \/ LookAgain \/ LookAtSession \/ LookAtSubject \/ LookFails \/ Take

Ending == Close \/ Save \/ SaveFails \/ Tell \/ TellDraft

Next ==
    \/ \E k \in {"answer", "draft"}, tail \in BOOLEAN : Start(k, tail)
    \/ World \/ TermEnds \/ Receive
    \/ Model \/ Asking \/ Waiting \/ Ending

Spec == Init /\ [][Next]_vars

(* Time passes, the event loop runs tasks, and statements of the database   *)
(* end.  The model, the page and everybody else owe nothing; an open page   *)
(* reads what it is sent.                                                   *)
FairSpec ==
    /\ Spec
    /\ WF_vars(TermEnds) /\ WF_vars(Receive)
    /\ WF_vars(Asking) /\ WF_vars(Waiting) /\ WF_vars(Ending)

-----------------------------------------------------------------------------
(* Properties.                                                             *)

Coming == {i \in 1..Len(channel) : channel[i].type \in Endings}

Truncated == request.said > MaxChars \/ request.finish = "length"

(* A page that reads on gets exactly one ending and nothing but the close behind it.  Told  *)
(* that the answer is whole, it has every character the model said, in the state that is    *)
(* saved; a draft has every character up to the limit, and says whether something is        *)
(* missing.                                                                                 *)
EndingIsTrue ==
    /\ Len(page.endings) + Cardinality(Coming) <= 1
    /\ page.open /\ task.pc = "idle" => Len(page.endings) + Cardinality(Coming) = 1
    /\ \A i \in 1..Len(channel) :
        page.endings # << >> \/ (\E j \in 1..(i - 1) : channel[j].type \in Endings) =>
            channel[i].type = "end"
    /\ \A ending \in {"done", "cut"} \intersect ToSet(page.endings) :
        /\ request.finish # "none" \/ (kind = "draft" /\ Truncated)
        /\ kind = "answer" =>
            /\ page.text = request.said
            /\ ending = EndingOf(Ended)
            /\ subject => row = [status |-> Ended, text |-> page.text]
        /\ kind = "draft" =>
            /\ page.text = Min({request.said, MaxChars})
            /\ (ending = "cut") = Truncated

(* A stream whose time is over, whose session or subject is found gone, passes on one more  *)
(* piece at most; when it has ended, nothing of it runs on at the model.                    *)
CutOffIsHeeded ==
    /\ late # "more"
    /\ task.pc \in {"idle", "saving", "telling"} => ~request.open /\ pending = Nothing

(* Whatever the model does, a stream ends: its mark is taken off and its page closed.       *)
EveryStreamEnds ==
    task.pc # "idle" \/ page.open ~> task.pc = "idle" /\ ~page.open
=============================================================================
