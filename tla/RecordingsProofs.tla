-------------------------- MODULE RecordingsProofs --------------------------
(***************************************************************************)
(* Proofs about recordings, for every set of recordings, files and places, *)
(* every limit of attempts and every set of faults: the types, the files   *)
(* of a row and the outcome of a transcription.                            *)
(*                                                                         *)
(* A step is first told as what it does to its own recording, task and     *)
(* file (Marked, Handed, Walks, Filed...); that it keeps the invariant is  *)
(* then a matter of first order for each part.                             *)
(***************************************************************************)
EXTENDS Recordings, TLAPS

(* Whose upload has not come to a row yet has nothing but its file, a recent one;   *)
(* attachments alone get a job after their row.                                      *)
New(r) == request[r] \in {"unused", "received"}
UploadsFit ==
    \A r \in Recordings :
        /\ New(r) => row[r] = None /\ job[r] = None /\ Unattended(r)
        /\ request[r] = "unused" => file[r] = "none"
        /\ request[r] = "received" => file[r] = "new"
        /\ request[r] = "enqueue" => owner[r] = "chat"

OfTranscription == {"begin", "link", "transcribe", "complete", "fail", "unlink", "finish",
                    "postpone"} \union Returns
OfIndexing == {"start", "work", "reject", "compress", "record", "replace", "tidy", "retry",
               "giveUp", "finish"} \union Returns
OfErasure == {"erase"} \union Returns

(* Attachments are transcribed, documents indexed or erased, each by its own steps. *)
KindsFit ==
    /\ \A r \in Recordings : job[r] # None =>
           /\ job[r].kind = "transcribe" <=> owner[r] = "chat"
           /\ job[r].kind = "delete" => row[r] = None \/ row[r].deleted
    /\ \A p \in Places : place[p] # None =>
           /\ place[p].kind = "transcribe" <=> owner[place[p].rec] = "chat"
           /\ place[p].kind = "transcribe" => place[p].pc \in OfTranscription
           /\ place[p].kind = "index" => place[p].pc \in OfIndexing
           /\ place[p].kind = "delete" =>
                  /\ place[p].pc \in OfErasure
                  /\ row[place[p].rec] = None \/ row[place[p].rec].deleted

(* What is marked as deleted keeps the job that erases it. *)
DeletionsStay ==
    \A r \in Recordings : row[r] # None /\ row[r].deleted =>
        job[r] # None /\ job[r].kind = "delete"

(* A document that is ready has its sound, no two have the same. *)
RowsFit ==
    /\ \A r \in Recordings : owner[r] = "kb" /\ row[r] # None =>
           /\ ~row[r].sent
           /\ row[r].status = "ready" => row[r].audio # None
    /\ \A r, s \in Recordings :
           row[r] # None /\ row[s] # None /\ row[r].audio # None /\ row[r].audio = row[s].audio
               => r = s

(* Past its first step a transcription has marked its row, past its last it has settled   *)
(* it; an indexing that comes to the replacement has the sound.                           *)
TasksFit ==
    \A p \in Places : place[p] # None =>
        LET r == place[p].rec
            pc == place[p].pc
        IN  /\ place[p].kind = "transcribe" =>
                   /\ pc \in {"unlink", "finish"} => ~Unfinished(r)
                   /\ worker = "up" /\ pc \notin {"begin"} \union Returns => ~Is(r, "queued")
            /\ pc \in {"replace", "tidy"} /\ row[r] # None => row[r].audio # None

(* An attachment without an outcome that has no job never had one. *)
JobsStay ==
    \A r \in Recordings : owner[r] = "chat" /\ Unfinished(r) /\ job[r] = None =>
        Is(r, "queued") /\ Unattended(r)

(* The start of the backend knows exactly those nobody will transcribe. *)
Jobless(r) == owner[r] = "chat" /\ Is(r, "queued") /\ job[r] = None
AlignmentFits ==
    /\ backend # "up" => \A r \in Recordings : request[r] \in {"unused", "none"}
    /\ seen \subseteq {r \in Recordings : owner[r] = "chat"}
    /\ backend \in {"pending", "fail"} => \A r \in Recordings : Jobless(r) => r \in seen
    /\ backend = "fail" => \A r \in seen : job[r] = None
    /\ backend = "files" =>
           /\ \A r \in Recordings : ~Jobless(r)
           /\ \A r \in seen : ~Unfinished(r)

(* The sound a task has made is nobody else's yet. *)
SoundsAreHeld ==
    \A p \in Places : place[p] # None =>
        LET k == place[p].key
        IN  /\ k # None <=> place[p].pc = "record"
            /\ k # None =>
                   /\ file[k] = "new" /\ k \notin janitor.stale
                   /\ \A r \in Recordings : row[r] # None => row[r].audio # k
                   /\ \A q \in Places \ {p} : place[q] # None => place[q].key # k

(* A file is in use by a row: that of an attachment is, whatever became of it. *)
Uses(r, k) ==
    /\ row[r] # None
    /\ \/ k = r /\ (owner[r] = "chat" \/ row[r].source)
       \/ k = row[r].audio /\ owner[r] = "kb" /\ row[r].audio # None

(* What the sweep has listed was there, and is not in use once it has asked for the keys. *)
StaleAreUnused ==
    /\ \A r \in Recordings : r \in janitor.stale => ~New(r)
    /\ janitor.pc = "orphans" => \A k \in janitor.stale, r \in Recordings : ~Uses(r, k)

(* FilesInUse, file by file. *)
FilesAreThere ==
    \A r \in Recordings : LiveRow(r) =>
        /\ owner[r] = "chat" /\ Unfinished(r) /\ r \notin lost => file[r] # "none"
        /\ owner[r] = "kb" /\ row[r].source /\ r \notin lost => file[r] # "none"
        /\ owner[r] = "kb" /\ row[r].audio # None /\ row[r].audio \notin lost =>
               file[row[r].audio] # "none"

(* Nobody works while the worker is down. *)
DownIsEmpty == worker = "down" => \A p \in Places : place[p] = None

(* The inductive invariant. *)
RecordingsInv ==
    /\ TypeOK
    /\ UploadsFit
    /\ KindsFit
    /\ DeletionsStay
    /\ RowsFit
    /\ TasksFit
    /\ JobsStay
    /\ AlignmentFits
    /\ SoundsAreHeld
    /\ StaleAreUnused
    /\ DownIsEmpty
    /\ FilesAreThere
-----------------------------------------------------------------------------
(* What the operators of the model do.                                     *)

PCs == Chores \union Steps \union Returns

OthersWork(p) == \A q \in Places \ {p} : place'[q] = place[q]

(* The task at p goes to a step and is the same in all else. *)
Walks(p, pc) ==
    /\ place' \in [Places -> Task \union {None}]
    /\ place'[p] # None
    /\ place'[p].rec = place[p].rec /\ place'[p].kind = place[p].kind
    /\ place'[p].attempts = place[p].attempts
    /\ place'[p].pc = pc
    /\ OthersWork(p)

LEMMA TaskTyped ==
  ASSUME TypeOK, NEW p \in Places, place[p] # None
  PROVE  /\ place[p] \in Task
         /\ place[p].rec \in Recordings /\ place[p].kind \in {"transcribe", "index", "delete"}
         /\ place[p].attempts \in 0..Cap /\ place[p].pc \in PCs
         /\ place[p].key \in AudioKeys \union {None}
  BY DEF TypeOK, Task, PCs

LEMMA GoesWalks ==
  ASSUME TypeOK, NEW p \in Places, place[p] # None, NEW pc \in PCs, Goes(p, pc)
  PROVE  Walks(p, pc) /\ place'[p].key = place[p].key
<1> DEFINE task == [place[p] EXCEPT !.pc = pc]
<1>1. /\ task \in Task /\ task.rec = place[p].rec /\ task.kind = place[p].kind
      /\ task.attempts = place[p].attempts /\ task.pc = pc /\ task.key = place[p].key
  BY TaskTyped DEF Task, PCs
<1>2. place' = [place EXCEPT ![p] = task]  BY DEF Goes
<1> HIDE DEF task
<1> QED  BY <1>1, <1>2, RecordsAssumption DEF Walks, OthersWork, TypeOK

LEMMA KeyLeftWalks ==
  ASSUME TypeOK, NEW p \in Places, place[p] # None, NEW pc \in PCs, KeyLeft(p, pc)
  PROVE  Walks(p, pc) /\ place'[p].key = None
<1> DEFINE task == [place[p] EXCEPT !.pc = pc, !.key = None]
<1>1. /\ task \in Task /\ task.rec = place[p].rec /\ task.kind = place[p].kind
      /\ task.attempts = place[p].attempts /\ task.pc = pc /\ task.key = None
  BY TaskTyped DEF Task, PCs
<1>2. place' = [place EXCEPT ![p] = task]  BY DEF KeyLeft
<1> HIDE DEF task
<1> QED  BY <1>1, <1>2, RecordsAssumption DEF Walks, OthersWork, TypeOK

LEMMA LeavesEmpty ==
  ASSUME TypeOK, NEW p \in Places, Leaves(p)
  PROVE  place' \in [Places -> Task \union {None}] /\ place'[p] = None /\ OthersWork(p)
  BY DEF TypeOK, Leaves, OthersWork

LEMMA RowTyped ==
  ASSUME TypeOK, NEW r \in Recordings, row[r] # None
  PROVE  /\ row[r] \in Row /\ row[r].status \in {"queued", "processing", "ready", "error"}
         /\ row[r].sent \in BOOLEAN /\ row[r].source \in BOOLEAN /\ row[r].deleted \in BOOLEAN
         /\ row[r].audio \in AudioKeys \union {None}
         /\ row[r].sent => row[r].status = "ready"
  BY DEF TypeOK, Row, Final

RowsTyped ==
    /\ row' \in [Recordings -> Row \union {None}]
    /\ \A r \in Recordings : row'[r] # None /\ row'[r].sent => row'[r].status = "ready"

OthersKept(r) == \A s \in Recordings \ {r} : row'[s] = row[s]

(* The row of r gets a status and is the same in all else. *)
Marked(r, status) ==
    /\ RowsTyped
    /\ row'[r] # None /\ row'[r].status = status
    /\ row'[r].sent = row[r].sent /\ row'[r].source = row[r].source
    /\ row'[r].audio = row[r].audio /\ row'[r].deleted = row[r].deleted
    /\ OthersKept(r)

LEMMA StatusMarked ==
  ASSUME TypeOK, NEW r \in Recordings, row[r] # None,
         NEW status \in {"queued", "processing", "ready", "error"},
         ~row[r].sent \/ status = "ready",
         row' = [row EXCEPT ![r].status = status]
  PROVE  Marked(r, status)
<1> DEFINE new == [row[r] EXCEPT !.status = status]
<1>1. /\ new \in Row /\ new.status = status /\ new.sent = row[r].sent
      /\ new.source = row[r].source /\ new.audio = row[r].audio /\ new.deleted = row[r].deleted
  BY RowTyped DEF Row, Final
<1>2. row' = [row EXCEPT ![r] = new]  OBVIOUS
<1> HIDE DEF new
<1>3. row \in [Recordings -> Row \union {None}]  BY DEF TypeOK
<1>4. row' \in [Recordings -> Row \union {None}] /\ row'[r] = new /\ OthersKept(r)
  BY <1>1, <1>2, <1>3 DEF OthersKept
<1> QED  BY <1>1, <1>4, RecordsAssumption DEF Marked, RowsTyped, OthersKept, TypeOK

LEMMA MovedMarks ==
  ASSUME TypeOK, NEW r \in Recordings, NEW from \in SUBSET {"queued", "processing"},
         NEW to \in {"queued", "processing", "ready", "error"}, row' = Moved(r, from, to)
  PROVE  \/ row[r] # None /\ row[r].status \in from /\ Marked(r, to)
         \/ ~(row[r] # None /\ row[r].status \in from) /\ row' = row
<1>1. CASE \E s \in from : Is(r, s)
  BY <1>1, RowTyped, StatusMarked DEF Moved, Is
<1>2. CASE ~ \E s \in from : Is(r, s)
  BY <1>2 DEF Moved, Is
<1> QED  BY <1>1, <1>2

OthersStand(r) == \A s \in Recordings \ {r} : job'[s] = job[s]

LEMMA JobTyped ==
  ASSUME TypeOK, NEW r \in Recordings, job[r] # None
  PROVE  /\ job[r] \in Job /\ job[r].kind \in {"transcribe", "index", "delete"}
         /\ job[r].attempts \in 0..Cap /\ job[r].leased \in BOOLEAN
  BY DEF TypeOK, Job

(* The job of r changes hands: it stays the job it was. *)
Handed(r) ==
    /\ job' \in [Recordings -> Job \union {None}]
    /\ job'[r] # None /\ job'[r].kind = job[r].kind
    /\ OthersStand(r)

LEMMA NewJobIsJob ==
  ASSUME NEW kind \in {"transcribe", "index", "delete"}
  PROVE  NewJob(kind) \in Job /\ NewJob(kind).kind = kind /\ NewJob(kind) # None
<1>1. NewJob(kind) \in Job /\ NewJob(kind).kind = kind
  BY AttemptsAssumption DEF NewJob, Job, Cap
<1> QED  BY <1>1, RecordsAssumption

LEMMA LeaseHanded ==
  ASSUME TypeOK, NEW r \in Recordings, job[r] # None, NEW leased \in BOOLEAN,
         job' = [job EXCEPT ![r].leased = leased]
  PROVE  Handed(r)
<1> DEFINE new == [job[r] EXCEPT !.leased = leased]
<1>1. new \in Job /\ new.kind = job[r].kind  BY JobTyped DEF Job
<1>2. job' = [job EXCEPT ![r] = new]  OBVIOUS
<1> HIDE DEF new
<1> QED  BY <1>1, <1>2, RecordsAssumption DEF Handed, OthersStand, TypeOK

LEMMA TakenHanded ==
  ASSUME TypeOK, NEW r \in Recordings, job[r] # None, job' = Taken(r)
  PROVE  Handed(r) /\ Counted(r) \in 0..Cap
<1> DEFINE new == [job[r] EXCEPT !.attempts = Counted(r), !.leased = TRUE]
<1>1. Counted(r) \in 0..Cap  BY JobTyped, AttemptsAssumption DEF Counted, Cap
<1>2. new \in Job /\ new.kind = job[r].kind  BY <1>1, JobTyped DEF Job
<1>3. job' = [job EXCEPT ![r] = new]  BY DEF Taken
<1> HIDE DEF new
<1> QED  BY <1>1, <1>2, <1>3, RecordsAssumption DEF Handed, OthersStand, TypeOK

LEMMA UncountedHanded ==
  ASSUME TypeOK, NEW r \in Recordings, job[r] # None, job' = Uncounted(r)
  PROVE  Handed(r)
<1> DEFINE n == IF job[r].attempts = 0 THEN 0 ELSE job[r].attempts - 1
           new == [job[r] EXCEPT !.leased = FALSE, !.attempts = n]
<1>1. n \in 0..Cap  BY JobTyped, AttemptsAssumption DEF Cap
<1>2. new \in Job /\ new.kind = job[r].kind  BY <1>1, JobTyped DEF Job
<1>3. job' = [job EXCEPT ![r] = new]  BY DEF Uncounted
<1> HIDE DEF new
<1> QED  BY <1>2, <1>3, RecordsAssumption DEF Handed, OthersStand, TypeOK

RequestPCs == {"unused", "none", "received", "enqueue", "undo", "drop"}

(* The request about r comes to a step. *)
Asks(r, pc) ==
    /\ request' \in [Recordings -> RequestPCs]
    /\ request'[r] = pc
    /\ \A s \in Recordings \ {r} : request'[s] = request[s]

LEMMA DoesAsks ==
  ASSUME TypeOK, NEW r \in Recordings, NEW pc \in RequestPCs, Does(r, pc)
  PROVE  Asks(r, pc)
  BY DEF TypeOK, Does, Asks, RequestPCs

(* A file comes to be, or goes; the others are left. *)
Filed(k, age) ==
    /\ file' \in [Keys -> {"none", "new", "old"}]
    /\ file'[k] = age
    /\ \A j \in Keys \ {k} : file'[j] = file[j]

LEMMA UnlinkedFiled ==
  ASSUME TypeOK, NEW k \in Keys, NEW referred \in BOOLEAN, Unlinked(k, referred)
  PROVE  /\ Filed(k, "none")
         /\ lost' \in SUBSET Keys /\ lost \subseteq lost' /\ (referred => k \in lost')
  BY DEF TypeOK, Unlinked, Filed

(* Source files and files of sound are different files. *)
LEMMA KeysApart ==
  /\ Recordings \subseteq Keys /\ AudioKeys \subseteq Keys
  /\ \A r \in Recordings : r \notin AudioKeys
  BY KeysAssumption DEF Keys

(* The row goes with its job. *)
LEMMA DeletedTogether ==
  ASSUME TypeOK, NEW r \in Recordings, RowDeleted(r)
  PROVE  /\ RowsTyped /\ row'[r] = None /\ OthersKept(r)
         /\ job' \in [Recordings -> Job \union {None}] /\ job'[r] = None /\ OthersStand(r)
  BY DEF TypeOK, RowDeleted, RowsTyped, OthersKept, OthersStand

LEMMA NewRowIsRow ==
  /\ NewRow \in Row /\ NewRow # None
  /\ NewRow.status = "queued" /\ ~NewRow.sent /\ ~NewRow.deleted /\ NewRow.audio = None
<1>1. /\ NewRow \in Row /\ NewRow.status = "queued"
      /\ ~NewRow.sent /\ ~NewRow.deleted /\ NewRow.audio = None
  BY DEF NewRow, Row, Final
<1> QED  BY <1>1, RecordsAssumption

(* One field of a row changes. *)
LEMMA SentRow ==
  ASSUME TypeOK, NEW r \in Recordings, row[r] # None, row[r].status = "ready",
         row' = [row EXCEPT ![r].sent = TRUE]
  PROVE  /\ RowsTyped /\ OthersKept(r) /\ row'[r] # None
         /\ row'[r].status = "ready" /\ row'[r].source = row[r].source
         /\ row'[r].audio = row[r].audio /\ row'[r].deleted = row[r].deleted
<1> DEFINE new == [row[r] EXCEPT !.sent = TRUE]
<1>1. /\ new \in Row /\ new.status = "ready" /\ new.source = row[r].source
      /\ new.audio = row[r].audio /\ new.deleted = row[r].deleted
  BY RowTyped DEF Row, Final
<1>2. row' = [row EXCEPT ![r] = new]  OBVIOUS
<1> HIDE DEF new
<1>3. row \in [Recordings -> Row \union {None}]  BY DEF TypeOK
<1>4. row' \in [Recordings -> Row \union {None}] /\ row'[r] = new /\ OthersKept(r)
  BY <1>1, <1>2, <1>3 DEF OthersKept
<1> QED  BY <1>1, <1>4, RecordsAssumption DEF RowsTyped, OthersKept, TypeOK

LEMMA DeletedRow ==
  ASSUME TypeOK, NEW r \in Recordings, row[r] # None,
         row' = [row EXCEPT ![r].deleted = TRUE]
  PROVE  /\ RowsTyped /\ OthersKept(r) /\ row'[r] # None /\ row'[r].deleted
         /\ row'[r].status = row[r].status /\ row'[r].sent = row[r].sent
         /\ row'[r].source = row[r].source /\ row'[r].audio = row[r].audio
<1> DEFINE new == [row[r] EXCEPT !.deleted = TRUE]
<1>1. /\ new \in Row /\ new.status = row[r].status /\ new.source = row[r].source
      /\ new.audio = row[r].audio /\ new.sent = row[r].sent /\ new.deleted
  BY RowTyped DEF Row, Final
<1>2. row' = [row EXCEPT ![r] = new]  OBVIOUS
<1> HIDE DEF new
<1>3. row \in [Recordings -> Row \union {None}]  BY DEF TypeOK
<1>4. row' \in [Recordings -> Row \union {None}] /\ row'[r] = new /\ OthersKept(r)
  BY <1>1, <1>2, <1>3 DEF OthersKept
<1> QED  BY <1>1, <1>4, RecordsAssumption DEF RowsTyped, OthersKept, TypeOK

LEMMA SourceGone ==
  ASSUME TypeOK, NEW r \in Recordings, row[r] # None,
         row' = [row EXCEPT ![r].source = FALSE]
  PROVE  /\ RowsTyped /\ OthersKept(r) /\ row'[r] # None /\ ~row'[r].source
         /\ row'[r].status = row[r].status /\ row'[r].sent = row[r].sent
         /\ row'[r].audio = row[r].audio /\ row'[r].deleted = row[r].deleted
<1> DEFINE new == [row[r] EXCEPT !.source = FALSE]
<1>1. /\ new \in Row /\ new.status = row[r].status /\ new.sent = row[r].sent
      /\ new.audio = row[r].audio /\ new.deleted = row[r].deleted /\ ~new.source
  BY RowTyped DEF Row, Final
<1>2. row' = [row EXCEPT ![r] = new]  OBVIOUS
<1> HIDE DEF new
<1>3. row \in [Recordings -> Row \union {None}]  BY DEF TypeOK
<1>4. row' \in [Recordings -> Row \union {None}] /\ row'[r] = new /\ OthersKept(r)
  BY <1>1, <1>2, <1>3 DEF OthersKept
<1> QED  BY <1>1, <1>4, RecordsAssumption DEF RowsTyped, OthersKept, TypeOK

LEMMA SoundRow ==
  ASSUME TypeOK, NEW r \in Recordings, row[r] # None, NEW k \in AudioKeys,
         row' = SoundOf(r, k)
  PROVE  /\ RowsTyped /\ OthersKept(r) /\ row'[r] # None /\ row'[r].audio = k
         /\ row'[r].status = row[r].status /\ row'[r].sent = row[r].sent
         /\ row'[r].source = row[r].source /\ row'[r].deleted = row[r].deleted
<1> DEFINE new == [row[r] EXCEPT !.audio = k]
<1>1. /\ new \in Row /\ new.status = row[r].status /\ new.sent = row[r].sent
      /\ new.source = row[r].source /\ new.deleted = row[r].deleted /\ new.audio = k
  BY RowTyped DEF Row, Final
<1>2. row' = [row EXCEPT ![r] = new]  BY DEF SoundOf
<1> HIDE DEF new
<1>3. row \in [Recordings -> Row \union {None}]  BY DEF TypeOK
<1>4. row' \in [Recordings -> Row \union {None}] /\ row'[r] = new /\ OthersKept(r)
  BY <1>1, <1>2, <1>3 DEF OthersKept
<1> QED  BY <1>1, <1>4, RecordsAssumption DEF RowsTyped, OthersKept, TypeOK

(* A recording gets a new job. *)
LEMMA NewJobGiven ==
  ASSUME TypeOK, NEW r \in Recordings, NEW kind \in {"transcribe", "index", "delete"},
         job' = [job EXCEPT ![r] = NewJob(kind)]
  PROVE  /\ job' \in [Recordings -> Job \union {None}] /\ OthersStand(r)
         /\ job'[r] # None /\ job'[r].kind = kind
  BY NewJobIsJob DEF TypeOK, OthersStand

(* The source of a document is taken with the mark in its row, or is noted as lost. *)
SourceTaken(r) ==
    /\ row[r] # None
    /\ Filed(r, "none")
    /\ lost' \in SUBSET Keys /\ lost \subseteq lost'
    /\ \/ /\ RowsTyped /\ OthersKept(r) /\ row'[r] # None /\ ~row'[r].source
          /\ row'[r].status = row[r].status /\ row'[r].sent = row[r].sent
          /\ row'[r].audio = row[r].audio /\ row'[r].deleted = row[r].deleted
       \/ /\ row' = row
          /\ ~row[r].deleted => r \in lost'

LEMMA SourceDroppedTakes ==
  ASSUME TypeOK, NEW r \in Recordings, SourceDropped(r)
  PROVE  UNCHANGED <<row, file, lost>> \/ SourceTaken(r)
<1>1. CASE row[r] # None /\ row[r].source
  <2>1. row' = [row EXCEPT ![r].source = FALSE] /\ Unlinked(r, FALSE)
    BY <1>1 DEF SourceDropped
  <2>2. Filed(r, "none") /\ lost' \in SUBSET Keys /\ lost \subseteq lost'
    BY <2>1, UnlinkedFiled, KeysApart
  <2> QED  BY <1>1, <2>1, <2>2, SourceGone DEF SourceTaken
<1>2. CASE ~(row[r] # None /\ row[r].source)
  BY <1>2 DEF SourceDropped, disk
<1> QED  BY <1>1, <1>2

LEMMA SourceTornTakes ==
  ASSUME TypeOK, NEW r \in Recordings, SourceTorn(r)
  PROVE  SourceTaken(r)
<1>1. row[r] # None /\ row' = row /\ Unlinked(r, LiveRow(r))  BY DEF SourceTorn
<1>2. /\ Filed(r, "none") /\ lost' \in SUBSET Keys /\ lost \subseteq lost'
      /\ LiveRow(r) => r \in lost'
  BY <1>1, UnlinkedFiled, KeysApart DEF LiveRow
<1> QED  BY <1>1, <1>2 DEF SourceTaken, LiveRow

LEMMA JobGoneIs ==
  ASSUME TypeOK, NEW p \in Places, place[p] # None, job' = JobGone(p)
  PROVE  /\ job' \in [Recordings -> Job \union {None}] /\ OthersStand(place[p].rec)
         /\ job'[place[p].rec] = IF Own(p) THEN None ELSE job[place[p].rec]
  BY TaskTyped DEF JobGone, TypeOK, OthersStand
-----------------------------------------------------------------------------
(* Requests keep the invariant.                                            *)

LEMMA ReceiveKeeps ==
  ASSUME RecordingsInv, NEW r \in Recordings, Receive(r)
  PROVE  RecordingsInv'
<1> USE DEF RecordingsInv, New, Is, LiveRow, Unfinished, Unattended, TaskOf, Jobless,
       Uses, OthersKept, OthersStand, OthersWork, Asks, Filed
<1>1. /\ backend = "up" /\ request[r] = "unused"
      /\ UNCHANGED <<owner, backend, seen, worker, place, janitor>>
      /\ UNCHANGED <<row, job, lost>>
  BY DEF Receive, Serves, others, process
<1>2. Asks(r, "received") /\ Filed(r, "new")
  BY DoesAsks, KeysApart DEF Receive, RequestPCs, Filed, TypeOK
<1>3. TypeOK'  BY <1>1, <1>2 DEF TypeOK, RequestPCs
<1>4. UploadsFit'
  BY <1>1, <1>2, KeysApart DEF UploadsFit
<1>5. KindsFit'  BY <1>1, <1>2, TaskTyped DEF KindsFit
<1>6. DeletionsStay'  BY <1>1, <1>2, TaskTyped DEF DeletionsStay
<1>7. RowsFit'  BY <1>1, <1>2 DEF RowsFit
<1>8. TasksFit'  BY <1>1, <1>2, TaskTyped DEF TasksFit
<1>9. JobsStay'  BY <1>1, <1>2 DEF JobsStay
<1>10. AlignmentFits'  BY <1>1, <1>2 DEF AlignmentFits
<1>11. SoundsAreHeld'
  BY <1>1, <1>2, TaskTyped, KeysApart DEF SoundsAreHeld
<1>12. StaleAreUnused'  BY <1>1, <1>2 DEF StaleAreUnused
<1>13. DownIsEmpty'  BY <1>1, <1>2 DEF DownIsEmpty
<1>14. FilesAreThere'
  BY <1>1, <1>2, RowTyped, KeysApart DEF FilesAreThere, UploadsFit
<1> QED  BY <1>3, <1>4, <1>5, <1>6, <1>7, <1>8, <1>9, <1>10, <1>11, <1>12, <1>13, <1>14

LEMMA InsertKeeps ==
  ASSUME RecordingsInv, NEW r \in Recordings, Insert(r)
  PROVE  RecordingsInv'
<1> USE DEF RecordingsInv, New, Is, LiveRow, Unfinished, Unattended, TaskOf, Jobless,
       Uses, OthersKept, OthersStand, OthersWork
<1>1. /\ request[r] = "received" /\ row[r] = None /\ job[r] = None /\ file[r] = "new"
      /\ UNCHANGED <<owner, backend, seen, worker, place, janitor>>
      /\ UNCHANGED <<file, lost>>
  BY DEF Insert, UploadsFit, disk, others, process
<1>2. /\ request' \in [Recordings -> RequestPCs]
      /\ request'[r] \in {"enqueue", "none", "drop"}
      /\ request'[r] = "enqueue" => owner[r] = "chat"
      /\ \A s \in Recordings \ {r} : request'[s] = request[s]
  BY DEF Insert, Does, TypeOK, RequestPCs
<1>3. /\ NewRow \in Row /\ NewRow # None /\ NewRow.status = "queued"
      /\ ~NewRow.sent /\ ~NewRow.deleted /\ NewRow.audio = None
  BY NewRowIsRow
<1>4. \/ row' = row /\ job' = job
      \/ /\ RowsTyped /\ OthersKept(r) /\ row'[r] = NewRow
         /\ OthersStand(r) /\ job' \in [Recordings -> Job \union {None}]
         /\ \/ owner[r] = "chat" /\ job'[r] = None
            \/ owner[r] = "kb" /\ job'[r] # None /\ job'[r].kind = "index"
  <2>1. owner[r] \in {"chat", "kb"}  BY DEF TypeOK, Owners
  <2>2. CASE Inserted(r)
    <3>1. row' = [row EXCEPT ![r] = NewRow]  BY <2>2 DEF Inserted
    <3>2. RowsTyped /\ OthersKept(r) /\ row'[r] = NewRow
      BY <1>3, <3>1 DEF RowsTyped, TypeOK
    <3>3. CASE owner[r] = "kb"
      <4>1. job' = [job EXCEPT ![r] = NewJob("index")]  BY <2>2, <3>3 DEF Inserted
      <4> QED  BY <3>2, <3>3, <4>1, NewJobIsJob DEF TypeOK
    <3>4. CASE owner[r] = "chat"
      <4>1. job' = job  BY <2>2, <3>4 DEF Inserted
      <4> QED  BY <1>1, <3>2, <3>4, <4>1 DEF TypeOK
    <3> QED  BY <2>1, <3>3, <3>4
  <2> QED  BY <2>2 DEF Insert
<1>5. TypeOK'  BY <1>1, <1>2, <1>3, <1>4 DEF TypeOK, RowsTyped, RequestPCs
<1>6. UploadsFit'  BY <1>1, <1>2, <1>3, <1>4, KeysApart DEF UploadsFit
<1>7. KindsFit'
  BY <1>1, <1>4, TaskTyped DEF KindsFit, UploadsFit
<1>8. DeletionsStay'  BY <1>1, <1>2, <1>3, <1>4, TaskTyped DEF DeletionsStay
<1>9. RowsFit'  BY <1>1, <1>2, <1>3, <1>4 DEF RowsFit
<1>10. TasksFit'
  BY <1>1, <1>3, <1>4, TaskTyped DEF TasksFit, UploadsFit
<1>11. JobsStay'
  BY <1>1, <1>3, <1>4, TaskTyped DEF JobsStay, UploadsFit
<1>12. AlignmentFits'  BY <1>1, <1>2, <1>3, <1>4 DEF AlignmentFits
<1>13. SoundsAreHeld'  BY <1>1, <1>2, <1>3, <1>4, TaskTyped, KeysApart DEF SoundsAreHeld
<1>14. StaleAreUnused'  BY <1>1, <1>2, <1>3, <1>4 DEF StaleAreUnused
<1>15. DownIsEmpty'  BY <1>1, <1>2, <1>3, <1>4 DEF DownIsEmpty
<1>16. FilesAreThere'  BY <1>1, <1>2, <1>3, <1>4, RowTyped, KeysApart DEF FilesAreThere
<1> QED  BY <1>5, <1>6, <1>7, <1>8, <1>9, <1>10, <1>11, <1>12, <1>13, <1>14, <1>15, <1>16

(* The job is added to a row that is there, or the upload is undone. *)
LEMMA EnqueueKeeps ==
  ASSUME RecordingsInv, NEW r \in Recordings, Enqueue(r)
  PROVE  RecordingsInv'
<1> USE DEF RecordingsInv, New, Is, LiveRow, Unfinished, Unattended, TaskOf, Jobless,
       Uses, OthersKept, OthersStand, OthersWork, Asks, Filed
<1>1. /\ request[r] = "enqueue" /\ owner[r] = "chat"
      /\ UNCHANGED <<owner, backend, seen, worker, place, janitor>>
      /\ UNCHANGED <<row, file, lost>>
  BY DEF Enqueue, UploadsFit, disk, others, process
<1>2. Asks(r, "none") \/ Asks(r, "undo")
  BY DoesAsks DEF Enqueue, RequestPCs
<1>3. /\ job' \in [Recordings -> Job \union {None}] /\ OthersStand(r)
      /\ \/ job'[r] = job[r]
         \/ job'[r] # None /\ job'[r].kind = "transcribe"
  BY NewJobGiven DEF Enqueue, TypeOK
<1>4. TypeOK'  BY <1>1, <1>2, <1>3 DEF TypeOK, RequestPCs
<1>5. UploadsFit'  BY <1>1, <1>2, <1>3, KeysApart DEF UploadsFit
<1>6. KindsFit'  BY <1>1, <1>2, <1>3, TaskTyped DEF KindsFit
<1>7. DeletionsStay'  BY <1>1, <1>2, <1>3, TaskTyped DEF DeletionsStay, KindsFit
<1>8. RowsFit'  BY <1>1, <1>2, <1>3 DEF RowsFit
<1>9. TasksFit'  BY <1>1, <1>2, <1>3, TaskTyped DEF TasksFit
<1>10. JobsStay'  BY <1>1, <1>2, <1>3 DEF JobsStay
<1>11. AlignmentFits'  BY <1>1, <1>2, <1>3 DEF AlignmentFits
<1>12. SoundsAreHeld'  BY <1>1, <1>2, <1>3, TaskTyped, KeysApart DEF SoundsAreHeld
<1>13. StaleAreUnused'  BY <1>1, <1>2, <1>3 DEF StaleAreUnused
<1>14. DownIsEmpty'  BY <1>1, <1>2, <1>3 DEF DownIsEmpty
<1>15. FilesAreThere'  BY <1>1, <1>2, <1>3, RowTyped, KeysApart DEF FilesAreThere
<1> QED  BY <1>4, <1>5, <1>6, <1>7, <1>8, <1>9, <1>10, <1>11, <1>12, <1>13, <1>14, <1>15

LEMMA UndoKeeps ==
  ASSUME RecordingsInv, NEW r \in Recordings, Undo(r)
  PROVE  RecordingsInv'
<1> USE DEF RecordingsInv, New, Is, LiveRow, Unfinished, Unattended, TaskOf, Jobless,
       Uses, OthersKept, OthersStand, OthersWork, Asks, Filed
<1>1. /\ request[r] = "undo"
      /\ UNCHANGED <<owner, backend, seen, worker, place, janitor>>
      /\ UNCHANGED <<file, lost>>
  BY DEF Undo, disk, others, process
<1>2. Asks(r, "none") \/ Asks(r, "drop")
  BY DoesAsks DEF Undo, RequestPCs
<1>3. \/ row' = row /\ job' = job
      \/ /\ RowsTyped /\ row'[r] = None /\ OthersKept(r)
         /\ job' \in [Recordings -> Job \union {None}] /\ job'[r] = None /\ OthersStand(r)
  BY DeletedTogether DEF Undo, TypeOK
<1>4. TypeOK'  BY <1>1, <1>2, <1>3 DEF TypeOK, RequestPCs, RowsTyped
<1>5. UploadsFit'  BY <1>1, <1>2, <1>3, KeysApart DEF UploadsFit
<1>6. KindsFit'  BY <1>1, <1>2, <1>3, TaskTyped DEF KindsFit
<1>7. DeletionsStay'  BY <1>1, <1>2, <1>3, TaskTyped DEF DeletionsStay
<1>8. RowsFit'  BY <1>1, <1>2, <1>3 DEF RowsFit
<1>9. TasksFit'  BY <1>1, <1>2, <1>3, TaskTyped DEF TasksFit
<1>10. JobsStay'  BY <1>1, <1>2, <1>3 DEF JobsStay
<1>11. AlignmentFits'  BY <1>1, <1>2, <1>3 DEF AlignmentFits
<1>12. SoundsAreHeld'  BY <1>1, <1>2, <1>3, TaskTyped, KeysApart DEF SoundsAreHeld
<1>13. StaleAreUnused'  BY <1>1, <1>2, <1>3 DEF StaleAreUnused
<1>14. DownIsEmpty'  BY <1>1, <1>2, <1>3 DEF DownIsEmpty
<1>15. FilesAreThere'  BY <1>1, <1>2, <1>3, RowTyped, KeysApart DEF FilesAreThere
<1> QED  BY <1>4, <1>5, <1>6, <1>7, <1>8, <1>9, <1>10, <1>11, <1>12, <1>13, <1>14, <1>15

LEMMA DropKeeps ==
  ASSUME RecordingsInv, NEW r \in Recordings, Drop(r)
  PROVE  RecordingsInv'
<1> USE DEF RecordingsInv, New, Is, LiveRow, Unfinished, Unattended, TaskOf, Jobless,
       Uses, OthersKept, OthersStand, OthersWork, Asks, Filed
<1>1. /\ request[r] = "drop"
      /\ UNCHANGED <<owner, backend, seen, worker, place, janitor>>
      /\ UNCHANGED <<row, job>>
  BY DEF Drop, others, process
<1>2. Asks(r, "none")
  BY DoesAsks DEF Drop, RequestPCs
<1>3. /\ Filed(r, "none")
      /\ lost' \in SUBSET Keys /\ lost \subseteq lost'
      /\ (row[r] # None /\ ~row[r].deleted => r \in lost')
  BY UnlinkedFiled, KeysApart DEF Drop
<1>4. TypeOK'  BY <1>1, <1>2, <1>3 DEF TypeOK, RequestPCs
<1>5. UploadsFit'  BY <1>1, <1>2, <1>3, KeysApart DEF UploadsFit
<1>6. KindsFit'  BY <1>1, <1>2, <1>3, TaskTyped DEF KindsFit
<1>7. DeletionsStay'  BY <1>1, <1>2, <1>3, TaskTyped DEF DeletionsStay
<1>8. RowsFit'  BY <1>1, <1>2, <1>3 DEF RowsFit
<1>9. TasksFit'  BY <1>1, <1>2, <1>3, TaskTyped DEF TasksFit
<1>10. JobsStay'  BY <1>1, <1>2, <1>3 DEF JobsStay
<1>11. AlignmentFits'  BY <1>1, <1>2, <1>3 DEF AlignmentFits
<1>12. SoundsAreHeld'  BY <1>1, <1>2, <1>3, TaskTyped, KeysApart DEF SoundsAreHeld
<1>13. StaleAreUnused'  BY <1>1, <1>2, <1>3 DEF StaleAreUnused
<1>14. DownIsEmpty'  BY <1>1, <1>2, <1>3 DEF DownIsEmpty
<1>15. FilesAreThere'  BY <1>1, <1>2, <1>3, RowTyped, KeysApart DEF FilesAreThere
<1> QED  BY <1>4, <1>5, <1>6, <1>7, <1>8, <1>9, <1>10, <1>11, <1>12, <1>13, <1>14, <1>15

LEMMA SendKeeps ==
  ASSUME RecordingsInv, NEW r \in Recordings, Send(r)
  PROVE  RecordingsInv'
<1> USE DEF RecordingsInv, New, Is, LiveRow, Unfinished, Unattended, TaskOf, Jobless,
       Uses, OthersKept, OthersStand, OthersWork, Asks, Filed
<1>1. /\ owner[r] = "chat" /\ row[r] # None /\ row[r].status = "ready"
      /\ UNCHANGED <<owner, backend, seen, worker, place, janitor>>
      /\ UNCHANGED <<job, file, lost, request>>
  BY DEF Send, Attached, disk, others, process
<1>2. /\ RowsTyped /\ OthersKept(r) /\ row'[r] # None
      /\ row'[r].status = "ready" /\ row'[r].source = row[r].source
      /\ row'[r].audio = row[r].audio /\ row'[r].deleted = row[r].deleted
  BY <1>1, SentRow DEF Send
<1>3. TypeOK'  BY <1>1, <1>2 DEF TypeOK, RowsTyped
<1>4. UploadsFit'  BY <1>1, <1>2, KeysApart DEF UploadsFit
<1>5. KindsFit'  BY <1>1, <1>2, TaskTyped DEF KindsFit
<1>6. DeletionsStay'  BY <1>1, <1>2, TaskTyped DEF DeletionsStay
<1>7. RowsFit'  BY <1>1, <1>2 DEF RowsFit
<1>8. TasksFit'  BY <1>1, <1>2, TaskTyped DEF TasksFit
<1>9. JobsStay'  BY <1>1, <1>2 DEF JobsStay
<1>10. AlignmentFits'  BY <1>1, <1>2 DEF AlignmentFits
<1>11. SoundsAreHeld'  BY <1>1, <1>2, TaskTyped, KeysApart DEF SoundsAreHeld
<1>12. StaleAreUnused'  BY <1>1, <1>2 DEF StaleAreUnused
<1>13. DownIsEmpty'  BY <1>1, <1>2 DEF DownIsEmpty
<1>14. FilesAreThere'  BY <1>1, <1>2, RowTyped, KeysApart DEF FilesAreThere
<1> QED  BY <1>3, <1>4, <1>5, <1>6, <1>7, <1>8, <1>9, <1>10, <1>11, <1>12, <1>13, <1>14

LEMMA EvictKeeps ==
  ASSUME RecordingsInv, NEW r \in Recordings, Evict(r)
  PROVE  RecordingsInv'
<1> USE DEF RecordingsInv, New, Is, LiveRow, Unfinished, Unattended, TaskOf, Jobless,
       Uses, OthersKept, OthersStand, OthersWork, Asks, Filed
<1>1. /\ request[r] \in {"none", "enqueue"}
      /\ UNCHANGED <<owner, backend, seen, worker, place, janitor>>
      /\ UNCHANGED <<file, lost>>
  BY DEF Evict, disk, others, process
<1>2. \/ request[r] = "none" /\ Asks(r, "drop")
      \/ request[r] = "enqueue" /\ Asks(r, "enqueue")
  BY DoesAsks DEF Evict, RequestPCs
<1>3. /\ RowsTyped /\ row'[r] = None /\ OthersKept(r)
      /\ job' \in [Recordings -> Job \union {None}] /\ job'[r] = None /\ OthersStand(r)
  BY DeletedTogether DEF Evict
<1>4. backend = "up"
  BY DEF Evict, Attached, Serves
<1>5. TypeOK'  BY <1>1, <1>2, <1>3, <1>4 DEF TypeOK, RequestPCs, RowsTyped
<1>6. UploadsFit'  BY <1>1, <1>2, <1>3, <1>4, KeysApart DEF UploadsFit
<1>7. KindsFit'  BY <1>1, <1>2, <1>3, <1>4, TaskTyped DEF KindsFit
<1>8. DeletionsStay'  BY <1>1, <1>2, <1>3, <1>4, TaskTyped DEF DeletionsStay
<1>9. RowsFit'  BY <1>1, <1>2, <1>3, <1>4 DEF RowsFit
<1>10. TasksFit'  BY <1>1, <1>2, <1>3, <1>4, TaskTyped DEF TasksFit
<1>11. JobsStay'  BY <1>1, <1>2, <1>3, <1>4 DEF JobsStay
<1>12. AlignmentFits'  BY <1>1, <1>2, <1>3, <1>4 DEF AlignmentFits
<1>13. SoundsAreHeld'  BY <1>1, <1>2, <1>3, <1>4, TaskTyped, KeysApart DEF SoundsAreHeld
<1>14. StaleAreUnused'  BY <1>1, <1>2, <1>3, <1>4 DEF StaleAreUnused
<1>15. DownIsEmpty'  BY <1>1, <1>2, <1>3, <1>4 DEF DownIsEmpty
<1>16. FilesAreThere'  BY <1>1, <1>2, <1>3, <1>4, RowTyped, KeysApart DEF FilesAreThere
<1> QED  BY <1>5, <1>6, <1>7, <1>8, <1>9, <1>10, <1>11, <1>12, <1>13, <1>14, <1>15, <1>16

(* The file goes with the row, or is noted as lost. *)
LEMMA FileThenRowKeeps ==
  ASSUME RecordingsInv, NEW r \in Recordings, FileThenRow(r)
  PROVE  RecordingsInv'
<1> USE DEF RecordingsInv, New, Is, LiveRow, Unfinished, Unattended, TaskOf, Jobless,
       Uses, OthersKept, OthersStand, OthersWork, Asks, Filed
<1>1. /\ UNCHANGED <<owner, backend, seen, worker, place, janitor>>
      /\ UNCHANGED request /\ row[r] # None
  BY DEF FileThenRow, Attached, others, process
<1>2. /\ Filed(r, "none") /\ lost' \in SUBSET Keys /\ lost \subseteq lost'
      /\ \/ row' = row /\ job' = job /\ r \in lost'
         \/ /\ RowsTyped /\ row'[r] = None /\ OthersKept(r)
            /\ job' \in [Recordings -> Job \union {None}] /\ job'[r] = None /\ OthersStand(r)
  BY DeletedTogether, UnlinkedFiled, KeysApart DEF FileThenRow
<1>3. TypeOK'  BY <1>1, <1>2 DEF TypeOK, RowsTyped
<1>4. UploadsFit'  BY <1>1, <1>2, KeysApart DEF UploadsFit
<1>5. KindsFit'  BY <1>1, <1>2, TaskTyped DEF KindsFit
<1>6. DeletionsStay'  BY <1>1, <1>2, TaskTyped DEF DeletionsStay
<1>7. RowsFit'  BY <1>1, <1>2 DEF RowsFit
<1>8. TasksFit'  BY <1>1, <1>2, TaskTyped DEF TasksFit
<1>9. JobsStay'  BY <1>1, <1>2 DEF JobsStay
<1>10. AlignmentFits'  BY <1>1, <1>2 DEF AlignmentFits
<1>11. SoundsAreHeld'  BY <1>1, <1>2, TaskTyped, KeysApart DEF SoundsAreHeld
<1>12. StaleAreUnused'  BY <1>1, <1>2 DEF StaleAreUnused
<1>13. DownIsEmpty'  BY <1>1, <1>2 DEF DownIsEmpty
<1>14. FilesAreThere'  BY <1>1, <1>2, RowTyped, KeysApart DEF FilesAreThere
<1> QED  BY <1>3, <1>4, <1>5, <1>6, <1>7, <1>8, <1>9, <1>10, <1>11, <1>12, <1>13, <1>14

LEMMA DeleteDocumentKeeps ==
  ASSUME RecordingsInv, NEW r \in Recordings, DeleteDocument(r)
  PROVE  RecordingsInv'
<1> USE DEF RecordingsInv, New, Is, LiveRow, Unfinished, Unattended, TaskOf, Jobless,
       Uses, OthersKept, OthersStand, OthersWork, Asks, Filed
<1>1. /\ owner[r] = "kb" /\ row[r] # None /\ backend = "up"
      /\ UNCHANGED <<owner, backend, seen, worker, place, janitor>>
      /\ UNCHANGED <<file, lost, request>>
  BY DEF DeleteDocument, Document, Serves, disk, others, process
<1>2. /\ RowsTyped /\ OthersKept(r) /\ row'[r] # None /\ row'[r].deleted
      /\ row'[r].status = row[r].status /\ row'[r].sent = row[r].sent
      /\ row'[r].source = row[r].source /\ row'[r].audio = row[r].audio
  BY <1>1, DeletedRow DEF DeleteDocument
<1>3. /\ job' \in [Recordings -> Job \union {None}] /\ OthersStand(r)
      /\ job'[r] # None /\ job'[r].kind = "delete"
  BY NewJobGiven DEF DeleteDocument
<1>4. TypeOK'  BY <1>1, <1>2, <1>3 DEF TypeOK, RowsTyped
<1>5. UploadsFit'  BY <1>1, <1>2, <1>3, KeysApart DEF UploadsFit
<1>6. KindsFit'  BY <1>1, <1>2, <1>3, TaskTyped DEF KindsFit
<1>7. DeletionsStay'  BY <1>1, <1>2, <1>3, TaskTyped DEF DeletionsStay
<1>8. RowsFit'  BY <1>1, <1>2, <1>3 DEF RowsFit
<1>9. TasksFit'  BY <1>1, <1>2, <1>3, TaskTyped DEF TasksFit
<1>10. JobsStay'  BY <1>1, <1>2, <1>3 DEF JobsStay
<1>11. AlignmentFits'  BY <1>1, <1>2, <1>3 DEF AlignmentFits
<1>12. SoundsAreHeld'  BY <1>1, <1>2, <1>3, TaskTyped, KeysApart DEF SoundsAreHeld
<1>13. StaleAreUnused'  BY <1>1, <1>2, <1>3 DEF StaleAreUnused
<1>14. DownIsEmpty'  BY <1>1, <1>2, <1>3 DEF DownIsEmpty
<1>15. FilesAreThere'  BY <1>1, <1>2, <1>3, RowTyped, KeysApart DEF FilesAreThere
<1> QED  BY <1>4, <1>5, <1>6, <1>7, <1>8, <1>9, <1>10, <1>11, <1>12, <1>13, <1>14, <1>15

LEMMA RetryKeeps ==
  ASSUME RecordingsInv, NEW r \in Recordings, Retry(r)
  PROVE  RecordingsInv'
<1> USE DEF RecordingsInv, New, Is, LiveRow, Unfinished, Unattended, TaskOf, Jobless,
       Uses, OthersKept, OthersStand, OthersWork, Asks, Filed, Marked
<1>1. /\ owner[r] = "kb" /\ row[r] # None /\ backend = "up" /\ ~row[r].deleted
      /\ UNCHANGED <<owner, backend, seen, worker, place, janitor>>
      /\ UNCHANGED <<file, lost, request>>
  BY DEF Retry, Document, Serves, disk, others, process
<1>2. Marked(r, "queued")
  BY <1>1, StatusMarked DEF Retry, RowsFit
<1>3. /\ job' \in [Recordings -> Job \union {None}] /\ OthersStand(r)
      /\ job'[r] # None /\ job'[r].kind = "index"
  BY NewJobGiven DEF Retry
<1>4. TypeOK'  BY <1>1, <1>2, <1>3 DEF TypeOK, RowsTyped
<1>5. UploadsFit'  BY <1>1, <1>2, <1>3, KeysApart DEF UploadsFit
<1>6. KindsFit'  BY <1>1, <1>2, <1>3, TaskTyped DEF KindsFit
<1>7. DeletionsStay'  BY <1>1, <1>2, <1>3, TaskTyped DEF DeletionsStay
<1>8. RowsFit'  BY <1>1, <1>2, <1>3 DEF RowsFit
<1>9. TasksFit'  BY <1>1, <1>2, <1>3, TaskTyped DEF TasksFit, KindsFit
<1>10. JobsStay'  BY <1>1, <1>2, <1>3 DEF JobsStay
<1>11. AlignmentFits'  BY <1>1, <1>2, <1>3 DEF AlignmentFits
<1>12. SoundsAreHeld'  BY <1>1, <1>2, <1>3, TaskTyped, KeysApart DEF SoundsAreHeld
<1>13. StaleAreUnused'  BY <1>1, <1>2, <1>3 DEF StaleAreUnused
<1>14. DownIsEmpty'  BY <1>1, <1>2, <1>3 DEF DownIsEmpty
<1>15. FilesAreThere'  BY <1>1, <1>2, <1>3, RowTyped, KeysApart DEF FilesAreThere
<1> QED  BY <1>4, <1>5, <1>6, <1>7, <1>8, <1>9, <1>10, <1>11, <1>12, <1>13, <1>14, <1>15

-----------------------------------------------------------------------------
(* The start of the backend keeps it, and the tasks of the worker that change no file.   *)

LEMMA AlignQueuedKeeps ==
  ASSUME RecordingsInv, AlignQueued
  PROVE  RecordingsInv'
<1> USE DEF RecordingsInv, New, Is, LiveRow, Unfinished, Unattended, TaskOf, Jobless,
       Uses, OthersKept, OthersStand, OthersWork
<1>1. /\ backend = "down"
      /\ seen' = {r \in Recordings : owner[r] = "chat" /\ Is(r, "queued")}
      /\ (backend' = "up" /\ seen' = {}) \/ backend' = "pending"
      /\ UNCHANGED <<owner, row, job, file, lost, worker, place, janitor, request>>
  BY DEF AlignQueued, base, disk, process
<1>2. TypeOK'  BY <1>1 DEF TypeOK
<1>3. UploadsFit'  BY <1>1, KeysApart DEF UploadsFit
<1>4. KindsFit'  BY <1>1, TaskTyped DEF KindsFit
<1>5. DeletionsStay'  BY <1>1, TaskTyped DEF DeletionsStay
<1>6. RowsFit'  BY <1>1 DEF RowsFit
<1>7. TasksFit'  BY <1>1, TaskTyped DEF TasksFit
<1>8. JobsStay'  BY <1>1 DEF JobsStay
<1>9. AlignmentFits'  BY <1>1 DEF AlignmentFits
<1>10. SoundsAreHeld'  BY <1>1, TaskTyped, KeysApart DEF SoundsAreHeld
<1>11. StaleAreUnused'  BY <1>1 DEF StaleAreUnused
<1>12. DownIsEmpty'  BY <1>1 DEF DownIsEmpty
<1>13. FilesAreThere'  BY <1>1, RowTyped, KeysApart DEF FilesAreThere
<1> QED  BY <1>2, <1>3, <1>4, <1>5, <1>6, <1>7, <1>8, <1>9, <1>10, <1>11, <1>12, <1>13

LEMMA AlignPendingKeeps ==
  ASSUME RecordingsInv, AlignPending
  PROVE  RecordingsInv'
<1> USE DEF RecordingsInv, New, Is, LiveRow, Unfinished, Unattended, TaskOf, Jobless,
       Uses, OthersKept, OthersStand, OthersWork
<1>1. /\ backend = "pending" /\ backend' = "fail"
      /\ seen' = {r \in seen : job[r] = None}
      /\ UNCHANGED <<owner, row, job, file, lost, worker, place, janitor, request>>
  BY DEF AlignPending, base, disk, process
<1>2. TypeOK'  BY <1>1 DEF TypeOK
<1>3. UploadsFit'  BY <1>1, KeysApart DEF UploadsFit
<1>4. KindsFit'  BY <1>1, TaskTyped DEF KindsFit
<1>5. DeletionsStay'  BY <1>1, TaskTyped DEF DeletionsStay
<1>6. RowsFit'  BY <1>1 DEF RowsFit
<1>7. TasksFit'  BY <1>1, TaskTyped DEF TasksFit
<1>8. JobsStay'  BY <1>1 DEF JobsStay
<1>9. AlignmentFits'  BY <1>1 DEF AlignmentFits
<1>10. SoundsAreHeld'  BY <1>1, TaskTyped, KeysApart DEF SoundsAreHeld
<1>11. StaleAreUnused'  BY <1>1 DEF StaleAreUnused
<1>12. DownIsEmpty'  BY <1>1 DEF DownIsEmpty
<1>13. FilesAreThere'  BY <1>1, RowTyped, KeysApart DEF FilesAreThere
<1> QED  BY <1>2, <1>3, <1>4, <1>5, <1>6, <1>7, <1>8, <1>9, <1>10, <1>11, <1>12, <1>13

(* Those whose row is still queued are failed. *)
LEMMA AlignFailKeeps ==
  ASSUME RecordingsInv, AlignFail
  PROVE  RecordingsInv'
<1> USE DEF RecordingsInv, New, Is, LiveRow, Unfinished, Unattended, TaskOf, Jobless,
       Uses, OthersKept, OthersStand, OthersWork
<1>1. /\ backend = "fail" /\ backend' = "files"
      /\ UNCHANGED <<owner, seen, job, file, lost, worker, place, janitor, request>>
  BY DEF AlignFail, disk, process
<1>2. RowsTyped
  <2>1. ASSUME NEW r \in Recordings, row[r] # None, row[r].status = "queued"
        PROVE  [row[r] EXCEPT !.status = "error"] \in Row
    BY <2>1, RowTyped DEF Row, Final
  <2> QED  BY <2>1, RowTyped DEF AlignFail, RowsTyped, TypeOK
<1>3. /\ \A r \in Recordings : row[r] = None => row'[r] = None
      /\ \A r \in Recordings : r \notin seen => row'[r] = row[r]
      /\ \A r \in Recordings : row[r] # None =>
             /\ row'[r] # None /\ row'[r].source = row[r].source /\ row'[r].sent = row[r].sent
             /\ row'[r].audio = row[r].audio /\ row'[r].deleted = row[r].deleted
             /\ row'[r].status = IF r \in seen /\ row[r].status = "queued"
                                 THEN "error" ELSE row[r].status
  <2>1. ASSUME NEW r \in Recordings, row[r] # None
        PROVE  LET new == [row[r] EXCEPT !.status = "error"]
               IN  /\ new # None /\ new.source = row[r].source /\ new.sent = row[r].sent
                   /\ new.audio = row[r].audio /\ new.deleted = row[r].deleted
                   /\ new.status = "error"
    BY <2>1, RowTyped, RecordsAssumption DEF Row, Final
  <2> QED  BY <2>1 DEF AlignFail
<1>4. TypeOK'  BY <1>1, <1>2, <1>3 DEF TypeOK, RowsTyped
<1>5. UploadsFit'  BY <1>1, <1>2, <1>3, KeysApart DEF UploadsFit
<1>6. KindsFit'
  BY <1>1, <1>3, TaskTyped, RowTyped DEF KindsFit
<1>7. DeletionsStay'  BY <1>1, <1>2, <1>3, TaskTyped DEF DeletionsStay
<1>8. RowsFit'
  BY <1>1, <1>3, RowTyped DEF RowsFit, AlignmentFits
<1>9. TasksFit'
  BY <1>1, <1>3, TaskTyped, RowTyped DEF TasksFit
<1>10. JobsStay'
  BY <1>1, <1>3, RowTyped DEF JobsStay
<1>11. AlignmentFits'
  BY <1>1, <1>3, RowTyped DEF AlignmentFits, JobsStay
<1>12. SoundsAreHeld'  BY <1>1, <1>2, <1>3, TaskTyped, KeysApart DEF SoundsAreHeld
<1>13. StaleAreUnused'
  BY <1>1, <1>3, RowTyped DEF StaleAreUnused
<1>14. DownIsEmpty'  BY <1>1, <1>2, <1>3 DEF DownIsEmpty
<1>15. FilesAreThere'
  BY <1>1, <1>3, RowTyped DEF FilesAreThere
<1> QED  BY <1>4, <1>5, <1>6, <1>7, <1>8, <1>9, <1>10, <1>11, <1>12, <1>13, <1>14, <1>15

(* Their files go: none is in use any more. *)
LEMMA AlignFilesKeeps ==
  ASSUME RecordingsInv, AlignFiles
  PROVE  RecordingsInv'
<1> USE DEF RecordingsInv, New, Is, LiveRow, Unfinished, Unattended, TaskOf, Jobless,
       Uses, OthersKept, OthersStand, OthersWork
<1>1. /\ backend = "files" /\ backend' = "up" /\ seen' = {}
      /\ UNCHANGED <<owner, row, job, lost, worker, place, janitor, request>>
  BY DEF AlignFiles, process
<1>2. /\ file' \in [Keys -> {"none", "new", "old"}]
      /\ \A k \in Keys : k \notin seen => file'[k] = file[k]
      /\ \A k \in Keys : k \in seen => file'[k] = "none"
  BY DEF AlignFiles, TypeOK
<1>3. TypeOK'  BY <1>1, <1>2 DEF TypeOK
<1>4. UploadsFit'
  BY <1>1, <1>2, KeysApart DEF UploadsFit, AlignmentFits
<1>5. KindsFit'  BY <1>1, <1>2, TaskTyped DEF KindsFit
<1>6. DeletionsStay'  BY <1>1, <1>2, TaskTyped DEF DeletionsStay
<1>7. RowsFit'  BY <1>1, <1>2 DEF RowsFit
<1>8. TasksFit'  BY <1>1, <1>2, TaskTyped DEF TasksFit
<1>9. JobsStay'  BY <1>1, <1>2 DEF JobsStay
<1>10. AlignmentFits'  BY <1>1, <1>2 DEF AlignmentFits
<1>11. SoundsAreHeld'
  BY <1>1, <1>2, TaskTyped, KeysApart DEF SoundsAreHeld, AlignmentFits
<1>12. StaleAreUnused'  BY <1>1, <1>2 DEF StaleAreUnused
<1>13. DownIsEmpty'  BY <1>1, <1>2 DEF DownIsEmpty
<1>14. FilesAreThere'
  BY <1>1, <1>2, RowTyped, KeysApart DEF FilesAreThere, AlignmentFits
<1> QED  BY <1>3, <1>4, <1>5, <1>6, <1>7, <1>8, <1>9, <1>10, <1>11, <1>12, <1>13, <1>14

LEMMA BackendCrashKeeps ==
  ASSUME RecordingsInv, BackendCrash
  PROVE  RecordingsInv'
<1> USE DEF RecordingsInv, New, Is, LiveRow, Unfinished, Unattended, TaskOf, Jobless,
       Uses, OthersKept, OthersStand, OthersWork
<1>1. /\ backend' = "down" /\ seen' = {}
      /\ UNCHANGED <<owner, row, job, file, lost, worker, place, janitor>>
  BY DEF BackendCrash, base, disk, process
<1>2. /\ request' \in [Recordings -> RequestPCs]
      /\ \A r \in Recordings : /\ request[r] = "unused" => request'[r] = "unused"
                               /\ request[r] # "unused" => request'[r] = "none"
  BY DEF BackendCrash, TypeOK, RequestPCs
<1>3. TypeOK'  BY <1>1, <1>2 DEF TypeOK, RequestPCs
<1>4. UploadsFit'  BY <1>1, <1>2, KeysApart DEF UploadsFit
<1>5. KindsFit'  BY <1>1, <1>2, TaskTyped DEF KindsFit
<1>6. DeletionsStay'  BY <1>1, <1>2, TaskTyped DEF DeletionsStay
<1>7. RowsFit'  BY <1>1, <1>2 DEF RowsFit
<1>8. TasksFit'  BY <1>1, <1>2, TaskTyped DEF TasksFit
<1>9. JobsStay'  BY <1>1, <1>2 DEF JobsStay
<1>10. AlignmentFits'  BY <1>1, <1>2 DEF AlignmentFits
<1>11. SoundsAreHeld'  BY <1>1, <1>2, TaskTyped, KeysApart DEF SoundsAreHeld
<1>12. StaleAreUnused'  BY <1>1, <1>2 DEF StaleAreUnused
<1>13. DownIsEmpty'  BY <1>1, <1>2 DEF DownIsEmpty
<1>14. FilesAreThere'  BY <1>1, <1>2, RowTyped, KeysApart DEF FilesAreThere
<1> QED  BY <1>3, <1>4, <1>5, <1>6, <1>7, <1>8, <1>9, <1>10, <1>11, <1>12, <1>13, <1>14

(* A job is taken: its task begins with its first step. *)
LEMMA ClaimKeeps ==
  ASSUME RecordingsInv, NEW r \in Recordings, NEW p \in Places, Claim(p, r)
  PROVE  RecordingsInv'
<1> USE DEF RecordingsInv, New, Is, LiveRow, Unfinished, Unattended, TaskOf, Jobless,
       Uses, OthersKept, OthersStand, OthersWork, Walks, Handed
<1>1. /\ worker = "up" /\ job[r] # None /\ place[p] = None
      /\ UNCHANGED <<owner, backend, seen, request, worker, file, lost, janitor>>
      /\ UNCHANGED row
  BY DEF Claim, Claimable, outside, disk
<1>2. Handed(r) /\ Counted(r) \in 0..Cap
  BY <1>1, TakenHanded DEF Claim
<1>3. /\ place' \in [Places -> Task \union {None}] /\ OthersWork(p) /\ place'[p] # None
      /\ place'[p].rec = r /\ place'[p].kind = job[r].kind /\ place'[p].key = None
      /\ place'[p].pc = FirstOf(job[r].kind)
  <2> DEFINE task == [rec |-> r, kind |-> job[r].kind, attempts |-> Counted(r),
                     pc |-> FirstOf(job[r].kind), key |-> None]
  <2>1. FirstOf(job[r].kind) \in PCs
    BY <1>1, JobTyped DEF FirstOf, PCs, Chores, Steps, Returns
  <2>2. task \in Task  BY <1>1, <1>2, <2>1, JobTyped DEF Task, PCs
  <2>3. place' = [place EXCEPT ![p] = task]  BY DEF Claim
  <2>4. /\ task.rec = r /\ task.kind = job[r].kind /\ task.key = None
        /\ task.pc = FirstOf(job[r].kind)
    OBVIOUS
  <2> HIDE DEF task
  <2> QED  BY <2>2, <2>3, <2>4, RecordsAssumption DEF TypeOK
<1>4. /\ job[r].kind = "transcribe" => place'[p].pc = "begin"
      /\ job[r].kind = "index" => place'[p].pc = "start"
      /\ job[r].kind = "delete" => place'[p].pc = "erase"
      /\ job[r].kind \in {"transcribe", "index", "delete"}
  BY <1>1, <1>3, JobTyped DEF FirstOf
<1>5. TypeOK'  BY <1>1, <1>2, <1>3, <1>4 DEF TypeOK
<1>6. UploadsFit'  BY <1>1, <1>2, <1>3, <1>4, KeysApart DEF UploadsFit
<1>7. KindsFit'  BY <1>1, <1>2, <1>3, <1>4, TaskTyped DEF KindsFit, OfTranscription,
    OfIndexing, OfErasure
<1>8. DeletionsStay'  BY <1>1, <1>2, <1>3, <1>4, TaskTyped DEF DeletionsStay
<1>9. RowsFit'  BY <1>1, <1>2, <1>3, <1>4 DEF RowsFit
<1>10. TasksFit'  BY <1>1, <1>2, <1>3, <1>4, TaskTyped DEF TasksFit
<1>11. JobsStay'  BY <1>1, <1>2, <1>3, <1>4 DEF JobsStay
<1>12. AlignmentFits'  BY <1>1, <1>2, <1>3, <1>4 DEF AlignmentFits
<1>13. SoundsAreHeld'  BY <1>1, <1>2, <1>3, <1>4, TaskTyped, KeysApart DEF SoundsAreHeld
<1>14. StaleAreUnused'  BY <1>1, <1>2, <1>3, <1>4 DEF StaleAreUnused
<1>15. DownIsEmpty'  BY <1>1, <1>2, <1>3, <1>4 DEF DownIsEmpty
<1>16. FilesAreThere'  BY <1>1, <1>2, <1>3, <1>4, RowTyped, KeysApart DEF FilesAreThere
<1> QED  BY <1>5, <1>6, <1>7, <1>8, <1>9, <1>10, <1>11, <1>12, <1>13, <1>14, <1>15, <1>16

LEMMA LeaseExpiresKeeps ==
  ASSUME RecordingsInv, NEW r \in Recordings, LeaseExpires(r)
  PROVE  RecordingsInv'
<1> USE DEF RecordingsInv, New, Is, LiveRow, Unfinished, Unattended, TaskOf, Jobless,
       Uses, OthersKept, OthersStand, OthersWork, Walks, Handed
<1>1. /\ UNCHANGED <<owner, backend, seen, request, worker, file, lost, janitor>>
      /\ UNCHANGED <<row, place>>
  BY DEF LeaseExpires, outside, disk, process
<1>2. Handed(r) /\ job[r] # None
  BY LeaseHanded DEF LeaseExpires
<1>3. TypeOK'  BY <1>1, <1>2 DEF TypeOK
<1>4. UploadsFit'  BY <1>1, <1>2, KeysApart DEF UploadsFit
<1>5. KindsFit'  BY <1>1, <1>2, TaskTyped DEF KindsFit
<1>6. DeletionsStay'  BY <1>1, <1>2, TaskTyped DEF DeletionsStay
<1>7. RowsFit'  BY <1>1, <1>2 DEF RowsFit
<1>8. TasksFit'  BY <1>1, <1>2, TaskTyped DEF TasksFit
<1>9. JobsStay'  BY <1>1, <1>2 DEF JobsStay
<1>10. AlignmentFits'  BY <1>1, <1>2 DEF AlignmentFits
<1>11. SoundsAreHeld'  BY <1>1, <1>2, TaskTyped, KeysApart DEF SoundsAreHeld
<1>12. StaleAreUnused'  BY <1>1, <1>2 DEF StaleAreUnused
<1>13. DownIsEmpty'  BY <1>1, <1>2 DEF DownIsEmpty
<1>14. FilesAreThere'  BY <1>1, <1>2, RowTyped, KeysApart DEF FilesAreThere
<1> QED  BY <1>3, <1>4, <1>5, <1>6, <1>7, <1>8, <1>9, <1>10, <1>11, <1>12, <1>13, <1>14

LEMMA RenewKeeps ==
  ASSUME RecordingsInv, NEW p \in Places, Renew(p)
  PROVE  RecordingsInv'
<1> USE DEF RecordingsInv, New, Is, LiveRow, Unfinished, Unattended, TaskOf, Jobless,
       Uses, OthersKept, OthersStand, OthersWork, Walks, Handed
<1>1. /\ UNCHANGED <<owner, backend, seen, request, worker, file, lost, janitor>>
      /\ UNCHANGED <<row, place>>
  BY DEF Renew, outside, disk, process
<1>2. Handed(place[p].rec) /\ job[place[p].rec] # None /\ place[p].rec \in Recordings
  BY LeaseHanded, TaskTyped DEF Renew, Own
<1>3. TypeOK'  BY <1>1, <1>2 DEF TypeOK
<1>4. UploadsFit'  BY <1>1, <1>2, KeysApart DEF UploadsFit
<1>5. KindsFit'  BY <1>1, <1>2, TaskTyped DEF KindsFit
<1>6. DeletionsStay'  BY <1>1, <1>2, TaskTyped DEF DeletionsStay
<1>7. RowsFit'  BY <1>1, <1>2 DEF RowsFit
<1>8. TasksFit'  BY <1>1, <1>2, TaskTyped DEF TasksFit
<1>9. JobsStay'  BY <1>1, <1>2 DEF JobsStay
<1>10. AlignmentFits'  BY <1>1, <1>2 DEF AlignmentFits
<1>11. SoundsAreHeld'  BY <1>1, <1>2, TaskTyped, KeysApart DEF SoundsAreHeld
<1>12. StaleAreUnused'  BY <1>1, <1>2 DEF StaleAreUnused
<1>13. DownIsEmpty'  BY <1>1, <1>2 DEF DownIsEmpty
<1>14. FilesAreThere'  BY <1>1, <1>2, RowTyped, KeysApart DEF FilesAreThere
<1> QED  BY <1>3, <1>4, <1>5, <1>6, <1>7, <1>8, <1>9, <1>10, <1>11, <1>12, <1>13, <1>14

-----------------------------------------------------------------------------
(* Tasks that leave, and the steps of a transcription.                     *)

(* What a task is cut short at is a file of sound that has no row. *)
LEMMA SoundBack ==
  ASSUME TypeOK, NEW p \in Places, place[p] # None, SoundTakenBack(p)
  PROVE  /\ file' \in [Keys -> {"none", "new", "old"}]
         /\ \A k \in Keys : place[p].key = None \/ k # place[p].key => file'[k] = file[k]
         /\ UNCHANGED lost
         /\ place[p].key \in AudioKeys \union {None}
<1>1. CASE place[p].key = None  BY <1>1, TaskTyped DEF SoundTakenBack, TypeOK
<1>2. CASE place[p].key # None
  BY <1>2, TaskTyped, KeysApart DEF SoundTakenBack, TypeOK
<1> QED  BY <1>1, <1>2

LEMMA WithdrawnKeeps ==
  ASSUME RecordingsInv, NEW p \in Places, Withdrawn(p)
  PROVE  RecordingsInv'
<1> USE DEF RecordingsInv, New, Is, LiveRow, Unfinished, Unattended, TaskOf, Jobless,
       Uses, OthersKept, OthersStand, OthersWork, Walks, Handed
<1>1. /\ place[p] # None
      /\ UNCHANGED <<owner, backend, seen, request, worker, janitor>>
      /\ UNCHANGED <<row, job>>
  BY DEF Withdrawn, outside
<1>2. /\ place' \in [Places -> Task \union {None}] /\ place'[p] = None /\ OthersWork(p)
  BY LeavesEmpty DEF Withdrawn
<1>3. /\ file' \in [Keys -> {"none", "new", "old"}]
      /\ \A k \in Keys : place[p].key = None \/ k # place[p].key => file'[k] = file[k]
      /\ UNCHANGED lost
      /\ place[p].key \in AudioKeys \union {None}
  BY SoundBack DEF Withdrawn
<1>4. TypeOK'  BY <1>1, <1>2, <1>3 DEF TypeOK
<1>5. UploadsFit'
  BY <1>1, <1>2, <1>3, TaskTyped, KeysApart DEF UploadsFit, SoundsAreHeld
<1>6. KindsFit'  BY <1>1, <1>2, <1>3, TaskTyped DEF KindsFit
<1>7. DeletionsStay'  BY <1>1, <1>2, <1>3, TaskTyped DEF DeletionsStay
<1>8. RowsFit'  BY <1>1, <1>2, <1>3 DEF RowsFit
<1>9. TasksFit'  BY <1>1, <1>2, <1>3, TaskTyped DEF TasksFit
<1>10. JobsStay'  BY <1>1, <1>2, <1>3 DEF JobsStay
<1>11. AlignmentFits'  BY <1>1, <1>2, <1>3 DEF AlignmentFits
<1>12. SoundsAreHeld'
  BY <1>1, <1>2, <1>3, TaskTyped, KeysApart DEF SoundsAreHeld
<1>13. StaleAreUnused'  BY <1>1, <1>2, <1>3 DEF StaleAreUnused
<1>14. DownIsEmpty'  BY <1>1, <1>2, <1>3 DEF DownIsEmpty
<1>15. FilesAreThere'
  BY <1>1, <1>2, <1>3, RowTyped, KeysApart DEF FilesAreThere, SoundsAreHeld
<1> QED  BY <1>4, <1>5, <1>6, <1>7, <1>8, <1>9, <1>10, <1>11, <1>12, <1>13, <1>14, <1>15

LEMMA TaskFailsKeeps ==
  ASSUME RecordingsInv, NEW p \in Places, TaskFails(p)
  PROVE  RecordingsInv'
<1> USE DEF RecordingsInv, New, Is, LiveRow, Unfinished, Unattended, TaskOf, Jobless,
       Uses, OthersKept, OthersStand, OthersWork, Walks, Handed
<1>1. /\ place[p] # None
      /\ UNCHANGED <<owner, backend, seen, request, worker, janitor>>
      /\ UNCHANGED <<row, job, file, lost>>
  BY DEF TaskFails, outside, disk
<1>2. /\ place' \in [Places -> Task \union {None}] /\ place'[p] = None /\ OthersWork(p)
  BY LeavesEmpty DEF TaskFails
<1>3. TypeOK'  BY <1>1, <1>2 DEF TypeOK
<1>4. UploadsFit'  BY <1>1, <1>2, KeysApart DEF UploadsFit
<1>5. KindsFit'  BY <1>1, <1>2, TaskTyped DEF KindsFit
<1>6. DeletionsStay'  BY <1>1, <1>2, TaskTyped DEF DeletionsStay
<1>7. RowsFit'  BY <1>1, <1>2 DEF RowsFit
<1>8. TasksFit'  BY <1>1, <1>2, TaskTyped DEF TasksFit
<1>9. JobsStay'  BY <1>1, <1>2 DEF JobsStay
<1>10. AlignmentFits'  BY <1>1, <1>2 DEF AlignmentFits
<1>11. SoundsAreHeld'  BY <1>1, <1>2, TaskTyped, KeysApart DEF SoundsAreHeld
<1>12. StaleAreUnused'  BY <1>1, <1>2 DEF StaleAreUnused
<1>13. DownIsEmpty'  BY <1>1, <1>2 DEF DownIsEmpty
<1>14. FilesAreThere'  BY <1>1, <1>2, RowTyped, KeysApart DEF FilesAreThere
<1> QED  BY <1>3, <1>4, <1>5, <1>6, <1>7, <1>8, <1>9, <1>10, <1>11, <1>12, <1>13, <1>14

LEMMA EndKeeps ==
  ASSUME RecordingsInv, NEW p \in Places, End(p)
  PROVE  RecordingsInv'
<1> USE DEF RecordingsInv, New, Is, LiveRow, Unfinished, Unattended, TaskOf, Jobless,
       Uses, OthersKept, OthersStand, OthersWork, Walks, Handed
<1>1. /\ place[p] # None
      /\ UNCHANGED <<owner, backend, seen, request, worker, janitor>>
      /\ UNCHANGED <<row, job, file, lost>>
  BY DEF End, outside, disk
<1>2. /\ place' \in [Places -> Task \union {None}] /\ place'[p] = None /\ OthersWork(p)
  BY LeavesEmpty DEF End
<1>3. TypeOK'  BY <1>1, <1>2 DEF TypeOK
<1>4. UploadsFit'  BY <1>1, <1>2, KeysApart DEF UploadsFit
<1>5. KindsFit'  BY <1>1, <1>2, TaskTyped DEF KindsFit
<1>6. DeletionsStay'  BY <1>1, <1>2, TaskTyped DEF DeletionsStay
<1>7. RowsFit'  BY <1>1, <1>2 DEF RowsFit
<1>8. TasksFit'  BY <1>1, <1>2, TaskTyped DEF TasksFit
<1>9. JobsStay'  BY <1>1, <1>2 DEF JobsStay
<1>10. AlignmentFits'  BY <1>1, <1>2 DEF AlignmentFits
<1>11. SoundsAreHeld'  BY <1>1, <1>2, TaskTyped, KeysApart DEF SoundsAreHeld
<1>12. StaleAreUnused'  BY <1>1, <1>2 DEF StaleAreUnused
<1>13. DownIsEmpty'  BY <1>1, <1>2 DEF DownIsEmpty
<1>14. FilesAreThere'  BY <1>1, <1>2, RowTyped, KeysApart DEF FilesAreThere
<1> QED  BY <1>3, <1>4, <1>5, <1>6, <1>7, <1>8, <1>9, <1>10, <1>11, <1>12, <1>13, <1>14

(* The job goes: the attachment has its outcome, or the document is nobody's. *)
LEMMA FinishKeeps ==
  ASSUME RecordingsInv, NEW p \in Places, Finish(p)
  PROVE  RecordingsInv'
<1> USE DEF RecordingsInv, New, Is, LiveRow, Unfinished, Unattended, TaskOf, Jobless,
       Uses, OthersKept, OthersStand, OthersWork, Walks, Handed
<1> DEFINE r == place[p].rec
<1>1. /\ place[p] # None /\ place[p].pc = "finish"
      /\ UNCHANGED <<owner, backend, seen, request, worker, janitor>>
      /\ UNCHANGED <<row, file, lost>>
  BY DEF Finish, On, outside, disk
<1>2. /\ place' \in [Places -> Task \union {None}] /\ place'[p] = None /\ OthersWork(p)
  BY LeavesEmpty DEF Finish
<1>3. /\ job' \in [Recordings -> Job \union {None}] /\ OthersStand(r)
      /\ job'[r] = IF Own(p) THEN None ELSE job[r]
      /\ r \in Recordings
  BY <1>1, TaskTyped, JobGoneIs DEF Finish
<1>4. owner[r] = "chat" =>
          ~(row[r] # None /\ row[r].status \in {"queued", "processing"})
  BY <1>1, TaskTyped DEF KindsFit, TasksFit, OfErasure, Returns
<1>5. TypeOK'  BY <1>1, <1>2, <1>3, <1>4 DEF TypeOK
<1>6. UploadsFit'  BY <1>1, <1>2, <1>3, <1>4, KeysApart DEF UploadsFit
<1>7. KindsFit'  BY <1>1, <1>2, <1>3, <1>4, TaskTyped DEF KindsFit
<1>8. DeletionsStay'  BY <1>1, <1>2, <1>3, <1>4, TaskTyped DEF DeletionsStay, KindsFit,
    OfErasure, Returns, Own
<1>9. RowsFit'  BY <1>1, <1>2, <1>3, <1>4 DEF RowsFit
<1>10. TasksFit'  BY <1>1, <1>2, <1>3, <1>4, TaskTyped DEF TasksFit
<1>11. JobsStay'  BY <1>1, <1>2, <1>3, <1>4 DEF JobsStay
<1>12. AlignmentFits'  BY <1>1, <1>2, <1>3, <1>4 DEF AlignmentFits
<1>13. SoundsAreHeld'  BY <1>1, <1>2, <1>3, <1>4, TaskTyped, KeysApart DEF SoundsAreHeld
<1>14. StaleAreUnused'  BY <1>1, <1>2, <1>3, <1>4 DEF StaleAreUnused
<1>15. DownIsEmpty'  BY <1>1, <1>2, <1>3, <1>4 DEF DownIsEmpty
<1>16. FilesAreThere'  BY <1>1, <1>2, <1>3, <1>4, RowTyped, KeysApart DEF FilesAreThere
<1> QED  BY <1>5, <1>6, <1>7, <1>8, <1>9, <1>10, <1>11, <1>12, <1>13, <1>14, <1>15, <1>16

(* A task goes on among the steps of its kind, or returns, and no owner, job or mark changes. *)
StaysInKind(p) ==
    /\ owner' = owner
    /\ \A s \in Recordings : /\ row'[s] = None <=> row[s] = None
                             /\ row[s] # None => row'[s].deleted = row[s].deleted
    /\ \A s \in Recordings : job'[s] # None => job[s] # None /\ job'[s].kind = job[s].kind
    /\ place'[p].rec = place[p].rec /\ place'[p].kind = place[p].kind
    /\ \A q \in Places \ {p} : place'[q] = place[q]
    /\ \/ place'[p].pc \in Returns
       \/ place[p].kind = "transcribe" /\ place'[p].pc \in OfTranscription

(* Such a step leaves the kinds of the jobs and of the tasks as they fit. *)
LEMMA KindsStayFitting ==
  ASSUME KindsFit, TypeOK, NEW p \in Places, place[p] # None, StaysInKind(p)
  PROVE  KindsFit'
<1>1. \A s \in Recordings : job'[s] # None =>
          /\ job'[s].kind = "transcribe" <=> owner'[s] = "chat"
          /\ job'[s].kind = "delete" => row'[s] = None \/ row'[s].deleted
  BY DEF KindsFit, StaysInKind
<1>2. ASSUME NEW q \in Places, place'[q] # None
      PROVE  /\ place'[q].kind = "transcribe" <=> owner'[place'[q].rec] = "chat"
             /\ place'[q].kind = "transcribe" => place'[q].pc \in OfTranscription
             /\ place'[q].kind = "index" => place'[q].pc \in OfIndexing
             /\ place'[q].kind = "delete" =>
                    /\ place'[q].pc \in OfErasure
                    /\ row'[place'[q].rec] = None \/ row'[place'[q].rec].deleted
  <2>1. /\ place[q] # None /\ place'[q].rec = place[q].rec /\ place'[q].kind = place[q].kind
        /\ \/ place'[q].pc = place[q].pc
           \/ place'[q].pc \in Returns
           \/ place[q].kind = "transcribe" /\ place'[q].pc \in OfTranscription
    BY <1>2 DEF StaysInKind
  <2>2. place[q].rec \in Recordings  BY <2>1, TaskTyped
  <2>3. /\ Returns \subseteq OfTranscription /\ Returns \subseteq OfIndexing
        /\ Returns \subseteq OfErasure
    BY DEF OfTranscription, OfIndexing, OfErasure
  <2>4. /\ place[q].kind = "transcribe" <=> owner[place[q].rec] = "chat"
        /\ place[q].kind = "transcribe" => place[q].pc \in OfTranscription
        /\ place[q].kind = "index" => place[q].pc \in OfIndexing
        /\ place[q].kind = "delete" =>
               /\ place[q].pc \in OfErasure
               /\ row[place[q].rec] = None \/ row[place[q].rec].deleted
    BY <2>1 DEF KindsFit
  <2> QED  BY <2>1, <2>2, <2>3, <2>4 DEF StaysInKind
<1> QED  BY <1>1, <1>2 DEF KindsFit

(* While the worker is stopping, a task that returns leaves every task as it fits its row. *)
LEMMA TasksStayFitting ==
  ASSUME TasksFit, KindsFit, TypeOK, worker' # "up",
         \A s \in Recordings :
             /\ row'[s] = None <=> row[s] = None
             /\ row[s] # None => row'[s].audio = row[s].audio
             /\ owner[s] = "chat" /\ row'[s] # None /\ row'[s].status \in {"queued", "processing"}
                => row[s].status \in {"queued", "processing"},
         NEW p \in Places, place[p] # None, OthersWork(p),
         place'[p].kind = place[p].kind, place'[p].pc \in Returns
  PROVE  TasksFit'
<1>1. place'[p].pc \notin {"unlink", "finish", "replace", "tidy"}  BY DEF Returns
<1>2. ASSUME NEW q \in Places, place'[q] # None
      PROVE  /\ place'[q].kind = "transcribe" /\ place'[q].pc \in {"unlink", "finish"} =>
                    ~(row'[place'[q].rec] # None
                      /\ row'[place'[q].rec].status \in {"queued", "processing"})
             /\ place'[q].pc \in {"replace", "tidy"} /\ row'[place'[q].rec] # None =>
                    row'[place'[q].rec].audio # None
  <2>1. CASE q = p  BY <1>1, <2>1
  <2>2. CASE q # p
    <3>1. place'[q] = place[q] /\ place[q] # None  BY <1>2, <2>2 DEF OthersWork
    <3>2. place[q].rec \in Recordings  BY <3>1, TaskTyped
    <3>3. place[q].kind = "transcribe" => owner[place[q].rec] = "chat"
      BY <3>1 DEF KindsFit
    <3>4. /\ place[q].kind = "transcribe" /\ place[q].pc \in {"unlink", "finish"} =>
                 ~(row[place[q].rec] # None
                   /\ row[place[q].rec].status \in {"queued", "processing"})
          /\ place[q].pc \in {"replace", "tidy"} /\ row[place[q].rec] # None =>
                 row[place[q].rec].audio # None
      BY <3>1 DEF TasksFit, Unfinished, Is
    <3> QED  BY <3>1, <3>2, <3>3, <3>4
  <2> QED  BY <2>1, <2>2
<1> QED  BY <1>2 DEF TasksFit, Unfinished, Is

(* The row is marked, unless it has its outcome. *)
LEMMA BeginKeeps ==
  ASSUME RecordingsInv, NEW p \in Places, Begin(p)
  PROVE  RecordingsInv'
<1> USE DEF RecordingsInv, New, Is, LiveRow, Unfinished, Unattended, TaskOf, Jobless,
       Uses, OthersKept, OthersStand, OthersWork, Walks, Handed, Marked
<1> DEFINE r == place[p].rec
<1>1. /\ place[p] # None /\ place[p].pc = "begin" /\ r \in Recordings /\ worker = "up"
      /\ UNCHANGED <<owner, backend, seen, request, worker, janitor>>
      /\ UNCHANGED <<job, file, lost>>
  BY TaskTyped DEF Begin, On, outside, disk
<1>2. /\ place[p].kind = "transcribe" /\ owner[r] = "chat"
  BY <1>1, TaskTyped DEF KindsFit, OfIndexing, OfErasure, Returns
<1>3. \E pc \in {"finish", "fail", "link"} :
          /\ Walks(p, pc) /\ place'[p].key = place[p].key
          /\ pc = "finish" <=> ~(row[r] # None /\ row[r].status \in {"queued", "processing"})
  BY <1>1, GoesWalks DEF Begin, PCs, Chores, Steps, Returns
<1>4. \/ /\ row[r] # None /\ row[r].status \in {"queued", "processing"}
         /\ Marked(r, "processing")
      \/ /\ ~(row[r] # None /\ row[r].status \in {"queued", "processing"})
         /\ row' = row
  BY <1>1, MovedMarks DEF Begin
<1>5. TypeOK'  BY <1>1, <1>2, <1>3, <1>4 DEF TypeOK, RowsTyped
<1>6. UploadsFit'  BY <1>1, <1>2, <1>3, <1>4, KeysApart DEF UploadsFit
<1>7. KindsFit'
  <2> HIDE DEF RecordingsInv
  <2>1. \A s \in Recordings : /\ row'[s] = None <=> row[s] = None
                              /\ row[s] # None => row'[s].deleted = row[s].deleted
    BY <1>4
  <2>2. /\ OthersWork(p)
        /\ place'[p].rec = place[p].rec /\ place'[p].kind = place[p].kind
        /\ place'[p].pc \in {"finish", "fail", "link"}
    BY <1>3
  <2>3. owner' = owner /\ job' = job  BY <1>1
  <2>4. place'[p].pc \in OfTranscription  BY <2>2 DEF OfTranscription
  <2>5. KindsFit /\ TypeOK  BY DEF RecordingsInv
  <2>6. place[p] # None /\ place[p].kind = "transcribe"  BY <1>1, <1>2
  <2>7. StaysInKind(p)  BY <2>1, <2>2, <2>3, <2>4, <2>6 DEF StaysInKind
  <2> QED  BY <2>5, <2>6, <2>7, KindsStayFitting
<1>8. DeletionsStay'  BY <1>1, <1>2, <1>3, <1>4, TaskTyped DEF DeletionsStay
<1>9. RowsFit'  BY <1>1, <1>2, <1>3, <1>4 DEF RowsFit
<1>10. TasksFit'  BY <1>1, <1>2, <1>3, <1>4, TaskTyped DEF TasksFit, Returns
<1>11. JobsStay'  BY <1>1, <1>2, <1>3, <1>4 DEF JobsStay
<1>12. AlignmentFits'  BY <1>1, <1>2, <1>3, <1>4 DEF AlignmentFits
<1>13. SoundsAreHeld'  BY <1>1, <1>2, <1>3, <1>4, TaskTyped, KeysApart DEF SoundsAreHeld
<1>14. StaleAreUnused'  BY <1>1, <1>2, <1>3, <1>4 DEF StaleAreUnused
<1>15. DownIsEmpty'  BY <1>1, <1>2, <1>3, <1>4 DEF DownIsEmpty
<1>16. FilesAreThere'  BY <1>1, <1>2, <1>3, <1>4, RowTyped, KeysApart DEF FilesAreThere
<1> QED  BY <1>5, <1>6, <1>7, <1>8, <1>9, <1>10, <1>11, <1>12, <1>13, <1>14, <1>15, <1>16

LEMMA LinkKeeps ==
  ASSUME RecordingsInv, NEW p \in Places, Link(p)
  PROVE  RecordingsInv'
<1> USE DEF RecordingsInv, New, Is, LiveRow, Unfinished, Unattended, TaskOf, Jobless,
       Uses, OthersKept, OthersStand, OthersWork, Walks, Handed
<1>1. /\ place[p] # None /\ place[p].pc = "link"
      /\ place[p].rec \in Recordings /\ worker = "up"
      /\ UNCHANGED <<owner, backend, seen, request, worker, janitor>>
      /\ UNCHANGED <<row, job, file, lost>>
  BY TaskTyped DEF Link, On, outside, disk
<1>2. /\ place[p].kind = "transcribe" /\ owner[place[p].rec] = "chat"
  BY <1>1, TaskTyped DEF KindsFit, OfIndexing, OfErasure, Returns
<1>3. \E pc \in {"postpone", "fail", "transcribe"} :
          Walks(p, pc) /\ place'[p].key = place[p].key
  BY <1>1, GoesWalks DEF Link, PCs, Chores, Steps, Returns, AfterFailure
<1>4. TypeOK'  BY <1>1, <1>2, <1>3 DEF TypeOK
<1>5. UploadsFit'  BY <1>1, <1>2, <1>3, KeysApart DEF UploadsFit
<1>6. KindsFit'  BY <1>1, <1>2, <1>3, TaskTyped DEF KindsFit, OfTranscription, OfIndexing,
    OfErasure, Returns
<1>7. DeletionsStay'  BY <1>1, <1>2, <1>3, TaskTyped DEF DeletionsStay
<1>8. RowsFit'  BY <1>1, <1>2, <1>3 DEF RowsFit
<1>9. TasksFit'  BY <1>1, <1>2, <1>3, TaskTyped DEF TasksFit, Returns
<1>10. JobsStay'  BY <1>1, <1>2, <1>3 DEF JobsStay
<1>11. AlignmentFits'  BY <1>1, <1>2, <1>3 DEF AlignmentFits
<1>12. SoundsAreHeld'  BY <1>1, <1>2, <1>3, TaskTyped, KeysApart DEF SoundsAreHeld
<1>13. StaleAreUnused'  BY <1>1, <1>2, <1>3 DEF StaleAreUnused
<1>14. DownIsEmpty'  BY <1>1, <1>2, <1>3 DEF DownIsEmpty
<1>15. FilesAreThere'  BY <1>1, <1>2, <1>3, RowTyped, KeysApart DEF FilesAreThere
<1> QED  BY <1>4, <1>5, <1>6, <1>7, <1>8, <1>9, <1>10, <1>11, <1>12, <1>13, <1>14, <1>15

LEMMA TranscribeKeeps ==
  ASSUME RecordingsInv, NEW p \in Places, Transcribe(p)
  PROVE  RecordingsInv'
<1> USE DEF RecordingsInv, New, Is, LiveRow, Unfinished, Unattended, TaskOf, Jobless,
       Uses, OthersKept, OthersStand, OthersWork, Walks, Handed
<1>1. /\ place[p] # None /\ place[p].pc = "transcribe"
      /\ place[p].rec \in Recordings /\ worker = "up"
      /\ UNCHANGED <<owner, backend, seen, request, worker, janitor>>
      /\ UNCHANGED <<row, job, file, lost>>
  BY TaskTyped DEF Transcribe, On, outside, disk
<1>2. /\ place[p].kind = "transcribe" /\ owner[place[p].rec] = "chat"
  BY <1>1, TaskTyped DEF KindsFit, OfIndexing, OfErasure, Returns
<1>3. \E pc \in {"complete", "fail", "postpone", "end"} :
          Walks(p, pc) /\ place'[p].key = place[p].key
  BY <1>1, GoesWalks DEF Transcribe, PCs, Chores, Steps, Returns, AfterFailure
<1>4. TypeOK'  BY <1>1, <1>2, <1>3 DEF TypeOK
<1>5. UploadsFit'  BY <1>1, <1>2, <1>3, KeysApart DEF UploadsFit
<1>6. KindsFit'  BY <1>1, <1>2, <1>3, TaskTyped DEF KindsFit, OfTranscription, OfIndexing,
    OfErasure, Returns
<1>7. DeletionsStay'  BY <1>1, <1>2, <1>3, TaskTyped DEF DeletionsStay
<1>8. RowsFit'  BY <1>1, <1>2, <1>3 DEF RowsFit
<1>9. TasksFit'  BY <1>1, <1>2, <1>3, TaskTyped DEF TasksFit, Returns
<1>10. JobsStay'  BY <1>1, <1>2, <1>3 DEF JobsStay
<1>11. AlignmentFits'  BY <1>1, <1>2, <1>3 DEF AlignmentFits
<1>12. SoundsAreHeld'  BY <1>1, <1>2, <1>3, TaskTyped, KeysApart DEF SoundsAreHeld
<1>13. StaleAreUnused'  BY <1>1, <1>2, <1>3 DEF StaleAreUnused
<1>14. DownIsEmpty'  BY <1>1, <1>2, <1>3 DEF DownIsEmpty
<1>15. FilesAreThere'  BY <1>1, <1>2, <1>3, RowTyped, KeysApart DEF FilesAreThere
<1> QED  BY <1>4, <1>5, <1>6, <1>7, <1>8, <1>9, <1>10, <1>11, <1>12, <1>13, <1>14, <1>15

(* The outcome of a row in progress, and of no other. *)
LEMMA CompleteKeeps ==
  ASSUME RecordingsInv, NEW p \in Places, Complete(p)
  PROVE  RecordingsInv'
<1> USE DEF RecordingsInv, New, Is, LiveRow, Unfinished, Unattended, TaskOf, Jobless,
       Uses, OthersKept, OthersStand, OthersWork, Walks, Handed, Marked
<1> DEFINE r == place[p].rec
<1>1. /\ place[p] # None /\ place[p].pc = "complete"
      /\ r \in Recordings /\ worker = "up"
      /\ UNCHANGED <<owner, backend, seen, request, worker, janitor>>
      /\ UNCHANGED <<job, file, lost>>
  BY TaskTyped DEF Complete, On, outside, disk
<1>2. /\ place[p].kind = "transcribe" /\ owner[r] = "chat"
  BY <1>1, TaskTyped DEF KindsFit, OfIndexing, OfErasure, Returns
<1>3. Walks(p, "unlink") /\ place'[p].key = place[p].key
  BY <1>1, GoesWalks DEF Complete, PCs, Chores, Steps, Returns
<1>4. ~Is(r, "queued")
  BY <1>1, <1>2 DEF TasksFit, Returns
<1>5. \/ /\ row[r] # None /\ row[r].status = "processing"
         /\ Marked(r, "ready")
      \/ row' = row /\ ~(row[r] # None /\ row[r].status \in {"queued", "processing"})
  BY <1>1, <1>4, MovedMarks DEF Complete
<1>6. TypeOK'  BY <1>1, <1>2, <1>3, <1>4, <1>5 DEF TypeOK, RowsTyped
<1>7. UploadsFit'  BY <1>1, <1>2, <1>3, <1>4, <1>5, KeysApart DEF UploadsFit
<1>8. KindsFit'
  <2> HIDE DEF RecordingsInv
  <2>1. \A s \in Recordings : /\ row'[s] = None <=> row[s] = None
                              /\ row[s] # None => row'[s].deleted = row[s].deleted
    BY <1>5
  <2>2. /\ OthersWork(p)
        /\ place'[p].rec = place[p].rec /\ place'[p].kind = place[p].kind
        /\ place'[p].pc \in OfTranscription
    BY <1>3 DEF OfTranscription
  <2>3. owner' = owner /\ job' = job  BY <1>1
  <2>4. KindsFit /\ TypeOK  BY DEF RecordingsInv
  <2>5. place[p] # None /\ place[p].kind = "transcribe"  BY <1>1, <1>2
  <2>6. StaysInKind(p)  BY <2>1, <2>2, <2>3, <2>5 DEF StaysInKind
  <2> QED  BY <2>4, <2>5, <2>6, KindsStayFitting
<1>9. DeletionsStay'  BY <1>1, <1>2, <1>3, <1>4, <1>5, TaskTyped DEF DeletionsStay
<1>10. RowsFit'  BY <1>1, <1>2, <1>3, <1>4, <1>5 DEF RowsFit
<1>11. TasksFit'  BY <1>1, <1>2, <1>3, <1>4, <1>5, TaskTyped DEF TasksFit, Returns
<1>12. JobsStay'  BY <1>1, <1>2, <1>3, <1>4, <1>5 DEF JobsStay
<1>13. AlignmentFits'  BY <1>1, <1>2, <1>3, <1>4, <1>5 DEF AlignmentFits
<1>14. SoundsAreHeld'  BY <1>1, <1>2, <1>3, <1>4, <1>5, TaskTyped, KeysApart DEF
    SoundsAreHeld
<1>15. StaleAreUnused'  BY <1>1, <1>2, <1>3, <1>4, <1>5 DEF StaleAreUnused
<1>16. DownIsEmpty'  BY <1>1, <1>2, <1>3, <1>4, <1>5 DEF DownIsEmpty
<1>17. FilesAreThere'  BY <1>1, <1>2, <1>3, <1>4, <1>5, RowTyped, KeysApart DEF
    FilesAreThere
<1> QED  BY <1>6, <1>7, <1>8, <1>9, <1>10, <1>11, <1>12, <1>13, <1>14, <1>15, <1>16, <1>17

LEMMA FailKeeps ==
  ASSUME RecordingsInv, NEW p \in Places, Fail(p)
  PROVE  RecordingsInv'
<1> USE DEF RecordingsInv, New, Is, LiveRow, Unfinished, Unattended, TaskOf, Jobless,
       Uses, OthersKept, OthersStand, OthersWork, Walks, Handed, Marked
<1> DEFINE r == place[p].rec
<1>1. /\ place[p] # None /\ place[p].pc = "fail"
      /\ r \in Recordings /\ worker = "up"
      /\ UNCHANGED <<owner, backend, seen, request, worker, janitor>>
      /\ UNCHANGED <<job, file, lost>>
  BY TaskTyped DEF Fail, On, outside, disk
<1>2. /\ place[p].kind = "transcribe" /\ owner[r] = "chat"
  BY <1>1, TaskTyped DEF KindsFit, OfIndexing, OfErasure, Returns
<1>3. Walks(p, "unlink") /\ place'[p].key = place[p].key
  BY <1>1, GoesWalks DEF Fail, PCs, Chores, Steps, Returns
<1>4. \/ /\ row[r] # None /\ row[r].status \in {"queued", "processing"}
         /\ Marked(r, "error")
      \/ row' = row /\ ~(row[r] # None /\ row[r].status \in {"queued", "processing"})
  BY <1>1, MovedMarks DEF Fail
<1>5. TypeOK'  BY <1>1, <1>2, <1>3, <1>4 DEF TypeOK, RowsTyped
<1>6. UploadsFit'  BY <1>1, <1>2, <1>3, <1>4, KeysApart DEF UploadsFit
<1>7. KindsFit'  BY <1>1, <1>2, <1>3, <1>4, TaskTyped DEF KindsFit, OfTranscription,
    OfIndexing, OfErasure, Returns
<1>8. DeletionsStay'  BY <1>1, <1>2, <1>3, <1>4, TaskTyped DEF DeletionsStay
<1>9. RowsFit'  BY <1>1, <1>2, <1>3, <1>4 DEF RowsFit
<1>10. TasksFit'  BY <1>1, <1>2, <1>3, <1>4, TaskTyped DEF TasksFit, Returns
<1>11. JobsStay'  BY <1>1, <1>2, <1>3, <1>4 DEF JobsStay
<1>12. AlignmentFits'  BY <1>1, <1>2, <1>3, <1>4 DEF AlignmentFits
<1>13. SoundsAreHeld'  BY <1>1, <1>2, <1>3, <1>4, TaskTyped, KeysApart DEF SoundsAreHeld
<1>14. StaleAreUnused'  BY <1>1, <1>2, <1>3, <1>4 DEF StaleAreUnused
<1>15. DownIsEmpty'  BY <1>1, <1>2, <1>3, <1>4 DEF DownIsEmpty
<1>16. FilesAreThere'  BY <1>1, <1>2, <1>3, <1>4, RowTyped, KeysApart DEF FilesAreThere
<1> QED  BY <1>5, <1>6, <1>7, <1>8, <1>9, <1>10, <1>11, <1>12, <1>13, <1>14, <1>15, <1>16

(* The file of a settled attachment goes. *)
LEMMA UnlinkKeeps ==
  ASSUME RecordingsInv, NEW p \in Places, Unlink(p)
  PROVE  RecordingsInv'
<1> USE DEF RecordingsInv, New, Is, LiveRow, Unfinished, Unattended, TaskOf, Jobless,
       Uses, OthersKept, OthersStand, OthersWork, Walks, Handed, Filed
<1> DEFINE r == place[p].rec
<1>1. /\ place[p] # None /\ place[p].pc = "unlink"
      /\ r \in Recordings /\ worker = "up"
      /\ UNCHANGED <<owner, backend, seen, request, worker, janitor>>
      /\ UNCHANGED <<row, job>>
  BY TaskTyped DEF Unlink, On, outside, disk
<1>2. /\ place[p].kind = "transcribe" /\ owner[r] = "chat"
  BY <1>1, TaskTyped DEF KindsFit, OfIndexing, OfErasure, Returns
<1>3. Walks(p, "finish") /\ place'[p].key = place[p].key
  BY <1>1, GoesWalks DEF Unlink, PCs, Chores, Steps, Returns
<1>4. Filed(r, "none") /\ lost' = lost
  BY <1>1, UnlinkedFiled, KeysApart DEF Unlink, Unlinked
<1>5. ~Unfinished(r) /\ ~New(r)
  BY <1>1, <1>2 DEF TasksFit, UploadsFit
<1>6. TypeOK'  BY <1>1, <1>2, <1>3, <1>4, <1>5 DEF TypeOK
<1>7. UploadsFit'  BY <1>1, <1>2, <1>3, <1>4, <1>5, KeysApart DEF UploadsFit
<1>8. KindsFit'  BY <1>1, <1>2, <1>3, <1>4, <1>5, TaskTyped DEF KindsFit, OfTranscription,
    OfIndexing, OfErasure, Returns
<1>9. DeletionsStay'  BY <1>1, <1>2, <1>3, <1>4, <1>5, TaskTyped DEF DeletionsStay
<1>10. RowsFit'  BY <1>1, <1>2, <1>3, <1>4, <1>5 DEF RowsFit
<1>11. TasksFit'  BY <1>1, <1>2, <1>3, <1>4, <1>5, TaskTyped DEF TasksFit, Returns
<1>12. JobsStay'  BY <1>1, <1>2, <1>3, <1>4, <1>5 DEF JobsStay
<1>13. AlignmentFits'  BY <1>1, <1>2, <1>3, <1>4, <1>5 DEF AlignmentFits
<1>14. SoundsAreHeld'  BY <1>1, <1>2, <1>3, <1>4, <1>5, TaskTyped, KeysApart DEF
    SoundsAreHeld
<1>15. StaleAreUnused'  BY <1>1, <1>2, <1>3, <1>4, <1>5 DEF StaleAreUnused
<1>16. DownIsEmpty'  BY <1>1, <1>2, <1>3, <1>4, <1>5 DEF DownIsEmpty
<1>17. FilesAreThere'  BY <1>1, <1>2, <1>3, <1>4, <1>5, RowTyped, KeysApart DEF
    FilesAreThere
<1> QED  BY <1>6, <1>7, <1>8, <1>9, <1>10, <1>11, <1>12, <1>13, <1>14, <1>15, <1>16, <1>17

LEMMA PostponeKeeps ==
  ASSUME RecordingsInv, NEW p \in Places, Postpone(p)
  PROVE  RecordingsInv'
<1> USE DEF RecordingsInv, New, Is, LiveRow, Unfinished, Unattended, TaskOf, Jobless,
       Uses, OthersKept, OthersStand, OthersWork, Walks, Handed
<1> DEFINE r == place[p].rec
<1>1. /\ place[p] # None /\ place[p].pc = "postpone"
      /\ r \in Recordings /\ worker = "up"
      /\ UNCHANGED <<owner, backend, seen, request, worker, janitor>>
      /\ UNCHANGED <<row, file, lost>>
  BY TaskTyped DEF Postpone, On, outside, disk
<1>2. /\ place[p].kind = "transcribe" /\ owner[r] = "chat"
  BY <1>1, TaskTyped DEF KindsFit, OfIndexing, OfErasure, Returns
<1>3. Walks(p, "end") /\ place'[p].key = place[p].key
  BY <1>1, GoesWalks DEF Postpone, PCs, Chores, Steps, Returns
<1>4. \/ Handed(r) /\ job[r] # None
      \/ job' = job
  BY <1>1, LeaseHanded DEF Postpone, JobFree, Own
<1>5. TypeOK'  BY <1>1, <1>2, <1>3, <1>4 DEF TypeOK
<1>6. UploadsFit'  BY <1>1, <1>2, <1>3, <1>4, KeysApart DEF UploadsFit
<1>7. KindsFit'  BY <1>1, <1>2, <1>3, <1>4, TaskTyped DEF KindsFit, OfTranscription,
    OfIndexing, OfErasure, Returns
<1>8. DeletionsStay'  BY <1>1, <1>2, <1>3, <1>4, TaskTyped DEF DeletionsStay
<1>9. RowsFit'  BY <1>1, <1>2, <1>3, <1>4 DEF RowsFit
<1>10. TasksFit'  BY <1>1, <1>2, <1>3, <1>4, TaskTyped DEF TasksFit, Returns
<1>11. JobsStay'  BY <1>1, <1>2, <1>3, <1>4 DEF JobsStay
<1>12. AlignmentFits'  BY <1>1, <1>2, <1>3, <1>4 DEF AlignmentFits
<1>13. SoundsAreHeld'  BY <1>1, <1>2, <1>3, <1>4, TaskTyped, KeysApart DEF SoundsAreHeld
<1>14. StaleAreUnused'  BY <1>1, <1>2, <1>3, <1>4 DEF StaleAreUnused
<1>15. DownIsEmpty'  BY <1>1, <1>2, <1>3, <1>4 DEF DownIsEmpty
<1>16. FilesAreThere'  BY <1>1, <1>2, <1>3, <1>4, RowTyped, KeysApart DEF FilesAreThere
<1> QED  BY <1>5, <1>6, <1>7, <1>8, <1>9, <1>10, <1>11, <1>12, <1>13, <1>14, <1>15, <1>16

-----------------------------------------------------------------------------
(* The steps of indexing and erasure.                                      *)

(* A live row is marked; with its sound the task goes on to the replacement. *)
LEMMA StartKeeps ==
  ASSUME RecordingsInv, NEW p \in Places, Start(p)
  PROVE  RecordingsInv'
<1> USE DEF RecordingsInv, New, Is, LiveRow, Unfinished, Unattended, TaskOf, Jobless,
       Uses, OthersKept, OthersStand, OthersWork, Walks, Handed, Marked
<1> DEFINE r == place[p].rec
<1>1. /\ place[p] # None /\ place[p].pc = "start"
      /\ r \in Recordings /\ worker = "up"
      /\ UNCHANGED <<owner, backend, seen, request, worker, janitor>>
      /\ UNCHANGED <<job, file, lost>>
  BY TaskTyped DEF Start, On, outside, disk
<1>2. /\ place[p].kind = "index" /\ owner[r] = "kb"
  BY <1>1, TaskTyped DEF KindsFit, OfTranscription, OfErasure, Returns, TypeOK, Owners
<1>3. \E pc \in {"giveUp", "finish", "replace", "work", "retry"} :
          /\ Walks(p, pc) /\ place'[p].key = place[p].key
          /\ pc = "replace" => row[r] # None /\ row[r].audio # None
  <2> DEFINE over == place[p].attempts > MaxAttempts
             linked == row[r].source /\ file[r] # "none"
             next == IF over THEN "giveUp" ELSE IF ~LiveRow(r) THEN "finish"
                     ELSE IF row[r].audio # None THEN "replace"
                     ELSE IF linked THEN "work" ELSE "retry"
  <2>1. Goes(p, next)  BY <1>1 DEF Start, LiveRow
  <2>2. /\ next \in {"giveUp", "finish", "replace", "work", "retry"}
        /\ next = "replace" => row[r] # None /\ row[r].audio # None
    BY DEF LiveRow
  <2> HIDE DEF next
  <2>3. Walks(p, next) /\ place'[p].key = place[p].key
    BY <1>1, <2>1, <2>2, GoesWalks DEF PCs, Chores, Steps
  <2> QED  BY <2>2, <2>3
<1>4. \/ row[r] # None /\ Marked(r, "processing")
      \/ row' = row
  BY <1>1, <1>2, StatusMarked DEF Start, RowsFit
<1>5. TypeOK'  BY <1>1, <1>2, <1>3, <1>4 DEF TypeOK, RowsTyped
<1>6. UploadsFit'  BY <1>1, <1>2, <1>3, <1>4, KeysApart DEF UploadsFit
<1>7. KindsFit'  BY <1>1, <1>2, <1>3, <1>4, TaskTyped DEF KindsFit, OfTranscription,
    OfIndexing, OfErasure, Returns
<1>8. DeletionsStay'  BY <1>1, <1>2, <1>3, <1>4, TaskTyped DEF DeletionsStay, Own
<1>9. RowsFit'  BY <1>1, <1>2, <1>3, <1>4 DEF RowsFit
<1>10. TasksFit'  BY <1>1, <1>2, <1>3, <1>4, TaskTyped DEF TasksFit, KindsFit,
    OfTranscription, Returns
<1>11. JobsStay'  BY <1>1, <1>2, <1>3, <1>4 DEF JobsStay
<1>12. AlignmentFits'  BY <1>1, <1>2, <1>3, <1>4 DEF AlignmentFits
<1>13. SoundsAreHeld'  BY <1>1, <1>2, <1>3, <1>4, TaskTyped, KeysApart DEF SoundsAreHeld
<1>14. StaleAreUnused'  BY <1>1, <1>2, <1>3, <1>4 DEF StaleAreUnused
<1>15. DownIsEmpty'  BY <1>1, <1>2, <1>3, <1>4 DEF DownIsEmpty
<1>16. FilesAreThere'  BY <1>1, <1>2, <1>3, <1>4, RowTyped, KeysApart DEF FilesAreThere
<1> QED  BY <1>5, <1>6, <1>7, <1>8, <1>9, <1>10, <1>11, <1>12, <1>13, <1>14, <1>15, <1>16

LEMMA WorkKeeps ==
  ASSUME RecordingsInv, NEW p \in Places, Work(p)
  PROVE  RecordingsInv'
<1> USE DEF RecordingsInv, New, Is, LiveRow, Unfinished, Unattended, TaskOf, Jobless,
       Uses, OthersKept, OthersStand, OthersWork, Walks, Handed
<1>1. /\ place[p] # None /\ place[p].pc = "work"
      /\ place[p].rec \in Recordings /\ worker = "up"
      /\ UNCHANGED <<owner, backend, seen, request, worker, janitor>>
      /\ UNCHANGED <<row, job, file, lost>>
  BY TaskTyped DEF Work, On, outside, disk
<1>2. /\ place[p].kind = "index" /\ owner[place[p].rec] = "kb"
  BY <1>1, TaskTyped DEF KindsFit, OfTranscription, OfErasure, Returns, TypeOK, Owners
<1>3. \E pc \in {"reject", "compress", "retry", "finish"} :
          Walks(p, pc) /\ place'[p].key = place[p].key
  BY <1>1, GoesWalks DEF Work, PCs, Chores, Steps, Returns
<1>4. TypeOK'  BY <1>1, <1>2, <1>3 DEF TypeOK
<1>5. UploadsFit'  BY <1>1, <1>2, <1>3, KeysApart DEF UploadsFit
<1>6. KindsFit'  BY <1>1, <1>2, <1>3, TaskTyped DEF KindsFit, OfTranscription, OfIndexing,
    OfErasure, Returns
<1>7. DeletionsStay'  BY <1>1, <1>2, <1>3, TaskTyped DEF DeletionsStay, Own
<1>8. RowsFit'  BY <1>1, <1>2, <1>3 DEF RowsFit
<1>9. TasksFit'  BY <1>1, <1>2, <1>3, TaskTyped DEF TasksFit, KindsFit, OfTranscription,
    Returns
<1>10. JobsStay'  BY <1>1, <1>2, <1>3 DEF JobsStay
<1>11. AlignmentFits'  BY <1>1, <1>2, <1>3 DEF AlignmentFits
<1>12. SoundsAreHeld'  BY <1>1, <1>2, <1>3, TaskTyped, KeysApart DEF SoundsAreHeld
<1>13. StaleAreUnused'  BY <1>1, <1>2, <1>3 DEF StaleAreUnused
<1>14. DownIsEmpty'  BY <1>1, <1>2, <1>3 DEF DownIsEmpty
<1>15. FilesAreThere'  BY <1>1, <1>2, <1>3, RowTyped, KeysApart DEF FilesAreThere
<1> QED  BY <1>4, <1>5, <1>6, <1>7, <1>8, <1>9, <1>10, <1>11, <1>12, <1>13, <1>14, <1>15

(* The source of a refused document goes. *)
LEMMA RejectKeeps ==
  ASSUME RecordingsInv, NEW p \in Places, Reject(p)
  PROVE  RecordingsInv'
<1> USE DEF RecordingsInv, New, Is, LiveRow, Unfinished, Unattended, TaskOf, Jobless,
       Uses, OthersKept, OthersStand, OthersWork, Walks, Handed, SourceTaken, Filed
<1>1. /\ place[p] # None /\ place[p].pc = "reject"
      /\ place[p].rec \in Recordings /\ worker = "up"
      /\ UNCHANGED <<owner, backend, seen, request, worker, janitor>>
      /\ UNCHANGED job
  BY TaskTyped DEF Reject, On, outside, disk
<1>2. /\ place[p].kind = "index" /\ owner[place[p].rec] = "kb"
  BY <1>1, TaskTyped DEF KindsFit, OfTranscription, OfErasure, Returns, TypeOK, Owners
<1>3. \E pc \in {"giveUp", "retry"} :
          Walks(p, pc) /\ place'[p].key = place[p].key
  BY <1>1, GoesWalks DEF Reject, PCs, Chores, Steps, Returns
<1>4. UNCHANGED <<row, file, lost>> \/ SourceTaken(place[p].rec)
  BY <1>1, SourceDroppedTakes, SourceTornTakes DEF Reject
<1>5. TypeOK'  BY <1>1, <1>2, <1>3, <1>4 DEF TypeOK, RowsTyped
<1>6. UploadsFit'  BY <1>1, <1>2, <1>3, <1>4, KeysApart DEF UploadsFit
<1>7. KindsFit'  BY <1>1, <1>2, <1>3, <1>4, TaskTyped DEF KindsFit, OfTranscription,
    OfIndexing, OfErasure, Returns
<1>8. DeletionsStay'  BY <1>1, <1>2, <1>3, <1>4, TaskTyped DEF DeletionsStay, Own
<1>9. RowsFit'  BY <1>1, <1>2, <1>3, <1>4 DEF RowsFit
<1>10. TasksFit'  BY <1>1, <1>2, <1>3, <1>4, TaskTyped DEF TasksFit, KindsFit,
    OfTranscription, Returns
<1>11. JobsStay'  BY <1>1, <1>2, <1>3, <1>4 DEF JobsStay
<1>12. AlignmentFits'  BY <1>1, <1>2, <1>3, <1>4 DEF AlignmentFits
<1>13. SoundsAreHeld'  BY <1>1, <1>2, <1>3, <1>4, TaskTyped, KeysApart DEF SoundsAreHeld
<1>14. StaleAreUnused'  BY <1>1, <1>2, <1>3, <1>4 DEF StaleAreUnused
<1>15. DownIsEmpty'  BY <1>1, <1>2, <1>3, <1>4 DEF DownIsEmpty
<1>16. FilesAreThere'  BY <1>1, <1>2, <1>3, <1>4, RowTyped, KeysApart DEF FilesAreThere
<1> QED  BY <1>5, <1>6, <1>7, <1>8, <1>9, <1>10, <1>11, <1>12, <1>13, <1>14, <1>15, <1>16

(* Fresh sound is under a key nobody has. *)
LEMMA CompressKeeps ==
  ASSUME RecordingsInv, NEW p \in Places, NEW k \in AudioKeys, Compress(p, k)
  PROVE  RecordingsInv'
<1> USE DEF RecordingsInv, New, Is, LiveRow, Unfinished, Unattended, TaskOf, Jobless,
       Uses, OthersKept, OthersStand, OthersWork, Walks, Handed, Filed
<1>1. /\ place[p] # None /\ place[p].pc = "compress"
      /\ place[p].rec \in Recordings /\ worker = "up"
      /\ UNCHANGED <<owner, backend, seen, request, worker, janitor>>
      /\ UNCHANGED <<row, job>>
  BY TaskTyped DEF Compress, On, outside
<1>2. /\ place[p].kind = "index" /\ owner[place[p].rec] = "kb"
  BY <1>1, TaskTyped DEF KindsFit, OfTranscription, OfErasure, Returns, TypeOK, Owners
<1>3. /\ file[k] = "none" /\ k \notin janitor.stale
      /\ \A r \in Recordings : row[r] # None => row[r].audio # k
      /\ \A q \in Places : place[q] # None => place[q].key # k
  BY DEF Compress, FreshKey
<1>4. /\ Filed(k, "new") /\ lost' \in SUBSET Keys
      /\ \A j \in Keys : j # k => (j \in lost' <=> j \in lost)
  BY KeysApart DEF Compress, Filed, TypeOK
<1>5. Walks(p, "record") /\ place'[p].key = k
  <2> DEFINE task == [place[p] EXCEPT !.pc = "record", !.key = k]
  <2>1. /\ task \in Task /\ task.rec = place[p].rec /\ task.kind = place[p].kind
        /\ task.attempts = place[p].attempts /\ task.pc = "record" /\ task.key = k
    BY <1>1, TaskTyped DEF Task, Steps
  <2>2. place' = [place EXCEPT ![p] = task]  BY DEF Compress
  <2> HIDE DEF task
  <2> QED  BY <2>1, <2>2, RecordsAssumption DEF TypeOK
<1>6. TypeOK'  BY <1>1, <1>2, <1>3, <1>4, <1>5 DEF TypeOK
<1>7. UploadsFit'  BY <1>1, <1>2, <1>3, <1>4, <1>5, KeysApart DEF UploadsFit
<1>8. KindsFit'  BY <1>1, <1>2, <1>3, <1>4, <1>5, TaskTyped DEF KindsFit, OfTranscription,
    OfIndexing, OfErasure, Returns
<1>9. DeletionsStay'  BY <1>1, <1>2, <1>3, <1>4, <1>5, TaskTyped DEF DeletionsStay, Own
<1>10. RowsFit'  BY <1>1, <1>2, <1>3, <1>4, <1>5 DEF RowsFit
<1>11. TasksFit'  BY <1>1, <1>2, <1>3, <1>4, <1>5, TaskTyped DEF TasksFit, KindsFit,
    OfTranscription, Returns
<1>12. JobsStay'  BY <1>1, <1>2, <1>3, <1>4, <1>5 DEF JobsStay
<1>13. AlignmentFits'  BY <1>1, <1>2, <1>3, <1>4, <1>5 DEF AlignmentFits
<1>14. SoundsAreHeld'
  BY <1>1, <1>3, <1>4, <1>5, TaskTyped, KeysApart, NoneAssumption DEF SoundsAreHeld
<1>15. StaleAreUnused'  BY <1>1, <1>2, <1>3, <1>4, <1>5 DEF StaleAreUnused
<1>16. DownIsEmpty'  BY <1>1, <1>2, <1>3, <1>4, <1>5 DEF DownIsEmpty
<1>17. FilesAreThere'  BY <1>1, <1>2, <1>3, <1>4, <1>5, RowTyped, KeysApart DEF
    FilesAreThere
<1> QED  BY <1>6, <1>7, <1>8, <1>9, <1>10, <1>11, <1>12, <1>13, <1>14, <1>15, <1>16, <1>17

(* The sound gets its row, or its file is taken back. *)
LEMMA RecordKeeps ==
  ASSUME RecordingsInv, NEW p \in Places, Record(p)
  PROVE  RecordingsInv'
<1> USE DEF RecordingsInv, New, Is, LiveRow, Unfinished, Unattended, TaskOf, Jobless,
       Uses, OthersKept, OthersStand, OthersWork, Walks, Handed, Filed
<1> DEFINE r == place[p].rec
<1>1. /\ place[p] # None /\ place[p].pc = "record"
      /\ r \in Recordings /\ worker = "up"
      /\ UNCHANGED <<owner, backend, seen, request, worker, janitor>>
      /\ UNCHANGED job
  BY TaskTyped DEF Record, On, outside
<1>2. /\ place[p].kind = "index" /\ owner[r] = "kb"
  BY <1>1, TaskTyped DEF KindsFit, OfTranscription, OfErasure, Returns, TypeOK, Owners
<1>3. place[p].key \in AudioKeys /\ place[p].key # None
  BY <1>1, TaskTyped, NoneAssumption DEF SoundsAreHeld
<1>4. \/ /\ row[r] # None /\ row' = SoundOf(r, place[p].key)
         /\ \/ KeyLeft(p, "replace") /\ UNCHANGED <<file, lost>>
            \/ KeyLeft(p, "retry") /\ Unlinked(place[p].key, TRUE)
      \/ /\ row' = row /\ Unlinked(place[p].key, FALSE)
         /\ KeyLeft(p, "finish") \/ KeyLeft(p, "retry")
  BY DEF Record, LiveRow, disk
<1>5. \/ /\ row[r] # None
         /\ RowsTyped /\ OthersKept(r) /\ row'[r] # None
         /\ row'[r].audio = place[p].key
         /\ row'[r].status = row[r].status
         /\ row'[r].sent = row[r].sent
         /\ row'[r].source = row[r].source
         /\ row'[r].deleted = row[r].deleted
         /\ \/ Walks(p, "replace") /\ UNCHANGED <<file, lost>>
            \/ /\ Walks(p, "retry") /\ Filed(place[p].key, "none")
               /\ lost' \in SUBSET Keys /\ lost \subseteq lost' /\ place[p].key \in lost'
      \/ /\ row' = row /\ Filed(place[p].key, "none")
         /\ lost' \in SUBSET Keys /\ lost \subseteq lost'
         /\ Walks(p, "finish") \/ Walks(p, "retry")
  <2>1. /\ KeyLeft(p, "replace") => Walks(p, "replace")
        /\ KeyLeft(p, "retry") => Walks(p, "retry")
        /\ KeyLeft(p, "finish") => Walks(p, "finish")
    BY <1>1, KeyLeftWalks DEF PCs, Chores, Steps
  <2>2. \A referred \in BOOLEAN : Unlinked(place[p].key, referred) =>
            /\ Filed(place[p].key, "none") /\ lost' \in SUBSET Keys /\ lost \subseteq lost'
            /\ referred => place[p].key \in lost'
    BY <1>3, UnlinkedFiled, KeysApart
  <2>3. CASE row[r] # None /\ row' = SoundOf(r, place[p].key)
    <3>1. /\ RowsTyped /\ OthersKept(r) /\ row'[r] # None
          /\ row'[r].audio = place[p].key
          /\ row'[r].status = row[r].status
          /\ row'[r].sent = row[r].sent
          /\ row'[r].source = row[r].source
          /\ row'[r].deleted = row[r].deleted
      BY <1>1, <1>3, <2>3, SoundRow
    <3>2. CASE KeyLeft(p, "replace") /\ UNCHANGED <<file, lost>>
      BY <2>1, <2>3, <3>1, <3>2
    <3>3. CASE KeyLeft(p, "retry") /\ Unlinked(place[p].key, TRUE)
      BY <2>1, <2>2, <2>3, <3>1, <3>3
    <3>4. CASE row' = row /\ Unlinked(place[p].key, FALSE)
               /\ (KeyLeft(p, "finish") \/ KeyLeft(p, "retry"))
      BY <2>1, <2>2, <3>4
    <3> QED  BY <1>4, <3>2, <3>3, <3>4
  <2>4. CASE row' = row /\ Unlinked(place[p].key, FALSE)
             /\ (KeyLeft(p, "finish") \/ KeyLeft(p, "retry"))
    BY <2>1, <2>2, <2>4
  <2> QED  BY <1>4, <2>3, <2>4
<1>6. place'[p].key = None
  BY <1>1, <1>4, KeyLeftWalks DEF PCs, Chores, Steps
<1>7. TypeOK'  BY <1>1, <1>2, <1>3, <1>4, <1>5, <1>6 DEF TypeOK, RowsTyped
<1>8. UploadsFit'
  BY <1>1, <1>3, <1>5, KeysApart DEF UploadsFit
<1>9. KindsFit'  BY <1>1, <1>2, <1>3, <1>4, <1>5, <1>6, TaskTyped DEF KindsFit,
    OfTranscription, OfIndexing, OfErasure, Returns
<1>10. DeletionsStay'  BY <1>1, <1>2, <1>3, <1>4, <1>5, <1>6, TaskTyped DEF DeletionsStay,
    Own
<1>11. RowsFit'
  BY <1>1, <1>2, <1>3, <1>5, KeysApart DEF RowsFit, SoundsAreHeld
<1>12. TasksFit'  BY <1>1, <1>2, <1>3, <1>4, <1>5, <1>6, TaskTyped DEF TasksFit, KindsFit,
    OfTranscription, Returns
<1>13. JobsStay'  BY <1>1, <1>2, <1>3, <1>4, <1>5, <1>6 DEF JobsStay
<1>14. AlignmentFits'  BY <1>1, <1>2, <1>3, <1>4, <1>5, <1>6 DEF AlignmentFits
<1>15. SoundsAreHeld'
  BY <1>1, <1>3, <1>5, <1>6, TaskTyped, KeysApart DEF SoundsAreHeld
<1>16. StaleAreUnused'
  BY <1>1, <1>3, <1>5, KeysApart DEF StaleAreUnused, SoundsAreHeld
<1>17. DownIsEmpty'  BY <1>1, <1>2, <1>3, <1>4, <1>5, <1>6 DEF DownIsEmpty
<1>18. FilesAreThere'
  BY <1>1, <1>2, <1>3, <1>5, RowTyped, KeysApart DEF FilesAreThere, SoundsAreHeld
<1> QED  BY <1>7, <1>8, <1>9, <1>10, <1>11, <1>12, <1>13, <1>14, <1>15, <1>16, <1>17,
    <1>18

LEMMA BuildFailsKeeps ==
  ASSUME RecordingsInv, NEW p \in Places, BuildFails(p)
  PROVE  RecordingsInv'
<1> USE DEF RecordingsInv, New, Is, LiveRow, Unfinished, Unattended, TaskOf, Jobless,
       Uses, OthersKept, OthersStand, OthersWork, Walks, Handed
<1>1. /\ place[p] # None /\ place[p].pc = "replace"
      /\ place[p].rec \in Recordings /\ worker = "up"
      /\ UNCHANGED <<owner, backend, seen, request, worker, janitor>>
      /\ UNCHANGED <<row, job, file, lost>>
  BY TaskTyped DEF BuildFails, On, outside, disk
<1>2. /\ place[p].kind = "index" /\ owner[place[p].rec] = "kb"
  BY <1>1, TaskTyped DEF KindsFit, OfTranscription, OfErasure, Returns, TypeOK, Owners
<1>3. Walks(p, "retry") /\ place'[p].key = place[p].key
  BY <1>1, GoesWalks DEF BuildFails, PCs, Chores, Steps, Returns
<1>4. TypeOK'  BY <1>1, <1>2, <1>3 DEF TypeOK
<1>5. UploadsFit'  BY <1>1, <1>2, <1>3, KeysApart DEF UploadsFit
<1>6. KindsFit'  BY <1>1, <1>2, <1>3, TaskTyped DEF KindsFit, OfTranscription, OfIndexing,
    OfErasure, Returns
<1>7. DeletionsStay'  BY <1>1, <1>2, <1>3, TaskTyped DEF DeletionsStay, Own
<1>8. RowsFit'  BY <1>1, <1>2, <1>3 DEF RowsFit
<1>9. TasksFit'  BY <1>1, <1>2, <1>3, TaskTyped DEF TasksFit, KindsFit, OfTranscription,
    Returns
<1>10. JobsStay'  BY <1>1, <1>2, <1>3 DEF JobsStay
<1>11. AlignmentFits'  BY <1>1, <1>2, <1>3 DEF AlignmentFits
<1>12. SoundsAreHeld'  BY <1>1, <1>2, <1>3, TaskTyped, KeysApart DEF SoundsAreHeld
<1>13. StaleAreUnused'  BY <1>1, <1>2, <1>3 DEF StaleAreUnused
<1>14. DownIsEmpty'  BY <1>1, <1>2, <1>3 DEF DownIsEmpty
<1>15. FilesAreThere'  BY <1>1, <1>2, <1>3, RowTyped, KeysApart DEF FilesAreThere
<1> QED  BY <1>4, <1>5, <1>6, <1>7, <1>8, <1>9, <1>10, <1>11, <1>12, <1>13, <1>14, <1>15

(* A document that is replaced has its sound. *)
LEMMA ReplaceKeeps ==
  ASSUME RecordingsInv, NEW p \in Places, Replace(p)
  PROVE  RecordingsInv'
<1> USE DEF RecordingsInv, New, Is, LiveRow, Unfinished, Unattended, TaskOf, Jobless,
       Uses, OthersKept, OthersStand, OthersWork, Walks, Handed, Marked
<1> DEFINE r == place[p].rec
<1>1. /\ place[p] # None /\ place[p].pc = "replace"
      /\ r \in Recordings /\ worker = "up"
      /\ UNCHANGED <<owner, backend, seen, request, worker, janitor>>
      /\ UNCHANGED <<file, lost>>
  BY TaskTyped DEF Replace, On, outside, disk
<1>2. /\ place[p].kind = "index" /\ owner[r] = "kb"
  BY <1>1, TaskTyped DEF KindsFit, OfTranscription, OfErasure, Returns, TypeOK, Owners
<1>3. \E pc \in {"tidy", "retry", "finish"} :
          Walks(p, pc) /\ place'[p].key = place[p].key
  BY <1>1, GoesWalks DEF Replace, PCs, Chores, Steps, Returns
<1>4. \/ /\ row[r] # None /\ row[r].audio # None
         /\ Marked(r, "ready")
         /\ job' \in [Recordings -> Job \union {None}] /\ OthersStand(r)
         /\ job'[r] = None /\ Own(p)
      \/ row' = row /\ job' = job
  <2>1. CASE LiveRow(r) /\ Own(p)
    <3>1. row' = [row EXCEPT ![r].status = "ready"] /\ job' = JobGone(p)
      BY <2>1 DEF Replace
    <3>2. row[r].audio # None  BY <1>1, <2>1 DEF TasksFit
    <3> QED  BY <1>1, <2>1, <3>1, <3>2, StatusMarked, JobGoneIs
  <2>2. CASE ~(LiveRow(r) /\ Own(p))  BY <2>2 DEF Replace
  <2> QED  BY <2>1, <2>2
<1>5. TypeOK'  BY <1>1, <1>2, <1>3, <1>4 DEF TypeOK, RowsTyped
<1>6. UploadsFit'  BY <1>1, <1>2, <1>3, <1>4, KeysApart DEF UploadsFit
<1>7. KindsFit'  BY <1>1, <1>2, <1>3, <1>4, TaskTyped DEF KindsFit, OfTranscription,
    OfIndexing, OfErasure, Returns
<1>8. DeletionsStay'  BY <1>1, <1>2, <1>3, <1>4, TaskTyped DEF DeletionsStay, Own
<1>9. RowsFit'  BY <1>1, <1>2, <1>3, <1>4 DEF RowsFit
<1>10. TasksFit'  BY <1>1, <1>2, <1>3, <1>4, TaskTyped DEF TasksFit, KindsFit,
    OfTranscription, Returns
<1>11. JobsStay'  BY <1>1, <1>2, <1>3, <1>4 DEF JobsStay
<1>12. AlignmentFits'  BY <1>1, <1>2, <1>3, <1>4 DEF AlignmentFits
<1>13. SoundsAreHeld'  BY <1>1, <1>2, <1>3, <1>4, TaskTyped, KeysApart DEF SoundsAreHeld
<1>14. StaleAreUnused'  BY <1>1, <1>2, <1>3, <1>4 DEF StaleAreUnused
<1>15. DownIsEmpty'  BY <1>1, <1>2, <1>3, <1>4 DEF DownIsEmpty
<1>16. FilesAreThere'  BY <1>1, <1>2, <1>3, <1>4, RowTyped, KeysApart DEF FilesAreThere
<1> QED  BY <1>5, <1>6, <1>7, <1>8, <1>9, <1>10, <1>11, <1>12, <1>13, <1>14, <1>15, <1>16

LEMMA TidyKeeps ==
  ASSUME RecordingsInv, NEW p \in Places, Tidy(p)
  PROVE  RecordingsInv'
<1> USE DEF RecordingsInv, New, Is, LiveRow, Unfinished, Unattended, TaskOf, Jobless,
       Uses, OthersKept, OthersStand, OthersWork, Walks, Handed, SourceTaken, Filed
<1>1. /\ place[p] # None /\ place[p].pc = "tidy"
      /\ place[p].rec \in Recordings /\ worker = "up"
      /\ UNCHANGED <<owner, backend, seen, request, worker, janitor>>
      /\ UNCHANGED job
  BY TaskTyped DEF Tidy, On, outside, disk
<1>2. /\ place[p].kind = "index" /\ owner[place[p].rec] = "kb"
  BY <1>1, TaskTyped DEF KindsFit, OfTranscription, OfErasure, Returns, TypeOK, Owners
<1>3. /\ place' \in [Places -> Task \union {None}] /\ place'[p] = None /\ OthersWork(p)
  BY LeavesEmpty DEF Tidy
<1>4. UNCHANGED <<row, file, lost>> \/ SourceTaken(place[p].rec)
  BY <1>1, SourceDroppedTakes, SourceTornTakes DEF Tidy, disk
<1>5. TypeOK'  BY <1>1, <1>2, <1>3, <1>4 DEF TypeOK, RowsTyped
<1>6. UploadsFit'  BY <1>1, <1>2, <1>3, <1>4, KeysApart DEF UploadsFit
<1>7. KindsFit'  BY <1>1, <1>2, <1>3, <1>4, TaskTyped DEF KindsFit, OfTranscription,
    OfIndexing, OfErasure, Returns
<1>8. DeletionsStay'  BY <1>1, <1>2, <1>3, <1>4, TaskTyped DEF DeletionsStay, Own
<1>9. RowsFit'  BY <1>1, <1>2, <1>3, <1>4 DEF RowsFit
<1>10. TasksFit'  BY <1>1, <1>2, <1>3, <1>4, TaskTyped DEF TasksFit, KindsFit
<1>11. JobsStay'  BY <1>1, <1>2, <1>3, <1>4 DEF JobsStay
<1>12. AlignmentFits'  BY <1>1, <1>2, <1>3, <1>4 DEF AlignmentFits
<1>13. SoundsAreHeld'  BY <1>1, <1>2, <1>3, <1>4, TaskTyped, KeysApart DEF SoundsAreHeld
<1>14. StaleAreUnused'  BY <1>1, <1>2, <1>3, <1>4 DEF StaleAreUnused
<1>15. DownIsEmpty'  BY <1>1, <1>2, <1>3, <1>4 DEF DownIsEmpty
<1>16. FilesAreThere'  BY <1>1, <1>2, <1>3, <1>4, RowTyped, KeysApart DEF FilesAreThere
<1> QED  BY <1>5, <1>6, <1>7, <1>8, <1>9, <1>10, <1>11, <1>12, <1>13, <1>14, <1>15, <1>16

LEMMA GivenUpMarks ==
  ASSUME RecordingsInv, NEW p \in Places, place[p] # None, owner[place[p].rec] = "kb",
         GivenUp(p)
  PROVE  /\ \/ row[place[p].rec] # None /\ Marked(place[p].rec, "error")
            \/ row' = row
         /\ job' \in [Recordings -> Job \union {None}] /\ OthersStand(place[p].rec)
         /\ job'[place[p].rec] = IF Own(p) THEN None ELSE job[place[p].rec]
<1> USE DEF RecordingsInv
<1>1. job' = JobGone(p)  BY DEF GivenUp
<1>2. CASE LiveRow(place[p].rec)
  <2>1. row' = [row EXCEPT ![place[p].rec].status = "error"]  BY <1>2 DEF GivenUp
  <2>2. row[place[p].rec] # None  BY <1>2 DEF LiveRow
  <2> QED  BY <1>1, <2>1, <2>2, TaskTyped, StatusMarked, JobGoneIs DEF RowsFit
<1>3. CASE ~LiveRow(place[p].rec)
  <2>1. row' = row  BY <1>3 DEF GivenUp
  <2> QED  BY <1>1, <2>1, JobGoneIs
<1> QED  BY <1>2, <1>3

(* The job of a document is freed, or the document is given up. *)
LEMMA RetryLaterKeeps ==
  ASSUME RecordingsInv, NEW p \in Places, RetryLater(p)
  PROVE  RecordingsInv'
<1> USE DEF RecordingsInv, New, Is, LiveRow, Unfinished, Unattended, TaskOf, Jobless,
       Uses, OthersKept, OthersStand, OthersWork, Walks, Handed, Marked
<1> DEFINE r == place[p].rec
<1>1. /\ place[p] # None /\ place[p].pc = "retry"
      /\ r \in Recordings /\ worker = "up"
      /\ UNCHANGED <<owner, backend, seen, request, worker, janitor>>
      /\ UNCHANGED <<file, lost>>
  BY TaskTyped DEF RetryLater, On, outside, disk
<1>2. /\ place[p].kind = "index" /\ owner[r] = "kb"
  BY <1>1, TaskTyped DEF KindsFit, OfTranscription, OfErasure, Returns, TypeOK, Owners
<1>3. /\ place' \in [Places -> Task \union {None}] /\ place'[p] = None /\ OthersWork(p)
  BY LeavesEmpty DEF RetryLater
<1>4. /\ \/ row[r] # None /\ Marked(r, "queued")
         \/ row[r] # None /\ Marked(r, "error")
         \/ row' = row
      /\ job' \in [Recordings -> Job \union {None}] /\ OthersStand(r)
      /\ \/ job'[r] = IF Own(p) THEN None ELSE job[r]
         \/ /\ job'[r] # None /\ job[r] # None
            /\ job'[r].kind = job[r].kind
  <2>1. CASE place[p].attempts < MaxAttempts
    <3>1. \/ row[r] # None /\ Marked(r, "queued")
          \/ row' = row
      BY <1>1, <1>2, <2>1, StatusMarked DEF RetryLater, RowsFit
    <3>2. job' = job \/ (Handed(r) /\ job[r] # None)
      BY <1>1, <2>1, LeaseHanded DEF RetryLater, JobFree, Own
    <3> QED  BY <3>1, <3>2 DEF TypeOK
  <2>2. CASE ~(place[p].attempts < MaxAttempts)
    BY <1>1, <1>2, <2>2, GivenUpMarks DEF RetryLater
  <2> QED  BY <2>1, <2>2
<1>5. TypeOK'  BY <1>1, <1>2, <1>3, <1>4 DEF TypeOK, RowsTyped
<1>6. UploadsFit'  BY <1>1, <1>2, <1>3, <1>4, KeysApart DEF UploadsFit
<1>7. KindsFit'
  BY <1>1, <1>2, <1>3, <1>4, TaskTyped
     DEF KindsFit, OfTranscription, OfIndexing, OfErasure, Returns
<1>8. DeletionsStay'  BY <1>1, <1>2, <1>3, <1>4, TaskTyped DEF DeletionsStay, Own
<1>9. RowsFit'  BY <1>1, <1>2, <1>3, <1>4 DEF RowsFit
<1>10. TasksFit'  BY <1>1, <1>2, <1>3, <1>4, TaskTyped DEF TasksFit, KindsFit
<1>11. JobsStay'  BY <1>1, <1>2, <1>3, <1>4 DEF JobsStay
<1>12. AlignmentFits'  BY <1>1, <1>2, <1>3, <1>4 DEF AlignmentFits
<1>13. SoundsAreHeld'  BY <1>1, <1>2, <1>3, <1>4, TaskTyped, KeysApart DEF SoundsAreHeld
<1>14. StaleAreUnused'  BY <1>1, <1>2, <1>3, <1>4 DEF StaleAreUnused
<1>15. DownIsEmpty'  BY <1>1, <1>2, <1>3, <1>4 DEF DownIsEmpty
<1>16. FilesAreThere'  BY <1>1, <1>2, <1>3, <1>4, RowTyped, KeysApart DEF FilesAreThere
<1> QED  BY <1>5, <1>6, <1>7, <1>8, <1>9, <1>10, <1>11, <1>12, <1>13, <1>14, <1>15, <1>16

LEMMA GiveUpKeeps ==
  ASSUME RecordingsInv, NEW p \in Places, GiveUp(p)
  PROVE  RecordingsInv'
<1> USE DEF RecordingsInv, New, Is, LiveRow, Unfinished, Unattended, TaskOf, Jobless,
       Uses, OthersKept, OthersStand, OthersWork, Walks, Handed, Marked
<1> DEFINE r == place[p].rec
<1>1. /\ place[p] # None /\ place[p].pc = "giveUp"
      /\ r \in Recordings /\ worker = "up"
      /\ UNCHANGED <<owner, backend, seen, request, worker, janitor>>
      /\ UNCHANGED <<file, lost>>
  BY TaskTyped DEF GiveUp, On, outside, disk
<1>2. /\ place[p].kind = "index" /\ owner[r] = "kb"
  BY <1>1, TaskTyped DEF KindsFit, OfTranscription, OfErasure, Returns, TypeOK, Owners
<1>3. /\ place' \in [Places -> Task \union {None}] /\ place'[p] = None /\ OthersWork(p)
  BY LeavesEmpty DEF GiveUp
<1>4. /\ \/ row[r] # None /\ Marked(r, "error")
         \/ row' = row
      /\ job' \in [Recordings -> Job \union {None}] /\ OthersStand(r)
      /\ job'[r] = IF Own(p) THEN None ELSE job[r]
  BY <1>1, <1>2, GivenUpMarks DEF GiveUp
<1>5. TypeOK'  BY <1>1, <1>2, <1>3, <1>4 DEF TypeOK, RowsTyped
<1>6. UploadsFit'  BY <1>1, <1>2, <1>3, <1>4, KeysApart DEF UploadsFit
<1>7. KindsFit'  BY <1>1, <1>2, <1>3, <1>4, TaskTyped DEF KindsFit, OfTranscription,
    OfIndexing, OfErasure, Returns
<1>8. DeletionsStay'  BY <1>1, <1>2, <1>3, <1>4, TaskTyped DEF DeletionsStay, Own
<1>9. RowsFit'  BY <1>1, <1>2, <1>3, <1>4 DEF RowsFit
<1>10. TasksFit'  BY <1>1, <1>2, <1>3, <1>4, TaskTyped DEF TasksFit, KindsFit
<1>11. JobsStay'  BY <1>1, <1>2, <1>3, <1>4 DEF JobsStay
<1>12. AlignmentFits'  BY <1>1, <1>2, <1>3, <1>4 DEF AlignmentFits
<1>13. SoundsAreHeld'  BY <1>1, <1>2, <1>3, <1>4, TaskTyped, KeysApart DEF SoundsAreHeld
<1>14. StaleAreUnused'  BY <1>1, <1>2, <1>3, <1>4 DEF StaleAreUnused
<1>15. DownIsEmpty'  BY <1>1, <1>2, <1>3, <1>4 DEF DownIsEmpty
<1>16. FilesAreThere'  BY <1>1, <1>2, <1>3, <1>4, RowTyped, KeysApart DEF FilesAreThere
<1> QED  BY <1>5, <1>6, <1>7, <1>8, <1>9, <1>10, <1>11, <1>12, <1>13, <1>14, <1>15, <1>16

(* A deleted document goes with its files. *)
LEMMA EraseKeeps ==
  ASSUME RecordingsInv, NEW p \in Places, Erase(p)
  PROVE  RecordingsInv'
<1> USE DEF RecordingsInv, New, Is, LiveRow, Unfinished, Unattended, TaskOf, Jobless,
       Uses, OthersKept, OthersStand, OthersWork, Walks, Handed
<1> DEFINE r == place[p].rec
<1>1. /\ place[p] # None /\ place[p].pc = "erase"
      /\ r \in Recordings /\ worker = "up"
      /\ UNCHANGED <<owner, backend, seen, request, worker, janitor>>
      /\ UNCHANGED lost
  BY TaskTyped DEF Erase, On, outside
<1>2. /\ place[p].kind = "delete" /\ owner[r] = "kb"
      /\ row[r] = None \/ row[r].deleted
  BY <1>1, TaskTyped DEF KindsFit, OfTranscription, OfIndexing, Returns, TypeOK, Owners
<1>3. /\ place' \in [Places -> Task \union {None}] /\ place'[p] = None /\ OthersWork(p)
  BY LeavesEmpty DEF Erase
<1>4. \/ UNCHANGED <<row, file>>
      \/ /\ row[r] # None
         /\ file' \in [Keys -> {"none", "new", "old"}]
         /\ \A k \in Keys :
                k # r /\ (k # row[r].audio \/ row[r].audio = None)
                    => file'[k] = file[k]
         /\ \A k \in Keys : file'[k] # "none" => file'[k] = file[k]
         /\ \/ row' = row
            \/ RowsTyped /\ row'[r] = None /\ OthersKept(r)
  <2>1. CASE row[r] = None  BY <2>1 DEF Erase
  <2>2. CASE row[r] # None
    <3>1. file' = [k \in Keys |-> IF k \in FilesOf(r) THEN "none" ELSE file[k]]
      BY <2>2 DEF Erase
    <3>2. row' = row \/ RowDeleted(r)  BY <2>2 DEF Erase
    <3>3. \A k : k \in FilesOf(r) =>
              k = r \/ (k = row[r].audio /\ k # None)
      BY DEF FilesOf
    <3> QED  BY <1>1, <2>2, <3>1, <3>2, <3>3, DeletedTogether DEF TypeOK
  <2> QED  BY <2>1, <2>2
<1>5. /\ job' \in [Recordings -> Job \union {None}] /\ OthersStand(r)
      /\ \/ job'[r] \in {job[r], None}
         \/ /\ job'[r] # None /\ job[r] # None
            /\ job'[r].kind = job[r].kind
      /\ row'[r] # None =>
             /\ row' = row /\ job'[r] # None /\ job[r] # None
             /\ job'[r].kind = job[r].kind
  <2>1. CASE row[r] = None
    BY <1>1, <2>1, JobGoneIs DEF Erase
  <2>2. CASE RowDeleted(r)  BY <1>1, <2>2, DeletedTogether
  <2>3. CASE row[r] # None /\ row' = row /\ job' = JobFree(r)
    <3>1. job[r] # None  BY <1>1, <1>2, <2>3 DEF DeletionsStay
    <3> QED  BY <1>1, <2>3, <3>1, LeaseHanded DEF JobFree
  <2> QED  BY <2>1, <2>2, <2>3 DEF Erase
<1>6. TypeOK'  BY <1>1, <1>2, <1>3, <1>4, <1>5 DEF TypeOK, RowsTyped
<1>7. UploadsFit'
  BY <1>1, <1>3, <1>4, <1>5, RowTyped, KeysApart DEF UploadsFit
<1>8. KindsFit'  BY <1>1, <1>2, <1>3, <1>4, <1>5, TaskTyped DEF KindsFit, OfTranscription,
    OfIndexing, OfErasure, Returns
<1>9. DeletionsStay'  BY <1>1, <1>2, <1>3, <1>4, <1>5, TaskTyped DEF DeletionsStay, Own
<1>10. RowsFit'  BY <1>1, <1>2, <1>3, <1>4, <1>5 DEF RowsFit
<1>11. TasksFit'  BY <1>1, <1>2, <1>3, <1>4, <1>5, TaskTyped DEF TasksFit, KindsFit,
    OfTranscription, Returns
<1>12. JobsStay'  BY <1>1, <1>2, <1>3, <1>4, <1>5 DEF JobsStay
<1>13. AlignmentFits'  BY <1>1, <1>2, <1>3, <1>4, <1>5 DEF AlignmentFits
<1>14. SoundsAreHeld'
  BY <1>1, <1>3, <1>4, TaskTyped, RowTyped, KeysApart DEF SoundsAreHeld
<1>15. StaleAreUnused'  BY <1>1, <1>2, <1>3, <1>4, <1>5 DEF StaleAreUnused
<1>16. DownIsEmpty'  BY <1>1, <1>2, <1>3, <1>4, <1>5 DEF DownIsEmpty
<1>17. FilesAreThere'
  BY <1>1, <1>2, <1>4, RowTyped, KeysApart DEF FilesAreThere, RowsFit
<1> QED  BY <1>6, <1>7, <1>8, <1>9, <1>10, <1>11, <1>12, <1>13, <1>14, <1>15, <1>16, <1>17

-----------------------------------------------------------------------------
(* Stop, death and start of the worker, and the sweep.                     *)

LEMMA StopKeeps ==
  ASSUME RecordingsInv, Stop
  PROVE  RecordingsInv'
<1> USE DEF RecordingsInv, New, Is, LiveRow, Unfinished, Unattended, TaskOf, Jobless,
       Uses, OthersKept, OthersStand, OthersWork
<1>1. /\ worker = "up" /\ worker' = "stopping"
      /\ UNCHANGED <<owner, backend, seen, request, row, job, file, lost, place, janitor>>
  BY DEF Stop, outside, disk
<1>2. TypeOK'  BY <1>1 DEF TypeOK
<1>3. UploadsFit'  BY <1>1, KeysApart DEF UploadsFit
<1>4. KindsFit'  BY <1>1, TaskTyped DEF KindsFit
<1>5. DeletionsStay'  BY <1>1, TaskTyped DEF DeletionsStay
<1>6. RowsFit'  BY <1>1 DEF RowsFit
<1>7. TasksFit'  BY <1>1, TaskTyped DEF TasksFit
<1>8. JobsStay'  BY <1>1 DEF JobsStay
<1>9. AlignmentFits'  BY <1>1 DEF AlignmentFits
<1>10. SoundsAreHeld'  BY <1>1, TaskTyped, KeysApart DEF SoundsAreHeld
<1>11. StaleAreUnused'  BY <1>1 DEF StaleAreUnused
<1>12. DownIsEmpty'  BY <1>1 DEF DownIsEmpty
<1>13. FilesAreThere'  BY <1>1, RowTyped, KeysApart DEF FilesAreThere
<1> QED  BY <1>2, <1>3, <1>4, <1>5, <1>6, <1>7, <1>8, <1>9, <1>10, <1>11, <1>12, <1>13

LEMMA StoppedKeeps ==
  ASSUME RecordingsInv, Stopped
  PROVE  RecordingsInv'
<1> USE DEF RecordingsInv, New, Is, LiveRow, Unfinished, Unattended, TaskOf, Jobless,
       Uses, OthersKept, OthersStand, OthersWork
<1>1. /\ worker' = "down" /\ \A p \in Places : place[p] = None
      /\ UNCHANGED <<owner, backend, seen, request, row, job, file, lost, place, janitor>>
  BY DEF Stopped, outside, disk
<1>2. TypeOK'  BY <1>1 DEF TypeOK
<1>3. UploadsFit'  BY <1>1, KeysApart DEF UploadsFit
<1>4. KindsFit'  BY <1>1, TaskTyped DEF KindsFit
<1>5. DeletionsStay'  BY <1>1, TaskTyped DEF DeletionsStay
<1>6. RowsFit'  BY <1>1 DEF RowsFit
<1>7. TasksFit'  BY <1>1, TaskTyped DEF TasksFit
<1>8. JobsStay'  BY <1>1 DEF JobsStay
<1>9. AlignmentFits'  BY <1>1 DEF AlignmentFits
<1>10. SoundsAreHeld'  BY <1>1, TaskTyped, KeysApart DEF SoundsAreHeld
<1>11. StaleAreUnused'  BY <1>1 DEF StaleAreUnused
<1>12. DownIsEmpty'  BY <1>1 DEF DownIsEmpty
<1>13. FilesAreThere'  BY <1>1, RowTyped, KeysApart DEF FilesAreThere
<1> QED  BY <1>2, <1>3, <1>4, <1>5, <1>6, <1>7, <1>8, <1>9, <1>10, <1>11, <1>12, <1>13

(* The sweep between two passes. *)
LEMMA RestingIsResting ==
  Resting \in Janitor /\ Resting.pc = "idle" /\ Resting.todo = {} /\ Resting.stale = {}
  BY DEF Resting, Janitor

LEMMA JanitorTyped ==
  ASSUME TypeOK
  PROVE  /\ janitor.pc \in {"idle", "sources", "keys", "orphans"}
         /\ janitor.todo \in SUBSET Recordings /\ janitor.stale \in SUBSET Keys
  BY DEF TypeOK, Janitor

(* Nothing is left of tasks and sweep; rows and files are. *)
LEMMA WorkerCrashKeeps ==
  ASSUME RecordingsInv, WorkerCrash
  PROVE  RecordingsInv'
<1> USE DEF RecordingsInv, New, Is, LiveRow, Unfinished, Unattended, TaskOf, Jobless,
       Uses, OthersKept, OthersStand, OthersWork
<1>1. /\ worker' = "down" /\ janitor' = Resting
      /\ UNCHANGED <<owner, backend, seen, request, row, job, file, lost>>
  BY DEF WorkerCrash, outside, disk
<1>2. place' \in [Places -> Task \union {None}] /\ \A p \in Places : place'[p] = None
  BY DEF WorkerCrash
<1>3. Resting \in Janitor /\ Resting.pc = "idle" /\ Resting.stale = {}
  BY RestingIsResting
<1>4. TypeOK'  BY <1>1, <1>2, <1>3 DEF TypeOK
<1>5. UploadsFit'  BY <1>1, <1>2, <1>3, KeysApart DEF UploadsFit
<1>6. KindsFit'  BY <1>1, <1>2, <1>3, TaskTyped DEF KindsFit
<1>7. DeletionsStay'  BY <1>1, <1>2, <1>3, TaskTyped DEF DeletionsStay
<1>8. RowsFit'  BY <1>1, <1>2, <1>3 DEF RowsFit
<1>9. TasksFit'  BY <1>1, <1>2, <1>3, TaskTyped DEF TasksFit
<1>10. JobsStay'  BY <1>1, <1>2, <1>3 DEF JobsStay
<1>11. AlignmentFits'  BY <1>1, <1>2, <1>3 DEF AlignmentFits
<1>12. SoundsAreHeld'  BY <1>1, <1>2, <1>3, TaskTyped, KeysApart DEF SoundsAreHeld
<1>13. StaleAreUnused'  BY <1>1, <1>2, <1>3 DEF StaleAreUnused
<1>14. DownIsEmpty'  BY <1>1, <1>2, <1>3 DEF DownIsEmpty
<1>15. FilesAreThere'  BY <1>1, <1>2, <1>3, RowTyped, KeysApart DEF FilesAreThere
<1> QED  BY <1>4, <1>5, <1>6, <1>7, <1>8, <1>9, <1>10, <1>11, <1>12, <1>13, <1>14, <1>15

(* What nobody holds is queued again. *)
LEMMA WorkerStartKeeps ==
  ASSUME RecordingsInv, WorkerStart
  PROVE  RecordingsInv'
<1> USE DEF RecordingsInv, New, Is, LiveRow, Unfinished, Unattended, TaskOf, Jobless,
       Uses, OthersKept, OthersStand, OthersWork
<1>1. /\ worker = "down" /\ worker' = "up"
      /\ UNCHANGED <<owner, backend, seen, request, job, file, lost, place, janitor>>
  BY DEF WorkerStart, outside, disk
<1>2. \A p \in Places : place[p] = None
  BY <1>1 DEF DownIsEmpty
<1>3. RowsTyped
  <2>1. ASSUME NEW r \in Recordings, row[r] # None, row[r].status = "processing"
        PROVE  /\ [row[r] EXCEPT !.status = "queued"] \in Row
               /\ [row[r] EXCEPT !.status = "queued"].sent = row[r].sent
               /\ ~row[r].sent
    BY <2>1, RowTyped DEF Row, Final
  <2> QED  BY <2>1, RowTyped DEF WorkerStart, RowsTyped, TypeOK
<1>4. /\ \A r \in Recordings : row[r] = None => row'[r] = None
      /\ \A r \in Recordings : row[r] # None =>
             /\ row'[r] # None /\ row'[r].source = row[r].source /\ row'[r].sent = row[r].sent
             /\ row'[r].audio = row[r].audio /\ row'[r].deleted = row[r].deleted
             /\ \/ row'[r].status = row[r].status
                \/ job[r] # None /\ row[r].status = "processing" /\ row'[r].status = "queued"
  <2>1. ASSUME NEW r \in Recordings, row[r] # None
        PROVE  LET new == [row[r] EXCEPT !.status = "queued"]
               IN  /\ new # None /\ new.source = row[r].source /\ new.sent = row[r].sent
                   /\ new.audio = row[r].audio /\ new.deleted = row[r].deleted
                   /\ new.status = "queued"
    BY <2>1, RowTyped, RecordsAssumption DEF Row, Final
  <2> QED  BY <2>1 DEF WorkerStart, Abandoned
<1>5. TypeOK'  BY <1>1, <1>2, <1>3, <1>4 DEF TypeOK, RowsTyped
<1>6. UploadsFit'  BY <1>1, <1>2, <1>3, <1>4, KeysApart DEF UploadsFit
<1>7. KindsFit'  BY <1>1, <1>2, <1>3, <1>4, TaskTyped DEF KindsFit
<1>8. DeletionsStay'  BY <1>1, <1>2, <1>3, <1>4, TaskTyped DEF DeletionsStay
<1>9. RowsFit'  BY <1>1, <1>2, <1>3, <1>4 DEF RowsFit
<1>10. TasksFit'  BY <1>1, <1>2, <1>3, <1>4, TaskTyped DEF TasksFit
<1>11. JobsStay'  BY <1>1, <1>2, <1>3, <1>4 DEF JobsStay
<1>12. AlignmentFits'  BY <1>1, <1>2, <1>3, <1>4 DEF AlignmentFits
<1>13. SoundsAreHeld'  BY <1>1, <1>2, <1>3, <1>4, TaskTyped, KeysApart DEF SoundsAreHeld
<1>14. StaleAreUnused'  BY <1>1, <1>2, <1>3, <1>4 DEF StaleAreUnused
<1>15. DownIsEmpty'  BY <1>1, <1>2, <1>3, <1>4 DEF DownIsEmpty
<1>16. FilesAreThere'  BY <1>1, <1>2, <1>3, <1>4, RowTyped, KeysApart DEF FilesAreThere
<1> QED  BY <1>5, <1>6, <1>7, <1>8, <1>9, <1>10, <1>11, <1>12, <1>13, <1>14, <1>15, <1>16

LEMMA CancelledKeeps ==
  ASSUME RecordingsInv, NEW p \in Places, Cancelled(p)
  PROVE  RecordingsInv'
<1> USE DEF RecordingsInv, New, Is, LiveRow, Unfinished, Unattended, TaskOf, Jobless,
       Uses, OthersKept, OthersStand, OthersWork, Walks, Handed
<1>1. /\ place[p] # None /\ place[p].rec \in Recordings /\ worker = "stopping"
      /\ UNCHANGED <<owner, backend, seen, request, worker, janitor>>
      /\ UNCHANGED <<row, job>>
  BY TaskTyped DEF Cancelled, outside
<1>2. Walks(p, "requeue") /\ place'[p].key = None
  BY <1>1, KeyLeftWalks DEF Cancelled, PCs, Chores, Steps, Returns
<1>3. /\ file' \in [Keys -> {"none", "new", "old"}]
      /\ \A k \in Keys : place[p].key = None \/ k # place[p].key => file'[k] = file[k]
      /\ UNCHANGED lost
      /\ place[p].key \in AudioKeys \union {None}
  BY <1>1, SoundBack DEF Cancelled
<1>4. TypeOK'  BY <1>1, <1>2, <1>3 DEF TypeOK
<1>5. UploadsFit'
  BY <1>1, <1>2, <1>3, TaskTyped, KeysApart DEF UploadsFit, SoundsAreHeld
<1>6. KindsFit'  BY <1>1, <1>2, <1>3, TaskTyped DEF KindsFit, OfTranscription, OfIndexing,
    OfErasure, Returns
<1>7. DeletionsStay'  BY <1>1, <1>2, <1>3, TaskTyped DEF DeletionsStay
<1>8. RowsFit'  BY <1>1, <1>2, <1>3 DEF RowsFit
<1>9. TasksFit'
  BY <1>1, <1>2, <1>3, TaskTyped DEF TasksFit
<1>10. JobsStay'  BY <1>1, <1>2, <1>3 DEF JobsStay
<1>11. AlignmentFits'  BY <1>1, <1>2, <1>3 DEF AlignmentFits
<1>12. SoundsAreHeld'
  BY <1>1, <1>2, <1>3, TaskTyped, KeysApart DEF SoundsAreHeld
<1>13. StaleAreUnused'  BY <1>1, <1>2, <1>3 DEF StaleAreUnused
<1>14. DownIsEmpty'  BY <1>1, <1>2, <1>3 DEF DownIsEmpty
<1>15. FilesAreThere'
  BY <1>1, <1>2, <1>3, RowTyped, KeysApart DEF FilesAreThere, SoundsAreHeld
<1> QED  BY <1>4, <1>5, <1>6, <1>7, <1>8, <1>9, <1>10, <1>11, <1>12, <1>13, <1>14, <1>15

(* What was being processed is queued again, and its job is returned. *)
LEMMA RequeueKeeps ==
  ASSUME RecordingsInv, NEW p \in Places, Requeue(p)
  PROVE  RecordingsInv'
<1> USE DEF RecordingsInv, New, Is, LiveRow, Unfinished, Unattended, TaskOf, Jobless,
       Uses, OthersKept, OthersStand, OthersWork, Walks, Handed, Marked
<1> DEFINE r == place[p].rec
<1>1. /\ place[p] # None /\ place[p].pc = "requeue" /\ r \in Recordings
      /\ worker = "stopping"
      /\ UNCHANGED <<owner, backend, seen, request, worker, janitor>>
      /\ UNCHANGED <<file, lost>>
  BY TaskTyped DEF Requeue, outside, disk
<1>2. \E pc \in {"release", "end"} : Walks(p, pc) /\ place'[p].key = place[p].key
  BY <1>1, GoesWalks DEF Requeue, PCs, Chores, Steps, Returns
<1>3. \/ row' = row
      \/ /\ row[r] # None /\ row[r].status = "processing"
         /\ Marked(r, "queued")
      \/ /\ row[r] # None /\ owner[r] = "kb"
         /\ Marked(r, "queued")
  <2>1. CASE place[p].kind = "transcribe"
    BY <1>1, <2>1, MovedMarks DEF Requeue
  <2>2. CASE place[p].kind # "transcribe"
    <3>1. CASE Own(p) /\ place[p].kind = "index" /\ LiveRow(r)
      <4>1. owner[r] = "kb"  BY <1>1, <2>2 DEF KindsFit, TypeOK, Owners
      <4>2. row' = [row EXCEPT ![r].status = "queued"]  BY <2>2, <3>1 DEF Requeue
      <4> QED  BY <1>1, <3>1, <4>1, <4>2, StatusMarked DEF RowsFit
    <3>2. CASE ~(Own(p) /\ place[p].kind = "index" /\ LiveRow(r))
      BY <2>2, <3>2 DEF Requeue
    <3> QED  BY <3>1, <3>2
  <2> QED  BY <2>1, <2>2
<1>4. (Handed(r) /\ job[r] # None) \/ job' = job
  BY <1>1, UncountedHanded DEF Requeue, Own
<1>5. TypeOK'  BY <1>1, <1>2, <1>3, <1>4 DEF TypeOK, RowsTyped
<1>6. UploadsFit'  BY <1>1, <1>2, <1>3, <1>4, KeysApart DEF UploadsFit
<1>7. KindsFit'
  <2> HIDE DEF RecordingsInv
  <2>1. \A s \in Recordings : /\ row'[s] = None <=> row[s] = None
                              /\ row[s] # None => row'[s].deleted = row[s].deleted
    BY <1>3
  <2>2. /\ OthersWork(p)
        /\ place'[p].rec = place[p].rec /\ place'[p].kind = place[p].kind
        /\ place'[p].pc \in Returns
    BY <1>2 DEF Returns
  <2>3. owner' = owner
        /\ \A s \in Recordings : job'[s] # None => job[s] # None /\ job'[s].kind = job[s].kind
    BY <1>1, <1>4
  <2>4. KindsFit /\ TypeOK  BY DEF RecordingsInv
  <2>5. place[p] # None  BY <1>1
  <2>6. StaysInKind(p)  BY <2>1, <2>2, <2>3 DEF StaysInKind
  <2> QED  BY <2>4, <2>5, <2>6, KindsStayFitting
<1>8. DeletionsStay'  BY <1>1, <1>2, <1>3, <1>4, TaskTyped DEF DeletionsStay
<1>9. RowsFit'  BY <1>1, <1>2, <1>3, <1>4 DEF RowsFit
<1>10. TasksFit'
  <2> HIDE DEF RecordingsInv
  <2>1. \A s \in Recordings :
          /\ row'[s] = None <=> row[s] = None
          /\ row[s] # None => row'[s].audio = row[s].audio
          /\ owner[s] = "chat" /\ row'[s] # None /\ row'[s].status \in {"queued", "processing"}
             => row[s].status \in {"queued", "processing"}
    BY <1>1, <1>3
  <2>2. /\ OthersWork(p) /\ place'[p].kind = place[p].kind
        /\ place'[p].pc \in Returns
    BY <1>2 DEF Returns
  <2>3. worker' # "up"  BY <1>1
  <2>4. KindsFit /\ TasksFit /\ TypeOK  BY DEF RecordingsInv
  <2>5. place[p] # None  BY <1>1
  <2> HIDE DEF OthersWork, Unfinished, Is
  <2> QED  BY <2>1, <2>2, <2>3, <2>4, <2>5, TasksStayFitting
<1>11. JobsStay'  BY <1>1, <1>2, <1>3, <1>4 DEF JobsStay
<1>12. AlignmentFits'
  BY <1>1, <1>2, <1>3, <1>4, RowTyped DEF AlignmentFits, JobsStay
<1>13. SoundsAreHeld'  BY <1>1, <1>2, <1>3, <1>4, TaskTyped, KeysApart DEF SoundsAreHeld
<1>14. StaleAreUnused'  BY <1>1, <1>2, <1>3, <1>4 DEF StaleAreUnused
<1>15. DownIsEmpty'  BY <1>1, <1>2, <1>3, <1>4 DEF DownIsEmpty
<1>16. FilesAreThere'  BY <1>1, <1>2, <1>3, <1>4, RowTyped, KeysApart DEF FilesAreThere
<1> QED  BY <1>5, <1>6, <1>7, <1>8, <1>9, <1>10, <1>11, <1>12, <1>13, <1>14, <1>15, <1>16

LEMMA ReleaseKeeps ==
  ASSUME RecordingsInv, NEW p \in Places, Release(p)
  PROVE  RecordingsInv'
<1> USE DEF RecordingsInv, New, Is, LiveRow, Unfinished, Unattended, TaskOf, Jobless,
       Uses, OthersKept, OthersStand, OthersWork, Walks, Handed
<1>1. /\ place[p] # None /\ place[p].pc = "release" /\ place[p].rec \in Recordings
      /\ worker = "stopping"
      /\ UNCHANGED <<owner, backend, seen, request, worker, janitor>>
      /\ UNCHANGED <<row, file, lost>>
  BY TaskTyped DEF Release, outside, disk
<1>2. Walks(p, "end") /\ place'[p].key = place[p].key
  BY <1>1, GoesWalks DEF Release, PCs, Chores, Steps, Returns
<1>3. (Handed(place[p].rec) /\ job[place[p].rec] # None) \/ job' = job
  BY <1>1, UncountedHanded DEF Release, Own
<1>4. TypeOK'  BY <1>1, <1>2, <1>3 DEF TypeOK
<1>5. UploadsFit'  BY <1>1, <1>2, <1>3, KeysApart DEF UploadsFit
<1>6. KindsFit'  BY <1>1, <1>2, <1>3, TaskTyped DEF KindsFit, OfTranscription, OfIndexing,
    OfErasure, Returns
<1>7. DeletionsStay'  BY <1>1, <1>2, <1>3, TaskTyped DEF DeletionsStay
<1>8. RowsFit'  BY <1>1, <1>2, <1>3 DEF RowsFit
<1>9. TasksFit'  BY <1>1, <1>2, <1>3, TaskTyped DEF TasksFit, KindsFit, OfErasure, Returns
<1>10. JobsStay'  BY <1>1, <1>2, <1>3 DEF JobsStay
<1>11. AlignmentFits'  BY <1>1, <1>2, <1>3 DEF AlignmentFits
<1>12. SoundsAreHeld'  BY <1>1, <1>2, <1>3, TaskTyped, KeysApart DEF SoundsAreHeld
<1>13. StaleAreUnused'  BY <1>1, <1>2, <1>3 DEF StaleAreUnused
<1>14. DownIsEmpty'  BY <1>1, <1>2, <1>3 DEF DownIsEmpty
<1>15. FilesAreThere'  BY <1>1, <1>2, <1>3, RowTyped, KeysApart DEF FilesAreThere
<1> QED  BY <1>4, <1>5, <1>6, <1>7, <1>8, <1>9, <1>10, <1>11, <1>12, <1>13, <1>14, <1>15

(* A file that ages is nobody's fresh one. *)
LEMMA AgesKeeps ==
  ASSUME RecordingsInv, NEW k \in Keys, Ages(k)
  PROVE  RecordingsInv'
<1> USE DEF RecordingsInv, New, Is, LiveRow, Unfinished, Unattended, TaskOf, Jobless,
       Uses, OthersKept, OthersStand, OthersWork, Filed
<1>1. /\ file[k] = "new" /\ Filed(k, "old")
      /\ k \in Recordings => request[k] # "received"
      /\ \A p \in Places : place[p] # None => place[p].key # k
      /\ UNCHANGED <<owner, backend, seen, request, worker, job, place, row, lost, janitor>>
  BY DEF Ages, Filed, TypeOK, outside, process
<1>2. TypeOK'  BY <1>1 DEF TypeOK
<1>3. UploadsFit'
  BY <1>1, KeysApart DEF UploadsFit, AlignmentFits
<1>4. KindsFit'  BY <1>1, TaskTyped DEF KindsFit
<1>5. DeletionsStay'  BY <1>1, TaskTyped DEF DeletionsStay
<1>6. RowsFit'  BY <1>1 DEF RowsFit
<1>7. TasksFit'  BY <1>1, TaskTyped DEF TasksFit
<1>8. JobsStay'  BY <1>1 DEF JobsStay
<1>9. AlignmentFits'  BY <1>1 DEF AlignmentFits
<1>10. SoundsAreHeld'  BY <1>1, TaskTyped, KeysApart DEF SoundsAreHeld
<1>11. StaleAreUnused'  BY <1>1 DEF StaleAreUnused
<1>12. DownIsEmpty'  BY <1>1 DEF DownIsEmpty
<1>13. FilesAreThere'  BY <1>1, RowTyped, KeysApart DEF FilesAreThere
<1> QED  BY <1>2, <1>3, <1>4, <1>5, <1>6, <1>7, <1>8, <1>9, <1>10, <1>11, <1>12, <1>13

LEMMA SweepKeeps ==
  ASSUME RecordingsInv, Sweep
  PROVE  RecordingsInv'
<1> USE DEF RecordingsInv, New, Is, LiveRow, Unfinished, Unattended, TaskOf, Jobless,
       Uses, OthersKept, OthersStand, OthersWork
<1>1. /\ UNCHANGED <<owner, backend, seen, request, worker, job, place>>
      /\ UNCHANGED <<row, file, lost>>
  BY DEF Sweep, outside, disk
<1>2. janitor' \in Janitor /\ janitor'.pc = "sources" /\ janitor'.stale = {}
  BY RestingIsResting DEF Sweep, Janitor, Resting, ToClean
<1>3. TypeOK'  BY <1>1, <1>2 DEF TypeOK
<1>4. UploadsFit'  BY <1>1, <1>2, KeysApart DEF UploadsFit
<1>5. KindsFit'  BY <1>1, <1>2, TaskTyped DEF KindsFit
<1>6. DeletionsStay'  BY <1>1, <1>2, TaskTyped DEF DeletionsStay
<1>7. RowsFit'  BY <1>1, <1>2 DEF RowsFit
<1>8. TasksFit'  BY <1>1, <1>2, TaskTyped DEF TasksFit
<1>9. JobsStay'  BY <1>1, <1>2 DEF JobsStay
<1>10. AlignmentFits'  BY <1>1, <1>2 DEF AlignmentFits
<1>11. SoundsAreHeld'  BY <1>1, <1>2, TaskTyped, KeysApart DEF SoundsAreHeld
<1>12. StaleAreUnused'  BY <1>1, <1>2 DEF StaleAreUnused
<1>13. DownIsEmpty'  BY <1>1, <1>2 DEF DownIsEmpty
<1>14. FilesAreThere'  BY <1>1, <1>2, RowTyped, KeysApart DEF FilesAreThere
<1> QED  BY <1>3, <1>4, <1>5, <1>6, <1>7, <1>8, <1>9, <1>10, <1>11, <1>12, <1>13, <1>14

(* A document whose source goes is looked at once more. *)
LEMMA SweepSourceKeeps ==
  ASSUME RecordingsInv, NEW r \in Recordings, SweepSource(r)
  PROVE  RecordingsInv'
<1> USE DEF RecordingsInv, New, Is, LiveRow, Unfinished, Unattended, TaskOf, Jobless,
       Uses, OthersKept, OthersStand, OthersWork, SourceTaken, Filed
<1>1. /\ UNCHANGED <<owner, backend, seen, request, worker, job, place>>
  BY DEF SweepSource, outside
<1>2. /\ janitor' \in Janitor /\ janitor.pc = "sources" /\ janitor'.pc = "sources"
      /\ janitor'.stale = janitor.stale
  BY JanitorTyped DEF SweepSource, Sweeping, Janitor, TypeOK
<1>3. UNCHANGED <<row, file, lost>> \/ (SourceTaken(r) /\ owner[r] = "kb")
  BY SourceDroppedTakes DEF SweepSource, ToClean, disk
<1>4. TypeOK'  BY <1>1, <1>2, <1>3 DEF TypeOK, RowsTyped
<1>5. UploadsFit'  BY <1>1, <1>2, <1>3, KeysApart DEF UploadsFit
<1>6. KindsFit'  BY <1>1, <1>2, <1>3, TaskTyped DEF KindsFit
<1>7. DeletionsStay'  BY <1>1, <1>2, <1>3, TaskTyped DEF DeletionsStay
<1>8. RowsFit'  BY <1>1, <1>2, <1>3 DEF RowsFit
<1>9. TasksFit'  BY <1>1, <1>2, <1>3, TaskTyped DEF TasksFit
<1>10. JobsStay'  BY <1>1, <1>2, <1>3 DEF JobsStay
<1>11. AlignmentFits'  BY <1>1, <1>2, <1>3 DEF AlignmentFits
<1>12. SoundsAreHeld'  BY <1>1, <1>2, <1>3, TaskTyped, KeysApart DEF SoundsAreHeld
<1>13. StaleAreUnused'  BY <1>1, <1>2, <1>3 DEF StaleAreUnused
<1>14. DownIsEmpty'  BY <1>1, <1>2, <1>3 DEF DownIsEmpty
<1>15. FilesAreThere'  BY <1>1, <1>2, <1>3, RowTyped, KeysApart DEF FilesAreThere
<1> QED  BY <1>4, <1>5, <1>6, <1>7, <1>8, <1>9, <1>10, <1>11, <1>12, <1>13, <1>14, <1>15

(* Only files that are there are listed, none of them fresh. *)
LEMMA ListStaleKeeps ==
  ASSUME RecordingsInv, ListStale
  PROVE  RecordingsInv'
<1> USE DEF RecordingsInv, New, Is, LiveRow, Unfinished, Unattended, TaskOf, Jobless,
       Uses, OthersKept, OthersStand, OthersWork
<1>1. /\ UNCHANGED <<owner, backend, seen, request, worker, job, place>>
      /\ UNCHANGED <<row, file, lost>>
  BY DEF ListStale, outside, disk
<1>2. /\ janitor' \in Janitor /\ janitor'.pc \in {"idle", "keys"}
      /\ \A k \in janitor'.stale : file[k] = "old"
  BY RestingIsResting, JanitorTyped DEF ListStale, Janitor, TypeOK
<1>3. TypeOK'  BY <1>1, <1>2 DEF TypeOK
<1>4. UploadsFit'  BY <1>1, <1>2, KeysApart DEF UploadsFit
<1>5. KindsFit'  BY <1>1, <1>2, TaskTyped DEF KindsFit
<1>6. DeletionsStay'  BY <1>1, <1>2, TaskTyped DEF DeletionsStay
<1>7. RowsFit'  BY <1>1, <1>2 DEF RowsFit
<1>8. TasksFit'  BY <1>1, <1>2, TaskTyped DEF TasksFit
<1>9. JobsStay'  BY <1>1, <1>2 DEF JobsStay
<1>10. AlignmentFits'  BY <1>1, <1>2 DEF AlignmentFits
<1>11. SoundsAreHeld'  BY <1>1, <1>2, TaskTyped, KeysApart DEF SoundsAreHeld
<1>12. StaleAreUnused'
  BY <1>1, <1>2, KeysApart DEF StaleAreUnused, UploadsFit
<1>13. DownIsEmpty'  BY <1>1, <1>2 DEF DownIsEmpty
<1>14. FilesAreThere'  BY <1>1, <1>2, RowTyped, KeysApart DEF FilesAreThere
<1> QED  BY <1>3, <1>4, <1>5, <1>6, <1>7, <1>8, <1>9, <1>10, <1>11, <1>12, <1>13, <1>14

(* What the sweep asks for is what is in use. *)
LEMMA UsedIsInUse ==
  ASSUME RecordingsInv, NEW r \in Recordings, NEW k, Uses(r, k)
  PROVE  k \in InUse
<1>1. CASE owner[r] = "kb"
  <2>1. k \in FilesOf(r)
    BY <1>1 DEF Uses, FilesOf
  <2> QED  BY <1>1, <2>1 DEF Uses, InUse
<1>2. CASE owner[r] # "kb"
  BY <1>2 DEF Uses, InUse
<1> QED  BY <1>1, <1>2

(* What is left of the list is not in use. *)
LEMMA ReadKeysKeeps ==
  ASSUME RecordingsInv, ReadKeys
  PROVE  RecordingsInv'
<1> USE DEF RecordingsInv, New, Is, LiveRow, Unfinished, Unattended, TaskOf, Jobless,
       Uses, OthersKept, OthersStand, OthersWork
<1>1. /\ UNCHANGED <<owner, backend, seen, request, worker, job, place>>
      /\ UNCHANGED <<row, file, lost>>
  BY DEF ReadKeys, outside, disk
<1>2. /\ janitor' \in Janitor /\ janitor'.pc \in {"idle", "orphans"}
      /\ \A k \in janitor'.stale : k \in janitor.stale /\ k \notin InUse
  BY RestingIsResting, JanitorTyped DEF ReadKeys, Janitor, TypeOK
<1>3. \A r \in Recordings : \A k : Uses(r, k) => k \in InUse
  BY UsedIsInUse
<1>4. TypeOK'  BY <1>1, <1>2, <1>3 DEF TypeOK
<1>5. UploadsFit'  BY <1>1, <1>2, <1>3, KeysApart DEF UploadsFit
<1>6. KindsFit'  BY <1>1, <1>2, <1>3, TaskTyped DEF KindsFit
<1>7. DeletionsStay'  BY <1>1, <1>2, <1>3, TaskTyped DEF DeletionsStay
<1>8. RowsFit'  BY <1>1, <1>2, <1>3 DEF RowsFit
<1>9. TasksFit'  BY <1>1, <1>2, <1>3, TaskTyped DEF TasksFit
<1>10. JobsStay'  BY <1>1, <1>2, <1>3 DEF JobsStay
<1>11. AlignmentFits'  BY <1>1, <1>2, <1>3 DEF AlignmentFits
<1>12. SoundsAreHeld'  BY <1>1, <1>2, <1>3, TaskTyped, KeysApart DEF SoundsAreHeld
<1>13. StaleAreUnused'
  BY <1>1, <1>2, <1>3 DEF StaleAreUnused
<1>14. DownIsEmpty'  BY <1>1, <1>2, <1>3 DEF DownIsEmpty
<1>15. FilesAreThere'  BY <1>1, <1>2, <1>3, RowTyped, KeysApart DEF FilesAreThere
<1> QED  BY <1>4, <1>5, <1>6, <1>7, <1>8, <1>9, <1>10, <1>11, <1>12, <1>13, <1>14, <1>15

(* A file on the list is nobody's. *)
LEMMA DropOrphanKeeps ==
  ASSUME RecordingsInv, NEW k \in Keys, DropOrphan(k)
  PROVE  RecordingsInv'
<1> USE DEF RecordingsInv, New, Is, LiveRow, Unfinished, Unattended, TaskOf, Jobless,
       Uses, OthersKept, OthersStand, OthersWork, Filed
<1>1. /\ UNCHANGED <<owner, backend, seen, request, worker, job, place>>
      /\ UNCHANGED row
  BY DEF DropOrphan, outside
<1>2. /\ janitor.pc = "orphans" /\ k \in janitor.stale
      /\ Filed(k, "none") /\ lost' \in SUBSET Keys /\ lost \subseteq lost'
  BY UnlinkedFiled DEF DropOrphan, Sweeping
<1>3. /\ janitor' \in Janitor /\ janitor'.pc \in {"idle", "orphans"}
      /\ janitor'.stale \subseteq janitor.stale
  BY RestingIsResting, JanitorTyped DEF DropOrphan, Sweeping, Janitor, TypeOK
<1>4. \A r \in Recordings : ~Uses(r, k)
  BY <1>2 DEF StaleAreUnused
<1>5. TypeOK'  BY <1>1, <1>2, <1>3, <1>4 DEF TypeOK
<1>6. UploadsFit'
  BY <1>1, <1>2, KeysApart DEF UploadsFit, StaleAreUnused
<1>7. KindsFit'  BY <1>1, <1>2, <1>3, <1>4, TaskTyped DEF KindsFit
<1>8. DeletionsStay'  BY <1>1, <1>2, <1>3, <1>4, TaskTyped DEF DeletionsStay
<1>9. RowsFit'  BY <1>1, <1>2, <1>3, <1>4 DEF RowsFit
<1>10. TasksFit'  BY <1>1, <1>2, <1>3, <1>4, TaskTyped DEF TasksFit
<1>11. JobsStay'  BY <1>1, <1>2, <1>3, <1>4 DEF JobsStay
<1>12. AlignmentFits'  BY <1>1, <1>2, <1>3, <1>4 DEF AlignmentFits
<1>13. SoundsAreHeld'  BY <1>1, <1>2, <1>3, <1>4, TaskTyped, KeysApart DEF SoundsAreHeld
<1>14. StaleAreUnused'  BY <1>1, <1>2, <1>3, <1>4 DEF StaleAreUnused
<1>15. DownIsEmpty'  BY <1>1, <1>2, <1>3, <1>4 DEF DownIsEmpty
<1>16. FilesAreThere'
  BY <1>1, <1>2, <1>4, RowTyped, KeysApart DEF FilesAreThere
<1> QED  BY <1>5, <1>6, <1>7, <1>8, <1>9, <1>10, <1>11, <1>12, <1>13, <1>14, <1>15, <1>16

LEMMA SweepFailsKeeps ==
  ASSUME RecordingsInv, SweepFails
  PROVE  RecordingsInv'
<1> USE DEF RecordingsInv, New, Is, LiveRow, Unfinished, Unattended, TaskOf, Jobless,
       Uses, OthersKept, OthersStand, OthersWork, SourceTaken, Filed
<1>1. /\ UNCHANGED <<owner, backend, seen, request, worker, job, place>>
  BY DEF SweepFails, outside
<1>2. janitor' \in Janitor /\ janitor'.pc = "idle" /\ janitor'.stale = {}
  BY RestingIsResting DEF SweepFails
<1>3. \/ UNCHANGED <<row, file, lost>>
      \/ \E r \in Recordings : SourceTaken(r) /\ owner[r] = "kb"
  BY SourceTornTakes, JanitorTyped DEF SweepFails, ToClean, disk
<1>4. TypeOK'  BY <1>1, <1>2, <1>3 DEF TypeOK, RowsTyped
<1>5. UploadsFit'  BY <1>1, <1>2, <1>3, KeysApart DEF UploadsFit
<1>6. KindsFit'  BY <1>1, <1>2, <1>3, TaskTyped DEF KindsFit
<1>7. DeletionsStay'  BY <1>1, <1>2, <1>3, TaskTyped DEF DeletionsStay
<1>8. RowsFit'  BY <1>1, <1>2, <1>3 DEF RowsFit
<1>9. TasksFit'  BY <1>1, <1>2, <1>3, TaskTyped DEF TasksFit
<1>10. JobsStay'  BY <1>1, <1>2, <1>3 DEF JobsStay
<1>11. AlignmentFits'  BY <1>1, <1>2, <1>3 DEF AlignmentFits
<1>12. SoundsAreHeld'  BY <1>1, <1>2, <1>3, TaskTyped, KeysApart DEF SoundsAreHeld
<1>13. StaleAreUnused'  BY <1>1, <1>2, <1>3 DEF StaleAreUnused
<1>14. DownIsEmpty'  BY <1>1, <1>2, <1>3 DEF DownIsEmpty
<1>15. FilesAreThere'  BY <1>1, <1>2, <1>3, RowTyped, KeysApart DEF FilesAreThere
<1> QED  BY <1>4, <1>5, <1>6, <1>7, <1>8, <1>9, <1>10, <1>11, <1>12, <1>13, <1>14, <1>15

LEMMA StutterKeeps ==
  ASSUME RecordingsInv, UNCHANGED vars
  PROVE  RecordingsInv'
<1> USE DEF RecordingsInv, New, Is, LiveRow, Unfinished, Unattended, TaskOf, Jobless,
       Uses, OthersKept, OthersStand, OthersWork
<1>1. UNCHANGED <<owner, backend, seen, worker, row, job, file, request, place, janitor, lost>>
  BY DEF vars
<1>2. TypeOK'  BY <1>1 DEF TypeOK
<1>3. UploadsFit'  BY <1>1, KeysApart DEF UploadsFit
<1>4. KindsFit'  BY <1>1, TaskTyped DEF KindsFit
<1>5. DeletionsStay'  BY <1>1, TaskTyped DEF DeletionsStay
<1>6. RowsFit'  BY <1>1 DEF RowsFit
<1>7. TasksFit'  BY <1>1, TaskTyped DEF TasksFit
<1>8. JobsStay'  BY <1>1 DEF JobsStay
<1>9. AlignmentFits'  BY <1>1 DEF AlignmentFits
<1>10. SoundsAreHeld'  BY <1>1, TaskTyped, KeysApart DEF SoundsAreHeld
<1>11. StaleAreUnused'  BY <1>1 DEF StaleAreUnused
<1>12. DownIsEmpty'  BY <1>1 DEF DownIsEmpty
<1>13. FilesAreThere'  BY <1>1, RowTyped, KeysApart DEF FilesAreThere
<1> QED  BY <1>2, <1>3, <1>4, <1>5, <1>6, <1>7, <1>8, <1>9, <1>10, <1>11, <1>12, <1>13

-----------------------------------------------------------------------------
(* The invariant holds.                                                    *)

LEMMA InitKeeps == Init => RecordingsInv
<1> SUFFICES ASSUME Init PROVE RecordingsInv
  OBVIOUS
<1> USE DEF Init, Is, LiveRow
<1>1. TypeOK  BY RestingIsResting DEF TypeOK
<1>2. UploadsFit  BY DEF UploadsFit, New, Unattended, TaskOf, Keys
<1>3. KindsFit /\ DeletionsStay /\ RowsFit /\ TasksFit /\ SoundsAreHeld /\ DownIsEmpty
  BY DEF KindsFit, DeletionsStay, RowsFit, TasksFit, SoundsAreHeld, DownIsEmpty
<1>4. JobsStay /\ AlignmentFits  BY DEF JobsStay, AlignmentFits, Unfinished
<1>5. StaleAreUnused /\ FilesAreThere
  BY RestingIsResting DEF StaleAreUnused, FilesAreThere
<1> QED  BY <1>1, <1>2, <1>3, <1>4, <1>5 DEF RecordingsInv

LEMMA RequestsKeep ==
  ASSUME RecordingsInv, NEW r \in Recordings, Requests(r)
  PROVE  RecordingsInv'
<1>1. CASE Receive(r) \/ Insert(r) \/ Enqueue(r) \/ Undo(r) \/ Drop(r)
  BY <1>1, ReceiveKeeps, InsertKeeps, EnqueueKeeps, UndoKeeps, DropKeeps
<1>2. CASE Send(r) \/ Evict(r) \/ DeleteAttachment(r) \/ DeleteDialog(r)
  BY <1>2, SendKeeps, EvictKeeps, FileThenRowKeeps DEF DeleteAttachment, DeleteDialog
<1>3. CASE DeleteDocument(r) \/ Retry(r)
  BY <1>3, DeleteDocumentKeeps, RetryKeeps
<1> QED  BY <1>1, <1>2, <1>3 DEF Requests

LEMMA TasksKeep ==
  ASSUME RecordingsInv, NEW p \in Places,
         \/ Transcription(p) \/ Indexing(p) \/ Finish(p) \/ Returning(p)
         \/ Renew(p) \/ Withdrawn(p) \/ TaskFails(p)
  PROVE  RecordingsInv'
<1>1. CASE Transcription(p)
  BY <1>1, BeginKeeps, LinkKeeps, TranscribeKeeps, CompleteKeeps, FailKeeps, UnlinkKeeps,
     PostponeKeeps DEF Transcription
<1>2. CASE Indexing(p)
  <2>1. CASE Start(p) \/ Work(p) \/ Reject(p) \/ Record(p) \/ BuildFails(p) \/ Replace(p)
    BY <2>1, StartKeeps, WorkKeeps, RejectKeeps, RecordKeeps, BuildFailsKeeps, ReplaceKeeps
  <2>2. CASE Tidy(p) \/ RetryLater(p) \/ GiveUp(p) \/ Erase(p)
    BY <2>2, TidyKeeps, RetryLaterKeeps, GiveUpKeeps, EraseKeeps
  <2>3. CASE \E k \in AudioKeys : Compress(p, k)  BY <2>3, CompressKeeps
  <2> QED  BY <1>2, <2>1, <2>2, <2>3 DEF Indexing
<1>3. CASE Finish(p) \/ Renew(p) \/ Withdrawn(p) \/ TaskFails(p)
  BY <1>3, FinishKeeps, RenewKeeps, WithdrawnKeeps, TaskFailsKeeps
<1>4. CASE Returning(p)
  BY <1>4, CancelledKeeps, RequeueKeeps, ReleaseKeeps, EndKeeps DEF Returning
<1> QED  BY <1>1, <1>2, <1>3, <1>4

LEMMA SweepsKeep ==
  ASSUME RecordingsInv, Sweeps \/ SweepFails
  PROVE  RecordingsInv'
  BY SweepKeeps, ListStaleKeeps, ReadKeysKeeps, SweepSourceKeeps, DropOrphanKeeps,
     SweepFailsKeeps DEF Sweeps

LEMMA NextKeeps == RecordingsInv /\ [Next]_vars => RecordingsInv'
<1> SUFFICES ASSUME RecordingsInv, [Next]_vars PROVE RecordingsInv'
  OBVIOUS
<1>1. CASE \E r \in Recordings :
             Requests(r) \/ LeaseExpires(r) \/ \E p \in Places : Claim(p, r)
  BY <1>1, RequestsKeep, LeaseExpiresKeeps, ClaimKeeps
<1>2. CASE \E p \in Places :
             \/ Transcription(p) \/ Indexing(p) \/ Finish(p) \/ Returning(p)
             \/ Renew(p) \/ Withdrawn(p) \/ TaskFails(p)
  BY <1>2, TasksKeep
<1>3. CASE \E k \in Keys : Ages(k)  BY <1>3, AgesKeeps
<1>4. CASE Align \/ BackendCrash
  BY <1>4, AlignQueuedKeeps, AlignPendingKeeps, AlignFailKeeps, AlignFilesKeeps,
     BackendCrashKeeps DEF Align
<1>5. CASE Stop \/ Stopped \/ WorkerCrash \/ WorkerStart
  BY <1>5, StopKeeps, StoppedKeeps, WorkerCrashKeeps, WorkerStartKeeps
<1>6. CASE Sweeps \/ SweepFails  BY <1>6, SweepsKeep
<1>7. CASE UNCHANGED vars  BY <1>7, StutterKeeps
<1> QED  BY <1>1, <1>2, <1>3, <1>4, <1>5, <1>6, <1>7 DEF Next

LEMMA InvariantHolds == Spec => []RecordingsInv
  BY InitKeeps, NextKeeps, PTL DEF Spec

(* Every row, job, task, file and pass of the sweep is always one the program knows, and  *)
(* no question is sent with an attachment that has no text yet (dialogs/service.py,       *)
(* worker/transcribe.py, kb/service.py, worker/sweep.py).                                 *)
THEOREM RecordingTypes == Spec => []TypeOK
<1>1. RecordingsInv => TypeOK  BY DEF RecordingsInv
<1> QED  BY <1>1, InvariantHolds, PTL

-----------------------------------------------------------------------------
(* What a step may do to a row and its job.                                *)

OutcomeStays(r) ==
    owner[r] = "chat" /\ row[r] # None /\ row[r].status \in Final /\ row'[r] # None
        => row'[r].status = row[r].status
JobHasReason(r) ==
    owner[r] = "chat" /\ job[r] # None /\ job'[r] = None /\ row'[r] # None
        => row'[r].status \in Final
SourceHasReason(r) ==
    owner[r] = "kb" /\ LiveRow(r) /\ row[r].source /\ row'[r] # None /\ ~row'[r].source
        => \/ row[r].audio # None
           \/ Expired(r)
           \/ \E p \in Places : place[p] # None /\ place[p].rec = r /\ place[p].pc = "reject"
Lawful(r) == OutcomeStays(r) /\ JobHasReason(r) /\ SourceHasReason(r)

(* A step that leaves rows and jobs, or the rows while a job changes hands. *)
LEMMA LeftIsLawful ==
  ASSUME RecordingsInv, UNCHANGED row,
         \A r \in Recordings : job[r] # None => job'[r] # None
  PROVE  \A r \in Recordings : Lawful(r)
  BY DEF Lawful, OutcomeStays, JobHasReason, SourceHasReason, LiveRow

(* A step about one recording is lawful for the others. *)
LEMMA OthersAreLawful ==
  ASSUME RecordingsInv, NEW r \in Recordings, OthersKept(r), OthersStand(r), Lawful(r)
  PROVE  \A s \in Recordings : Lawful(s)
  BY DEF Lawful, OutcomeStays, JobHasReason, SourceHasReason, LiveRow, OthersKept, OthersStand

LEMMA DeletedIsLawful ==
  ASSUME RecordingsInv, NEW r \in Recordings, RowDeleted(r)
  PROVE  \A s \in Recordings : Lawful(s)
<1>1. row'[r] = None /\ OthersKept(r) /\ OthersStand(r)
  BY DeletedTogether DEF RecordingsInv
<1>2. Lawful(r)  BY <1>1 DEF Lawful, OutcomeStays, JobHasReason, SourceHasReason
<1> QED  BY <1>1, <1>2, OthersAreLawful

(* A document is marked; its job and its status are not those of a transcription. *)
LEMMA DocumentIsLawful ==
  ASSUME RecordingsInv, NEW r \in Recordings, owner[r] = "kb", OthersKept(r), OthersStand(r),
         row[r] # None /\ row'[r] # None => row'[r].source = row[r].source
  PROVE  \A s \in Recordings : Lawful(s)
<1>1. Lawful(r)  BY DEF Lawful, OutcomeStays, JobHasReason, SourceHasReason, LiveRow
<1> QED  BY <1>1, OthersAreLawful

(* An attachment is marked before it has its outcome, and its job stays. *)
LEMMA AttachmentIsLawful ==
  ASSUME RecordingsInv, NEW r \in Recordings, NEW status, owner[r] = "chat", UNCHANGED job,
         \/ row[r] # None /\ row[r].status \in {"queued", "processing"} /\ Marked(r, status)
         \/ row' = row
  PROVE  \A s \in Recordings : Lawful(s)
<1>1. OthersKept(r) /\ OthersStand(r)  BY DEF Marked, OthersKept, OthersStand
<1>2. Lawful(r)
  BY DEF Lawful, OutcomeStays, JobHasReason, SourceHasReason, Marked, Final
<1> QED  BY <1>1, <1>2, OthersAreLawful

(* The source of a document goes for a reason. *)
LEMMA SourceIsLawful ==
  ASSUME RecordingsInv, NEW r \in Recordings, UNCHANGED job,
         UNCHANGED row \/ SourceTaken(r),
         \/ row[r] # None /\ row[r].audio # None
         \/ Expired(r)
         \/ \E p \in Places : place[p] # None /\ place[p].rec = r /\ place[p].pc = "reject"
         \/ UNCHANGED row
  PROVE  \A s \in Recordings : Lawful(s)
<1>1. OthersKept(r) /\ OthersStand(r)  BY DEF SourceTaken, OthersKept, OthersStand
<1>2. Lawful(r)
  BY DEF Lawful, OutcomeStays, JobHasReason, SourceHasReason, SourceTaken, LiveRow
<1> QED  BY <1>1, <1>2, OthersAreLawful

LEMMA RequestsAreLawful ==
  ASSUME RecordingsInv, NEW r \in Recordings, Requests(r)
  PROVE  \A s \in Recordings : Lawful(s)
<1> USE DEF RecordingsInv
<1>1. CASE Receive(r) \/ Drop(r)
  BY <1>1, LeftIsLawful DEF Receive, Drop
<1>2. CASE Insert(r)
  <2>1. row[r] = None /\ job[r] = None  BY <1>2 DEF Insert, UploadsFit, New
  <2>2. OthersKept(r) /\ OthersStand(r)
    BY <1>2 DEF Insert, Inserted, OthersKept, OthersStand, TypeOK
  <2>3. Lawful(r)
    BY <2>1 DEF Lawful, OutcomeStays, JobHasReason, SourceHasReason, LiveRow
  <2> QED  BY <2>2, <2>3, OthersAreLawful
<1>3. CASE Enqueue(r)
  <2>1. \A s \in Recordings : job[s] # None => job'[s] # None
    BY <1>3, NewJobGiven DEF Enqueue, OthersStand
  <2> QED  BY <1>3, <2>1, LeftIsLawful DEF Enqueue
<1>4. CASE Undo(r)
  <2>1. RowDeleted(r) \/ UNCHANGED <<row, job>>  BY <1>4 DEF Undo
  <2> QED  BY <2>1, DeletedIsLawful, LeftIsLawful
<1>5. CASE Send(r)
  <2>1. /\ row[r] # None /\ row[r].status = "ready" /\ UNCHANGED job
        /\ row' = [row EXCEPT ![r].sent = TRUE]
    BY <1>5 DEF Send, Attached, Is
  <2>2. OthersKept(r) /\ row'[r].status = "ready" /\ row'[r].source = row[r].source
    BY <2>1, SentRow
  <2>3. OthersStand(r)  BY <2>1 DEF OthersStand
  <2>4. Lawful(r)
    BY <2>1, <2>2 DEF Lawful, OutcomeStays, JobHasReason, SourceHasReason, Final
  <2> QED  BY <2>2, <2>3, <2>4, OthersAreLawful
<1>6. CASE Evict(r)
  BY <1>6, DeletedIsLawful DEF Evict
<1>7. CASE FileThenRow(r)
  <2>1. RowDeleted(r) \/ UNCHANGED <<row, job>>  BY <1>7 DEF FileThenRow
  <2> QED  BY <2>1, DeletedIsLawful, LeftIsLawful
<1>8. CASE DeleteDocument(r)
  <2>1. /\ owner[r] = "kb" /\ row[r] # None /\ row' = [row EXCEPT ![r].deleted = TRUE]
        /\ job' = [job EXCEPT ![r] = NewJob("delete")]
    BY <1>8 DEF DeleteDocument, Document, LiveRow
  <2> QED  BY <2>1, DeletedRow, NewJobGiven, DocumentIsLawful
<1>9. CASE Retry(r)
  <2>1. /\ owner[r] = "kb" /\ row[r] # None /\ row' = [row EXCEPT ![r].status = "queued"]
        /\ job' = [job EXCEPT ![r] = NewJob("index")]
    BY <1>9 DEF Retry, Document, LiveRow
  <2>2. Marked(r, "queued")  BY <2>1, StatusMarked DEF RowsFit
  <2> QED  BY <2>1, <2>2, NewJobGiven, DocumentIsLawful DEF Marked
<1> QED
  BY <1>1, <1>2, <1>3, <1>4, <1>5, <1>6, <1>7, <1>8, <1>9
  DEF Requests, DeleteAttachment, DeleteDialog

LEMMA TranscriptionIsLawful ==
  ASSUME RecordingsInv, NEW p \in Places, Transcription(p)
  PROVE  \A s \in Recordings : Lawful(s)
<1> USE DEF RecordingsInv
<1>1. place[p] # None /\ place[p].rec \in Recordings
  BY TaskTyped DEF Transcription, Begin, Link, Transcribe, Complete, Fail, Unlink, Postpone, On
<1>2. place[p].pc \in {"begin", "complete", "fail"} => owner[place[p].rec] = "chat"
  BY <1>1, TaskTyped DEF KindsFit, OfIndexing, OfErasure, Returns
<1>3. CASE Begin(p) \/ Complete(p) \/ Fail(p)
  <2>1. UNCHANGED job /\ place[p].pc \in {"begin", "complete", "fail"}
    BY <1>3 DEF Begin, Complete, Fail, On
  <2>2. \E from \in SUBSET {"queued", "processing"}, to \in {"processing", "ready", "error"} :
            row' = Moved(place[p].rec, from, to)
    BY <1>3 DEF Begin, Complete, Fail
  <2>3. PICK from \in SUBSET {"queued", "processing"},
             to \in {"processing", "ready", "error"} : row' = Moved(place[p].rec, from, to)
    BY <2>2
  <2>4. \/ /\ row[place[p].rec] # None /\ row[place[p].rec].status \in {"queued", "processing"}
           /\ Marked(place[p].rec, to)
        \/ row' = row
    BY <1>1, <2>3, MovedMarks
  <2> QED  BY <1>1, <1>2, <2>1, <2>4, AttachmentIsLawful
<1>4. CASE Link(p) \/ Transcribe(p) \/ Unlink(p)
  BY <1>4, LeftIsLawful DEF Link, Transcribe, Unlink
<1>5. CASE Postpone(p)
  <2>1. \A s \in Recordings : job[s] # None => job'[s] # None
    BY <1>1, <1>5, LeaseHanded DEF Postpone, JobFree, Own, Handed, OthersStand
  <2> QED  BY <1>5, <2>1, LeftIsLawful DEF Postpone
<1> QED  BY <1>3, <1>4, <1>5 DEF Transcription

LEMMA IndexingIsLawful ==
  ASSUME RecordingsInv, NEW p \in Places, Indexing(p)
  PROVE  \A s \in Recordings : Lawful(s)
<1> USE DEF RecordingsInv
<1>1. /\ place[p] # None /\ place[p].rec \in Recordings
      /\ place[p].pc \in {"start", "work", "reject", "compress", "record", "replace", "tidy",
                          "retry", "giveUp", "erase"}
  BY TaskTyped DEF Indexing, Start, Work, Reject, Compress, Record, BuildFails, Replace, Tidy,
     RetryLater, GiveUp, Erase, On
<1>2. owner[place[p].rec] = "kb"
  BY <1>1, TaskTyped DEF KindsFit, OfTranscription, Returns, TypeOK, Owners
<1>3. CASE Work(p) \/ BuildFails(p) \/ \E k \in AudioKeys : Compress(p, k)
  BY <1>3, LeftIsLawful DEF Work, BuildFails, Compress
<1>4. CASE Start(p)
  <2>1. /\ UNCHANGED job
        /\ \/ row' = row
           \/ /\ row[place[p].rec] # None
              /\ row' = [row EXCEPT ![place[p].rec].status = "processing"]
    BY <1>4 DEF Start, LiveRow
  <2>2. row' = row \/ Marked(place[p].rec, "processing")
    BY <1>1, <1>2, <2>1, StatusMarked DEF RowsFit
  <2> QED  BY <1>1, <1>2, <2>1, <2>2, DocumentIsLawful DEF Marked, OthersKept, OthersStand
<1>5. CASE Reject(p)
  <2>1. UNCHANGED job  BY <1>5 DEF Reject
  <2>2. UNCHANGED row \/ SourceTaken(place[p].rec)
    BY <1>1, <1>5, SourceDroppedTakes, SourceTornTakes DEF Reject
  <2>3. place[p].pc = "reject"  BY <1>5 DEF Reject, On
  <2> QED  BY <1>1, <2>1, <2>2, <2>3, SourceIsLawful
<1>6. CASE Record(p)
  <2>1. place[p].key \in AudioKeys
    BY <1>1, <1>6, TaskTyped DEF Record, On, SoundsAreHeld
  <2>2. /\ UNCHANGED job
        /\ \/ row' = row
           \/ row[place[p].rec] # None /\ row' = SoundOf(place[p].rec, place[p].key)
    BY <1>6 DEF Record, LiveRow
  <2>3. /\ OthersKept(place[p].rec)
        /\ row[place[p].rec] # None => row'[place[p].rec].source = row[place[p].rec].source
    BY <1>1, <2>1, <2>2, SoundRow DEF OthersKept
  <2> QED  BY <1>1, <1>2, <2>2, <2>3, DocumentIsLawful DEF OthersStand
<1>7. CASE Replace(p)
  <2>1. CASE LiveRow(place[p].rec) /\ Own(p)
    <3>1. /\ row[place[p].rec] # None /\ row' = [row EXCEPT ![place[p].rec].status = "ready"]
          /\ job' = JobGone(p)
      BY <1>7, <2>1 DEF Replace, LiveRow
    <3>2. Marked(place[p].rec, "ready") /\ OthersStand(place[p].rec)
      BY <1>1, <3>1, StatusMarked, JobGoneIs
    <3> QED  BY <1>1, <1>2, <3>2, DocumentIsLawful DEF Marked
  <2>2. CASE ~(LiveRow(place[p].rec) /\ Own(p))
    BY <1>7, <2>2, LeftIsLawful DEF Replace
  <2> QED  BY <2>1, <2>2
<1>8. CASE Tidy(p)
  <2>1. UNCHANGED job  BY <1>8 DEF Tidy
  <2>2. UNCHANGED row \/ SourceTaken(place[p].rec)
    BY <1>1, <1>8, SourceDroppedTakes, SourceTornTakes DEF Tidy, disk
  <2>3. row[place[p].rec] # None => row[place[p].rec].audio # None
    BY <1>1, <1>8 DEF Tidy, On, TasksFit
  <2>4. SourceTaken(place[p].rec) => row[place[p].rec] # None  BY DEF SourceTaken
  <2> QED  BY <1>1, <2>1, <2>2, <2>3, <2>4, SourceIsLawful
<1>9. CASE RetryLater(p) \/ GiveUp(p)
  <2>1. CASE GivenUp(p)
    <3>1. /\ \/ row[place[p].rec] # None /\ Marked(place[p].rec, "error")
             \/ row' = row
          /\ OthersStand(place[p].rec)
      BY <1>1, <1>2, <2>1, GivenUpMarks
    <3> QED  BY <1>1, <1>2, <3>1, DocumentIsLawful DEF Marked, OthersKept
  <2>2. CASE /\ \/ row' = row
                \/ /\ row[place[p].rec] # None
                   /\ row' = [row EXCEPT ![place[p].rec].status = "queued"]
             /\ job' = IF Own(p) THEN JobFree(place[p].rec) ELSE job
    <3>1. row' = row \/ Marked(place[p].rec, "queued")
      BY <1>1, <1>2, <2>2, StatusMarked DEF RowsFit
    <3>2. OthersStand(place[p].rec)
      BY <1>1, <2>2, LeaseHanded DEF JobFree, Own, Handed, OthersStand
    <3> QED  BY <1>1, <1>2, <3>1, <3>2, DocumentIsLawful DEF Marked, OthersKept
  <2> QED  BY <1>9, <2>1, <2>2 DEF RetryLater, GiveUp, LiveRow
<1>10. CASE Erase(p)
  <2>1. CASE RowDeleted(place[p].rec)  BY <1>1, <2>1, DeletedIsLawful
  <2>2. CASE row' = row
    <3>1. job' = JobGone(p) \/ job' = JobFree(place[p].rec) \/ RowDeleted(place[p].rec)
      BY <1>10 DEF Erase
    <3>2. CASE job' = JobGone(p)
      BY <1>1, <1>2, <2>2, <3>2, JobGoneIs, DocumentIsLawful DEF OthersKept
    <3>3. CASE job' = JobFree(place[p].rec)
      <4>1. OthersStand(place[p].rec)  BY <3>3 DEF JobFree, OthersStand, TypeOK
      <4> QED  BY <1>1, <1>2, <2>2, <4>1, DocumentIsLawful DEF OthersKept
    <3> QED  BY <2>1, <3>1, <3>2, <3>3
  <2> QED  BY <1>10, <2>1, <2>2 DEF Erase
<1> QED
  BY <1>3, <1>4, <1>5, <1>6, <1>7, <1>8, <1>9, <1>10 DEF Indexing

LEMMA TasksAreLawful ==
  ASSUME RecordingsInv, NEW p \in Places,
         Finish(p) \/ Returning(p) \/ Renew(p) \/ Withdrawn(p) \/ TaskFails(p)
  PROVE  \A s \in Recordings : Lawful(s)
<1> USE DEF RecordingsInv
<1>1. place[p] # None /\ place[p].rec \in Recordings
  BY TaskTyped DEF Finish, On, Returning, Cancelled, Requeue, Release, End, Renew, Withdrawn,
     TaskFails
<1>2. CASE Finish(p)
  <2>1. row' = row /\ job' = JobGone(p) /\ place[p].pc = "finish"
    BY <1>2 DEF Finish, On
  <2>2. OthersKept(place[p].rec) /\ OthersStand(place[p].rec)
    BY <1>1, <2>1, JobGoneIs DEF OthersKept
  <2>3. owner[place[p].rec] = "chat" /\ row[place[p].rec] # None
            => row[place[p].rec].status \in Final
    BY <1>1, <2>1, TaskTyped, RowTyped
    DEF KindsFit, TasksFit, OfErasure, Returns, Unfinished, Is, Final
  <2>4. Lawful(place[p].rec)
    BY <1>1, <2>1, <2>3 DEF Lawful, OutcomeStays, JobHasReason, SourceHasReason, LiveRow
  <2> QED  BY <1>1, <2>2, <2>4, OthersAreLawful
<1>3. CASE Cancelled(p) \/ End(p) \/ Withdrawn(p) \/ TaskFails(p)
  BY <1>3, LeftIsLawful DEF Cancelled, End, Withdrawn, TaskFails
<1>4. CASE Renew(p) \/ Release(p)
  <2>1. \A s \in Recordings : job[s] # None => job'[s] # None
    BY <1>1, <1>4, LeaseHanded, UncountedHanded DEF Renew, Release, Own, Handed, OthersStand
  <2> QED  BY <1>4, <2>1, LeftIsLawful DEF Renew, Release, disk
<1>5. CASE Requeue(p)
  <2>1. CASE place[p].kind = "transcribe"
    <3>1. owner[place[p].rec] = "chat"  BY <1>1, <2>1 DEF KindsFit
    <3>2. row' = Moved(place[p].rec, {"processing"}, "queued") /\ UNCHANGED job
      BY <1>5, <2>1 DEF Requeue
    <3>3. \/ /\ row[place[p].rec] # None /\ row[place[p].rec].status \in {"processing"}
             /\ Marked(place[p].rec, "queued")
          \/ row' = row
      BY <1>1, <3>2, MovedMarks
    <3> QED  BY <1>1, <3>1, <3>2, <3>3, AttachmentIsLawful
  <2>2. CASE place[p].kind # "transcribe"
    <3>1. owner[place[p].rec] = "kb"  BY <1>1, <2>2 DEF KindsFit, TypeOK, Owners
    <3>2. /\ \/ row' = row
             \/ /\ row[place[p].rec] # None
                /\ row' = [row EXCEPT ![place[p].rec].status = "queued"]
          /\ job' = IF Own(p) THEN Uncounted(place[p].rec) ELSE job
      BY <1>5, <2>2 DEF Requeue, LiveRow
    <3>3. row' = row \/ Marked(place[p].rec, "queued")
      BY <1>1, <3>1, <3>2, StatusMarked DEF RowsFit
    <3>4. OthersStand(place[p].rec)
      BY <1>1, <3>2, UncountedHanded DEF Own, Handed, OthersStand
    <3> QED  BY <1>1, <3>1, <3>3, <3>4, DocumentIsLawful DEF Marked, OthersKept
  <2> QED  BY <2>1, <2>2
<1> QED  BY <1>2, <1>3, <1>4, <1>5 DEF Returning

LEMMA ProcessesAreLawful ==
  ASSUME RecordingsInv, Align \/ BackendCrash \/ Stop \/ Stopped \/ WorkerCrash \/ WorkerStart
  PROVE  \A s \in Recordings : Lawful(s)
<1> USE DEF RecordingsInv
<1>1. CASE AlignQueued \/ AlignPending \/ AlignFiles \/ BackendCrash
  BY <1>1, LeftIsLawful DEF AlignQueued, AlignPending, AlignFiles, BackendCrash, base
<1>2. CASE Stop \/ Stopped \/ WorkerCrash
  BY <1>2, LeftIsLawful DEF Stop, Stopped, WorkerCrash
<1>3. CASE AlignFail \/ WorkerStart
  <2>1. UNCHANGED job  BY <1>3 DEF AlignFail, WorkerStart
  <2>2. ASSUME NEW r \in Recordings
        PROVE  \/ row'[r] = row[r]
               \/ /\ row[r] # None /\ row[r].status \notin Final
                  /\ row'[r].source = row[r].source
    <3>1. row[r] # None => /\ [row[r] EXCEPT !.status = "error"].source = row[r].source
                           /\ [row[r] EXCEPT !.status = "queued"].source = row[r].source
      BY RowTyped DEF Row
    <3> QED  BY <1>3, <3>1 DEF AlignFail, WorkerStart, Is, Final
  <2> QED
    BY <2>1, <2>2 DEF Lawful, OutcomeStays, JobHasReason, SourceHasReason, LiveRow
<1> QED  BY <1>1, <1>2, <1>3 DEF Align

LEMMA SweepsAreLawful ==
  ASSUME RecordingsInv, Sweeps \/ SweepFails
  PROVE  \A s \in Recordings : Lawful(s)
<1> USE DEF RecordingsInv
<1>1. CASE Sweep \/ ListStale \/ ReadKeys \/ \E k \in Keys : DropOrphan(k)
  BY <1>1, LeftIsLawful DEF Sweep, ListStale, ReadKeys, DropOrphan
<1>2. ASSUME NEW r \in Recordings, ToClean(r)
      PROVE  (row[r] # None /\ row[r].audio # None) \/ Expired(r)
  BY <1>2 DEF ToClean, LiveRow, Is, RowsFit
<1>3. ASSUME NEW r \in Recordings, SweepSource(r)
      PROVE  \A s \in Recordings : Lawful(s)
  <2>1. UNCHANGED job  BY <1>3 DEF SweepSource
  <2>2. CASE ToClean(r)
    <3>1. UNCHANGED row \/ SourceTaken(r)  BY <1>3, <2>2, SourceDroppedTakes DEF SweepSource
    <3> QED  BY <1>2, <2>1, <2>2, <3>1, SourceIsLawful
  <2>3. CASE ~ToClean(r)  BY <1>3, <2>3, LeftIsLawful DEF SweepSource
  <2> QED  BY <2>2, <2>3
<1>4. CASE SweepFails
  <2>1. UNCHANGED <<row, job>>  BY <1>4 DEF SweepFails, SourceTorn
  <2> QED  BY <2>1, LeftIsLawful
<1> QED  BY <1>1, <1>3, <1>4 DEF Sweeps

LEMMA StepsAreLawful ==
  ASSUME RecordingsInv, [Next]_vars
  PROVE  \A s \in Recordings : Lawful(s)
<1> USE DEF RecordingsInv
<1>1. CASE \E r \in Recordings : Requests(r)  BY <1>1, RequestsAreLawful
<1>2. CASE \E r \in Recordings : LeaseExpires(r) \/ \E p \in Places : Claim(p, r)
  <2>1. PICK r \in Recordings : LeaseExpires(r) \/ \E p \in Places : Claim(p, r)  BY <1>2
  <2>2. job[r] # None /\ UNCHANGED row
    BY <2>1 DEF LeaseExpires, Claim, Claimable
  <2>3. \A s \in Recordings : job[s] # None => job'[s] # None
    BY <2>1, <2>2, LeaseHanded, TakenHanded DEF LeaseExpires, Claim, Handed, OthersStand
  <2> QED  BY <2>2, <2>3, LeftIsLawful
<1>3. CASE \E p \in Places :
             \/ Transcription(p) \/ Indexing(p) \/ Finish(p) \/ Returning(p)
             \/ Renew(p) \/ Withdrawn(p) \/ TaskFails(p)
  BY <1>3, TranscriptionIsLawful, IndexingIsLawful, TasksAreLawful
<1>4. CASE \E k \in Keys : Ages(k)  BY <1>4, LeftIsLawful DEF Ages
<1>5. CASE Align \/ BackendCrash \/ Stop \/ Stopped \/ WorkerCrash \/ WorkerStart
  BY <1>5, ProcessesAreLawful
<1>6. CASE Sweeps \/ SweepFails  BY <1>6, SweepsAreLawful
<1>7. CASE UNCHANGED vars  BY <1>7, LeftIsLawful DEF vars
<1> QED  BY <1>1, <1>2, <1>3, <1>4, <1>5, <1>6, <1>7 DEF Next

-----------------------------------------------------------------------------
(* What it is for.                                                         *)

(* The start of the backend passes over no attachment that waits without a job, and fails *)
(* none that has one.                                                                     *)
LEMMA AlignmentStep ==
  ASSUME RecordingsInv, [Next]_vars, backend' # backend
  PROVE  /\ backend # "up" /\ backend' = "up" =>
               \A r \in Recordings : owner[r] = "chat" /\ Is(r, "queued") => job[r] # None
         /\ backend = "fail" =>
               \A r \in Recordings : job[r] # None => row'[r] = row[r]
<1> USE DEF RecordingsInv
<1>1. Align \/ BackendCrash
  <2>1. ASSUME NEW r \in Recordings, Requests(r) PROVE UNCHANGED backend
    BY <2>1 DEF Requests, Receive, Insert, Enqueue, Undo, Drop, Send, Evict, FileThenRow,
       DeleteAttachment, DeleteDialog, DeleteDocument, Retry, others
  <2>2. ASSUME NEW p \in Places,
               \/ Transcription(p) \/ Indexing(p) \/ Finish(p) \/ Returning(p)
               \/ Renew(p) \/ Withdrawn(p) \/ TaskFails(p)
        PROVE  UNCHANGED backend
    <3>1. CASE Transcription(p)
      BY <3>1 DEF Transcription, Begin, Link, Transcribe, Complete, Fail, Unlink, Postpone,
         outside
    <3>2. CASE Indexing(p)
      BY <3>2 DEF Indexing, Start, Work, Reject, Compress, Record, BuildFails, Replace, Tidy,
         RetryLater, GiveUp, Erase, outside
    <3>3. CASE Finish(p) \/ Returning(p) \/ Renew(p) \/ Withdrawn(p) \/ TaskFails(p)
      BY <3>3 DEF Finish, Returning, Cancelled, Requeue, Release, End, Renew, Withdrawn,
         TaskFails, outside
    <3> QED  BY <2>2, <3>1, <3>2, <3>3
  <2>3. ASSUME Sweeps \/ SweepFails PROVE UNCHANGED backend
    BY <2>3 DEF Sweeps, Sweep, ListStale, ReadKeys, SweepSource, DropOrphan, SweepFails,
       outside
  <2>4. ASSUME \/ \E r \in Recordings : LeaseExpires(r) \/ \E p \in Places : Claim(p, r)
               \/ \E k \in Keys : Ages(k)
               \/ Stop \/ Stopped \/ WorkerCrash \/ WorkerStart
        PROVE  UNCHANGED backend
    BY <2>4 DEF LeaseExpires, Claim, Ages, Stop, Stopped, WorkerCrash, WorkerStart, outside
  <2>5. Next  BY DEF vars
  <2> QED  BY <2>1, <2>2, <2>3, <2>4, <2>5 DEF Next
<1>2. ASSUME backend # "up", backend' = "up"
      PROVE  \A r \in Recordings : owner[r] = "chat" /\ Is(r, "queued") => job[r] # None
  <2>1. AlignQueued \/ AlignFiles
    BY <1>1, <1>2 DEF Align, AlignPending, AlignFail, BackendCrash
  <2>2. CASE AlignQueued  BY <1>2, <2>2 DEF AlignQueued
  <2>3. CASE AlignFiles  BY <2>3 DEF AlignFiles, AlignmentFits, Jobless
  <2> QED  BY <2>1, <2>2, <2>3
<1>3. ASSUME backend = "fail"
      PROVE  \A r \in Recordings : job[r] # None => row'[r] = row[r]
  <2>1. AlignFail \/ BackendCrash
    BY <1>1, <1>3 DEF Align, AlignQueued, AlignPending, AlignFiles
  <2>2. CASE AlignFail  BY <1>3, <2>2 DEF AlignFail, AlignmentFits
  <2>3. CASE BackendCrash  BY <2>3 DEF BackendCrash, base
  <2> QED  BY <2>1, <2>2, <2>3
<1> QED  BY <1>2, <1>3

(* The outcome of a transcription is recorded once and before its job goes, whoever lost   *)
(* its lease, took the job again or was started again (AttachmentTranscriber of            *)
(* worker/transcribe.py, SqlAttachmentTranscripts of dialogs/transcripts.py), and the      *)
(* start of the backend fails all attachments nobody would transcribe and no other         *)
(* (align_recordings of dialogs/service.py).                                               *)
THEOREM OutcomesAreKept == Spec => OutcomeIsKept
<1>1. RecordingsInv /\ [Next]_vars =>
        /\ [\A r \in Recordings :
              owner[r] = "chat" /\ row[r] # None /\ row[r].status \in Final /\ row'[r] # None
                => row'[r].status = row[r].status]_row
        /\ [\A r \in Recordings :
              owner[r] = "chat" /\ job[r] # None /\ job'[r] = None /\ row'[r] # None
                => row'[r].status \in Final]_job
  BY StepsAreLawful DEF Lawful, OutcomeStays, JobHasReason
<1>2. RecordingsInv /\ [Next]_vars =>
        [/\ backend # "up" /\ backend' = "up" =>
              \A r \in Recordings : owner[r] = "chat" /\ Is(r, "queued") => job[r] # None
         /\ backend = "fail" =>
              \A r \in Recordings : job[r] # None => row'[r] = row[r]]_backend
  BY AlignmentStep
<1> QED
  BY <1>1, <1>2, InvariantHolds, PTL DEF Spec, OutcomeIsKept, OutcomeOnce, JobGoesLast,
     AlignmentIsExact

(* What has still to be processed or played is on the disk: no sweep, second task or start *)
(* of the backend takes a file in use (kb/recordings.py, worker/sweep.py); and a source is *)
(* taken from a document that has its sound, was refused or failed long ago, not from one  *)
(* queued again under the sweep (drop_source of kb/recordings.py).                         *)
THEOREM RowsHaveFiles == Spec => FilesOfRows
<1>1. RecordingsInv => FilesInUse
  <2> SUFFICES ASSUME RecordingsInv, NEW r \in Recordings, LiveRow(r)
               PROVE  /\ owner[r] = "chat" /\ Unfinished(r) /\ r \notin lost => file[r] # "none"
                      /\ owner[r] = "kb" => \A k \in FilesOf(r) \ lost : file[k] # "none"
    BY DEF FilesInUse
  <2>1. \A k \in FilesOf(r) : (k = r /\ row[r].source) \/ (k = row[r].audio /\ k # None)
    BY DEF FilesOf
  <2> QED  BY <2>1 DEF RecordingsInv, FilesAreThere
<1>2. RecordingsInv /\ [Next]_vars =>
        [\A r \in Recordings :
           owner[r] = "kb" /\ LiveRow(r) /\ row[r].source /\ row'[r] # None /\ ~row'[r].source
             => \/ row[r].audio # None
                \/ Expired(r)
                \/ \E p \in Places :
                     place[p] # None /\ place[p].rec = r /\ place[p].pc = "reject"]_row
  BY StepsAreLawful DEF Lawful, SourceHasReason
<1> QED
  BY <1>1, <1>2, InvariantHolds, PTL DEF Spec, FilesOfRows, SourceGoesLast

=============================================================================
