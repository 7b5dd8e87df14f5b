---------------------------- MODULE CodeProject ----------------------------
(***************************************************************************)
(* A code project (code/service.py, code/sandbox.py, code/repositories.py, *)
(* and the assistant of code/assistant.py and code/edit.py as far as it    *)
(* touches the project): its files and versions, the builds that read them *)
(* without a lock, the edits the assistant proposes and the user decides.  *)
(*                                                                         *)
(* Every transaction that changes the project locks its row.  Those that   *)
(* ask one question under the lock are one action.  A build takes a queue  *)
(* of the project and a place of the portal, both in memory.               *)
(***************************************************************************)
EXTENDS Naturals, FiniteSets

CONSTANTS
    Paths,         \* of files, compared without case
    Clashing,      \* pairs of paths of which one is a folder of the other
    Contents,
    Texts,         \* of those the files of this instance may have
    FileIds,       \* reused once neither the project nor the page has them
    Answers,       \* of the assistant
    Builds,        \* builds of this project at one time
    MaxFiles,      \* code.max_files
    MaxSnapshots,  \* code.max_snapshots
    MaxRevision,   \* bound of this instance: changes of the project end there
    None

ASSUME FilesAssumption == MaxFiles \in Nat \ {0}
ASSUME VersionsAssumption == MaxSnapshots \in Nat \ {0}
ASSUME ClashingAssumption == Clashing \subseteq Paths \X Paths
ASSUME TextsAssumption == Texts \subseteq [path : Paths, content : Contents] /\ IsFiniteSet(Texts)
ASSUME BoundAssumption == MaxRevision \in Nat \ {0}

VARIABLES
    project,    \* the revision in its row, or None once it is deleted
    files,      \* its files
    versions,   \* by revision: the snapshots
    archive,    \* of the last build by the button, or None if that gave none
    edit,       \* by answer: what the assistant proposed
    last,       \* the last answer of the dialog, if it has an edit
    seen,       \* the files as the page of the user shows them
    decision,   \* a decision on an edit that holds the row of the project
    assistant,  \* the answer that is being formed
    builds,     \* builds that have asked for a place
    queue       \* HttpCodeSandbox._queues: the lock object of this project, if any

vars == <<project, files, versions, archive, edit, last, seen, decision, assistant,
          builds, queue>>

Stored == <<project, files, versions, archive>>
Dialog == <<edit, last>>
Memory == <<builds, queue>>

Tree == SUBSET Texts
File == [path : Paths, content : Contents, revision : 1..MaxRevision]
Files == [FileIds -> File \union {None}]
Archive == [revision : 1..MaxRevision, files : Tree]
Statuses == {"proposed", "accepted", "rejected", "superseded"}
Edit == [status : Statuses, files : Tree, shown : BOOLEAN]  \* shown: on the page
Decision == [answer : Answers, accept : Tree]
Assistant == [answer : Answers, read : Tree]
Queues == 1..Cardinality(Builds) + 1  \* identities of lock objects
Waiting == {"queue", "place"}
Holding == {"place", "project", "files", "compile"}   \* the queue is taken
Build == [kind : {"button", "cycle"}, pc : {"queue"} \union Holding, queue : Queues,
          revision : 0..MaxRevision, files : Tree]

ASSUME NoneAssumption ==
    /\ None \notin 0..MaxRevision \union Queues \union FileIds \union Answers \union File
                    \union Archive \union Edit \union Decision \union Assistant \union Build
    /\ \A tree \in Tree : tree # None

TypeOK ==
    /\ project \in 1..MaxRevision \union {None}
    /\ files \in Files
    /\ versions \in [1..MaxRevision -> Tree \union {None}]
    /\ archive \in Archive \union {None}
    /\ edit \in [Answers -> Edit \union {None}]
    /\ last \in Answers \union {None}
    /\ seen \in Files
    /\ decision \in Decision \union {None}
    /\ assistant \in Assistant \union {None}
    /\ builds \in [Builds -> Build \union {None}]
    /\ queue \in Queues \union {None}

TreeOf(fs) ==
    {[path |-> fs[i].path, content |-> fs[i].content] : i \in {i \in FileIds : fs[i] # None}}

PathsOf(tree) == {t.path : t \in tree}

Clash(p, q) == <<p, q>> \in Clashing \/ <<q, p>> \in Clashing

\* What a project may look like: one file of a path, no file that is also a folder.
Sound(tree) ==
    /\ Cardinality(tree) <= MaxFiles
    /\ \A s, t \in tree : s # t => s.path # t.path /\ ~Clash(s.path, t.path)

NoVersions == [r \in 1..MaxRevision |-> None]

\* A project with any files and no version yet, the numbers counted from here.
Init ==
    /\ project = 1
    /\ files \in [FileIds -> {None} \union
                     {[path |-> t.path, content |-> t.content, revision |-> 1] : t \in Texts}]
    /\ \A i, j \in FileIds : files[i] # None /\ files[j] # None /\ i # j =>
         files[i].path # files[j].path
    /\ Sound(TreeOf(files))
    /\ versions = NoVersions
    /\ archive = None
    /\ edit = [a \in Answers |-> None] /\ last = None
    /\ seen = files
    /\ decision = None
    /\ assistant = None
    /\ builds = [b \in Builds |-> None]
    /\ queue = None
-----------------------------------------------------------------------------
(* Files and packages, each in a transaction under the row of the project. *)

LockFree == decision = None

CanChange == LockFree /\ project # None /\ project < MaxRevision

Touched == project + 1

Open(e) == e.status = "proposed"

FreshFile(i) == files[i] = None /\ seen[i] = None

\* Mutated form: without a number, as between the attempts of a fix.
NewFileUnnumbered(text) == [path |-> text.path, content |-> text.content, revision |-> 0]

NewFile(text) == [path |-> text.path, content |-> text.content, revision |-> 1]

\* The page is read again, with the edits that wait for a decision.
Look ==
    /\ project # None
    /\ seen' = files
    /\ edit' = [a \in Answers |->
                  IF edit[a] # None THEN [edit[a] EXCEPT !.shown = @ \/ Open(edit[a])] ELSE None]
    /\ <<seen, edit>> # <<seen, edit>>'
    /\ UNCHANGED <<Stored, last, decision, assistant, Memory>>

AddFile(i, text) ==
    /\ CanChange /\ FreshFile(i)
    /\ text.path \notin PathsOf(TreeOf(files))
    /\ Sound(TreeOf(files) \union {text})
    /\ files' = [files EXCEPT ![i] = NewFile(text)]
    /\ project' = Touched
    /\ UNCHANGED <<versions, archive, Dialog, seen, decision, assistant, Memory>>

\* Mutated form: a file gets a new number with another path only.
ChangedSameNumber(file, text) ==
    [path |-> text.path, content |-> text.content,
     revision |-> IF text.path = file.path THEN file.revision ELSE file.revision + 1]

Changed(file, text) ==
    [path |-> text.path, content |-> text.content, revision |-> file.revision + 1]

\* A change of a file or a renaming, with the number the page has or, from another page,
\* with the number of now.
UpdateFile(i, text, here) ==
    /\ CanChange /\ files[i] # None
    /\ here => seen[i] # None /\ seen[i].revision = files[i].revision
    /\ text.path = files[i].path \/ text.content = files[i].content
    /\ \A j \in FileIds \ {i} : files[j] # None =>
         files[j].path # text.path /\ ~Clash(files[j].path, text.path)
    /\ files' = [files EXCEPT ![i] = Changed(@, text)]
    /\ seen' = IF here THEN [seen EXCEPT ![i] = files'[i]] ELSE seen
    /\ project' = Touched
    /\ UNCHANGED <<versions, archive, Dialog, decision, assistant, Memory>>

DeleteFile(i) ==
    /\ CanChange /\ files[i] # None
    /\ files' = [files EXCEPT ![i] = None]
    /\ project' = Touched
    /\ UNCHANGED <<versions, archive, Dialog, seen, decision, assistant, Memory>>

\* Another choice of packages.
Patch ==
    /\ CanChange
    /\ project' = Touched
    /\ UNCHANGED <<files, versions, archive, Dialog, seen, decision, assistant, Memory>>

\* Files, versions, build and the dialog with its edits go with the project.
Delete ==
    /\ LockFree /\ project # None
    /\ project' = None
    /\ files' = [i \in FileIds |-> None]
    /\ versions' = NoVersions
    /\ archive' = None
    /\ edit' = [a \in Answers |-> None] /\ last' = None
    /\ UNCHANGED <<seen, decision, assistant, Memory>>
-----------------------------------------------------------------------------
(* Versions.                                                               *)

\* Of the revisions the newest stay.
Kept(revisions) ==
    {r \in revisions : Cardinality({q \in revisions : q > r}) < MaxSnapshots}

\* A revision that has a version already gets no other.
WithVersion(vs, revision, tree) ==
    LET kept == Kept({r \in 1..MaxRevision : vs[r] # None} \union {revision})
    IN  IF vs[revision] # None THEN vs
        ELSE [r \in 1..MaxRevision |->
                IF r \notin kept THEN None ELSE IF r = revision THEN tree ELSE vs[r]]

\* Mutated form: what is there now is taken for saved, as no edit was accepted.
NotKeptBefore == versions

\* The files as they are, before a restore replaces them.
KeptBefore == WithVersion(versions, project, TreeOf(files))

\* A file that is replaced by other content gets the next number.
Replaced(file, text) ==
    IF file.content = text.content THEN file
    ELSE [file EXCEPT !.content = text.content, !.revision = @ + 1]

\* Files of the version take the place of those with their path, or are new.
Restored(tree, new) ==
    [i \in FileIds |->
       IF files[i] # None
       THEN IF files[i].path \in PathsOf(tree)
            THEN Replaced(files[i], CHOOSE t \in tree : t.path = files[i].path) ELSE None
       ELSE IF \E t \in tree : new[t] = i
            THEN NewFile(CHOOSE t \in tree : new[t] = i) ELSE None]

Restore(r) ==
    /\ CanChange /\ versions[r] # None
    /\ LET tree == versions[r]
           missing == {t \in tree : t.path \notin PathsOf(TreeOf(files))}
       IN  \E new \in [tree -> FileIds \union {None}] :
             /\ \A t \in tree : IF t \in missing THEN new[t] # None /\ FreshFile(new[t])
                                ELSE new[t] = None
             /\ \A s, t \in missing : new[s] = new[t] => s = t
             /\ files' = Restored(tree, new)
             /\ versions' = WithVersion(KeptBefore, project + 1, tree)
    /\ project' = Touched
    /\ UNCHANGED <<archive, Dialog, seen, decision, assistant, Memory>>
-----------------------------------------------------------------------------
(* Edits: what the assistant proposes and the user decides.                *)

\* Texts that an answer may add to a tree or change in it.
Edits(tree) ==
    {e \in SUBSET (Texts \ tree) :
       /\ Cardinality(PathsOf(e)) = Cardinality(e)
       /\ Sound({t \in tree : t.path \notin PathsOf(e)} \union e)}

Applied(tree, e) == {t \in tree : t.path \notin PathsOf(e)} \union e

\* The answer is saved and its edit is to be parsed against the files that are read now.
Propose(a) ==
    /\ project # None /\ assistant = None
    /\ edit[a] = None /\ (decision # None => decision.answer # a)
    /\ assistant' = [answer |-> a, read |-> TreeOf(files)]
    /\ last' = None
    /\ UNCHANGED <<Stored, edit, seen, decision, Memory>>

\* Another answer to the same question: the last one is deleted and its edit with it,
\* decided or not.  The row of the project is not locked.
Regenerate ==
    /\ last # None /\ assistant = None
    /\ edit' = [edit EXCEPT ![last] = None] /\ last' = None
    /\ UNCHANGED <<Stored, seen, decision, assistant, Memory>>

\* Mutated form: what the model changed back stays in the edit.
CorrectedWhole(read, e, next) == {t \in e : t.path \notin PathsOf(next)} \union next

\* An attempt of the fix: the new answer was parsed against the files with the edit applied.
Corrected(read, e, next) == {t \in e : t.path \notin PathsOf(next)} \union (next \ read)

\* The files of an edit no longer matter once it is decided.
Closed(status) == [status |-> status, files |-> {}, shown |-> FALSE]

\* Mutated form: every former edit of the dialog.
SupersededAll(a) ==
    [c \in Answers |-> IF edit[c] # None /\ c # a
                       THEN Closed("superseded") ELSE edit[c]]

\* Former edits that were not decided are no longer offered.
Superseded(a) ==
    [c \in Answers |-> IF edit[c] # None /\ c # a /\ Open(edit[c])
                       THEN Closed("superseded") ELSE edit[c]]

\* Whatever was parsed, or came out of the attempts of a fix (FixGivesAnEdit); an edit of no
\* file has refusals only.  Of a project that is gone the answer is gone too.  The row of
\* the project is not locked.
SaveEdit ==
    /\ assistant # None
    /\ \A b \in Builds : builds[b] # None => builds[b].kind # "cycle"
    /\ IF project = None THEN UNCHANGED Dialog
       ELSE /\ \E e \in Edits(assistant.read) :
                 edit' = [Superseded(assistant.answer) EXCEPT ![assistant.answer] =
                            [status |-> IF e = {} THEN "rejected" ELSE "proposed",
                             files |-> e, shown |-> FALSE]]
            /\ last' = assistant.answer
    /\ assistant' = None
    /\ UNCHANGED <<Stored, seen, decision, Memory>>

\* The row of the project is locked and the edit is read as not decided.  The user accepts
\* all of its files that the page shows, some or none.
Decide(a, accept) ==
    /\ LockFree /\ project # None
    /\ edit[a] # None /\ Open(edit[a]) /\ edit[a].shown
    /\ accept \subseteq edit[a].files
    /\ accept = {} \/ project < MaxRevision
    /\ decision' = [answer |-> a, accept |-> accept]
    /\ UNCHANGED <<Stored, Dialog, seen, assistant, Memory>>

RevisionAt(fs, path) ==
    IF path \in PathsOf(TreeOf(fs))
    THEN fs[CHOOSE i \in FileIds : fs[i] # None /\ fs[i].path = path].revision ELSE 0

\* Mutated form: the path of a new file was looked at when the edit was proposed.
StaleNumber(path) == RevisionAt(files, path) # RevisionAt(seen, path)

\* The numbers the page has are no longer those of the files, or a new path has come to clash.
Stale(path) ==
    \/ RevisionAt(files, path) # RevisionAt(seen, path)
    \/ /\ RevisionAt(seen, path) = 0
       /\ \E i \in FileIds : files[i] # None /\ Clash(files[i].path, path)

Acceptable ==
    /\ \A path \in PathsOf(decision.accept) : ~Stale(path)
    /\ Cardinality(Applied(TreeOf(files), decision.accept)) <= MaxFiles

Refuse ==
    /\ decision # None /\ ~Acceptable
    /\ decision' = None
    /\ UNCHANGED <<Stored, Dialog, seen, assistant, Memory>>

\* An edit that went with its answer meanwhile is not there to be marked.
Decided(status) ==
    [edit EXCEPT ![decision.answer] = IF @ = None THEN None ELSE Closed(status)]

Reject ==
    /\ decision # None /\ decision.accept = {}
    /\ edit' = Decided("rejected")
    /\ decision' = None
    /\ UNCHANGED <<Stored, last, seen, assistant, Memory>>

Accept ==
    /\ decision # None /\ decision.accept # {} /\ Acceptable
    /\ LET added == {t \in decision.accept : t.path \notin PathsOf(TreeOf(files))}
       IN  \E new \in [added -> {i \in FileIds : FreshFile(i)}] :
             /\ \A s, t \in added : new[s] = new[t] => s = t
             /\ files' = [i \in FileIds |->
                  IF \E t \in added : new[t] = i THEN NewFile(CHOOSE t \in added : new[t] = i)
                  ELSE IF files[i] # None /\ files[i].path \in PathsOf(decision.accept)
                       THEN [files[i] EXCEPT !.revision = @ + 1, !.content =
                               (CHOOSE t \in decision.accept : t.path = files[i].path).content]
                  ELSE files[i]]
    /\ edit' = Decided("accepted")
    /\ project' = Touched
    /\ versions' = WithVersion(versions, project + 1, TreeOf(files'))
    /\ seen' = files'
    /\ decision' = None
    /\ UNCHANGED <<archive, last, assistant, Memory>>
-----------------------------------------------------------------------------
(* Builds.                                                                 *)

At(b, pc) == builds[b] # None /\ builds[b].pc = pc

Goes(b, pc) == builds' = [builds EXCEPT ![b].pc = pc]

\* The lock object of the project, or a new one that nobody holds on to.
Enter(b, kind) ==
    /\ builds[b] = None
    /\ \E q \in Queues :
         /\ IF queue = None THEN \A c \in Builds : builds[c] # None => builds[c].queue # q
            ELSE q = queue
         /\ builds' = [builds EXCEPT ![b] =
              [kind |-> kind, pc |-> "queue", queue |-> q,
               revision |-> 0, files |-> {}]]
         /\ queue' = q

\* The button, once at a time.
Press(b) ==
    /\ project # None
    /\ \A c \in Builds : builds[c] # None => builds[c].kind # "button"
    /\ Enter(b, "button")
    /\ UNCHANGED <<Stored, Dialog, seen, decision, assistant>>

\* A build of the assistant's edit while it fixes one: it gets its files from the assistant,
\* and its result is stored nowhere.
Check(b) ==
    /\ assistant # None
    /\ \A c \in Builds : builds[c] # None => builds[c].kind # "cycle"
    /\ Enter(b, "cycle")
    /\ UNCHANGED <<Stored, Dialog, seen, decision, assistant>>

\* Mutated form: the object is dropped as soon as nobody holds it.
QueueUnheld(left) ==
    IF \E c \in Builds \ left : builds[c] # None /\ builds[c].pc \in Holding
    THEN queue ELSE None

\* The object is dropped with the last build that asked for it.
QueueWithout(left) ==
    IF \E c \in Builds \ left : builds[c] # None THEN queue ELSE None

Leave(left) ==
    /\ builds' = [b \in Builds |-> IF b \in left THEN None ELSE builds[b]]
    /\ queue' = QueueWithout(left)

TakeQueue(b) ==
    /\ At(b, "queue")
    /\ \A c \in Builds \ {b} : builds[c] # None /\ builds[c].queue = builds[b].queue =>
         builds[c].pc \notin Holding
    /\ Goes(b, "place")
    /\ UNCHANGED <<Stored, Dialog, seen, decision, assistant, queue>>

\* Other projects give the place back, or not before the deadline.
TakePlace(b) ==
    /\ At(b, "place")
    /\ Goes(b, IF builds[b].kind = "button" THEN "project" ELSE "compile")
    /\ UNCHANGED <<Stored, Dialog, seen, decision, assistant, queue>>

\* wait_seconds are over, in the queue or before a place.
GiveUp(b) ==
    /\ \E pc \in Waiting : At(b, pc)
    /\ Leave({b})
    /\ UNCHANGED <<Stored, Dialog, seen, decision, assistant>>

\* Two questions of one transaction that holds nothing.
ReadProject(b) ==
    /\ At(b, "project")
    /\ IF project = None THEN Leave({b})
       ELSE /\ builds' = [builds EXCEPT ![b].pc = "files", ![b].revision = project]
            /\ UNCHANGED queue
    /\ UNCHANGED <<Stored, Dialog, seen, decision, assistant>>

ReadFiles(b) ==
    /\ At(b, "files")
    /\ builds' = [builds EXCEPT ![b].pc = "compile", ![b].files = TreeOf(files)]
    /\ UNCHANGED <<Stored, Dialog, seen, decision, assistant, queue>>

\* The answer to the assistant, or none; a build by the button without an answer stores
\* nothing.
Compiled(b) ==
    /\ At(b, "compile") /\ Leave({b})
    /\ UNCHANGED <<Stored, Dialog, seen, decision, assistant>>

\* Mutated form: with the revision the project has now.
ResultNow(b) ==
    [revision |-> project, files |-> builds[b].files]

Result(b) ==
    [revision |-> builds[b].revision, files |-> builds[b].files]

\* Mutated form: a version of what is there now.
VersionNow(b) == WithVersion(versions, project, builds[b].files)

VersionOf(b) == WithVersion(versions, builds[b].revision, builds[b].files)

\* The answer to the button, the time limit among the failures, is stored under the row of
\* the project if it is still there.
Save(b) ==
    /\ At(b, "compile") /\ builds[b].kind = "button" /\ LockFree
    /\ IF project = None THEN UNCHANGED <<archive, versions>>
       ELSE \E outcome \in {"clean", "findings", "failed"} :
              /\ archive' = IF outcome = "clean" THEN Result(b) ELSE None
              /\ versions' = IF outcome # "failed" THEN VersionOf(b) ELSE versions
    /\ Leave({b})
    /\ UNCHANGED <<project, files, Dialog, seen, decision, assistant>>

\* The answer is stopped or its session is gone: its build is cancelled.
Interrupt ==
    /\ assistant # None
    /\ assistant' = None
    /\ Leave({b \in Builds : builds[b] # None /\ builds[b].kind = "cycle"})
    /\ UNCHANGED <<Stored, Dialog, seen, decision>>

\* The process ends: an open transaction is rolled back, memory is lost.
Restart ==
    /\ decision # None \/ assistant # None \/ queue # None
    /\ decision' = None
    /\ assistant' = None
    /\ Leave(Builds)
    /\ UNCHANGED <<Stored, Dialog, seen>>
-----------------------------------------------------------------------------
Builder(b) ==
    \/ Press(b) \/ Check(b) \/ TakeQueue(b) \/ TakePlace(b) \/ GiveUp(b)
    \/ ReadProject(b) \/ ReadFiles(b) \/ Compiled(b) \/ Save(b)

User ==
    \/ Look \/ Patch \/ Delete \/ Refuse \/ Reject \/ Accept
    \/ \E i \in FileIds, text \in Texts : AddFile(i, text)
    \/ \E i \in FileIds, text \in Texts, here \in BOOLEAN : UpdateFile(i, text, here)
    \/ \E i \in FileIds : DeleteFile(i)
    \/ \E r \in 1..MaxRevision : Restore(r)
    \/ \E a \in Answers, accept \in Tree : Decide(a, accept)

Assists ==
    \/ \E a \in Answers : Propose(a)
    \/ Regenerate \/ SaveEdit \/ Interrupt

Next ==
    \/ \E b \in Builds : Builder(b)
    \/ User \/ Assists \/ Restart

Spec == Init /\ [][Next]_vars
-----------------------------------------------------------------------------
(* Properties.                                                             *)

\* Whatever the order of changes, restores and accepted edits, the project can be built: its
\* files are within the limit, no two have one path and no file is a folder of another.  A
\* proposal and a decision check this at different times and against different files.
FilesFit == project # None => Sound(TreeOf(files))

\* However often the assistant corrects its edit, what comes out is an edit of the files it
\* read at first, within their limits: it is shown against those and not against the
\* attempts between.
FixGivesAnEdit ==
    assistant # None =>
        \A e \in Edits(assistant.read) : \A next \in Edits(Applied(assistant.read, e)) :
            Corrected(assistant.read, e, next) \in Edits(assistant.read)

\* Neither a decision nor the attempts of a fix lead to files that cannot be built.
FilesAndEditsFit == FilesFit /\ FixGivesAnEdit

\* The version with the number the project has now holds the files it has now: nothing is
\* recorded under the number by a build that read other files, nor left there by a restore.
VersionIsCurrent ==
    project # None /\ versions[project] # None =>
        versions[project] = TreeOf(files)

\* The archive that `archive` would give out was built from the files of now.
\* The build read them in two questions without a lock and was saved after any changes.
ArchiveIsCurrent ==
    /\ project # None /\ archive # None /\ archive.revision = project
    => archive.files = TreeOf(files)

\* The builds of a project, of the button and of the assistant, run one after another.
OneBuildAtATime ==
    Cardinality({b \in Builds : builds[b] # None /\ builds[b].pc \in Holding}) <= 1

\* Builds are of one moment of the project: they take turns, and what is kept of the last
\* one under the number of now is of the files of now.
BuildsAreOrdered == OneBuildAtATime /\ VersionIsCurrent /\ ArchiveIsCurrent

\* A restore can itself be undone: the files it replaces are among the versions after it.
\* This takes two kept versions; where the settings allow one, the restored files take the
\* place of those just kept (docs/portal-api.md promises them without this condition).
RestoreLosesNothing ==
    [][\A r \in 1..MaxRevision : Restore(r) /\ MaxSnapshots > 1 =>
         \E q \in 1..MaxRevision : versions'[q] = TreeOf(files)]_vars

\* What the user decided on an edit stays, whatever the assistant proposes meanwhile, until
\* the project is deleted; only the last answer may go, for another one to its question, and
\* its edit goes with it.
DecisionStays ==
    [][\A a \in Answers :
         edit[a] # None /\ edit[a].status \in {"accepted", "rejected"} /\ project' # None =>
             edit'[a] = edit[a] \/ (a = last /\ edit'[a] = None /\ last' = None)]_vars

\* The page shows this file with the content it has.
Shown(i) == seen[i] # None /\ seen[i].content = files[i].content

\* The page shows another file under the path of this one.
ShownAnother(i) ==
    \E j \in FileIds \ {i} : seen[j] # None /\ seen[j].path = files[i].path

\* The user never overwrites a content the page did not show, by a change of the file or by
\* accepting an edit, whoever changed or restored it since; an edit is accepted by path and
\* number, which another file may have taken (AcceptedIsSeen).
UnseenIsKept ==
    [][\A i \in FileIds : files[i] # None =>
         /\ (\E text \in Texts : UpdateFile(i, text, TRUE)) => Shown(i)
         /\ Accept /\ files'[i] # files[i] => Shown(i) \/ ShownAnother(i)]_vars

\* An accepted edit overwrites what the user saw.
AcceptedIsSeen ==
    [][Accept => \A i \in FileIds :
         files[i] # None /\ files'[i] # files[i] => Shown(i)]_vars

\* What was there is not lost: files to a restore, decisions to a new answer, changes to a
\* page that did not show them.
PastIsKept == RestoreLosesNothing /\ DecisionStays /\ UnseenIsKept

=============================================================================
