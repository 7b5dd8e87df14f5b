------------------------------ MODULE KbIndex ------------------------------
(***************************************************************************)
(* The index of one document: the rows of kb_fragments, which decide what   *)
(* is found, and the points of Qdrant, which take no part in transactions.  *)
(* Around them run the index and reprocess jobs (kb/indexing.py), the       *)
(* explanations of fragments (kb/explaining.py), the erasure, the change of *)
(* tags in the API and a search (kb/retrieval.py).                          *)
(*                                                                          *)
(* A transaction that holds the row of the document while it calls Qdrant   *)
(* is several steps here with lock taken; every other one is a single step. *)
(* A call of Qdrant that fails after it took effect is the call followed by *)
(* the failure of its caller.  The documents are independent of each other. *)
(***************************************************************************)
EXTENDS FiniteSets, Integers

CONSTANTS
    Fragments,       \* uuid4 of a fragment and of its point
    IndexSize,       \* the number of fragments of an index
    BatchSize,       \* kb.context.batch_size
    Tags,            \* the values the list of tags may take
    AnyTag,          \* a search that names no tags
    NoPoint,         \* no point under this identifier
    Places,          \* kb.worker.concurrency
    ContextEnabled   \* kb.context.enabled

ASSUME SizeAssumption == {IndexSize, BatchSize, Places} \subseteq Nat \ {0}
ASSUME TagsAssumption == Tags # {} /\ AnyTag \notin Tags
ASSUME SwitchAssumption == ContextEnabled \in BOOLEAN

VARIABLES
    doc,        \* kb_documents: status, deleted_at, tags
    rows,       \* kb_fragments: the committed fragments
    explained,  \* those with a context
    job,        \* the index or reprocess job in kb_jobs
    context,    \* there is a context job in kb_jobs
    points,     \* Qdrant
    lock,       \* who holds the row of the document
    indexer,    \* the index or reprocess task of the worker
    writer,     \* its context task
    eraser,     \* its delete task
    tagger,     \* KbService.set_tags
    search,     \* KnowledgeRetriever._search between its three reads
    givenUp     \* history: the cleaning, the explanations, the change of tags given up last

vars == <<doc, rows, explained, job, context, points, lock,
          indexer, writer, eraser, tagger, search, givenUp>>

-----------------------------------------------------------------------------
Point == [pending : BOOLEAN, tags : Tags \union {AnyTag}, explained : BOOLEAN]

ASSUME PointAssumption == NoPoint \notin Point

IndexerSteps == {"idle", "reading", "built", "pruning", "staging", "locked",
                 "tagged", "published", "committed", "tidying", "failed", "cleaning",
                 "returning"}

TypeOK ==
    /\ doc \in [status : {"queued", "ready", "error", "gone"}, deleted : BOOLEAN, tags : Tags]
    /\ explained \subseteq rows /\ rows \subseteq Fragments
    /\ job \in {"none", "index", "reprocess"}
    /\ context \in BOOLEAN
    /\ points \in [Fragments -> Point \union {NoPoint}]
    /\ lock \in {"free", "indexer", "writer", "eraser", "tagger"}
    /\ indexer \in [pc : IndexerSteps, kind : {"index", "reprocess"}, mine : BOOLEAN,
                    new : SUBSET Fragments, told : SUBSET Fragments, keep : SUBSET Fragments]
    /\ writer \in [pc : {"idle", "explaining", "saving", "saved"}, mine : BOOLEAN,
                   batch : SUBSET Fragments, told : SUBSET Fragments]
    /\ eraser \in {"idle", "erasing", "erased"}
    /\ tagger \in [pc : {"idle", "tagging", "tagged"}, tags : Tags]
    /\ search \in [pc : {"idle", "asked", "found"}, hits : SUBSET Fragments]
    /\ givenUp \subseteq {"cleaning", "context", "tags"}

Live == doc.status # "gone" /\ ~doc.deleted
Here(f) == points[f] # NoPoint
Active(f) == Here(f) /\ ~points[f].pending

(* What the database lets through to a search. *)
Open == IF Live /\ doc.status = "ready" THEN rows ELSE {}

TasksBusy ==
    (IF indexer.pc = "idle" THEN 0 ELSE 1)
      + (IF writer.pc = "idle" THEN 0 ELSE 1)
      + (IF eraser = "idle" THEN 0 ELSE 1)

PlaceFree == TasksBusy < Places

(* uuid4: an identifier nothing refers to. *)
Unused == {f \in Fragments :
    /\ ~Here(f)
    /\ f \notin rows \union writer.batch \union search.hits}

Idle == [pc |-> "idle", kind |-> "index", mine |-> FALSE, new |-> {}, told |-> {}, keep |-> {}]
NoPortion == [pc |-> "idle", mine |-> FALSE, batch |-> {}, told |-> {}]
NoSearch == [pc |-> "idle", hits |-> {}]

Released(who) == IF lock = who THEN "free" ELSE lock

-----------------------------------------------------------------------------
(* Requests of users and commands of the operator: one transaction each. *)

(* KbService.delete *)
Delete ==
    /\ lock = "free" /\ Live
    /\ doc' = [doc EXCEPT !.deleted = TRUE]
    /\ job' = "none" /\ context' = FALSE
    /\ indexer' = [indexer EXCEPT !.mine = FALSE]
    /\ writer' = [writer EXCEPT !.mine = FALSE]
    /\ UNCHANGED <<rows, explained, points, lock, eraser, tagger, search, givenUp>>

(* Reindexer.run: the index job keeps its identity, the others are removed. *)
Reindex ==
    /\ lock = "free" /\ Live
    /\ doc' = [doc EXCEPT !.status = "queued"]
    /\ job' = "index" /\ context' = FALSE
    /\ indexer' = [indexer EXCEPT !.mine = @ /\ job = "index"]
    /\ writer' = [writer EXCEPT !.mine = FALSE]
    /\ givenUp' = givenUp \ {"context"}
    /\ UNCHANGED <<rows, explained, points, lock, eraser, tagger, search>>

(* Reprocessor.start, KbService.retry of a ready document. *)
RequestReprocess ==
    /\ lock = "free" /\ Live /\ doc.status = "ready" /\ job = "none"
    /\ job' = "reprocess"
    /\ UNCHANGED <<doc, rows, explained, context, points, lock,
                   indexer, writer, eraser, tagger, search, givenUp>>

-----------------------------------------------------------------------------
(* The index and reprocess jobs. *)

Stored == <<doc, rows, explained, job, context>>
Others == <<writer, eraser, tagger, search>>

(* Indexer._start, the beginning of reprocess: a document that is not ready *)
(* is left to its index job.                                                *)
Begin ==
    /\ indexer.pc = "idle" /\ PlaceFree
    /\ job # "none" /\ lock = "free"
    /\ IF job = "reprocess" /\ doc.status # "ready"
       THEN job' = "none" /\ UNCHANGED indexer
       ELSE /\ indexer' = [Idle EXCEPT !.pc = "reading", !.kind = job, !.mine = TRUE]
            /\ UNCHANGED job
    /\ UNCHANGED <<doc, rows, explained, context, points, lock, Others, givenUp>>

(* _build up to the embeddings: fragments with new identifiers; a fragment  *)
(* whose section and text did not change takes over the explanation.        *)
Build ==
    /\ indexer.pc = "reading"
    /\ \E new \in SUBSET Unused :
        /\ Cardinality(new) = IndexSize
        /\ \E told \in SUBSET new :
            /\ told # {} => ContextEnabled /\ explained # {}
            /\ indexer' = [indexer EXCEPT !.pc = "built", !.new = new, !.told = told]
    /\ UNCHANGED <<Stored, points, lock, Others, givenUp>>

(* Mutated form: the identifiers once read serve the whole attempt. *)
ReadCurrentOnce ==
    /\ indexer.pc \in {"built", "failed", "committed"}
    /\ indexer' = [indexer EXCEPT !.keep = IF indexer.pc = "committed" THEN @ ELSE rows,
                     !.pc = CASE @ = "built" -> "pruning"
                              [] @ = "failed" -> "cleaning"
                              [] @ = "committed" -> "tidying"]
    /\ UNCHANGED <<Stored, points, lock, Others, givenUp>>

(* _prune, its transaction: before staging, after a failure, after the      *)
(* replacement.                                                             *)
ReadCurrent ==
    /\ indexer.pc \in {"built", "failed", "committed"}
    /\ indexer' = [indexer EXCEPT !.keep = rows,
                     !.pc = CASE @ = "built" -> "pruning"
                              [] @ = "failed" -> "cleaning"
                              [] @ = "committed" -> "tidying"]
    /\ UNCHANGED <<Stored, points, lock, Others, givenUp>>

(* Mutated form: the cleaning removes the stock and nothing else. *)
PrunedPending(keep) ==
    [f \in Fragments |-> IF Here(f) /\ points[f].pending THEN NoPoint ELSE points[f]]

Pruned(keep) == [f \in Fragments |-> IF f \in keep THEN points[f] ELSE NoPoint]

AfterPrune ==
    CASE indexer.pc = "pruning" -> [indexer EXCEPT !.pc = "staging"]
      [] indexer.pc \in {"failed", "cleaning"} -> [indexer EXCEPT !.pc = "returning"]
      [] indexer.pc \in {"committed", "tidying"} -> Idle

(* prune_document *)
Prune ==
    /\ indexer.pc \in {"pruning", "cleaning", "tidying"}
    /\ points' = Pruned(indexer.keep)
    /\ indexer' = AfterPrune
    /\ givenUp' = givenUp \ {"cleaning"}
    /\ UNCHANGED <<Stored, lock, Others>>

(* The cleaning that ends an attempt is given up after its retries. *)
PruneFails ==
    /\ indexer.pc \in {"failed", "cleaning", "committed", "tidying"}
    /\ indexer' = AfterPrune
    /\ givenUp' = givenUp \union {"cleaning"}
    /\ UNCHANGED <<Stored, points, lock, Others>>

(* Mutated form: the embedding is computed without the explanation. *)
StageUntold(f) ==
    /\ indexer.pc = "staging"
    /\ f \in indexer.new /\ ~Here(f)
    /\ points' = [points EXCEPT ![f] =
                    [pending |-> TRUE, tags |-> AnyTag, explained |-> FALSE]]
    /\ UNCHANGED <<Stored, lock, indexer, Others, givenUp>>

(* stage_document, one portion of its points. *)
Stage(f) ==
    /\ indexer.pc = "staging"
    /\ f \in indexer.new /\ ~Here(f)
    /\ points' = [points EXCEPT ![f] =
                    [pending |-> TRUE, tags |-> AnyTag, explained |-> f \in indexer.told]]
    /\ UNCHANGED <<Stored, lock, indexer, Others, givenUp>>

Staged == \A f \in indexer.new : Here(f)

(* Mutated form: the job is not looked up. *)
EnterFinishUnasked ==
    /\ indexer.pc = "staging" /\ Staged /\ lock = "free"
    /\ IF Live
       THEN lock' = "indexer" /\ indexer' = [indexer EXCEPT !.pc = "locked"]
       ELSE lock' = lock /\ indexer' = [indexer EXCEPT !.pc = "failed"]
    /\ UNCHANGED <<Stored, points, Others, givenUp>>

(* The beginning of _finish: the document or the job may be gone. *)
EnterFinish ==
    /\ indexer.pc = "staging" /\ Staged /\ lock = "free"
    /\ IF Live /\ indexer.mine
       THEN lock' = "indexer" /\ indexer' = [indexer EXCEPT !.pc = "locked"]
       ELSE lock' = lock /\ indexer' = [indexer EXCEPT !.pc = "failed"]
    /\ UNCHANGED <<Stored, points, Others, givenUp>>

(* publish_document, its first call: the tags of the database. *)
PublishTags ==
    /\ indexer.pc = "locked"
    /\ points' = [f \in Fragments |->
                     IF Here(f) /\ points[f].pending
                     THEN [points[f] EXCEPT !.tags = doc.tags] ELSE points[f]]
    /\ indexer' = [indexer EXCEPT !.pc = "tagged"]
    /\ UNCHANGED <<Stored, lock, Others, givenUp>>

(* Mutated form: the second call reaches one portion of the stock only. *)
PublishPortion ==
    /\ indexer.pc = "tagged"
    /\ \E f \in indexer.new : Here(f) /\ points' = [points EXCEPT ![f].pending = FALSE]
    /\ indexer' = [indexer EXCEPT !.pc = "published"]
    /\ UNCHANGED <<Stored, lock, Others, givenUp>>

(* Its second call. *)
PublishClear ==
    /\ indexer.pc = "tagged"
    /\ points' = [f \in Fragments |->
                     IF Here(f) THEN [points[f] EXCEPT !.pending = FALSE] ELSE NoPoint]
    /\ indexer' = [indexer EXCEPT !.pc = "published"]
    /\ UNCHANGED <<Stored, lock, Others, givenUp>>

(* Mutated form: the explanations of the former fragments are kept. *)
CommitKeepingExplained ==
    /\ indexer.pc = "published"
    /\ rows' = indexer.new /\ explained' = explained \union indexer.told
    /\ doc' = IF indexer.kind = "index" THEN [doc EXCEPT !.status = "ready"] ELSE doc
    /\ context' = (context \/ ContextEnabled)
    /\ job' = "none"
    /\ lock' = "free"
    /\ indexer' = [indexer EXCEPT !.pc = "committed", !.mine = FALSE]
    /\ givenUp' = givenUp \ {"context", "tags"}
    /\ UNCHANGED <<points, Others>>

(* The commit of _finish: the moment the index is replaced. *)
Commit ==
    /\ indexer.pc = "published"
    /\ rows' = indexer.new /\ explained' = indexer.told
    /\ doc' = IF indexer.kind = "index" THEN [doc EXCEPT !.status = "ready"] ELSE doc
    /\ context' = (context \/ ContextEnabled)
    /\ job' = "none"
    /\ lock' = "free"
    /\ \E reply \in {"committed", "failed"} :
        indexer' = [indexer EXCEPT !.pc = reply, !.mine = FALSE]
    /\ givenUp' = givenUp \ {"context", "tags"}
    /\ UNCHANGED <<points, Others>>

(* Any step fails, or the task is cancelled: the transaction is rolled back, *)
(* the points keep what Qdrant was told.                                     *)
Fail ==
    /\ indexer.pc \in {"reading", "built", "pruning", "staging", "locked", "tagged", "published"}
    /\ indexer' = [indexer EXCEPT !.pc = "failed"]
    /\ lock' = Released("indexer")
    /\ UNCHANGED <<Stored, points, Others, givenUp>>

(* Worker._retry_later (it does not look whether the job still exists),     *)
(* _give_up, _finish.  The status of a deleted document is not followed.    *)
Return ==
    /\ indexer.pc = "returning" /\ lock = "free"
    /\ \/ /\ doc' = IF indexer.kind = "index" /\ Live THEN [doc EXCEPT !.status = "queued"] ELSE doc
          /\ UNCHANGED job
       \/ /\ doc' = IF indexer.kind = "index" /\ Live THEN [doc EXCEPT !.status = "error"] ELSE doc
          /\ job' = IF indexer.mine THEN "none" ELSE job
    /\ indexer' = Idle
    /\ UNCHANGED <<rows, explained, context, points, lock, writer, eraser, tagger, search, givenUp>>

-----------------------------------------------------------------------------
(* The context job: explanations of a portion of fragments. *)

Unexplained == rows \ explained

(* The first transaction of Contextualizer.run: nothing left, and the job is *)
(* removed under the lock under which a replacement adds one.                *)
TakePortion ==
    /\ writer.pc = "idle" /\ PlaceFree
    /\ context /\ lock = "free"
    /\ IF Unexplained = {} \/ ~ContextEnabled
       THEN context' = FALSE /\ UNCHANGED writer
       ELSE /\ \E batch \in SUBSET Unexplained :
                /\ batch # {} /\ Cardinality(batch) <= BatchSize
                /\ Cardinality(batch) < BatchSize => batch = Unexplained
                /\ writer' = [NoPortion EXCEPT !.pc = "explaining", !.mine = TRUE, !.batch = batch]
            /\ UNCHANGED context
    /\ UNCHANGED <<doc, rows, explained, job, points, lock, indexer, eraser, tagger, search,
                   givenUp>>

(* _save: the lock, the explanations of the fragments that still exist. The *)
(* model may have explained a part of the portion only.                     *)
SavePortion ==
    /\ writer.pc = "explaining" /\ lock = "free"
    /\ IF Live
       THEN /\ \E told \in SUBSET writer.batch :
                /\ told # {}
                /\ writer' = [writer EXCEPT !.pc = "saving", !.told = told \intersect rows]
            /\ lock' = "writer"
       ELSE writer' = NoPortion /\ UNCHANGED lock
    /\ UNCHANGED <<Stored, points, indexer, eraser, tagger, search, givenUp>>

(* Index.update_vectors *)
UpdateVectors ==
    /\ writer.pc = "saving"
    /\ points' = [f \in Fragments |->
                     IF f \in writer.told /\ Here(f)
                     THEN [points[f] EXCEPT !.explained = TRUE] ELSE points[f]]
    /\ writer' = [writer EXCEPT !.pc = "saved"]
    /\ UNCHANGED <<Stored, lock, indexer, eraser, tagger, search, givenUp>>

(* Mutated form: a portion that is not full was the last one, and the job is *)
(* removed with it.                                                          *)
CommitContextsAsLast ==
    /\ writer.pc = "saved"
    /\ explained' = explained \union writer.told
    /\ context' = (context /\ Cardinality(writer.batch) = BatchSize)
    /\ lock' = "free"
    /\ writer' = NoPortion
    /\ UNCHANGED <<doc, rows, job, points, indexer, eraser, tagger, search, givenUp>>

CommitContexts ==
    /\ writer.pc = "saved"
    /\ explained' = explained \union writer.told
    /\ lock' = "free"
    /\ writer' = NoPortion
    /\ UNCHANGED <<doc, rows, job, context, points, indexer, eraser, tagger, search, givenUp>>

(* The portion is dropped; the job waits for another attempt or is given up. *)
WriterFails ==
    /\ writer.pc # "idle"
    /\ lock \in {"free", "writer"}
    /\ \/ UNCHANGED <<context, givenUp>>
       \/ /\ writer.mine
          /\ context' = FALSE
          /\ givenUp' = givenUp \union {"context"}
    /\ lock' = Released("writer")
    /\ writer' = NoPortion
    /\ UNCHANGED <<doc, rows, explained, job, points, indexer, eraser, tagger, search>>
-----------------------------------------------------------------------------
(* Indexer.erase: one transaction, repeated until it succeeds. *)

EraseLock ==
    /\ eraser = "idle" /\ PlaceFree
    /\ doc.deleted /\ doc.status # "gone" /\ lock = "free"
    /\ eraser' = "erasing" /\ lock' = "eraser"
    /\ UNCHANGED <<Stored, points, indexer, writer, tagger, search, givenUp>>

(* delete_document *)
ErasePoints ==
    /\ eraser = "erasing"
    /\ points' = [f \in Fragments |-> NoPoint]
    /\ eraser' = "erased"
    /\ UNCHANGED <<Stored, lock, indexer, writer, tagger, search, givenUp>>

EraseCommit ==
    /\ eraser = "erased"
    /\ doc' = [doc EXCEPT !.status = "gone"]
    /\ rows' = {} /\ explained' = {}
    /\ eraser' = "idle" /\ lock' = "free"
    /\ UNCHANGED <<job, context, points, indexer, writer, tagger, search, givenUp>>

EraserFails ==
    /\ eraser # "idle"
    /\ eraser' = "idle" /\ lock' = "free"
    /\ UNCHANGED <<Stored, points, indexer, writer, tagger, search, givenUp>>

-----------------------------------------------------------------------------
(* KbService.set_tags: one transaction. *)

(* Mutated form: the row of the document is not locked. *)
TagLockless ==
    /\ tagger.pc = "idle" /\ Live
    /\ \E tags \in Tags \ {doc.tags} : tagger' = [pc |-> "tagging", tags |-> tags]
    /\ UNCHANGED <<lock, Stored, points, indexer, writer, eraser, search, givenUp>>

TagLock ==
    /\ tagger.pc = "idle" /\ lock = "free" /\ Live
    /\ \E tags \in Tags \ {doc.tags} : tagger' = [pc |-> "tagging", tags |-> tags]
    /\ lock' = "tagger"
    /\ UNCHANGED <<Stored, points, indexer, writer, eraser, search, givenUp>>

(* VectorIndex.set_tags: every point of the document, the stock included. *)
TagPoints ==
    /\ tagger.pc = "tagging"
    /\ points' = [f \in Fragments |->
                     IF Here(f) THEN [points[f] EXCEPT !.tags = tagger.tags] ELSE NoPoint]
    /\ tagger' = [tagger EXCEPT !.pc = "tagged"]
    /\ UNCHANGED <<Stored, lock, indexer, writer, eraser, search, givenUp>>

TagCommit ==
    /\ tagger.pc = "tagged"
    /\ doc' = [doc EXCEPT !.tags = tagger.tags]
    /\ tagger' = [tagger EXCEPT !.pc = "idle"]
    /\ lock' = Released("tagger")
    /\ givenUp' = givenUp \ {"tags"}
    /\ UNCHANGED <<rows, explained, job, context, points, indexer, writer, eraser, search>>

(* The change is refused: Qdrant or the database did not answer. *)
TagFails ==
    /\ \/ tagger.pc = "tagging" /\ UNCHANGED givenUp
       \/ /\ tagger.pc = "tagged"
          /\ givenUp' = givenUp \union {"tags"}
    /\ tagger' = [tagger EXCEPT !.pc = "idle"]
    /\ lock' = Released("tagger")
    /\ UNCHANGED <<Stored, points, indexer, writer, eraser, search>>

-----------------------------------------------------------------------------
(* KnowledgeRetriever._search: Qdrant is asked first, the database second,  *)
(* and a third time in a transaction of its own.                            *)

Query ==
    /\ search.pc = "idle"
    /\ search' = [pc |-> "asked", hits |-> {f \in Fragments : Active(f)}]
    /\ UNCHANGED <<Stored, points, lock, indexer, writer, eraser, tagger, givenUp>>

(* found_fragments: the hits that are fragments of an open document. *)
Answer == search.hits \intersect Open

(* The sources are those of them that are ranked first and fit; without a   *)
(* source the search ends.                                                  *)
Check ==
    /\ search.pc = "asked"
    /\ \/ search' = NoSearch
       \/ \E sources \in SUBSET Answer \ {{}} : search' = [pc |-> "found", hits |-> sources]
    /\ UNCHANGED <<Stored, points, lock, indexer, writer, eraser, tagger, givenUp>>

(* neighbor_fragments: they are asked for by their numbers in the document, *)
(* so they are fragments of the index the document has by now (Open).       *)
ReadNeighbors ==
    /\ search.pc = "found"
    /\ search' = NoSearch
    /\ UNCHANGED <<Stored, points, lock, indexer, writer, eraser, tagger, givenUp>>

-----------------------------------------------------------------------------
(* The worker dies: its transactions are rolled back, its tasks are gone,   *)
(* its jobs are claimed again.                                              *)
Crash ==
    /\ <<indexer, writer, eraser>> # <<Idle, NoPortion, "idle">>
    /\ indexer' = Idle /\ writer' = NoPortion /\ eraser' = "idle"
    /\ lock' = IF lock = "tagger" THEN lock ELSE "free"
    /\ givenUp' = IF indexer = Idle THEN givenUp ELSE givenUp \union {"cleaning"}
    /\ UNCHANGED <<Stored, points, tagger, search>>

(* A document has been added; the index job waits. *)
Init ==
    /\ \E tags \in Tags :
        /\ doc = [status |-> "queued", deleted |-> FALSE, tags |-> tags]
        /\ tagger = [pc |-> "idle", tags |-> tags]
    /\ rows = {} /\ explained = {}
    /\ job = "index" /\ context = FALSE
    /\ points = [f \in Fragments |-> NoPoint]
    /\ lock = "free"
    /\ indexer = Idle /\ writer = NoPortion /\ eraser = "idle"
    /\ search = NoSearch
    /\ givenUp = {}

RequestNext == Delete \/ Reindex \/ RequestReprocess

IndexerNext ==
    \/ Begin \/ Build \/ ReadCurrent \/ Prune \/ PruneFails
    \/ \E f \in Fragments : Stage(f)
    \/ EnterFinish \/ PublishTags \/ PublishClear \/ Commit
    \/ Fail \/ Return

WriterNext == TakePortion \/ SavePortion \/ UpdateVectors \/ CommitContexts \/ WriterFails

EraserNext == EraseLock \/ ErasePoints \/ EraseCommit \/ EraserFails

TaggerNext == TagLock \/ TagPoints \/ TagCommit \/ TagFails

SearchNext == Query \/ Check \/ ReadNeighbors

Next ==
    \/ RequestNext \/ IndexerNext \/ WriterNext \/ EraserNext
    \/ TaggerNext \/ SearchNext \/ Crash

Spec == Init /\ [][Next]_vars

-----------------------------------------------------------------------------
(* Every committed fragment of a document that is not deleted has a point   *)
(* the search sees, whatever attempt is staging, publishing, cleaning up or *)
(* has failed: there is no window in which the index in force is not in     *)
(* Qdrant (Indexer._build, _finish, prune).                                 *)
RowsAreActive == Live => \A f \in rows : Active(f)

(* A search that asks Qdrant and then the database finds the whole of one   *)
(* index or nothing, whatever happens between its questions: never a part   *)
(* of a replacement, never fragments of two.  When it asks for neighbours,  *)
(* its sources are all of the index they come from or, after a replacement, *)
(* none is (KnowledgeRetriever._search).                                    *)
SearchGivesOneIndex ==
    /\ search.pc = "asked" => Answer \in {{}, Open}
    /\ search.pc = "found" => Answer \in {{}, search.hits}

(* The index in force is found, and found as a whole.                       *)
IndexIsFound == RowsAreActive /\ SearchGivesOneIndex

(* There is no moment at which an open document is not found: what a search *)
(* could find before a step it finds after it, in one index or the other    *)
(* (docs/portal-api.md on the order of a replacement).  The code breaks it: *)
(* a search that asked Qdrant before the publication knows the former       *)
(* fragments only, and the database the new ones.                           *)
FoundThroughout ==
    [][search.pc = "asked" /\ search' = search /\ Answer # {} /\ Open' # {} => Answer' # {}]_vars

(* An explanation is in the database only if the vector of its fragment was *)
(* computed with it (Contextualizer._save, stage_document).                 *)
VectorsFollowContexts == Live => \A f \in explained : Here(f) /\ points[f].explained

(* While a ready document has fragments without an explanation, a context   *)
(* job is there to write them, also when the fragments were replaced while  *)
(* a portion of the former ones was being explained (add_if_absent in       *)
(* _finish against the removal in Contextualizer.run).                      *)
UnexplainedHaveJob ==
    Live /\ doc.status = "ready" /\ ContextEnabled /\ Unexplained # {} =>
        context \/ "context" \in givenUp

(* Explanations, vectors and the job that writes them stay together through *)
(* failures and replacements; once a job gave up its document waits for the *)
(* next command.                                                            *)
ContextsAreKept == VectorsFollowContexts /\ UnexplainedHaveJob

(* Outside a change of tags the points of the index in force carry the tags *)
(* of the database: a change meets neither the stock nor its publication    *)
(* half-way (KbService.set_tags, Indexer._finish); a change that Qdrant     *)
(* applied and the portal refused stays until the next one.                 *)
TagsAgree ==
    Live /\ tagger.pc = "idle" =>
        (\A f \in rows : Here(f) => points[f].tags = doc.tags) \/ "tags" \in givenUp

(* When no attempt runs, Qdrant holds no point but those of the index in    *)
(* force: attempts that failed, were withdrawn or overtaken by the erasure  *)
(* leave nothing, but for a cleaning that was given up or died with the     *)
(* worker (Indexer.prune, Indexer.erase).                                   *)
CleanWhenIdle ==
    indexer = Idle => {f \in Fragments : Here(f)} \subseteq rows \/ "cleaning" \in givenUp

(* What Qdrant keeps besides the vectors is what the database says: the tags *)
(* of the document, and no points of any but the index in force             *)
(* (KbService.set_tags, Indexer.prune).                                     *)
PointsFitTheIndex == TagsAgree /\ CleanWhenIdle

(* A job that was withdrawn while it ran, or whose document was deleted,     *)
(* replaces nothing: the lock of the document is held from the look at the  *)
(* job to the commit (Indexer._finish).                                     *)
WithdrawnReplacesNothing ==
    [][rows' # rows => doc'.status = "gone" \/ (Live /\ job = indexer.kind /\ indexer.mine)]_vars

(* A replacement is atomic to whoever reads Qdrant and the database at one  *)
(* moment: the fragments found are all of the former index, all of the new  *)
(* one, or none of a document that is not open.                             *)
Shown == INSTANCE KbShown WITH index <- rows, shown <- {f \in Open : Active(f)}
ShowsOneIndex == Shown!Spec

=============================================================================
