--------------------------- MODULE KbIndexProofs ---------------------------
(***************************************************************************)
(* The safety of KbIndex for every set of fragments and tags, every size of *)
(* an index and of a portion, every number of places, with and without      *)
(* explanations: the index is found whole, and the rows of the database and *)
(* the points of Qdrant together implement KbShown.                         *)
(*                                                                          *)
(* One lemma per action says that it keeps the inductive invariant, with a  *)
(* step for each part the action can disturb and one for the rest.          *)
(*                                                                          *)
(* The last parts are about TextSplitting and SourcesFit: the fragments of  *)
(* a page hold what the page says, and what is found is extended by the     *)
(* fragments around it, for all texts, limits, distances and budgets.       *)
(***************************************************************************)
EXTENDS KbTexts, FiniteSetTheorems, WellFoundedInduction, TLAPS

(* Steps of an attempt: between the first and the last look at the job the  *)
(* row of the document is held; before the commit there is a stock.         *)
Held == {"locked", "tagged", "published"}
Stock == {"built", "pruning", "staging", "locked", "tagged"}
Building == Stock \union {"published"}

(* Whoever works under the lock of the document has it. *)
LockIsHeld ==
    /\ lock = "indexer" <=> indexer.pc \in Held
    /\ lock = "writer" <=> writer.pc \in {"saving", "saved"}
    /\ lock = "eraser" <=> eraser # "idle"
    /\ lock = "tagger" <=> tagger.pc # "idle"

(* A deleted document has no job; a task whose job is its own finds the     *)
(* document in the state the job was given for, and keeps it under the lock.*)
JobIsOfLive ==
    /\ doc.status = "gone" => doc.deleted
    /\ job # "none" => Live
    /\ indexer.mine => job = indexer.kind
    /\ indexer.mine /\ indexer.kind = "reprocess" => doc.status = "ready"
    /\ indexer.pc \in Held => indexer.mine
    /\ eraser # "idle" => doc.deleted
    /\ writer.pc \in {"saving", "saved"} => Live
    /\ tagger.pc # "idle" => Live

(* The stock of an attempt: identifiers of its own, pending until they are  *)
(* published, with the tags and explanations they will be committed with.   *)
StockIsNew ==
    /\ indexer.pc \in Building =>
        /\ indexer.new # {} /\ indexer.told \subseteq indexer.new
        /\ indexer.new \intersect rows = {}
        /\ \A f \in indexer.told : Here(f) => points[f].explained
    /\ indexer.pc \in Building \ {"built"} => indexer.new \intersect indexer.keep = {}
    /\ indexer.pc \in {"built", "pruning"} => \A f \in indexer.new : ~Here(f)
    /\ indexer.pc \in Stock => \A f \in indexer.new : Here(f) => points[f].pending
    /\ indexer.pc \in Held => \A f \in indexer.new : Here(f)
    /\ indexer.pc \in {"tagged", "published"} => \A f \in indexer.new : points[f].tags = doc.tags
    /\ indexer.pc = "published" => \A f \in indexer.new : ~points[f].pending

(* What a cleaning spares has not ceased to be the index since it was read, *)
(* but by an erasure, which left no point of it.                            *)
CleaningSpares ==
    indexer.pc \in {"pruning", "cleaning", "tidying"} =>
        /\ rows \subseteq indexer.keep
        /\ \A f \in indexer.keep : Here(f) => f \in rows

(* The hits of a search are whole as to the index and as to the stock; its  *)
(* sources are all of the index or none of it, and none of the stock.       *)
HitsAreWhole ==
    /\ search.pc = "asked" =>
        /\ Live => search.hits \intersect rows \in {{}, rows}
        /\ indexer.pc \in Stock => search.hits \intersect indexer.new = {}
        /\ indexer.pc = "published" =>
            search.hits \intersect indexer.new \in {{}, indexer.new}
    /\ search.pc = "found" =>
        /\ search.hits \intersect rows \in {{}, search.hits}
        /\ indexer.pc \in Building => search.hits \intersect indexer.new = {}

(* A portion that is being saved is of fragments of the index. *)
PortionIsOfIndex ==
    /\ writer.pc \in {"saving", "saved"} => writer.told \subseteq rows
    /\ writer.pc = "saved" => \A f \in writer.told : Here(f) /\ points[f].explained

(* A change of tags finds the former ones, and has set all of the new.      *)
TagsAreSet ==
    /\ Live /\ tagger.pc \in {"idle", "tagging"} =>
        (\A f \in rows : Here(f) => points[f].tags = doc.tags) \/ "tags" \in givenUp
    /\ tagger.pc = "tagged" => \A f \in rows : Here(f) => points[f].tags = tagger.tags

(* Between the removal of the points and its commit an attempt may stage    *)
(* points once more: its own cleaning is still to come, or was given up.    *)
ErasedIsEmpty ==
    eraser = "erased" => \A f \in Fragments : Here(f) =>
        \/ /\ indexer.pc \in {"staging", "failed", "cleaning"}
           /\ f \in indexer.new /\ f \notin rows \union indexer.keep
        \/ indexer.pc \in {"returning", "idle"} /\ "cleaning" \in givenUp

(* A cleaned attempt leaves no point beside the index. *)
LeavesNothing ==
    indexer.pc \in {"idle", "returning"} =>
        (\A f \in Fragments : Here(f) => f \in rows) \/ "cleaning" \in givenUp

(* The inductive invariant. *)
IndexInv ==
    /\ TypeOK
    /\ LockIsHeld
    /\ JobIsOfLive
    /\ StockIsNew
    /\ CleaningSpares
    /\ RowsAreActive
    /\ HitsAreWhole
    /\ PortionIsOfIndex
    /\ ContextsAreKept
    /\ TagsAreSet
    /\ ErasedIsEmpty
    /\ LeavesNothing

(* The tasks of the worker, as TypeOK has them. *)
Attempts == [pc : IndexerSteps, kind : {"index", "reprocess"}, mine : BOOLEAN,
             new : SUBSET Fragments, told : SUBSET Fragments, keep : SUBSET Fragments]
Portions == [pc : {"idle", "explaining", "saving", "saved"}, mine : BOOLEAN,
             batch : SUBSET Fragments, told : SUBSET Fragments]

-----------------------------------------------------------------------------
LEMMA NothingRuns == Idle \in Attempts /\ NoPortion \in Portions
  BY DEF Idle, NoPortion, Attempts, Portions, IndexerSteps

LEMMA PublishedPoint ==
  ASSUME NEW p \in Point
  PROVE  /\ [p EXCEPT !.pending = FALSE] \in Point
         /\ [p EXCEPT !.pending = FALSE].pending = FALSE
         /\ [p EXCEPT !.pending = FALSE].tags = p.tags
         /\ [p EXCEPT !.pending = FALSE].explained = p.explained
  BY DEF Point

LEMMA ExplainedPoint ==
  ASSUME NEW p \in Point
  PROVE  /\ [p EXCEPT !.explained = TRUE] \in Point
         /\ [p EXCEPT !.explained = TRUE].explained = TRUE
         /\ [p EXCEPT !.explained = TRUE].tags = p.tags
         /\ [p EXCEPT !.explained = TRUE].pending = p.pending
  BY DEF Point

-----------------------------------------------------------------------------
(* Every action keeps the invariant. *)

LEMMA DeleteKeeps ==
  ASSUME IndexInv, Delete
  PROVE  IndexInv'
<1> USE PointAssumption DEF IndexInv, TypeOK, Stored, Others, Here, Live, Held, Stock, Building
<1>1. TypeOK'  BY DEF Delete
<1>2. LockIsHeld'  BY DEF Delete, LockIsHeld
<1>3. JobIsOfLive'  BY DEF Delete, JobIsOfLive, LockIsHeld
<1>4. StockIsNew'  BY DEF Delete, StockIsNew
<1>5. CleaningSpares'  BY DEF Delete, CleaningSpares
<1>6. RowsAreActive'  BY DEF Delete, RowsAreActive
<1>7. HitsAreWhole'  BY DEF Delete, HitsAreWhole
<1>8. PortionIsOfIndex'  BY DEF Delete, PortionIsOfIndex
<1>9. VectorsFollowContexts'  BY DEF Delete, VectorsFollowContexts
<1>10. UnexplainedHaveJob'  BY DEF Delete, UnexplainedHaveJob
<1>11. TagsAreSet'  BY DEF Delete, TagsAreSet
<1>12. ErasedIsEmpty'  BY DEF Delete, ErasedIsEmpty
<1>13. LeavesNothing'  BY DEF Delete, LeavesNothing
<1> QED  BY <1>1, <1>2, <1>3, <1>4, <1>5, <1>6, <1>7, <1>8, <1>9, <1>10, <1>11, <1>12, <1>13
     DEF ContextsAreKept

LEMMA ReindexKeeps ==
  ASSUME IndexInv, Reindex
  PROVE  IndexInv'
<1> USE PointAssumption DEF IndexInv, TypeOK, Stored, Others, Here, Live, Held, Stock, Building
<1>1. TypeOK'  BY DEF Reindex
<1>2. LockIsHeld'  BY DEF Reindex, LockIsHeld
<1>3. JobIsOfLive'  BY DEF Reindex, JobIsOfLive, LockIsHeld
<1>4. StockIsNew'  BY DEF Reindex, StockIsNew
<1>5. CleaningSpares'  BY DEF Reindex, CleaningSpares
<1>6. RowsAreActive'  BY DEF Reindex, RowsAreActive, Active
<1>7. HitsAreWhole'  BY DEF Reindex, HitsAreWhole
<1>8. PortionIsOfIndex'  BY DEF Reindex, PortionIsOfIndex
<1>9. VectorsFollowContexts'  BY DEF Reindex, VectorsFollowContexts, ContextsAreKept
<1>10. UnexplainedHaveJob'  BY DEF Reindex, UnexplainedHaveJob
<1>11. TagsAreSet'  BY DEF Reindex, TagsAreSet
<1>12. ErasedIsEmpty'  BY DEF Reindex, ErasedIsEmpty
<1>13. LeavesNothing'  BY DEF Reindex, LeavesNothing
<1> QED  BY <1>1, <1>2, <1>3, <1>4, <1>5, <1>6, <1>7, <1>8, <1>9, <1>10, <1>11, <1>12, <1>13
     DEF ContextsAreKept

LEMMA RequestReprocessKeeps ==
  ASSUME IndexInv, RequestReprocess
  PROVE  IndexInv'
<1> USE PointAssumption DEF IndexInv, TypeOK, Stored, Others, Here, Live, Held, Stock, Building
<1>1. TypeOK'  BY DEF RequestReprocess
<1>2. JobIsOfLive'  BY DEF RequestReprocess, JobIsOfLive
<1>3. LockIsHeld' /\ StockIsNew' /\ CleaningSpares' /\ RowsAreActive' /\
      HitsAreWhole' /\ PortionIsOfIndex' /\ VectorsFollowContexts' /\
      UnexplainedHaveJob' /\ TagsAreSet' /\ ErasedIsEmpty' /\ LeavesNothing'
  BY DEF RequestReprocess, LockIsHeld, StockIsNew, CleaningSpares, RowsAreActive,
         HitsAreWhole, PortionIsOfIndex, VectorsFollowContexts, UnexplainedHaveJob,
         TagsAreSet, ErasedIsEmpty, LeavesNothing, Active, Unexplained, ContextsAreKept
<1> QED  BY <1>1, <1>2, <1>3
     DEF ContextsAreKept

LEMMA BeginKeeps ==
  ASSUME IndexInv, Begin
  PROVE  IndexInv'
<1> USE PointAssumption DEF IndexInv, TypeOK, Stored, Others, Here, Live, Held, Stock, Building,
           Attempts, Portions
<1>1. \/ indexer' = indexer
      \/ /\ job # "none"
         /\ indexer' = [pc |-> "reading", kind |-> job, mine |-> TRUE,
                        new |-> {}, told |-> {}, keep |-> {}]
  <2> HIDE DEF IndexInv, TypeOK
  <2> QED  BY DEF Begin, Idle
<1>2. indexer' \in Attempts
  <2>1. ASSUME NEW k \in {"index", "reprocess"}
        PROVE  [pc |-> "reading", kind |-> k, mine |-> TRUE,
                new |-> {}, told |-> {}, keep |-> {}] \in Attempts
    BY DEF IndexerSteps
  <2>2. CASE indexer' = indexer  BY <2>2
  <2>3. CASE indexer' # indexer  BY <1>1, <2>1, <2>3
  <2> QED  BY <2>2, <2>3
<1>3. TypeOK'  BY <1>2 DEF Begin
<1>4. StockIsNew'  BY <1>1 DEF Begin, StockIsNew
<1>5. LockIsHeld'
  <2>1. indexer.pc \notin Held /\ indexer'.pc \notin Held  BY <1>1 DEF Begin
  <2> HIDE DEF TypeOK
  <2> QED  BY <2>1 DEF Begin, LockIsHeld
<1>6. JobIsOfLive'
  <2>1. JobIsOfLive /\ indexer.pc \notin Held  BY <1>1 DEF Begin
  <2>2. UNCHANGED <<doc, eraser, writer, tagger>>  BY DEF Begin
  <2>3. CASE job = "reprocess" /\ doc.status # "ready"
    <3>1. job' = "none" /\ indexer' = indexer /\ ~indexer.mine
      BY <2>1, <2>3 DEF Begin, JobIsOfLive
    <3> HIDE DEF IndexInv, TypeOK
    <3> QED  BY <2>1, <2>2, <3>1 DEF JobIsOfLive
  <2>4. CASE ~(job = "reprocess" /\ doc.status # "ready")
    <3>1. job' = job /\ indexer'.pc = "reading" /\ indexer'.kind = job
      BY <2>4 DEF Begin, Idle
    <3> HIDE DEF IndexInv, TypeOK
    <3> QED  BY <2>1, <2>2, <2>4, <3>1 DEF JobIsOfLive
  <2> QED  BY <2>3, <2>4
<1>7. CleaningSpares'
  <2> HIDE DEF TypeOK
  <2> QED  BY <1>1 DEF Begin, CleaningSpares
<1>8. HitsAreWhole'  BY DEF Begin, Idle, HitsAreWhole
<1>9. ErasedIsEmpty'  BY DEF Begin, ErasedIsEmpty, LockIsHeld
<1>10. LeavesNothing'  BY DEF Begin, LeavesNothing
<1>11. RowsAreActive' /\ PortionIsOfIndex' /\ VectorsFollowContexts' /\
      UnexplainedHaveJob' /\ TagsAreSet'
  BY DEF Begin, RowsAreActive, PortionIsOfIndex, VectorsFollowContexts, UnexplainedHaveJob,
         TagsAreSet, Active, Unexplained, ContextsAreKept
<1> QED  BY <1>3, <1>4, <1>5, <1>6, <1>7, <1>8, <1>9, <1>10, <1>11
     DEF ContextsAreKept

LEMMA BuildKeeps ==
  ASSUME IndexInv, Build
  PROVE  IndexInv'
<1> USE PointAssumption DEF IndexInv, TypeOK, Stored, Others, Here, Live, Held, Stock, Building,
           Attempts, Portions
<1> DEFINE Made(new, told) == [indexer EXCEPT !.pc = "built", !.new = new, !.told = told]
<1>0. PICK new \in SUBSET Unused :
        Cardinality(new) = IndexSize /\ \E told \in SUBSET new : indexer' = Made(new, told)
  <2> HIDE DEF IndexInv, TypeOK
  <2> QED  BY DEF Build
<1>1. PICK told \in SUBSET new : indexer' = Made(new, told)  BY <1>0
<1>2. new # {}  BY <1>0, FS_EmptySet, SizeAssumption
<1>3. /\ new \subseteq Fragments /\ new \intersect rows = {}
      /\ \A f \in new : points[f] = NoPoint
  BY DEF Unused
<1>4. indexer' \in Attempts /\ indexer'.pc = "built" /\ indexer'.new = new /\ indexer'.told = told
  BY <1>1, <1>3 DEF IndexerSteps
<1>5. TypeOK'  BY <1>4 DEF Build
<1>6. StockIsNew'  BY <1>2, <1>3, <1>4 DEF Build, StockIsNew
<1>7. LockIsHeld'  BY DEF Build, LockIsHeld
<1>8. JobIsOfLive'  BY DEF Build, JobIsOfLive
<1>9. CleaningSpares'  BY DEF Build, CleaningSpares
<1>10. HitsAreWhole'  BY DEF Build, Unused, HitsAreWhole
<1>11. ErasedIsEmpty'  BY DEF Build, ErasedIsEmpty
<1>12. LeavesNothing'  BY DEF Build, LeavesNothing
<1>13. RowsAreActive' /\ PortionIsOfIndex' /\ VectorsFollowContexts' /\
      UnexplainedHaveJob' /\ TagsAreSet'
  BY DEF Build, RowsAreActive, PortionIsOfIndex, VectorsFollowContexts, UnexplainedHaveJob,
         TagsAreSet, Active, Unexplained, ContextsAreKept
<1> QED  BY <1>5, <1>6, <1>7, <1>8, <1>9, <1>10, <1>11, <1>12, <1>13
     DEF ContextsAreKept

LEMMA ReadCurrentKeeps ==
  ASSUME IndexInv, ReadCurrent
  PROVE  IndexInv'
<1> USE PointAssumption DEF IndexInv, TypeOK, Stored, Others, Here, Live, Held, Stock, Building,
           Attempts, Portions
<1>1. PICK pc \in IndexerSteps : indexer' = [indexer EXCEPT !.keep = rows, !.pc = pc]
  BY DEF ReadCurrent, IndexerSteps
<1>2. indexer' \in Attempts  BY <1>1
<1>3. UNCHANGED <<Stored, points, lock, Others, givenUp>>  BY DEF ReadCurrent
<1>4. TypeOK'  BY <1>2, <1>3
<1>5. LockIsHeld'  BY DEF ReadCurrent, LockIsHeld
<1>6. JobIsOfLive'  BY DEF ReadCurrent, JobIsOfLive
<1>7. StockIsNew'  BY DEF ReadCurrent, StockIsNew
<1>8. CleaningSpares'  BY DEF ReadCurrent, CleaningSpares
<1>9. HitsAreWhole'  BY DEF ReadCurrent, HitsAreWhole
<1>10. ErasedIsEmpty'  BY DEF ReadCurrent, ErasedIsEmpty
<1>11. LeavesNothing'  BY DEF ReadCurrent, LeavesNothing
<1>12. RowsAreActive' /\ PortionIsOfIndex' /\ VectorsFollowContexts' /\
      UnexplainedHaveJob' /\ TagsAreSet'
  BY DEF ReadCurrent, RowsAreActive, PortionIsOfIndex, VectorsFollowContexts,
         UnexplainedHaveJob, TagsAreSet, Active, Unexplained, ContextsAreKept
<1> QED  BY <1>4, <1>5, <1>6, <1>7, <1>8, <1>9, <1>10, <1>11, <1>12
     DEF ContextsAreKept

LEMMA PruneKeeps ==
  ASSUME IndexInv, Prune
  PROVE  IndexInv'
<1> USE PointAssumption DEF IndexInv, TypeOK, Stored, Others, Here, Live, Held, Stock, Building
<1>1. TypeOK'  BY DEF Prune, Pruned, AfterPrune, Idle, IndexerSteps
<1>2. LockIsHeld'  BY DEF Prune, AfterPrune, Idle, LockIsHeld
<1>3. JobIsOfLive'  BY DEF Prune, AfterPrune, Idle, JobIsOfLive
<1>4. StockIsNew'  BY DEF Prune, Pruned, AfterPrune, Idle, StockIsNew
<1>5. CleaningSpares'  BY DEF Prune, AfterPrune, Idle, CleaningSpares
<1>6. RowsAreActive'  BY DEF Prune, RowsAreActive, Pruned, CleaningSpares, Active
<1>7. HitsAreWhole'  BY DEF Prune, AfterPrune, Idle, HitsAreWhole
<1>8. PortionIsOfIndex'  BY DEF Prune, PortionIsOfIndex, Pruned, CleaningSpares
<1>9. VectorsFollowContexts'
  BY DEF Prune, VectorsFollowContexts, Pruned, CleaningSpares, ContextsAreKept
<1>10. UnexplainedHaveJob'  BY DEF Prune, UnexplainedHaveJob, Unexplained, ContextsAreKept
<1>11. TagsAreSet'  BY DEF Prune, Pruned, TagsAreSet
<1>12. ErasedIsEmpty'  BY DEF Prune, Pruned, ErasedIsEmpty
<1>13. LeavesNothing'  BY DEF Prune, LeavesNothing, Pruned, CleaningSpares
<1> QED  BY <1>1, <1>2, <1>3, <1>4, <1>5, <1>6, <1>7, <1>8, <1>9, <1>10, <1>11, <1>12, <1>13
     DEF ContextsAreKept

LEMMA PruneFailsKeeps ==
  ASSUME IndexInv, PruneFails
  PROVE  IndexInv'
<1> USE PointAssumption DEF IndexInv, TypeOK, Stored, Others, Here, Live, Held, Stock, Building
<1>1. TypeOK'  BY DEF PruneFails, AfterPrune, Idle, IndexerSteps
<1>2. LockIsHeld'  BY DEF PruneFails, AfterPrune, Idle, LockIsHeld
<1>3. JobIsOfLive'  BY DEF PruneFails, AfterPrune, Idle, JobIsOfLive
<1>4. StockIsNew'  BY DEF PruneFails, AfterPrune, Idle, StockIsNew
<1>5. CleaningSpares'  BY DEF PruneFails, AfterPrune, Idle, CleaningSpares
<1>6. HitsAreWhole'  BY DEF PruneFails, AfterPrune, Idle, HitsAreWhole
<1>7. UnexplainedHaveJob'
  BY DEF PruneFails, UnexplainedHaveJob, Unexplained, ContextsAreKept
<1>8. TagsAreSet'  BY DEF PruneFails, TagsAreSet
<1>9. ErasedIsEmpty'  BY DEF PruneFails, AfterPrune, ErasedIsEmpty
<1>10. LeavesNothing'  BY DEF PruneFails, LeavesNothing
<1>11. RowsAreActive' /\ PortionIsOfIndex' /\ VectorsFollowContexts'
  BY DEF PruneFails, RowsAreActive, PortionIsOfIndex, VectorsFollowContexts, Active,
         ContextsAreKept
<1> QED  BY <1>1, <1>2, <1>3, <1>4, <1>5, <1>6, <1>7, <1>8, <1>9, <1>10, <1>11
     DEF ContextsAreKept

LEMMA StageKeeps ==
  ASSUME IndexInv, NEW f \in Fragments, Stage(f)
  PROVE  IndexInv'
<1> USE PointAssumption DEF IndexInv, TypeOK, Stored, Others, Here, Live, Held, Stock, Building
<1>1. TypeOK'  BY DEF Stage, Point
<1>2. StockIsNew'  BY DEF Stage, StockIsNew
<1>3. CleaningSpares'  BY DEF Stage, CleaningSpares
<1>4. RowsAreActive'  BY DEF Stage, RowsAreActive, Active
<1>5. PortionIsOfIndex'  BY DEF Stage, PortionIsOfIndex
<1>6. VectorsFollowContexts'  BY DEF Stage, VectorsFollowContexts, ContextsAreKept
<1>7. TagsAreSet'  BY DEF Stage, TagsAreSet, StockIsNew
<1>8. ErasedIsEmpty'  BY DEF Stage, ErasedIsEmpty, StockIsNew
<1>9. LeavesNothing'  BY DEF Stage, LeavesNothing
<1>10. LockIsHeld' /\ JobIsOfLive' /\ HitsAreWhole' /\ UnexplainedHaveJob'
  BY DEF Stage, LockIsHeld, JobIsOfLive, HitsAreWhole, UnexplainedHaveJob, Unexplained,
         ContextsAreKept
<1> QED  BY <1>1, <1>2, <1>3, <1>4, <1>5, <1>6, <1>7, <1>8, <1>9, <1>10
     DEF ContextsAreKept

LEMMA EnterFinishKeeps ==
  ASSUME IndexInv, EnterFinish
  PROVE  IndexInv'
<1> USE PointAssumption DEF IndexInv, TypeOK, Stored, Others, Here, Live, Held, Stock, Building,
           Attempts, Portions
<1>1. /\ indexer'.pc \in {"locked", "failed"}
      /\ indexer'.new = indexer.new /\ indexer'.told = indexer.told /\ indexer'.keep = indexer.keep
  BY DEF EnterFinish
<1>2. StockIsNew'  BY <1>1 DEF EnterFinish, Staged, StockIsNew
<1>3. TypeOK'  BY DEF EnterFinish, IndexerSteps
<1>4. LockIsHeld'  BY DEF EnterFinish, LockIsHeld
<1>5. JobIsOfLive'  BY DEF EnterFinish, JobIsOfLive
<1>6. CleaningSpares'  BY DEF EnterFinish, CleaningSpares
<1>7. HitsAreWhole'  BY DEF EnterFinish, HitsAreWhole
<1>8. ErasedIsEmpty'  BY DEF EnterFinish, ErasedIsEmpty, LockIsHeld
<1>9. LeavesNothing'  BY DEF EnterFinish, LeavesNothing
<1>10. RowsAreActive' /\ PortionIsOfIndex' /\ VectorsFollowContexts' /\
      UnexplainedHaveJob' /\ TagsAreSet'
  BY DEF EnterFinish, RowsAreActive, PortionIsOfIndex, VectorsFollowContexts,
         UnexplainedHaveJob, TagsAreSet, Active, Unexplained, ContextsAreKept
<1> QED  BY <1>2, <1>3, <1>4, <1>5, <1>6, <1>7, <1>8, <1>9, <1>10
     DEF ContextsAreKept

LEMMA PublishTagsKeeps ==
  ASSUME IndexInv, PublishTags
  PROVE  IndexInv'
<1> USE PointAssumption DEF IndexInv, TypeOK, Stored, Others, Here, Live, Held, Stock, Building
<1>1. TypeOK'  BY DEF PublishTags, IndexerSteps, Point
<1>2. LockIsHeld'  BY DEF PublishTags, LockIsHeld
<1>3. JobIsOfLive'  BY DEF PublishTags, JobIsOfLive
<1>4. StockIsNew'  BY DEF PublishTags, StockIsNew, Point
<1>5. CleaningSpares'  BY DEF PublishTags, CleaningSpares
<1>6. RowsAreActive'  BY DEF PublishTags, RowsAreActive, Active
<1>7. HitsAreWhole'  BY DEF PublishTags, HitsAreWhole
<1>8. PortionIsOfIndex'  BY DEF PublishTags, PortionIsOfIndex, LockIsHeld
<1>9. VectorsFollowContexts'
  BY DEF PublishTags, VectorsFollowContexts, ContextsAreKept, Point
<1>10. TagsAreSet'  BY DEF PublishTags, TagsAreSet, LockIsHeld
<1>11. ErasedIsEmpty'  BY DEF PublishTags, ErasedIsEmpty
<1>12. LeavesNothing'  BY DEF PublishTags, LeavesNothing
<1>13. UnexplainedHaveJob'
  BY DEF PublishTags, UnexplainedHaveJob, Unexplained, ContextsAreKept
<1> QED  BY <1>1, <1>2, <1>3, <1>4, <1>5, <1>6, <1>7, <1>8, <1>9, <1>10, <1>11, <1>12, <1>13
     DEF ContextsAreKept

LEMMA PublishClearKeeps ==
  ASSUME IndexInv, PublishClear
  PROVE  IndexInv'
<1> USE PointAssumption DEF IndexInv, TypeOK, Stored, Others, Here, Live, Held, Stock, Building,
           Attempts, Portions
<1>1. ASSUME NEW f \in Fragments, Here(f)
      PROVE  /\ points'[f] \in Point /\ points'[f].pending = FALSE
             /\ points'[f].tags = points[f].tags /\ points'[f].explained = points[f].explained
  <2>1. points'[f] = [points[f] EXCEPT !.pending = FALSE]  BY <1>1 DEF PublishClear
  <2>2. points[f] \in Point  BY <1>1
  <2> HIDE DEF IndexInv, TypeOK
  <2> QED  BY <2>1, <2>2, PublishedPoint
<1>2. \A f \in Fragments : ~Here(f) => points'[f] = NoPoint  BY DEF PublishClear
<1>3. points' \in [Fragments -> Point \union {NoPoint}]  BY <1>1, <1>2 DEF PublishClear
<1>4. indexer' \in Attempts  BY DEF PublishClear, IndexerSteps
<1>5. \A f \in Fragments : Here(f)' <=> Here(f)
  <2> HIDE DEF IndexInv, TypeOK
  <2> QED  BY <1>1, <1>2
<1>6. TypeOK'  BY <1>3, <1>4 DEF PublishClear
<1>7. StockIsNew'  BY <1>1, <1>5 DEF PublishClear, StockIsNew
<1>8. RowsAreActive'  BY <1>1, <1>5 DEF PublishClear, RowsAreActive, Active
<1>9. VectorsFollowContexts'
  BY <1>1, <1>5 DEF PublishClear, ContextsAreKept, VectorsFollowContexts
<1>10. LockIsHeld'  BY DEF PublishClear, LockIsHeld
<1>11. JobIsOfLive'  BY DEF PublishClear, JobIsOfLive
<1>12. CleaningSpares'  BY DEF PublishClear, CleaningSpares
<1>13. HitsAreWhole'  BY DEF PublishClear, HitsAreWhole
<1>14. PortionIsOfIndex'  BY DEF PublishClear, PortionIsOfIndex, LockIsHeld
<1>15. TagsAreSet'  BY DEF PublishClear, TagsAreSet
<1>16. ErasedIsEmpty'  BY DEF PublishClear, ErasedIsEmpty
<1>17. LeavesNothing'  BY DEF PublishClear, LeavesNothing
<1>18. UnexplainedHaveJob'
  BY DEF PublishClear, UnexplainedHaveJob, Unexplained, ContextsAreKept
<1> QED  BY <1>6, <1>7, <1>8, <1>9, <1>10, <1>11, <1>12, <1>13, <1>14, <1>15, <1>16, <1>17,
     <1>18
     DEF ContextsAreKept

LEMMA CommitKeeps ==
  ASSUME IndexInv, Commit
  PROVE  IndexInv'
<1> USE PointAssumption DEF IndexInv, TypeOK, Stored, Others, Here, Live, Held, Stock, Building,
           Attempts, Portions
<1>1. indexer' \in Attempts
  <2>1. PICK reply \in {"committed", "failed"} :
          indexer' = [indexer EXCEPT !.pc = reply, !.mine = FALSE]
    BY DEF Commit
  <2>2. indexer \in Attempts /\ reply \in IndexerSteps  BY DEF IndexerSteps
  <2> HIDE DEF IndexInv, TypeOK
  <2> QED  BY <2>1, <2>2
<1>2. doc' \in [status : {"queued", "ready", "error", "gone"}, deleted : BOOLEAN, tags : Tags]
  BY DEF Commit
<1>3. rows' = indexer.new /\ explained' = indexer.told /\ indexer.told \subseteq indexer.new
  BY DEF Commit, StockIsNew
<1>4. TypeOK'  BY <1>1, <1>2, <1>3, SwitchAssumption DEF Commit
<1>5. LockIsHeld'  BY DEF Commit, LockIsHeld
<1>6. JobIsOfLive'  BY DEF Commit, JobIsOfLive
<1>7. StockIsNew'  BY DEF Commit, StockIsNew
<1>8. CleaningSpares'  BY DEF Commit, CleaningSpares
<1>9. RowsAreActive'  BY DEF Commit, RowsAreActive, StockIsNew, Active
<1>10. HitsAreWhole'  BY DEF Commit, HitsAreWhole
<1>11. PortionIsOfIndex'  BY DEF Commit, PortionIsOfIndex, LockIsHeld
<1>12. VectorsFollowContexts'  BY DEF Commit, VectorsFollowContexts, StockIsNew
<1>13. UnexplainedHaveJob'  BY DEF Commit, UnexplainedHaveJob
<1>14. TagsAreSet'  BY DEF Commit, TagsAreSet, StockIsNew, LockIsHeld
<1>15. ErasedIsEmpty'  BY DEF Commit, ErasedIsEmpty
<1>16. LeavesNothing'  BY DEF Commit, LeavesNothing
<1> QED  BY <1>4, <1>5, <1>6, <1>7, <1>8, <1>9, <1>10, <1>11, <1>12, <1>13, <1>14, <1>15,
     <1>16
     DEF ContextsAreKept

LEMMA FailKeeps ==
  ASSUME IndexInv, Fail
  PROVE  IndexInv'
<1> USE PointAssumption DEF IndexInv, TypeOK, Stored, Others, Here, Live, Held, Stock, Building
<1>1. TypeOK'  BY DEF Fail, Released, IndexerSteps
<1>2. LockIsHeld'  BY DEF Fail, Released, LockIsHeld
<1>3. JobIsOfLive'  BY DEF Fail, JobIsOfLive
<1>4. StockIsNew'  BY DEF Fail, StockIsNew
<1>5. CleaningSpares'  BY DEF Fail, CleaningSpares
<1>6. HitsAreWhole'  BY DEF Fail, HitsAreWhole
<1>7. ErasedIsEmpty'  BY DEF Fail, ErasedIsEmpty
<1>8. LeavesNothing'  BY DEF Fail, LeavesNothing
<1>9. RowsAreActive' /\ PortionIsOfIndex' /\ VectorsFollowContexts' /\
      UnexplainedHaveJob' /\ TagsAreSet'
  BY DEF Fail, RowsAreActive, PortionIsOfIndex, VectorsFollowContexts, UnexplainedHaveJob,
         TagsAreSet, Active, Unexplained, ContextsAreKept
<1> QED  BY <1>1, <1>2, <1>3, <1>4, <1>5, <1>6, <1>7, <1>8, <1>9
     DEF ContextsAreKept

LEMMA ReturnKeeps ==
  ASSUME IndexInv, Return
  PROVE  IndexInv'
<1> USE PointAssumption DEF IndexInv, TypeOK, Stored, Others, Here, Live, Held, Stock, Building
<1>1. TypeOK'  BY DEF Return, Idle, IndexerSteps
<1>2. LockIsHeld'  BY DEF Return, Idle, LockIsHeld
<1>3. JobIsOfLive'  BY DEF Return, Idle, JobIsOfLive
<1>4. StockIsNew'  BY DEF Return, Idle, StockIsNew
<1>5. CleaningSpares'  BY DEF Return, Idle, CleaningSpares
<1>6. RowsAreActive'  BY DEF Return, RowsAreActive, Active
<1>7. HitsAreWhole'  BY DEF Return, Idle, HitsAreWhole
<1>8. VectorsFollowContexts'  BY DEF Return, VectorsFollowContexts, ContextsAreKept
<1>9. UnexplainedHaveJob'  BY DEF Return, UnexplainedHaveJob, Unexplained, ContextsAreKept
<1>10. TagsAreSet'  BY DEF Return, TagsAreSet
<1>11. ErasedIsEmpty'  BY DEF Return, Idle, ErasedIsEmpty
<1>12. LeavesNothing'  BY DEF Return, LeavesNothing
<1>13. PortionIsOfIndex'  BY DEF Return, PortionIsOfIndex
<1> QED  BY <1>1, <1>2, <1>3, <1>4, <1>5, <1>6, <1>7, <1>8, <1>9, <1>10, <1>11, <1>12, <1>13
     DEF ContextsAreKept

LEMMA TakePortionKeeps ==
  ASSUME IndexInv, TakePortion
  PROVE  IndexInv'
<1> USE PointAssumption DEF IndexInv, TypeOK, Stored, Others, Here, Live, Held, Stock, Building,
           Attempts, Portions
<1>1. writer' \in Portions /\ writer'.pc \in {"idle", "explaining"}
  <2>1. CASE UNCHANGED writer  BY <2>1 DEF TakePortion
  <2>2. ASSUME NEW batch \in SUBSET Unexplained,
               writer' = [NoPortion EXCEPT !.pc = "explaining", !.mine = TRUE, !.batch = batch]
        PROVE  writer' \in Portions /\ writer'.pc = "explaining"
    <3>1. batch \in SUBSET Fragments  BY DEF Unexplained
    <3> HIDE DEF IndexInv, TypeOK
    <3> QED  BY <2>2, <3>1 DEF NoPortion
  <2>3. \/ UNCHANGED writer
        \/ \E batch \in SUBSET Unexplained :
              writer' = [NoPortion EXCEPT !.pc = "explaining", !.mine = TRUE, !.batch = batch]
    <3> HIDE DEF IndexInv, TypeOK
    <3> QED  BY DEF TakePortion
  <2> QED  BY <2>1, <2>2, <2>3
<1>2. writer.pc = "idle" /\ context' \in BOOLEAN
      /\ UNCHANGED <<doc, rows, explained, job, points, lock,
                     indexer, eraser, tagger, search, givenUp>>
  BY DEF TakePortion
<1>3. TypeOK'  BY <1>1, <1>2
<1>4. JobIsOfLive'  BY <1>1, <1>2 DEF JobIsOfLive
<1>5. StockIsNew' /\ CleaningSpares' /\ RowsAreActive' /\ HitsAreWhole' /\
      VectorsFollowContexts' /\ TagsAreSet' /\ ErasedIsEmpty' /\ LeavesNothing'
  BY <1>2 DEF StockIsNew, CleaningSpares, RowsAreActive, Active, HitsAreWhole,
         ContextsAreKept, VectorsFollowContexts, TagsAreSet, ErasedIsEmpty, LeavesNothing
<1>6. LockIsHeld'
  <2>1. LockIsHeld /\ writer'.pc \in {"idle", "explaining"}  BY DEF TakePortion, NoPortion
  <2> HIDE DEF IndexInv, TypeOK
  <2> QED  BY <1>2, <2>1 DEF LockIsHeld
<1>7. PortionIsOfIndex'  BY DEF TakePortion, NoPortion, PortionIsOfIndex
<1>8. UnexplainedHaveJob'  BY DEF TakePortion, UnexplainedHaveJob, Unexplained
<1> QED  BY <1>3, <1>4, <1>5, <1>6, <1>7, <1>8
     DEF ContextsAreKept

LEMMA SavePortionKeeps ==
  ASSUME IndexInv, SavePortion
  PROVE  IndexInv'
<1> USE PointAssumption DEF IndexInv, TypeOK, Stored, Others, Here, Live, Held, Stock, Building,
           Attempts, Portions
<1>1. \/ Live /\ writer' \in Portions /\ writer'.pc = "saving" /\ writer'.told \subseteq rows
         /\ lock = "free" /\ lock' = "writer"
      \/ writer' = NoPortion /\ UNCHANGED lock
  <2>1. CASE Live
    <3>1. PICK told \in SUBSET writer.batch :
            writer' = [writer EXCEPT !.pc = "saving", !.told = told \intersect rows]
      BY <2>1 DEF SavePortion
    <3>2. writer' \in Portions /\ writer'.pc = "saving" /\ writer'.told \subseteq rows  BY <3>1
    <3> QED  BY <2>1, <3>2 DEF SavePortion
  <2>2. CASE ~Live  BY <2>2 DEF SavePortion
  <2> QED  BY <2>1, <2>2
<1>2. UNCHANGED <<Stored, points, indexer, eraser, tagger, search, givenUp>>  BY DEF SavePortion
<1>3. NoPortion \in Portions /\ NoPortion.pc = "idle"  BY NothingRuns DEF NoPortion
<1>4. lock = "free" /\ writer.pc = "explaining"  BY DEF SavePortion
<1>5. TypeOK'  BY <1>1, <1>2, <1>3
<1>6. LockIsHeld'  BY <1>1, <1>2, <1>3, <1>4 DEF LockIsHeld
<1>7. JobIsOfLive'  BY <1>1, <1>2, <1>3 DEF JobIsOfLive
<1>8. PortionIsOfIndex'  BY <1>1, <1>2, <1>3 DEF PortionIsOfIndex
<1>9. StockIsNew' /\ CleaningSpares' /\ RowsAreActive' /\ HitsAreWhole' /\
      VectorsFollowContexts' /\ UnexplainedHaveJob' /\ TagsAreSet' /\ ErasedIsEmpty' /\
      LeavesNothing'
  BY <1>2 DEF StockIsNew, CleaningSpares, RowsAreActive, Active, HitsAreWhole,
         ContextsAreKept, VectorsFollowContexts, UnexplainedHaveJob, Unexplained,
         TagsAreSet, ErasedIsEmpty, LeavesNothing
<1> QED  BY <1>5, <1>6, <1>7, <1>8, <1>9
     DEF ContextsAreKept

LEMMA UpdateVectorsKeeps ==
  ASSUME IndexInv, UpdateVectors
  PROVE  IndexInv'
<1> USE PointAssumption DEF IndexInv, TypeOK, Stored, Others, Here, Live, Held, Stock, Building,
           Attempts, Portions
<1>1. ASSUME NEW f \in Fragments, Here(f)
      PROVE  /\ points'[f] \in Point
             /\ points'[f].pending = points[f].pending /\ points'[f].tags = points[f].tags
             /\ f \in writer.told => points'[f].explained
             /\ points[f].explained => points'[f].explained
  <2>1. points'[f] = IF f \in writer.told THEN [points[f] EXCEPT !.explained = TRUE] ELSE points[f]
    BY <1>1 DEF UpdateVectors
  <2>2. points[f] \in Point  BY <1>1
  <2> HIDE DEF IndexInv, TypeOK
  <2>3. CASE f \in writer.told  BY <2>1, <2>2, <2>3, ExplainedPoint
  <2>4. CASE f \notin writer.told  BY <2>1, <2>2, <2>4
  <2> QED  BY <2>3, <2>4
<1>2. \A f \in Fragments : ~Here(f) => points'[f] = NoPoint  BY DEF UpdateVectors
<1>3. points' \in [Fragments -> Point \union {NoPoint}]  BY <1>1, <1>2 DEF UpdateVectors
<1>4. writer' \in Portions  BY DEF UpdateVectors
<1>5. \A f \in Fragments : Here(f)' <=> Here(f)
  <2> HIDE DEF IndexInv, TypeOK
  <2> QED  BY <1>1, <1>2
<1>6. TypeOK'  BY <1>3, <1>4 DEF UpdateVectors
<1>7. StockIsNew'  BY <1>1, <1>5 DEF UpdateVectors, StockIsNew
<1>8. RowsAreActive'  BY <1>1, <1>5 DEF UpdateVectors, RowsAreActive, Active
<1>9. PortionIsOfIndex'
  BY <1>1, <1>5 DEF UpdateVectors, PortionIsOfIndex, JobIsOfLive, RowsAreActive, Active
<1>10. VectorsFollowContexts'
  BY <1>1, <1>5 DEF UpdateVectors, ContextsAreKept, VectorsFollowContexts
<1>11. LockIsHeld'  BY DEF UpdateVectors, LockIsHeld
<1>12. JobIsOfLive'  BY DEF UpdateVectors, JobIsOfLive
<1>13. CleaningSpares'  BY DEF UpdateVectors, CleaningSpares
<1>14. TagsAreSet'  BY DEF UpdateVectors, TagsAreSet
<1>15. ErasedIsEmpty'  BY DEF UpdateVectors, ErasedIsEmpty
<1>16. LeavesNothing'  BY DEF UpdateVectors, LeavesNothing
<1>17. HitsAreWhole' /\ UnexplainedHaveJob'
  BY DEF UpdateVectors, HitsAreWhole, UnexplainedHaveJob, Unexplained, ContextsAreKept
<1> QED  BY <1>6, <1>7, <1>8, <1>9, <1>10, <1>11, <1>12, <1>13, <1>14, <1>15, <1>16, <1>17
     DEF ContextsAreKept

LEMMA CommitContextsKeeps ==
  ASSUME IndexInv, CommitContexts
  PROVE  IndexInv'
<1> USE PointAssumption DEF IndexInv, TypeOK, Stored, Others, Here, Live, Held, Stock, Building
<1>1. TypeOK'  BY DEF CommitContexts, NoPortion, PortionIsOfIndex
<1>2. LockIsHeld'  BY DEF CommitContexts, NoPortion, LockIsHeld
<1>3. JobIsOfLive'  BY DEF CommitContexts, JobIsOfLive
<1>4. PortionIsOfIndex'  BY DEF CommitContexts, NoPortion, PortionIsOfIndex
<1>5. VectorsFollowContexts'
  BY DEF CommitContexts, VectorsFollowContexts, PortionIsOfIndex, ContextsAreKept
<1>6. UnexplainedHaveJob'
  BY DEF CommitContexts, UnexplainedHaveJob, Unexplained, ContextsAreKept
<1>7. StockIsNew' /\ CleaningSpares' /\ RowsAreActive' /\ HitsAreWhole' /\
      TagsAreSet' /\ ErasedIsEmpty' /\ LeavesNothing'
  BY DEF CommitContexts, StockIsNew, CleaningSpares, RowsAreActive, HitsAreWhole, TagsAreSet,
         ErasedIsEmpty, LeavesNothing, Active
<1> QED  BY <1>1, <1>2, <1>3, <1>4, <1>5, <1>6, <1>7
     DEF ContextsAreKept

LEMMA WriterFailsKeeps ==
  ASSUME IndexInv, WriterFails
  PROVE  IndexInv'
<1> USE PointAssumption DEF IndexInv, TypeOK, Stored, Others, Here, Live, Held, Stock, Building,
           Attempts, Portions
<1>1. givenUp' \subseteq {"cleaning", "context", "tags"} /\ context' \in BOOLEAN
  BY DEF WriterFails
<1>2. writer' \in Portions  BY NothingRuns DEF WriterFails
<1>3. lock' \in {"free", "indexer", "writer", "eraser", "tagger"}  BY DEF WriterFails, Released
<1>4. TypeOK'  BY <1>1, <1>2, <1>3 DEF WriterFails
<1>5. LockIsHeld'  BY DEF WriterFails, Released, NoPortion, LockIsHeld
<1>6. JobIsOfLive'  BY DEF WriterFails, NoPortion, JobIsOfLive
<1>7. PortionIsOfIndex'  BY DEF WriterFails, NoPortion, PortionIsOfIndex
<1>8. UnexplainedHaveJob'
  BY DEF WriterFails, UnexplainedHaveJob, Unexplained, ContextsAreKept
<1>9. TagsAreSet'  BY DEF WriterFails, TagsAreSet
<1>10. ErasedIsEmpty'  BY DEF WriterFails, ErasedIsEmpty
<1>11. LeavesNothing'  BY DEF WriterFails, LeavesNothing
<1>12. StockIsNew' /\ CleaningSpares' /\ RowsAreActive' /\ HitsAreWhole' /\
      VectorsFollowContexts'
  BY DEF WriterFails, StockIsNew, CleaningSpares, RowsAreActive, HitsAreWhole,
         VectorsFollowContexts, Active, ContextsAreKept
<1> QED  BY <1>4, <1>5, <1>6, <1>7, <1>8, <1>9, <1>10, <1>11, <1>12
     DEF ContextsAreKept

LEMMA EraseLockKeeps ==
  ASSUME IndexInv, EraseLock
  PROVE  IndexInv'
<1> USE PointAssumption DEF IndexInv, TypeOK, Stored, Others, Here, Live, Held, Stock, Building
<1>1. TypeOK'  BY DEF EraseLock
<1>2. LockIsHeld'  BY DEF EraseLock, LockIsHeld
<1>3. JobIsOfLive'  BY DEF EraseLock, JobIsOfLive
<1>4. ErasedIsEmpty'  BY DEF EraseLock, ErasedIsEmpty
<1>5. StockIsNew' /\ CleaningSpares' /\ RowsAreActive' /\ HitsAreWhole' /\
      PortionIsOfIndex' /\ VectorsFollowContexts' /\ UnexplainedHaveJob' /\
      TagsAreSet' /\ LeavesNothing'
  BY DEF EraseLock, StockIsNew, CleaningSpares, RowsAreActive, HitsAreWhole, PortionIsOfIndex,
         VectorsFollowContexts, UnexplainedHaveJob, TagsAreSet, LeavesNothing
<1> QED  BY <1>1, <1>2, <1>3, <1>4, <1>5
     DEF ContextsAreKept

LEMMA ErasePointsKeeps ==
  ASSUME IndexInv, ErasePoints
  PROVE  IndexInv'
<1> USE PointAssumption DEF IndexInv, TypeOK, Stored, Others, Here, Live, Held, Stock, Building
<1>1. TypeOK'  BY DEF ErasePoints
<1>2. LockIsHeld'  BY DEF ErasePoints, LockIsHeld
<1>3. JobIsOfLive'  BY DEF ErasePoints, JobIsOfLive
<1>4. StockIsNew'  BY DEF ErasePoints, StockIsNew, LockIsHeld
<1>5. CleaningSpares'  BY DEF ErasePoints, CleaningSpares
<1>6. RowsAreActive'  BY DEF ErasePoints, RowsAreActive, JobIsOfLive
<1>7. PortionIsOfIndex'  BY DEF ErasePoints, PortionIsOfIndex, LockIsHeld
<1>8. VectorsFollowContexts'  BY DEF ErasePoints, VectorsFollowContexts, JobIsOfLive
<1>9. TagsAreSet'  BY DEF ErasePoints, TagsAreSet
<1>10. ErasedIsEmpty'  BY DEF ErasePoints, ErasedIsEmpty
<1>11. LeavesNothing'  BY DEF ErasePoints, LeavesNothing
<1>12. HitsAreWhole' /\ UnexplainedHaveJob'
  BY DEF ErasePoints, HitsAreWhole, UnexplainedHaveJob, Unexplained, ContextsAreKept
<1> QED  BY <1>1, <1>2, <1>3, <1>4, <1>5, <1>6, <1>7, <1>8, <1>9, <1>10, <1>11, <1>12
     DEF ContextsAreKept

LEMMA EraseCommitKeeps ==
  ASSUME IndexInv, EraseCommit
  PROVE  IndexInv'
<1> USE PointAssumption DEF IndexInv, TypeOK, Stored, Others, Here, Live, Held, Stock, Building
<1>1. TypeOK'  BY DEF EraseCommit
<1>2. LockIsHeld'  BY DEF EraseCommit, LockIsHeld
<1>3. JobIsOfLive'  BY DEF EraseCommit, JobIsOfLive
<1>4. StockIsNew'  BY DEF EraseCommit, StockIsNew
<1>5. CleaningSpares'  BY DEF EraseCommit, CleaningSpares, ErasedIsEmpty
<1>6. RowsAreActive'  BY DEF EraseCommit, RowsAreActive
<1>7. HitsAreWhole'  BY DEF EraseCommit, HitsAreWhole
<1>8. PortionIsOfIndex'  BY DEF EraseCommit, PortionIsOfIndex, LockIsHeld
<1>9. VectorsFollowContexts'  BY DEF EraseCommit, VectorsFollowContexts
<1>10. UnexplainedHaveJob'  BY DEF EraseCommit, UnexplainedHaveJob
<1>11. TagsAreSet'  BY DEF EraseCommit, TagsAreSet
<1>12. ErasedIsEmpty'  BY DEF EraseCommit, ErasedIsEmpty
<1>13. LeavesNothing'  BY DEF EraseCommit, LeavesNothing, ErasedIsEmpty
<1> QED  BY <1>1, <1>2, <1>3, <1>4, <1>5, <1>6, <1>7, <1>8, <1>9, <1>10, <1>11, <1>12, <1>13
     DEF ContextsAreKept

LEMMA EraserFailsKeeps ==
  ASSUME IndexInv, EraserFails
  PROVE  IndexInv'
<1> USE PointAssumption DEF IndexInv, TypeOK, Stored, Others, Here, Live, Held, Stock, Building
<1>1. TypeOK'  BY DEF EraserFails
<1>2. LockIsHeld'  BY DEF EraserFails, LockIsHeld
<1>3. JobIsOfLive'  BY DEF EraserFails, JobIsOfLive
<1>4. ErasedIsEmpty'  BY DEF EraserFails, ErasedIsEmpty
<1>5. StockIsNew' /\ CleaningSpares' /\ RowsAreActive' /\ HitsAreWhole' /\
      PortionIsOfIndex' /\ VectorsFollowContexts' /\ UnexplainedHaveJob' /\
      TagsAreSet' /\ LeavesNothing'
  BY DEF EraserFails, StockIsNew, CleaningSpares, RowsAreActive, HitsAreWhole,
         PortionIsOfIndex, VectorsFollowContexts, UnexplainedHaveJob, TagsAreSet,
         LeavesNothing, Active, Unexplained, ContextsAreKept
<1> QED  BY <1>1, <1>2, <1>3, <1>4, <1>5
     DEF ContextsAreKept

LEMMA TagLockKeeps ==
  ASSUME IndexInv, TagLock
  PROVE  IndexInv'
<1> USE PointAssumption DEF IndexInv, TypeOK, Stored, Others, Here, Live, Held, Stock, Building
<1>1. TypeOK'  BY DEF TagLock
<1>2. LockIsHeld'  BY DEF TagLock, LockIsHeld
<1>3. JobIsOfLive'  BY DEF TagLock, JobIsOfLive
<1>4. TagsAreSet'  BY DEF TagLock, TagsAreSet
<1>5. StockIsNew' /\ CleaningSpares' /\ RowsAreActive' /\ HitsAreWhole' /\
      PortionIsOfIndex' /\ VectorsFollowContexts' /\ UnexplainedHaveJob' /\
      ErasedIsEmpty' /\ LeavesNothing'
  BY DEF TagLock, StockIsNew, CleaningSpares, RowsAreActive, HitsAreWhole, PortionIsOfIndex,
         VectorsFollowContexts, UnexplainedHaveJob, ErasedIsEmpty, LeavesNothing, Active,
         Unexplained, ContextsAreKept
<1> QED  BY <1>1, <1>2, <1>3, <1>4, <1>5
     DEF ContextsAreKept

LEMMA TagPointsKeeps ==
  ASSUME IndexInv, TagPoints
  PROVE  IndexInv'
<1> USE PointAssumption DEF IndexInv, TypeOK, Stored, Others, Here, Live, Held, Stock, Building
<1>1. TypeOK'  BY DEF TagPoints, Point
<1>2. LockIsHeld'  BY DEF TagPoints, LockIsHeld
<1>3. JobIsOfLive'  BY DEF TagPoints, JobIsOfLive
<1>4. StockIsNew'  BY DEF TagPoints, StockIsNew, LockIsHeld
<1>5. CleaningSpares'  BY DEF TagPoints, CleaningSpares
<1>6. RowsAreActive'  BY DEF TagPoints, RowsAreActive, Active, Point
<1>7. PortionIsOfIndex'  BY DEF TagPoints, PortionIsOfIndex, LockIsHeld
<1>8. VectorsFollowContexts'
  BY DEF TagPoints, VectorsFollowContexts, ContextsAreKept, Point
<1>9. TagsAreSet'  BY DEF TagPoints, TagsAreSet
<1>10. ErasedIsEmpty'  BY DEF TagPoints, ErasedIsEmpty
<1>11. LeavesNothing'  BY DEF TagPoints, LeavesNothing
<1>12. HitsAreWhole' /\ UnexplainedHaveJob'
  BY DEF TagPoints, HitsAreWhole, UnexplainedHaveJob, Unexplained, ContextsAreKept
<1> QED  BY <1>1, <1>2, <1>3, <1>4, <1>5, <1>6, <1>7, <1>8, <1>9, <1>10, <1>11, <1>12
     DEF ContextsAreKept

LEMMA TagCommitKeeps ==
  ASSUME IndexInv, TagCommit
  PROVE  IndexInv'
<1> USE PointAssumption DEF IndexInv, TypeOK, Stored, Others, Here, Live, Held, Stock, Building
<1>1. TypeOK'  BY DEF TagCommit, Released
<1>2. LockIsHeld'  BY DEF TagCommit, Released, LockIsHeld
<1>3. JobIsOfLive'  BY DEF TagCommit, JobIsOfLive
<1>4. StockIsNew'  BY DEF TagCommit, StockIsNew, LockIsHeld
<1>5. RowsAreActive'  BY DEF TagCommit, RowsAreActive, Active
<1>6. HitsAreWhole'  BY DEF TagCommit, HitsAreWhole
<1>7. VectorsFollowContexts'  BY DEF TagCommit, VectorsFollowContexts, ContextsAreKept
<1>8. UnexplainedHaveJob'
  BY DEF TagCommit, UnexplainedHaveJob, Unexplained, ContextsAreKept
<1>9. TagsAreSet'  BY DEF TagCommit, TagsAreSet
<1>10. ErasedIsEmpty'  BY DEF TagCommit, ErasedIsEmpty
<1>11. LeavesNothing'  BY DEF TagCommit, LeavesNothing
<1>12. CleaningSpares' /\ PortionIsOfIndex'
  BY DEF TagCommit, CleaningSpares, PortionIsOfIndex
<1> QED  BY <1>1, <1>2, <1>3, <1>4, <1>5, <1>6, <1>7, <1>8, <1>9, <1>10, <1>11, <1>12
     DEF ContextsAreKept

LEMMA TagFailsKeeps ==
  ASSUME IndexInv, TagFails
  PROVE  IndexInv'
<1> USE PointAssumption DEF IndexInv, TypeOK, Stored, Others, Here, Live, Held, Stock, Building
<1>1. TypeOK'  BY DEF TagFails, Released
<1>2. LockIsHeld'  BY DEF TagFails, Released, LockIsHeld
<1>3. JobIsOfLive'  BY DEF TagFails, JobIsOfLive
<1>4. UnexplainedHaveJob'  BY DEF TagFails, UnexplainedHaveJob, Unexplained, ContextsAreKept
<1>5. TagsAreSet'  BY DEF TagFails, TagsAreSet
<1>6. ErasedIsEmpty'  BY DEF TagFails, ErasedIsEmpty
<1>7. LeavesNothing'  BY DEF TagFails, LeavesNothing
<1>8. StockIsNew' /\ CleaningSpares' /\ RowsAreActive' /\ HitsAreWhole' /\
      PortionIsOfIndex' /\ VectorsFollowContexts'
  BY DEF TagFails, StockIsNew, CleaningSpares, RowsAreActive, HitsAreWhole, PortionIsOfIndex,
         VectorsFollowContexts, Active, ContextsAreKept
<1> QED  BY <1>1, <1>2, <1>3, <1>4, <1>5, <1>6, <1>7, <1>8
     DEF ContextsAreKept

LEMMA QueryKeeps ==
  ASSUME IndexInv, Query
  PROVE  IndexInv'
<1> USE PointAssumption DEF IndexInv, TypeOK, Stored, Others, Here, Live, Held, Stock, Building
<1>1. TypeOK'  BY DEF Query
<1>2. HitsAreWhole'  BY DEF Query, HitsAreWhole, StockIsNew, RowsAreActive, Active
<1>3. LockIsHeld' /\ JobIsOfLive' /\ StockIsNew' /\ CleaningSpares' /\
      RowsAreActive' /\ PortionIsOfIndex' /\ VectorsFollowContexts' /\
      UnexplainedHaveJob' /\ TagsAreSet' /\ ErasedIsEmpty' /\ LeavesNothing'
  BY DEF Query, LockIsHeld, JobIsOfLive, StockIsNew, CleaningSpares, RowsAreActive,
         PortionIsOfIndex, VectorsFollowContexts, UnexplainedHaveJob, TagsAreSet,
         ErasedIsEmpty, LeavesNothing, Active, Unexplained, ContextsAreKept
<1> QED  BY <1>1, <1>2, <1>3
     DEF ContextsAreKept

LEMMA CheckKeeps ==
  ASSUME IndexInv, Check
  PROVE  IndexInv'
<1> USE PointAssumption DEF IndexInv, TypeOK, Stored, Others, Here, Live, Held, Stock, Building
<1>0. \/ search' = [pc |-> "idle", hits |-> {}]
      \/ \E sources \in SUBSET Answer : search' = [pc |-> "found", hits |-> sources]
  BY DEF Check, NoSearch
<1>1. TypeOK'  BY <1>0 DEF Check, Answer
<1>2. HitsAreWhole'
  <2>1. CASE search' = [pc |-> "idle", hits |-> {}]  BY <2>1 DEF HitsAreWhole
  <2>2. ASSUME NEW sources \in SUBSET Answer, search' = [pc |-> "found", hits |-> sources]
        PROVE  HitsAreWhole'
    BY <2>2 DEF Check, HitsAreWhole, StockIsNew, Answer, Open
  <2> QED  BY <1>0, <2>1, <2>2
<1>3. LockIsHeld' /\ JobIsOfLive' /\ StockIsNew' /\ CleaningSpares' /\
      RowsAreActive' /\ PortionIsOfIndex' /\ VectorsFollowContexts' /\
      UnexplainedHaveJob' /\ TagsAreSet' /\ ErasedIsEmpty' /\ LeavesNothing'
  BY DEF Check, LockIsHeld, JobIsOfLive, StockIsNew, CleaningSpares, RowsAreActive,
         PortionIsOfIndex, VectorsFollowContexts, UnexplainedHaveJob, TagsAreSet,
         ErasedIsEmpty, LeavesNothing, Active, Unexplained, ContextsAreKept
<1> QED  BY <1>1, <1>2, <1>3
     DEF ContextsAreKept

LEMMA ReadNeighborsKeeps ==
  ASSUME IndexInv, ReadNeighbors
  PROVE  IndexInv'
<1> USE PointAssumption DEF IndexInv, TypeOK, Stored, Others, Here, Live, Held, Stock, Building
<1>1. TypeOK'  BY DEF ReadNeighbors, NoSearch
<1>2. HitsAreWhole'  BY DEF ReadNeighbors, NoSearch, HitsAreWhole
<1>3. LockIsHeld' /\ JobIsOfLive' /\ StockIsNew' /\ CleaningSpares' /\
      RowsAreActive' /\ PortionIsOfIndex' /\ VectorsFollowContexts' /\
      UnexplainedHaveJob' /\ TagsAreSet' /\ ErasedIsEmpty' /\ LeavesNothing'
  BY DEF ReadNeighbors, LockIsHeld, JobIsOfLive, StockIsNew, CleaningSpares, RowsAreActive,
         PortionIsOfIndex, VectorsFollowContexts, UnexplainedHaveJob, TagsAreSet,
         ErasedIsEmpty, LeavesNothing, Active, Unexplained, ContextsAreKept
<1> QED  BY <1>1, <1>2, <1>3
     DEF ContextsAreKept

LEMMA CrashKeeps ==
  ASSUME IndexInv, Crash
  PROVE  IndexInv'
<1> USE PointAssumption DEF IndexInv, TypeOK, Stored, Others, Here, Live, Held, Stock, Building
<1>1. TypeOK'  BY DEF Crash, Idle, NoPortion, IndexerSteps
<1>2. LockIsHeld'  BY DEF Crash, Idle, NoPortion, LockIsHeld
<1>3. JobIsOfLive'  BY DEF Crash, Idle, NoPortion, JobIsOfLive
<1>4. StockIsNew'  BY DEF Crash, Idle, StockIsNew
<1>5. CleaningSpares'  BY DEF Crash, Idle, CleaningSpares
<1>6. HitsAreWhole'  BY DEF Crash, Idle, HitsAreWhole
<1>7. PortionIsOfIndex'  BY DEF Crash, NoPortion, PortionIsOfIndex
<1>8. UnexplainedHaveJob'  BY DEF Crash, UnexplainedHaveJob, Unexplained, ContextsAreKept
<1>9. TagsAreSet'  BY DEF Crash, TagsAreSet
<1>10. ErasedIsEmpty'  BY DEF Crash, ErasedIsEmpty
<1>11. LeavesNothing'  BY DEF Crash, LeavesNothing
<1>12. RowsAreActive' /\ VectorsFollowContexts'
  BY DEF Crash, RowsAreActive, VectorsFollowContexts, Active, ContextsAreKept
<1> QED  BY <1>1, <1>2, <1>3, <1>4, <1>5, <1>6, <1>7, <1>8, <1>9, <1>10, <1>11, <1>12
     DEF ContextsAreKept

LEMMA StutterKeeps ==
  ASSUME IndexInv, UNCHANGED vars
  PROVE  IndexInv'
<1> USE PointAssumption DEF IndexInv, TypeOK, Stored, Others, Here, Live, Held, Stock, Building
<1>1. TypeOK'  BY DEF vars
<1>2. LockIsHeld' /\ JobIsOfLive' /\ StockIsNew' /\ CleaningSpares' /\
      RowsAreActive' /\ HitsAreWhole' /\ PortionIsOfIndex' /\ VectorsFollowContexts' /\
      UnexplainedHaveJob' /\ TagsAreSet' /\ ErasedIsEmpty' /\ LeavesNothing'
  BY DEF vars, LockIsHeld, JobIsOfLive, StockIsNew, CleaningSpares, RowsAreActive,
         HitsAreWhole, PortionIsOfIndex, VectorsFollowContexts, UnexplainedHaveJob,
         TagsAreSet, ErasedIsEmpty, LeavesNothing, Active, Unexplained, ContextsAreKept
<1> QED  BY <1>1, <1>2
     DEF ContextsAreKept
-----------------------------------------------------------------------------
LEMMA InitIndexInv == Init => IndexInv
<1> SUFFICES ASSUME Init PROVE IndexInv  OBVIOUS
<1>1. TypeOK
  <2>1. indexer \in Attempts /\ writer \in Portions  BY NothingRuns DEF Init
  <2>2. points \in [Fragments -> Point \union {NoPoint}]  BY DEF Init
  <2>3. search \in [pc : {"idle", "asked", "found"}, hits : SUBSET Fragments]  BY DEF Init, NoSearch
  <2>4. PICK tags \in Tags :
          /\ doc = [status |-> "queued", deleted |-> FALSE, tags |-> tags]
          /\ tagger = [pc |-> "idle", tags |-> tags]
    BY DEF Init
  <2>5. /\ doc \in [status : {"queued", "ready", "error", "gone"}, deleted : BOOLEAN, tags : Tags]
        /\ tagger \in [pc : {"idle", "tagging", "tagged"}, tags : Tags]
    BY <2>4
  <2> QED  BY <2>1, <2>2, <2>3, <2>5 DEF Init, TypeOK, Attempts, Portions
<1>2. rows = {} /\ explained = {} /\ \A f \in Fragments : points[f] = NoPoint  BY DEF Init
<1>3. indexer.pc = "idle" /\ ~indexer.mine /\ writer.pc = "idle" /\ search.pc = "idle"
  BY DEF Init, Idle, NoPortion, NoSearch
<1>4. LockIsHeld /\ JobIsOfLive  BY <1>3 DEF Init, LockIsHeld, JobIsOfLive, Held, Live
<1>5. StockIsNew /\ CleaningSpares  BY <1>3 DEF StockIsNew, CleaningSpares, Held, Stock, Building
<1>6. RowsAreActive /\ ContextsAreKept
  BY <1>2 DEF Init, RowsAreActive, ContextsAreKept, VectorsFollowContexts, UnexplainedHaveJob
<1>7. HitsAreWhole /\ PortionIsOfIndex  BY <1>3 DEF HitsAreWhole, PortionIsOfIndex
<1>8. TagsAreSet /\ ErasedIsEmpty /\ LeavesNothing
  BY <1>2 DEF Init, TagsAreSet, ErasedIsEmpty, LeavesNothing, Here
<1> QED  BY <1>1, <1>4, <1>5, <1>6, <1>7, <1>8 DEF IndexInv

LEMMA NextIndexInv == IndexInv /\ [Next]_vars => IndexInv'
<1> SUFFICES ASSUME IndexInv, [Next]_vars PROVE IndexInv'  OBVIOUS
<1>1. CASE RequestNext
  BY <1>1, DeleteKeeps, ReindexKeeps, RequestReprocessKeeps DEF RequestNext
<1>2. CASE IndexerNext
  BY <1>2, BeginKeeps, BuildKeeps, ReadCurrentKeeps, PruneKeeps, PruneFailsKeeps, StageKeeps,
     EnterFinishKeeps, PublishTagsKeeps, PublishClearKeeps, CommitKeeps, FailKeeps, ReturnKeeps
  DEF IndexerNext
<1>3. CASE WriterNext
  BY <1>3, TakePortionKeeps, SavePortionKeeps, UpdateVectorsKeeps, CommitContextsKeeps,
     WriterFailsKeeps
  DEF WriterNext
<1>4. CASE EraserNext
  BY <1>4, EraseLockKeeps, ErasePointsKeeps, EraseCommitKeeps, EraserFailsKeeps DEF EraserNext
<1>5. CASE TaggerNext
  BY <1>5, TagLockKeeps, TagPointsKeeps, TagCommitKeeps, TagFailsKeeps DEF TaggerNext
<1>6. CASE SearchNext  BY <1>6, QueryKeeps, CheckKeeps, ReadNeighborsKeeps DEF SearchNext
<1>7. CASE Crash  BY <1>7, CrashKeeps
<1>8. CASE UNCHANGED vars  BY <1>8, StutterKeeps
<1> QED  BY <1>1, <1>2, <1>3, <1>4, <1>5, <1>6, <1>7, <1>8 DEF Next

LEMMA IndexInvariant == Spec => []IndexInv
  BY InitIndexInv, NextIndexInv, PTL DEF Spec

(* The types of the state: rows and explanations are of fragments, the     *)
(* tasks are at the steps of their code.                                    *)
THEOREM IndexTypes == Spec => []TypeOK
<1>1. IndexInv => TypeOK  BY DEF IndexInv
<1> QED  BY <1>1, IndexInvariant, PTL

(* The index in force is in Qdrant and open to a search at any moment, a    *)
(* search that asks Qdrant and then the database finds one index whole or   *)
(* nothing, and when it asks for neighbours its sources are all of the      *)
(* index these come from or none is, whatever is replaced, erased or fails  *)
(* between its questions (Indexer._build, _finish, prune;                   *)
(* KnowledgeRetriever._search).                                             *)
THEOREM SearchFindsOneIndex == Spec => []IndexIsFound
<1>1. IndexInv => IndexIsFound
  BY DEF IndexInv, IndexIsFound, HitsAreWhole, SearchGivesOneIndex, Answer, Open
<1> QED  BY <1>1, IndexInvariant, PTL

(* An explanation that was saved is in the vector of its fragment, and a    *)
(* fragment without one has a job that will write it, unless that job was   *)
(* given up (Contextualizer._save, run; Indexer._finish).                   *)
THEOREM ContextsStay == Spec => []ContextsAreKept
<1>1. IndexInv => ContextsAreKept  BY DEF IndexInv
<1> QED  BY <1>1, IndexInvariant, PTL

(* The points carry the tags of the document, and no point stays beside the *)
(* index when no attempt runs (KbService.set_tags, Indexer.prune).          *)
THEOREM PointsFollowTheIndex == Spec => []PointsFitTheIndex
<1>1. IndexInv => TagsAgree  BY DEF IndexInv, TagsAgree, TagsAreSet
<1>2. IndexInv => CleanWhenIdle
  BY DEF IndexInv, TypeOK, CleanWhenIdle, LeavesNothing, Idle
<1>3. IndexInv => PointsFitTheIndex  BY <1>1, <1>2 DEF PointsFitTheIndex
<1> QED  BY <1>3, IndexInvariant, PTL

-----------------------------------------------------------------------------
(* Only a commit and an erasure change the index, and nothing but a commit  *)
(* opens a document to the search.                                          *)
LEMMA OpenChange ==
  ASSUME IndexInv, [Next]_vars, ~Commit, ~EraseCommit
  PROVE  rows' = rows /\ (Open' = Open \/ Open' = {})
<1> USE DEF Stored, Open, Live, IndexInv, TypeOK
<1>1. CASE RequestNext  BY <1>1 DEF RequestNext, Delete, Reindex, RequestReprocess
<1>2. CASE IndexerNext
  BY <1>2 DEF IndexerNext, Begin, Build, ReadCurrent, Prune, PruneFails, Stage, EnterFinish,
                PublishTags, PublishClear, Fail, Return
<1>3. CASE WriterNext
  BY <1>3 DEF WriterNext, TakePortion, SavePortion, UpdateVectors, CommitContexts, WriterFails
<1>4. CASE EraserNext  BY <1>4 DEF EraserNext, EraseLock, ErasePoints, EraserFails
<1>5. CASE TaggerNext  BY <1>5 DEF TaggerNext, TagLock, TagPoints, TagCommit, TagFails
<1>6. CASE SearchNext  BY <1>6 DEF SearchNext, Query, Check, ReadNeighbors
<1>7. CASE Crash  BY <1>7 DEF Crash
<1>8. CASE UNCHANGED vars  BY <1>8 DEF vars
<1> QED  BY <1>1, <1>2, <1>3, <1>4, <1>5, <1>6, <1>7, <1>8 DEF Next

(* The job and the document seen at a commit are those of the attempt: the  *)
(* lock is held from the look at the job on, so what was withdrawn replaces *)
(* nothing (Indexer._finish).                                               *)
LEMMA CommitIsOfTheJob ==
  ASSUME IndexInv, Commit
  PROVE  Live /\ indexer.mine /\ job = indexer.kind
<1>1. indexer.pc \in Held  BY DEF Commit, Held
<1>2. indexer.mine /\ job = indexer.kind  BY <1>1 DEF IndexInv, JobIsOfLive
<1>3. job # "none"  BY <1>2 DEF IndexInv, TypeOK
<1> QED  BY <1>2, <1>3 DEF IndexInv, JobIsOfLive

(* A job that was withdrawn while it ran, or whose document was deleted,     *)
(* replaces nothing (Indexer._finish).                                      *)
THEOREM ReplacementIsOfTheJob == Spec => WithdrawnReplacesNothing
<1> DEFINE Allowed == doc'.status = "gone" \/ (Live /\ job = indexer.kind /\ indexer.mine)
<1>1. IndexInv /\ [Next]_vars => [rows' # rows => Allowed]_vars
  <2> SUFFICES ASSUME IndexInv, [Next]_vars, rows' # rows PROVE Allowed  OBVIOUS
  <2>1. CASE Commit  BY <2>1, CommitIsOfTheJob
  <2>2. CASE EraseCommit  BY <2>2 DEF EraseCommit, IndexInv, TypeOK
  <2> QED  BY <2>1, <2>2, OpenChange
<1> QED  BY <1>1, IndexInvariant, PTL DEF Spec, WithdrawnReplacesNothing

-----------------------------------------------------------------------------
(* The refinement of KbShown. *)

LEMMA OpenIsShown ==
  ASSUME RowsAreActive, rows \subseteq Fragments
  PROVE  {f \in Open : Active(f)} = Open
  BY DEF RowsAreActive, Open

(* A commit replaces the index by a stock that has nothing in common with   *)
(* it, of a document that is then open.                                     *)
LEMMA CommitReplaces ==
  ASSUME IndexInv, Commit
  PROVE  /\ rows' = indexer.new /\ Open' = indexer.new
         /\ indexer.new # {} /\ indexer.new \intersect rows = {}
<1>1. Live /\ indexer.mine  BY CommitIsOfTheJob
<1>2. Live' /\ doc'.status = "ready"
  BY <1>1 DEF IndexInv, TypeOK, JobIsOfLive, Commit, Live
<1>3. rows' = indexer.new  BY DEF Commit
<1>4. indexer.new # {} /\ indexer.new \intersect rows = {}
  BY DEF IndexInv, StockIsNew, Building, Commit
<1> QED  BY <1>2, <1>3, <1>4 DEF Open

(* The whole of Qdrant, the database and the tasks of the worker show one    *)
(* index that is replaced in a single step: every step of theirs is a       *)
(* replacement, a withdrawal or an erasure of what is found, or shows no    *)
(* change at all (Indexer._finish, erase; VectorIndex.publish_document).    *)
THEOREM ShowsOneIndexAtATime == Spec => ShowsOneIndex
<1>1. Init => Shown!Init  BY DEF Init, Shown!Init, Open
<1>2. IndexInv /\ IndexInv' /\ [Next]_vars => [Shown!Next]_(Shown!vars)
  <2> SUFFICES ASSUME IndexInv, IndexInv', [Next]_vars PROVE [Shown!Next]_(Shown!vars)
    OBVIOUS
  <2>1. {f \in Open : Active(f)} = Open
    BY OpenIsShown DEF IndexInv, TypeOK
  <2>2. {f \in Open : Active(f)}' = Open'
    BY DEF IndexInv, TypeOK, RowsAreActive, Open
  <2>3. CASE Commit
    <3>1. indexer.new \in SUBSET Fragments  BY DEF IndexInv, TypeOK
    <3>2. Shown!Replace(indexer.new)  BY <2>2, <2>3, CommitReplaces DEF Shown!Replace
    <3> QED  BY <3>1, <3>2 DEF Shown!Next
  <2>4. CASE EraseCommit
    <3>1. rows' = {} /\ Open' = {}  BY <2>4 DEF EraseCommit, Open
    <3> QED  BY <2>2, <3>1 DEF Shown!Next, Shown!Erase
  <2>5. CASE ~Commit /\ ~EraseCommit
    <3>1. rows' = rows /\ (Open' = Open \/ Open' = {})  BY <2>5, OpenChange
    <3> QED  BY <2>1, <2>2, <3>1 DEF Shown!Next, Shown!Hide, Shown!vars
  <2> QED  BY <2>3, <2>4, <2>5
<1> QED  BY <1>1, <1>2, IndexInvariant, PTL DEF Spec, Shown!Spec, ShowsOneIndex

-----------------------------------------------------------------------------
(* The text of a page and its fragments.  First the helpers: the least and the greatest    *)
(* of a set of numbers, and what each step of the cutting finds.                           *)

LEMMA LeastIs ==
  ASSUME NEW S \in SUBSET Nat, S # {}
  PROVE  Sets!Min(S) \in S /\ \A y \in S : Sets!Min(S) <= y
<1>1. IsWellFoundedOn(OpToRel(<, Nat), Nat)  BY NatLessThanWellFounded
<1>2. PICK x \in S : \A y \in S : ~(<<y, x>> \in OpToRel(<, Nat))  BY <1>1, WFMin
<1>3. \A y \in S : ~(y < x)  BY <1>2 DEF OpToRel
<1>4. \A y \in S : x <= y  BY <1>3
<1> QED  BY <1>4 DEF Sets!Min

LEMMA GreatestIs ==
  ASSUME NEW S \in SUBSET Nat, S # {}, NEW b \in Nat, \A x \in S : x <= b
  PROVE  Sets!Max(S) \in S /\ \A y \in S : Sets!Max(S) >= y
<1> DEFINE T == {b - x : x \in S}
           t == Sets!Min(T)
<1>1. T \in SUBSET Nat /\ T # {}
  <2>1. \A x \in S : b - x \in Nat  OBVIOUS
  <2> QED  BY <2>1
<1> HIDE DEF T, t
<1>2. t \in T /\ \A y \in T : t <= y  BY <1>1, LeastIs DEF t
<1>3. PICK x \in S : t = b - x  BY <1>2 DEF T
<1>4. \A y \in S : x >= y  BY <1>2, <1>3 DEF T
<1> QED  BY <1>4 DEF Sets!Max

LEMMA FirstTextIs ==
  ASSUME NEW text \in Seq(Chars), NEW from \in 0..Len(text)
  PROVE  /\ FirstText(text, from) \in from..Len(text)
         /\ FirstText(text, from) = Len(text) \/ ~IsSpace(text, FirstText(text, from))
         /\ \A i \in from..FirstText(text, from) - 1 : IsSpace(text, i)
<1> DEFINE S == {i \in from..Len(text) : i = Len(text) \/ ~IsSpace(text, i)}
           s == Sets!Min(S)
<1>1. Len(text) \in Nat /\ S \in SUBSET Nat /\ Len(text) \in S  OBVIOUS
<1>2. FirstText(text, from) = s  BY DEF FirstText
<1> HIDE DEF s
<1>3. s \in S /\ \A y \in S : s <= y  BY <1>1, LeastIs DEF s
<1> QED  BY <1>1, <1>2, <1>3

(* The end of a fragment without the spaces before it. *)
LEMMA StrippedEndIs ==
  ASSUME NEW text \in Seq(Chars), NEW start \in 0..Len(text), NEW end \in start..Len(text)
  PROVE  /\ StrippedEnd(text, start, end) \in start..end
         /\ \A i \in StrippedEnd(text, start, end)..end - 1 : IsSpace(text, i)
         /\ StrippedEnd(text, start, end) > start
                => ~IsSpace(text, StrippedEnd(text, start, end) - 1)
<1> DEFINE S == {i \in start..end : Blank(text, i, end)}
           s == Sets!Min(S)
<1>1. Len(text) \in Nat /\ S \in SUBSET Nat /\ end \in S  BY DEF Blank
<1>2. StrippedEnd(text, start, end) = s  BY DEF StrippedEnd
<1> HIDE DEF s
<1>3. s \in S /\ \A y \in S : s <= y  BY <1>1, LeastIs DEF s
<1>4. s \in start..end /\ Blank(text, s, end)  BY <1>3
<1>5. ASSUME s > start, IsSpace(text, s - 1)
      PROVE  FALSE
  <2>1. Blank(text, s - 1, end)  BY <1>4, <1>5 DEF Blank
  <2>2. s - 1 \in S  BY <1>1, <1>4, <1>5, <2>1
  <2> QED  BY <1>1, <1>3, <1>4, <2>2
<1> QED  BY <1>1, <1>2, <1>4, <1>5 DEF Blank

(* A window is cut behind its first half, at a boundary or at its end. *)
LEMMA CutIs ==
  ASSUME NEW text \in Seq(Chars), NEW start \in 0..Len(text), NEW max \in Nat \ {0}
  PROVE  /\ Cut(text, start, max) \in start..Len(text)
         /\ start < Len(text) => Cut(text, start, max) > start
         /\ Cut(text, start, max) - start <= max
<1> DEFINE low == start + max \div 2
           hard == start + max
           found == Boundaries(text, low, hard)
           best == {k \in DOMAIN found : found[k] # {}}
<1>1. Len(text) \in Nat /\ low \in Nat /\ start <= low /\ hard \in Nat /\ start < hard
  OBVIOUS
<1>2. Cut(text, start, max) = IF hard >= Len(text) THEN Len(text)
                              ELSE IF best = {} THEN hard ELSE Sets!Max(found[Sets!Min(best)])
  BY DEF Cut
<1>3. DOMAIN found = 1..4 /\ \A k \in 1..4 : found[k] \in SUBSET (low + 1..hard)
  <2> HIDE DEF low, hard
  <2>1. /\ Paragraphs(text, low, hard) \in SUBSET (low + 1..hard)
        /\ Lines(text, low, hard) \in SUBSET (low + 1..hard)
        /\ Sentences(text, low, hard) \in SUBSET (low + 1..hard)
        /\ Spaces(text, low, hard) \in SUBSET (low + 1..hard)
    BY <1>1 DEF Paragraphs, Lines, Sentences, Spaces
  <2> QED  BY <2>1 DEF Boundaries
<1> HIDE DEF low, hard, found
<1>4. CASE hard < Len(text) /\ best # {}
  <2>1. best \in SUBSET Nat /\ best # {}  BY <1>3, <1>4
  <2> DEFINE least == Sets!Min(best)
             S == found[least]
  <2> HIDE DEF least
  <2>2. S \in SUBSET (low + 1..hard) /\ S # {}
    <3> HIDE DEF best
    <3>1. least \in best  BY <2>1, LeastIs DEF least
    <3> QED  BY <1>3, <3>1 DEF best
  <2> HIDE DEF S, best
  <2>3. S \in SUBSET Nat /\ \A x \in S : x <= hard  BY <1>1, <2>2
  <2>4. Sets!Max(S) \in S  BY <1>1, <2>2, <2>3, GreatestIs
  <2>5. Cut(text, start, max) = Sets!Max(S)  BY <1>1, <1>2, <1>4 DEF S, least
  <2>6. Cut(text, start, max) \in low + 1..hard  BY <2>2, <2>4, <2>5
  <2> QED  BY <1>1, <1>4, <2>6 DEF hard
<1>5. CASE ~(hard < Len(text) /\ best # {})
  BY <1>1, <1>2, <1>5 DEF hard
<1> QED  BY <1>4, <1>5

(* The next fragment is looked for behind the start of this one, within it, and at the     *)
(* start of a word unless it begins where this one ends.                                   *)
LEMMA NextStartIs ==
  ASSUME NEW text \in Seq(Chars), NEW start \in Nat, NEW end \in Nat, start < end,
         NEW overlap \in Nat
  PROVE  /\ NextStart(text, start, end, overlap) \in start + 1..end
         /\ \/ NextStart(text, start, end, overlap) = end
            \/ IsSpace(text, NextStart(text, start, end, overlap) - 1)
<1> DEFINE pair == {end - overlap, start + 1}
           later == Sets!Max(pair)
<1>1. later \in {end - overlap, start + 1} /\ later >= start + 1 /\ later <= end
  <2>1. \E x \in pair : \A y \in pair : x >= y
    BY DEF pair
  <2>2. later \in pair /\ \A y \in pair : later >= y  BY <2>1 DEF Sets!Max
  <2> QED  BY <2>2
<1> HIDE DEF later
<1> DEFINE S == {p \in later..end : p = end \/ IsSpace(text, p - 1)}
           s == Sets!Min(S)
<1>2. S \in SUBSET Nat /\ end \in S  BY <1>1
<1>3. NextStart(text, start, end, overlap) = s  BY DEF NextStart, later
<1> HIDE DEF s
<1>4. s \in S  BY <1>2, LeastIs DEF s
<1> QED  BY <1>1, <1>3, <1>4

-----------------------------------------------------------------------------
(* The recursion of SplitPage is one: from the end of the text to its beginning.          *)

CutFrom(text, max, from) == Cut(text, FirstText(text, from), max)
NextFrom(text, max, overlap, from) ==
    NextStart(text, FirstText(text, from), CutFrom(text, max, from), overlap)
SpanFrom(text, max, from) ==
    [start |-> FirstText(text, from),
     end |-> StrippedEnd(text, FirstText(text, from), CutFrom(text, max, from))]
SpansFrom(text, max, overlap, spans, from) ==
    LET span == IF SpanFrom(text, max, from).end > SpanFrom(text, max, from).start
                THEN <<SpanFrom(text, max, from)>> ELSE <<>>
    IN  IF from = Len(text) THEN <<>>
        ELSE IF CutFrom(text, max, from) >= Len(text) THEN span
        ELSE span \o spans[NextFrom(text, max, overlap, from)]

(* The spans from every place not before k on. *)
Splits(text, max, overlap, spans, k) ==
    spans = [from \in k..Len(text) |-> SpansFrom(text, max, overlap, spans, from)]
CanBeSplit(text, max, overlap, k) == \E spans : Splits(text, max, overlap, spans, k)

LEMMA CutFromIs ==
  ASSUME NEW text \in Seq(Chars), NEW max \in Nat \ {0}, NEW from \in 0..Len(text)
  PROVE  /\ FirstText(text, from) \in from..Len(text)
         /\ CutFrom(text, max, from) \in FirstText(text, from)..Len(text)
         /\ FirstText(text, from) < Len(text)
                => CutFrom(text, max, from) > FirstText(text, from)
         /\ CutFrom(text, max, from) - FirstText(text, from) <= max
<1> DEFINE start == FirstText(text, from)
<1>1. Len(text) \in Nat /\ start \in from..Len(text)  BY FirstTextIs
<1> HIDE DEF start
<1>2. start \in 0..Len(text)  BY <1>1
<1>3. /\ Cut(text, start, max) \in start..Len(text)
      /\ start < Len(text) => Cut(text, start, max) > start
      /\ Cut(text, start, max) - start <= max
  BY <1>2, CutIs
<1> QED  BY <1>1, <1>3 DEF CutFrom, start

LEMMA NextIsAhead ==
  ASSUME NEW text \in Seq(Chars), NEW max \in Nat \ {0}, NEW overlap \in Nat,
         NEW from \in 0..Len(text), CutFrom(text, max, from) < Len(text)
  PROVE  /\ FirstText(text, from) \in from..CutFrom(text, max, from) - 1
         /\ NextFrom(text, max, overlap, from)
                \in FirstText(text, from) + 1..CutFrom(text, max, from)
         /\ \/ NextFrom(text, max, overlap, from) = CutFrom(text, max, from)
            \/ IsSpace(text, NextFrom(text, max, overlap, from) - 1)
<1> DEFINE start == FirstText(text, from)
           end == CutFrom(text, max, from)
<1>1. /\ Len(text) \in Nat /\ start \in from..Len(text) /\ end \in start..Len(text)
      /\ start < Len(text) => end > start
  BY CutFromIs
<1>2. end < Len(text)  OBVIOUS
<1> HIDE DEF start, end
<1>3. start \in Nat /\ end \in Nat /\ start < end /\ start \in from..end - 1
  BY <1>1, <1>2
<1>4. /\ NextStart(text, start, end, overlap) \in start + 1..end
      /\ \/ NextStart(text, start, end, overlap) = end
         \/ IsSpace(text, NextStart(text, start, end, overlap) - 1)
  BY <1>3, NextStartIs
<1>5. NextStart(text, start, end, overlap) = NextFrom(text, max, overlap, from)
  BY DEF NextFrom, start, end
<1>6. /\ NextFrom(text, max, overlap, from) \in start + 1..end
      /\ \/ NextFrom(text, max, overlap, from) = end
         \/ IsSpace(text, NextFrom(text, max, overlap, from) - 1)
  BY <1>4, <1>5
<1> QED  BY <1>3, <1>6 DEF start, end

LEMMA NextIsLater ==
  ASSUME NEW text \in Seq(Chars), NEW max \in Nat \ {0}, NEW overlap \in Nat,
         NEW from \in 0..Len(text), CutFrom(text, max, from) < Len(text)
  PROVE  NextFrom(text, max, overlap, from) \in from + 1..Len(text)
<1> DEFINE start == FirstText(text, from)
           end == CutFrom(text, max, from)
           next == NextFrom(text, max, overlap, from)
<1>1. Len(text) \in Nat /\ start \in from..Len(text) /\ end \in start..Len(text)
  BY CutFromIs
<1>2. next \in start + 1..end  BY NextIsAhead
<1> HIDE DEF start, end, next
<1>3. next \in from + 1..Len(text)  BY <1>1, <1>2
<1> QED  BY <1>3 DEF next

LEMMA SplitsOneMore ==
  ASSUME NEW text \in Seq(Chars), NEW max \in Nat \ {0}, NEW overlap \in Nat,
         NEW k \in 0..Len(text) - 1, CanBeSplit(text, max, overlap, k + 1)
  PROVE  CanBeSplit(text, max, overlap, k)
<1>1. PICK spans : Splits(text, max, overlap, spans, k + 1)  BY DEF CanBeSplit
<1> DEFINE S(g, from) == SpansFrom(text, max, overlap, g, from)
           more == [from \in k..Len(text) |-> IF from = k THEN S(spans, k) ELSE spans[from]]
<1>2. Len(text) \in Nat  OBVIOUS
<1>3. ASSUME NEW from \in k..Len(text)
      PROVE  S(more, from) = S(spans, from)
  <2> DEFINE end == CutFrom(text, max, from)
             next == NextFrom(text, max, overlap, from)
  <2>1. from \in 0..Len(text)  BY <1>2
  <2>2. end \in Nat
    <3>1. FirstText(text, from) \in from..Len(text) /\ end \in FirstText(text, from)..Len(text)
      BY <2>1, CutFromIs
    <3> HIDE DEF end
    <3> QED  BY <1>2, <2>1, <3>1
  <2>3. CASE from # Len(text) /\ end < Len(text)
    <3>1. next \in from + 1..Len(text)  BY <2>1, <2>3, NextIsLater
    <3> HIDE DEF next
    <3>2. more[next] = spans[next]  BY <1>2, <3>1
    <3> HIDE DEF more
    <3> QED  BY <3>2 DEF SpansFrom, next
  <2>4. CASE from = Len(text)
    <3> HIDE DEF more
    <3> QED  BY <2>4 DEF SpansFrom
  <2>5. CASE ~(end < Len(text))
    <3>1. end >= Len(text)  BY <1>2, <2>2, <2>5
    <3> HIDE DEF more
    <3> QED  BY <3>1 DEF SpansFrom
  <2> QED  BY <2>3, <2>4, <2>5
<1>4. ASSUME NEW from \in k..Len(text)
      PROVE  more[from] = S(spans, from)
  <2>1. CASE from = k  BY <2>1
  <2>2. CASE from # k
    <3>1. from \in k + 1..Len(text)  BY <1>2, <2>2
    <3>2. spans[from] = S(spans, from)
      <4> HIDE DEF S
      <4>1. spans = [g \in k + 1..Len(text) |-> S(spans, g)]  BY <1>1 DEF Splits, S
      <4> QED  BY <3>1, <4>1
    <3>3. more[from] = spans[from]  BY <2>2
    <3> QED  BY <3>2, <3>3
  <2> QED  BY <2>1, <2>2
<1>5. more = [from \in k..Len(text) |-> S(more, from)]
  <2>1. \A from \in k..Len(text) : more[from] = S(more, from)  BY <1>3, <1>4
  <2>2. more = [from \in k..Len(text) |-> more[from]]  OBVIOUS
  <2> HIDE DEF more, S
  <2> QED  BY <2>1, <2>2
<1>6. Splits(text, max, overlap, more, k)  BY <1>5 DEF Splits
<1> QED  BY <1>6 DEF CanBeSplit

LEMMA SplitsAll ==
  ASSUME NEW text \in Seq(Chars), NEW max \in Nat \ {0}, NEW overlap \in Nat
  PROVE  CanBeSplit(text, max, overlap, 0)
<1> DEFINE Unsplit == {n \in 0..Len(text) : ~CanBeSplit(text, max, overlap, Len(text) - n)}
<1>1. Len(text) \in Nat  OBVIOUS
<1>2. CanBeSplit(text, max, overlap, Len(text))
  <2> DEFINE none == [from \in Len(text)..Len(text) |-> <<>>]
             S(from) == SpansFrom(text, max, overlap, none, from)
  <2>1. \A from \in Len(text)..Len(text) : S(from) = <<>>
    <3> HIDE DEF none
    <3>1. S(Len(text)) = <<>>  BY DEF SpansFrom
    <3> QED  BY <1>1, <3>1
  <2> HIDE DEF S
  <2>2. none = [from \in Len(text)..Len(text) |-> S(from)]
    BY <2>1
  <2>3. Splits(text, max, overlap, none, Len(text))  BY <2>2 DEF Splits, S
  <2> QED  BY <2>3 DEF CanBeSplit
<1>3. ASSUME Unsplit # {}
      PROVE  FALSE
  <2> DEFINE n == Sets!Min(Unsplit)
  <2>1. Unsplit \in SUBSET Nat  BY <1>1
  <2> HIDE DEF n, Unsplit
  <2>2. n \in Unsplit /\ \A m \in Unsplit : n <= m  BY <1>3, <2>1, LeastIs DEF n
  <2>3. n \in 0..Len(text) /\ ~CanBeSplit(text, max, overlap, Len(text) - n)
    BY <2>2 DEF Unsplit
  <2>4. n # 0
    <3>1. ASSUME n = 0 PROVE FALSE
      <4>1. Len(text) - n = Len(text)  BY <1>1, <3>1
      <4> QED  BY <1>2, <2>3, <4>1
    <3> QED  BY <3>1
  <2>5. n - 1 \in 0..Len(text) /\ n - 1 \notin Unsplit  BY <1>1, <2>2, <2>3, <2>4
  <2>6. CanBeSplit(text, max, overlap, Len(text) - (n - 1))  BY <2>5 DEF Unsplit
  <2>7. Len(text) - n \in 0..Len(text) - 1 /\ Len(text) - (n - 1) = (Len(text) - n) + 1
    BY <1>1, <2>3, <2>4
  <2>8. CanBeSplit(text, max, overlap, (Len(text) - n) + 1)  BY <2>6, <2>7
  <2>9. CanBeSplit(text, max, overlap, Len(text) - n)  BY <2>7, <2>8, SplitsOneMore
  <2> QED  BY <2>3, <2>9
<1>4. Len(text) \in 0..Len(text) /\ Len(text) \notin Unsplit  BY <1>1, <1>3
<1>5. CanBeSplit(text, max, overlap, Len(text) - Len(text))  BY <1>4
<1>6. Len(text) - Len(text) = 0  BY <1>1
<1> QED  BY <1>5, <1>6

(* What SplitPage returns is the spans from the start of the page on. *)
LEMMA SplitPageIs ==
  ASSUME NEW text \in Seq(Chars), NEW max \in Nat \ {0}, NEW overlap \in Nat
  PROVE  \E spans : /\ Splits(text, max, overlap, spans, 0)
                    /\ SplitPage(text, max, overlap) = spans[0]
<1> DEFINE chosen == CHOOSE g : Splits(text, max, overlap, g, 0)
<1>1. Splits(text, max, overlap, chosen, 0)
  <2>1. \E g : Splits(text, max, overlap, g, 0)  BY SplitsAll DEF CanBeSplit
  <2> QED  BY <2>1
<1>2. SplitPage(text, max, overlap) = chosen[0]
  BY DEF SplitPage, Splits, SpansFrom, SpanFrom, CutFrom, NextFrom
<1> QED  BY <1>1, <1>2

-----------------------------------------------------------------------------
(* What the fragments from a place on are: of what the rest of the page holds they leave   *)
(* out spaces only, and the first of them begins where the rest of the text does.          *)

Span == [start : Nat, end : Nat]
RestIsCovered(text, spans, from) ==
    \A i \in from..Len(text) - 1 :
      IsSpace(text, i) \/ \E n \in DOMAIN spans : spans[n].start <= i /\ i < spans[n].end
SpanIsTrim(text, max, span) ==
    /\ span.start < span.end /\ span.end - span.start <= max
    /\ ~IsSpace(text, span.start) /\ ~IsSpace(text, span.end - 1)
FollowsOn(text, former, span) ==
    /\ former.start < span.start
    /\ IsSpace(text, span.start - 1) \/ former.end = span.start
FitFrom(text, max, spans, from) ==
    /\ spans \in Seq(Span)
    /\ RestIsCovered(text, spans, from)
    /\ \A n \in DOMAIN spans : SpanIsTrim(text, max, spans[n])
    /\ \A n \in DOMAIN spans : n > 1 => FollowsOn(text, spans[n - 1], spans[n])
    /\ spans # <<>> => spans[1].start = FirstText(text, from)

(* The fragment cut at a place, when text is left there. *)
LEMMA SpanFromIs ==
  ASSUME NEW text \in Seq(Chars), NEW max \in Nat \ {0}, NEW from \in 0..Len(text),
         FirstText(text, from) < Len(text)
  PROVE  LET span == SpanFrom(text, max, from) IN
         /\ span \in Span /\ span.start = FirstText(text, from)
         /\ span.end <= CutFrom(text, max, from)
         /\ SpanIsTrim(text, max, span)
         /\ \A i \in span.end..CutFrom(text, max, from) - 1 : IsSpace(text, i)
<1> DEFINE start == FirstText(text, from)
           end == CutFrom(text, max, from)
           stripped == StrippedEnd(text, start, end)
           span == SpanFrom(text, max, from)
<1>1. /\ Len(text) \in Nat /\ start \in from..Len(text) /\ end \in start..Len(text)
      /\ end > start /\ end - start <= max
  <2>1. /\ start \in from..Len(text) /\ end \in start..Len(text)
        /\ start < Len(text) => end > start
        /\ end - start <= max
    BY CutFromIs
  <2>2. start < Len(text)  OBVIOUS
  <2> HIDE DEF start, end
  <2> QED  BY <2>1, <2>2
<1>2. ~IsSpace(text, start)
  <2>1. start = Len(text) \/ ~IsSpace(text, start)  BY FirstTextIs
  <2> QED  BY <1>1, <2>1
<1>3. span = [start |-> start, end |-> stripped]  BY DEF SpanFrom
<1> HIDE DEF start, end
<1>4. start \in 0..Len(text)  BY <1>1
<1>5. /\ stripped \in start..end
      /\ \A i \in stripped..end - 1 : IsSpace(text, i)
      /\ stripped > start => ~IsSpace(text, stripped - 1)
  BY <1>1, <1>4, StrippedEndIs
<1> HIDE DEF stripped, span
<1>6. stripped # start
  <2>1. ASSUME stripped = start PROVE FALSE
    <3>1. start \in stripped..end - 1  BY <1>1, <2>1
    <3> QED  BY <1>2, <1>5, <3>1
  <2> QED  BY <2>1
<1>7. stripped \in Nat /\ stripped > start  BY <1>1, <1>5, <1>6
<1>8. span \in Span /\ span.start = start /\ span.end = stripped
  BY <1>1, <1>3, <1>7 DEF Span
<1>9. SpanIsTrim(text, max, span)
  <2>1. stripped - start <= max  BY <1>1, <1>5, <1>7
  <2> QED  BY <1>2, <1>5, <1>7, <1>8, <2>1 DEF SpanIsTrim
<1>10. /\ span.end <= end
       /\ \A i \in span.end..end - 1 : IsSpace(text, i)
  BY <1>1, <1>5, <1>8
<1> QED  BY <1>8, <1>9, <1>10 DEF start, end, span

(* A fragment before those that fit the rest. *)
LEMMA SpanBefore ==
  ASSUME NEW text \in Seq(Chars), NEW max \in Nat \ {0}, NEW from \in 0..Len(text),
         NEW next \in from + 1..Len(text), NEW rest, FitFrom(text, max, rest, next),
         NEW span \in Span, span.start = FirstText(text, from), SpanIsTrim(text, max, span),
         span.start < next,
         NEW cut \in Nat, span.end <= cut, next <= cut,
         \A i \in span.end..cut - 1 : IsSpace(text, i),
         next = cut \/ IsSpace(text, next - 1)
  PROVE  FitFrom(text, max, <<span>> \o rest, from)
<1> DEFINE spans == <<span>> \o rest
<1>1. /\ Len(text) \in Nat /\ from \in Nat /\ next \in Nat
      /\ span.start \in Nat /\ span.end \in Nat
  BY DEF Span
<1>2. rest \in Seq(Span)  BY DEF FitFrom
<1>3. /\ spans \in Seq(Span) /\ Len(spans) = Len(rest) + 1
      /\ spans[1] = span
      /\ \A n \in 1..Len(rest) : spans[n + 1] = rest[n]
  BY <1>2
<1>4. DOMAIN spans = 1..Len(rest) + 1 /\ DOMAIN rest = 1..Len(rest) /\ Len(rest) \in Nat
  BY <1>2, <1>3
<1> HIDE DEF spans
<1>5. RestIsCovered(text, spans, from)
  <2> SUFFICES ASSUME NEW i \in from..Len(text) - 1, ~IsSpace(text, i)
               PROVE  \E n \in DOMAIN spans : spans[n].start <= i /\ i < spans[n].end
    BY DEF RestIsCovered
  <2>1. \A j \in from..span.start - 1 : IsSpace(text, j)  BY FirstTextIs
  <2>2. span.start <= i  BY <1>1, <2>1
  <2>3. CASE i < span.end  BY <1>3, <1>4, <2>2, <2>3
  <2>4. CASE i >= span.end
    <3>1. i >= cut  BY <1>1, <2>4
    <3>2. i \in next..Len(text) - 1  BY <1>1, <3>1
    <3>3. PICK n \in DOMAIN rest : rest[n].start <= i /\ i < rest[n].end
      BY <3>2 DEF FitFrom, RestIsCovered
    <3>4. n + 1 \in DOMAIN spans /\ spans[n + 1] = rest[n]  BY <1>3, <1>4, <3>3
    <3> QED  BY <3>3, <3>4
  <2> QED  BY <1>1, <2>3, <2>4
<1>6. \A n \in DOMAIN spans : SpanIsTrim(text, max, spans[n])
  <2> SUFFICES ASSUME NEW n \in DOMAIN spans
               PROVE  SpanIsTrim(text, max, spans[n])
    OBVIOUS
  <2>1. CASE n = 1  BY <1>3, <2>1
  <2>2. CASE n # 1
    <3>1. n - 1 \in DOMAIN rest /\ spans[n] = rest[n - 1]  BY <1>3, <1>4, <2>2
    <3> QED  BY <3>1 DEF FitFrom
  <2> QED  BY <2>1, <2>2
<1>7. \A n \in DOMAIN spans : n > 1 => FollowsOn(text, spans[n - 1], spans[n])
  <2> SUFFICES ASSUME NEW n \in DOMAIN spans, n > 1
               PROVE  FollowsOn(text, spans[n - 1], spans[n])
    OBVIOUS
  <2>1. n - 1 \in DOMAIN rest /\ spans[n] = rest[n - 1] /\ n \in Nat  BY <1>3, <1>4
  <2>2. CASE n = 2
    <3>1. rest # <<>> /\ spans[n - 1] = span /\ spans[n] = rest[1]
      BY <1>2, <1>3, <1>4, <2>1, <2>2
    <3> DEFINE first == FirstText(text, next)
    <3>2. rest[1].start = first  BY <3>1 DEF FitFrom
    <3>3. next \in 0..Len(text)  BY <1>1
    <3>4. first \in next..Len(text) /\ \A j \in next..first - 1 : IsSpace(text, j)
      BY <3>3, FirstTextIs
    <3> HIDE DEF first
    <3>5. span.start < first  BY <1>1, <3>4
    <3>6. IsSpace(text, first - 1) \/ span.end = first
      <4>1. CASE first > next
        <5>1. first - 1 \in next..first - 1  BY <1>1, <3>4, <4>1
        <5> QED  BY <3>4, <5>1
      <4>2. CASE first = next /\ next = cut /\ span.end < cut
        <5>1. first - 1 \in span.end..cut - 1  BY <1>1, <3>4, <4>2
        <5> QED  BY <5>1
      <4>3. CASE first = next /\ next = cut /\ ~(span.end < cut)
        <5>1. span.end = first  BY <1>1, <4>3
        <5> QED  BY <5>1
      <4>4. CASE first = next /\ IsSpace(text, next - 1)  BY <4>4
      <4> QED  BY <1>1, <3>4, <4>1, <4>2, <4>3, <4>4
    <3> QED  BY <3>1, <3>2, <3>5, <3>6 DEF FollowsOn
  <2>3. CASE n # 2
    <3>1. n - 2 \in DOMAIN rest /\ n - 1 > 1 /\ (n - 1) - 1 = n - 2
      BY <1>4, <2>1, <2>3
    <3>2. spans[n - 1] = rest[n - 2]
      <4>1. (n - 2) + 1 = n - 1  BY <2>1
      <4> QED  BY <1>3, <1>4, <3>1, <4>1
    <3>3. FollowsOn(text, rest[n - 2], rest[n - 1])  BY <2>1, <3>1 DEF FitFrom
    <3> QED  BY <2>1, <3>2, <3>3
  <2> QED  BY <2>2, <2>3
<1>8. spans[1].start = FirstText(text, from)  BY <1>3
<1> QED  BY <1>3, <1>5, <1>6, <1>7, <1>8 DEF FitFrom, spans

LEMMA FitsOneMore ==
  ASSUME NEW text \in Seq(Chars), NEW max \in Nat \ {0}, NEW overlap \in Nat,
         NEW spans, Splits(text, max, overlap, spans, 0),
         NEW from \in 0..Len(text),
         \A g \in from + 1..Len(text) : FitFrom(text, max, spans[g], g)
  PROVE  FitFrom(text, max, spans[from], from)
<1> DEFINE start == FirstText(text, from)
           end == CutFrom(text, max, from)
           next == NextFrom(text, max, overlap, from)
           span == SpanFrom(text, max, from)
<1>1. /\ Len(text) \in Nat /\ start \in from..Len(text) /\ end \in start..Len(text)
      /\ start < Len(text) => end > start
  BY CutFromIs
<1>2. spans[from] = SpansFrom(text, max, overlap, spans, from)
  <2> DEFINE S(g) == SpansFrom(text, max, overlap, spans, g)
  <2>1. spans = [g \in 0..Len(text) |-> S(g)]  BY DEF Splits
  <2> HIDE DEF S
  <2>2. spans[from] = S(from)  BY <2>1
  <2> QED  BY <2>2 DEF S
<1>3. FirstText(text, from) = start /\ CutFrom(text, max, from) = end
  OBVIOUS
<1>4. \A i \in from..start - 1 : IsSpace(text, i)  BY FirstTextIs
<1>5. start < Len(text) =>
        /\ span \in Span /\ span.start = start /\ span.end <= end
        /\ SpanIsTrim(text, max, span)
        /\ \A i \in span.end..end - 1 : IsSpace(text, i)
  BY SpanFromIs
<1>6. spans[from] =
        IF from = Len(text) THEN <<>>
        ELSE IF end >= Len(text) THEN (IF span.end > span.start THEN <<span>> ELSE <<>>)
        ELSE (IF span.end > span.start THEN <<span>> ELSE <<>>) \o spans[next]
  BY <1>2 DEF SpansFrom
<1>7. end < Len(text) => next \in from + 1..Len(text) /\ start < next /\ next <= end
                         /\ (next = end \/ IsSpace(text, next - 1))
  <2> SUFFICES ASSUME end < Len(text)
               PROVE  next \in from + 1..Len(text) /\ start < next /\ next <= end
                      /\ (next = end \/ IsSpace(text, next - 1))
    OBVIOUS
  <2>1. next \in start + 1..end /\ (next = end \/ IsSpace(text, next - 1))
    BY NextIsAhead
  <2>2. next \in from + 1..Len(text)  BY NextIsLater
  <2> HIDE DEF start, end, next
  <2> QED  BY <1>1, <2>1, <2>2
<1>8. CASE start = Len(text)
  <2>1. end = Len(text)
    <3> HIDE DEF start, end
    <3> QED  BY <1>1, <1>8
  <2>2. ~(span.end > span.start)
    <3>1. span = [start |-> start, end |-> StrippedEnd(text, start, end)]
      BY DEF SpanFrom
    <3> HIDE DEF start, end, span
    <3>2. StrippedEnd(text, start, end) \in start..end  BY <1>1, <1>8, <2>1, StrippedEndIs
    <3> QED  BY <1>1, <1>8, <2>1, <3>1, <3>2
  <2> HIDE DEF start, end, span
  <2>3. spans[from] = <<>>  BY <1>1, <1>6, <2>1, <2>2
  <2>4. RestIsCovered(text, <<>>, from)  BY <1>4, <1>8 DEF RestIsCovered
  <2> QED  BY <2>3, <2>4 DEF FitFrom
<1>9. CASE start < Len(text) /\ end = Len(text)
  <2> DEFINE one == <<span>>
  <2>1. span \in Span /\ span.start = start /\ SpanIsTrim(text, max, span)
        /\ span.start \in Nat /\ span.end \in Nat /\ span.end > span.start
    BY <1>5, <1>9 DEF Span, SpanIsTrim
  <2>2. \A i \in span.end..Len(text) - 1 : IsSpace(text, i)  BY <1>5, <1>9
  <2>3. FirstText(text, from) = start  OBVIOUS
  <2> HIDE DEF start, end, span
  <2>4. spans[from] = one  BY <1>1, <1>6, <1>9, <2>1
  <2>5. one \in Seq(Span) /\ DOMAIN one = {1} /\ one[1] = span  BY <2>1
  <2> HIDE DEF one
  <2>6. RestIsCovered(text, one, from)
    <3> SUFFICES ASSUME NEW i \in from..Len(text) - 1, ~IsSpace(text, i)
                 PROVE  \E n \in DOMAIN one : one[n].start <= i /\ i < one[n].end
      BY DEF RestIsCovered
    <3>1. start <= i /\ i < span.end  BY <1>1, <1>4, <2>1, <2>2
    <3> QED  BY <2>1, <2>5, <3>1
  <2>7. \A n \in DOMAIN one : SpanIsTrim(text, max, one[n])  BY <2>1, <2>5
  <2>8. \A n \in DOMAIN one : n > 1 => FollowsOn(text, one[n - 1], one[n])  BY <2>5
  <2>9. one[1].start = FirstText(text, from)  BY <2>1, <2>3, <2>5
  <2> QED  BY <2>4, <2>5, <2>6, <2>7, <2>8, <2>9 DEF FitFrom
<1>10. CASE end < Len(text)
  <2>1. start < Len(text)
    <3> HIDE DEF start, end
    <3> QED  BY <1>1, <1>10
  <2>2. next \in from + 1..Len(text) /\ start < next /\ next <= end
        /\ (next = end \/ IsSpace(text, next - 1))
    BY <1>7, <1>10
  <2>3. /\ span \in Span /\ span.start = start /\ span.end <= end
        /\ SpanIsTrim(text, max, span)
        /\ \A i \in span.end..end - 1 : IsSpace(text, i)
    BY <1>5, <2>1
  <2>4. span.end > span.start  BY <2>3 DEF Span, SpanIsTrim
  <2>5. FirstText(text, from) = start  OBVIOUS
  <2> HIDE DEF start, end, next, span
  <2>6. spans[from] = <<span>> \o spans[next]
    BY <1>1, <1>6, <1>10, <2>1, <2>4
  <2>7. FitFrom(text, max, spans[next], next)  BY <2>2
  <2>8. end \in Nat  BY <1>1
  <2>9. FitFrom(text, max, <<span>> \o spans[next], from)
    BY <2>2, <2>3, <2>5, <2>7, <2>8, SpanBefore
  <2> QED  BY <2>6, <2>9
<1> HIDE DEF start, end, next, span
<1> QED  BY <1>1, <1>8, <1>9, <1>10

LEMMA AllFit ==
  ASSUME NEW text \in Seq(Chars), NEW max \in Nat \ {0}, NEW overlap \in Nat,
         NEW spans, Splits(text, max, overlap, spans, 0)
  PROVE  FitFrom(text, max, spans[0], 0)
<1> DEFINE Bad == {n \in 0..Len(text) :
                     ~FitFrom(text, max, spans[Len(text) - n], Len(text) - n)}
<1>1. Len(text) \in Nat  OBVIOUS
<1>2. ASSUME Bad # {}
      PROVE  FALSE
  <2> DEFINE n == Sets!Min(Bad)
             from == Len(text) - n
  <2>1. Bad \in SUBSET Nat  BY <1>1
  <2> HIDE DEF n, Bad
  <2>2. n \in Bad /\ \A m \in Bad : n <= m  BY <1>2, <2>1, LeastIs DEF n
  <2>3. n \in 0..Len(text) /\ ~FitFrom(text, max, spans[from], from)
    BY <2>2 DEF Bad
  <2>4. from \in 0..Len(text)  BY <1>1, <2>3
  <2>5. ASSUME NEW g \in from + 1..Len(text)
        PROVE  FitFrom(text, max, spans[g], g)
    <3>1. /\ Len(text) - g \in 0..Len(text) /\ Len(text) - g < n
          /\ Len(text) - (Len(text) - g) = g
      BY <1>1, <2>3
    <3>2. Len(text) - g \notin Bad  BY <1>1, <2>2, <2>3, <3>1
    <3>3. FitFrom(text, max, spans[Len(text) - (Len(text) - g)], Len(text) - (Len(text) - g))
      BY <3>1, <3>2 DEF Bad
    <3> QED  BY <3>1, <3>3
  <2> HIDE DEF from
  <2>6. FitFrom(text, max, spans[from], from)  BY <2>4, <2>5, FitsOneMore
  <2> QED  BY <2>3, <2>6
<1>3. Len(text) \in 0..Len(text) /\ Len(text) \notin Bad  BY <1>1, <1>2
<1>4. FitFrom(text, max, spans[Len(text) - Len(text)], Len(text) - Len(text))  BY <1>3
<1>5. Len(text) - Len(text) = 0  BY <1>1
<1> QED  BY <1>4, <1>5

(* For texts of every length and every limit: however windows, overlaps and boundaries     *)
(* meet, the fragments of a page leave out spaces only, are within the limit and without   *)
(* spaces at their edges, and each begins later than the former one (kb/chunking.py).      *)
THEOREM SplitsKeepAll == SplitKeepsAll
<1> SUFFICES ASSUME NEW text \in Seqs!BoundedSeq(Chars, TextLength), NEW max \in MaxChars,
                    NEW overlap \in 0..max \div 2
             PROVE  LET spans == SplitPage(text, max, overlap)
                        Covered(i) == \E n \in DOMAIN spans :
                                        spans[n].start <= i /\ i < spans[n].end
                    IN  /\ \A i \in 0..Len(text) - 1 : IsSpace(text, i) \/ Covered(i)
                        /\ \A n \in DOMAIN spans :
                             LET start == spans[n].start end == spans[n].end
                             IN  /\ start < end /\ end - start <= max
                                 /\ ~IsSpace(text, start) /\ ~IsSpace(text, end - 1)
                                 /\ n > 1 =>
                                      /\ spans[n - 1].start < start
                                      /\ IsSpace(text, start - 1) \/ spans[n - 1].end = start
  BY DEF SplitKeepsAll
<1>1. text \in Seq(Chars)
  <2>1. PICK m \in 0..TextLength : text \in [1..m -> Chars]
    BY LimitsAssumption DEF Seqs!BoundedSeq, Seqs!SeqOf
  <2> QED  BY <2>1
<1>2. max \in Nat \ {0} /\ overlap \in Nat  BY LimitsAssumption
<1>3. PICK spans : /\ Splits(text, max, overlap, spans, 0)
                   /\ SplitPage(text, max, overlap) = spans[0]
  BY <1>1, <1>2, SplitPageIs
<1>4. FitFrom(text, max, SplitPage(text, max, overlap), 0)
  BY <1>1, <1>2, <1>3, AllFit
<1> QED  BY <1>4 DEF FitFrom, RestIsCovered, SpanIsTrim, FollowsOn

-----------------------------------------------------------------------------
(* What a search has found and the texts around it.  The sources: the most of what was     *)
(* found that fits.                                                                        *)
LEMMA RankingIs ==
  ASSUME NEW content \in Contents, NEW found \in Rankings(content)
  PROVE  /\ found \in Seq(Spots) /\ Len(found) \in Nat
         /\ \A i, j \in 1..Len(found) : found[i] = found[j] => i = j
<1>1. PICK m \in 0..Found : found \in [1..m -> {p \in Spots : content[p] # "none"}]
  BY NumbersAssumption DEF Rankings, Lists!BoundedSeq, Lists!SeqOf
<1>2. found \in Seq(Spots)  BY <1>1, NumbersAssumption
<1> QED  BY <1>2 DEF Rankings

LEMMA SourcesAre ==
  ASSUME NEW content, NEW found \in Seq(Spots), NEW budget
  PROVE  LET sources == FitSources(content, found, budget)
             n == Len(sources)
         IN  /\ n \in 0..Len(found) /\ sources = SubSeq(found, 1, n)
             /\ n = 0 \/ Fits(content, Alone(sources), budget)
             /\ n < Len(found) => ~Fits(content, Alone(SubSeq(found, 1, n + 1)), budget)
<1> DEFINE EachFits(n) == \A m \in 1..n : Fits(content, Alone(SubSeq(found, 1, m)), budget)
           S == {n \in 0..Len(found) : EachFits(n)}
           n == Order!Max(S)
<1>1. Len(found) \in Nat  OBVIOUS
<1>2. FitSources(content, found, budget) = SubSeq(found, 1, n)  BY DEF FitSources
<1>3. n \in S /\ \A k \in S : n >= k
  <2>1. S \in SUBSET Nat /\ \A k \in S : k <= Len(found)  BY <1>1
  <2>2. 0 \in S  BY <1>1
  <2>3. Sets!Max(S) = Order!Max(S)  BY DEF Sets!Max, Order!Max
  <2> HIDE DEF S
  <2> QED  BY <1>1, <2>1, <2>2, <2>3, GreatestIs
<1> HIDE DEF n
<1>4. n \in 0..Len(found) /\ EachFits(n)  BY <1>3
<1>5. Len(SubSeq(found, 1, n)) = n  BY <1>1, <1>4
<1>6. n = 0 \/ Fits(content, Alone(SubSeq(found, 1, n)), budget)  BY <1>4
<1>7. ASSUME n < Len(found)
      PROVE  ~Fits(content, Alone(SubSeq(found, 1, n + 1)), budget)
  <2>1. n + 1 \in 0..Len(found) /\ n + 1 \notin S  BY <1>1, <1>3, <1>4, <1>7
  <2>2. ~EachFits(n + 1)  BY <2>1
  <2>3. PICK m \in 1..n + 1 : ~Fits(content, Alone(SubSeq(found, 1, m)), budget)  BY <2>2
  <2>4. m = n + 1  BY <1>4, <2>3
  <2> QED  BY <2>3, <2>4
<1> QED  BY <1>2, <1>4, <1>5, <1>6, <1>7
-----------------------------------------------------------------------------
(* What is around the sources.  tried says how far each side has been tried, reach how far *)
(* it got.                                                                                 *)
Sides == {-1, 1}
SidesOf(sources) == (DOMAIN sources) \X Sides
Run(spot, left, right) == {<<spot[1], m>> : m \in spot[2] - left..spot[2] + right}
Beyond(spot, side, step) == <<spot[1], spot[2] + side * step>>
Ended(content, state, place) == place \in state.taken \/ ~IsText(content, place)

(* The texts of the sources are without gaps, share no fragment and fit; a side has been   *)
(* followed as far as it was tried, or up to a place that is taken or no text.             *)
GrownTo(content, sources, budget, state, tried, reach) ==
    /\ DOMAIN state.runs = DOMAIN sources
    /\ state.taken = UNION {state.runs[n] : n \in DOMAIN sources}
    /\ \A m, n \in DOMAIN sources : m # n => state.runs[m] \cap state.runs[n] = {}
    /\ \A n \in DOMAIN sources :
         state.runs[n] = Run(sources[n], reach[<<n, -1>>], reach[<<n, 1>>])
    /\ \A p \in SidesOf(sources) :
         /\ reach[p] \in 0..tried[p]
         /\ \/ state.full
            \/ /\ p \in state.closed
               /\ Ended(content, state, Beyond(sources[p[1]], p[2], reach[p] + 1))
            \/ p \notin state.closed /\ reach[p] = tried[p]
    /\ Fits(content, state.runs, budget)

Grown(content, sources, budget, state, tried) ==
    /\ state = [runs |-> state.runs, taken |-> state.taken, closed |-> state.closed,
                full |-> state.full]
    /\ state.full \in BOOLEAN
    /\ \E reach \in [SidesOf(sources) -> Nat] :
         GrownTo(content, sources, budget, state, tried, reach)

(* A text extended by the place before, or behind. *)
LEMMA RunGrows ==
  ASSUME NEW spot, spot[2] \in Nat, NEW left \in Nat, NEW right \in Nat
  PROVE  /\ Run(spot, left + 1, right)
               = Run(spot, left, right) \union {Beyond(spot, -1, left + 1)}
         /\ Run(spot, left, right + 1)
               = Run(spot, left, right) \union {Beyond(spot, 1, right + 1)}
<1> DEFINE o == spot[2]
           E(m) == <<spot[1], m>>
<1>1. /\ \A m : m \in o - (left + 1)..o + right
               <=> m \in o - left..o + right \/ m = o + (-1) * (left + 1)
      /\ \A m : m \in o - left..o + (right + 1)
               <=> m \in o - left..o + right \/ m = o + 1 * (right + 1)
  OBVIOUS
<1> HIDE DEF o
<1>2. /\ {E(m) : m \in o - (left + 1)..o + right}
            = {E(m) : m \in o - left..o + right} \union {E(o + (-1) * (left + 1))}
      /\ {E(m) : m \in o - left..o + (right + 1)}
            = {E(m) : m \in o - left..o + right} \union {E(o + 1 * (right + 1))}
  <2> HIDE DEF E
  <2> QED  BY <1>1
<1> QED  BY <1>2 DEF Run, Beyond, o

(* The place before alone, and the place behind alone. *)
LEMMA RunGrowsBefore ==
  ASSUME NEW spot, spot[2] \in Nat, NEW left \in Nat, NEW right \in Nat
  PROVE  Run(spot, left + 1, right) = Run(spot, left, right) \union {Beyond(spot, -1, left + 1)}
  BY RunGrows

LEMMA RunGrowsBehind ==
  ASSUME NEW spot, spot[2] \in Nat, NEW left \in Nat, NEW right \in Nat
  PROVE  Run(spot, left, right + 1) = Run(spot, left, right) \union {Beyond(spot, 1, right + 1)}
  BY RunGrows

(* One attempt on the next place of a side. *)
LEMMA ExtendGrows ==
  ASSUME NEW content, NEW sources \in Seq(Spots), NEW budget, NEW state,
         NEW tried \in [SidesOf(sources) -> Nat], NEW a,
         Grown(content, sources, budget, state, tried),
         a.n \in DOMAIN sources, a.side \in Sides, a.step = tried[<<a.n, a.side>>] + 1
  PROVE  Grown(content, sources, budget, Extend(content, sources, budget, state, a),
               [tried EXCEPT ![<<a.n, a.side>>] = @ + 1])
<1> DEFINE p == <<a.n, a.side>>
           spot == Neighbor(sources, a)
           runs == [state.runs EXCEPT ![a.n] = @ \union {spot}]
           more == [tried EXCEPT ![p] = @ + 1]
           next == Extend(content, sources, budget, state, a)
<1>1. PICK reach \in [SidesOf(sources) -> Nat] :
        GrownTo(content, sources, budget, state, tried, reach)
  BY DEF Grown
<1>2. p \in SidesOf(sources)  BY DEF SidesOf
<1>3. \A q \in SidesOf(sources) : more[q] = IF q = p THEN tried[q] + 1 ELSE tried[q]
  BY <1>2
<1>4. \A q \in SidesOf(sources) : tried[q] \in Nat /\ reach[q] \in Nat  BY <1>1
<1>5. \A q \in SidesOf(sources) : reach[q] \in 0..more[q]
  <2>1. \A q \in SidesOf(sources) : reach[q] \in 0..tried[q]  BY <1>1 DEF GrownTo
  <2> HIDE DEF more
  <2> QED  BY <1>3, <1>4, <2>1
<1>6. /\ state = [runs |-> state.runs, taken |-> state.taken, closed |-> state.closed,
                  full |-> state.full]
      /\ state.full \in BOOLEAN
  BY DEF Grown
<1> SUFFICES Grown(content, sources, budget, next, more)  OBVIOUS
<1> HIDE DEF more
<1>7. CASE state.full
  <2>1. next = state  BY <1>7 DEF Extend
  <2>2. GrownTo(content, sources, budget, state, more, reach)
    BY <1>1, <1>5, <1>7 DEF GrownTo
  <2> QED  BY <1>6, <2>1, <2>2 DEF Grown
<1>8. CASE ~state.full /\ p \in state.closed
  <2>1. next = state  BY <1>8 DEF Extend
  <2>2. GrownTo(content, sources, budget, state, more, reach)
    BY <1>1, <1>3, <1>5, <1>8 DEF GrownTo
  <2> QED  BY <1>6, <2>1, <2>2 DEF Grown
<1>9. CASE ~state.full /\ p \notin state.closed
  <2>1. reach[p] = tried[p]  BY <1>1, <1>2, <1>9 DEF GrownTo
  <2>2. spot = Beyond(sources[p[1]], p[2], reach[p] + 1)
    BY <2>1 DEF Neighbor, Beyond
  <2>3. CASE Ended(content, state, spot)
    <3>1. next = [state EXCEPT !.closed = @ \union {p}]
      BY <1>9, <2>3 DEF Extend, Ended
    <3>2. /\ next.runs = state.runs /\ next.taken = state.taken /\ next.full = state.full
          /\ next.closed = state.closed \union {p}
          /\ next = [runs |-> next.runs, taken |-> next.taken, closed |-> next.closed,
                     full |-> next.full]
      BY <1>6, <3>1
    <3>3. GrownTo(content, sources, budget, next, more, reach)
      <4> HIDE DEF next, p, spot
      <4>1. ASSUME NEW q \in SidesOf(sources)
            PROVE  \/ /\ q \in next.closed
                      /\ Ended(content, next, Beyond(sources[q[1]], q[2], reach[q] + 1))
                   \/ q \notin next.closed /\ reach[q] = more[q]
        <5>1. CASE q = p  BY <2>2, <2>3, <3>2, <5>1 DEF Ended
        <5>2. CASE q # p  BY <1>1, <1>3, <1>9, <3>2, <5>2 DEF GrownTo, Ended
        <5> QED  BY <5>1, <5>2
      <4> QED  BY <1>1, <1>5, <3>2, <4>1 DEF GrownTo
    <3> QED  BY <1>6, <3>2, <3>3 DEF Grown
  <2>4. CASE ~Ended(content, state, spot) /\ ~Fits(content, runs, budget)
    <3>1. next = [state EXCEPT !.full = TRUE]
      BY <1>9, <2>4 DEF Extend, Ended
    <3>2. /\ next.runs = state.runs /\ next.taken = state.taken /\ next.full
          /\ next.full = TRUE
          /\ next = [runs |-> next.runs, taken |-> next.taken, closed |-> next.closed,
                     full |-> next.full]
      BY <1>6, <3>1
    <3>3. GrownTo(content, sources, budget, next, more, reach)
      <4> HIDE DEF next, p, spot
      <4> QED  BY <1>1, <1>5, <3>2 DEF GrownTo
    <3> QED  BY <3>2, <3>3 DEF Grown
  <2>5. CASE ~Ended(content, state, spot) /\ Fits(content, runs, budget)
    <3>1. next = [state EXCEPT !.runs = runs, !.taken = @ \union {spot}]
      BY <1>9, <2>5 DEF Extend, Ended
    <3>2. /\ next.runs = runs /\ next.taken = state.taken \union {spot}
          /\ next.full = FALSE /\ next.closed = state.closed
          /\ next = [runs |-> next.runs, taken |-> next.taken, closed |-> next.closed,
                     full |-> next.full]
      BY <1>6, <1>9, <3>1
    <3>3. \A n \in DOMAIN sources :
            next.runs[n] = IF n = a.n THEN state.runs[n] \union {spot} ELSE state.runs[n]
      BY <1>1, <3>2 DEF GrownTo
    <3>4. DOMAIN next.runs = DOMAIN sources  BY <1>1, <3>2 DEF GrownTo
    <3>5. spot \notin state.taken  BY <2>5 DEF Ended
    <3> DEFINE further == [reach EXCEPT ![p] = @ + 1]
    <3>6. \A q \in SidesOf(sources) :
            further[q] = IF q = p THEN reach[q] + 1 ELSE reach[q]
      BY <1>1, <1>2
    <3>7. further \in [SidesOf(sources) -> Nat]
      BY <1>1, <1>2
    <3>8. \A n \in DOMAIN sources :
            next.runs[n] = Run(sources[n], further[<<n, -1>>], further[<<n, 1>>])
      <4> HIDE DEF next, further, spot
      <4>1. ASSUME NEW n \in DOMAIN sources
            PROVE  next.runs[n] = Run(sources[n], further[<<n, -1>>], further[<<n, 1>>])
        <5>1. /\ <<n, -1>> \in SidesOf(sources) /\ <<n, 1>> \in SidesOf(sources)
          BY DEF SidesOf, Sides
        <5>2. sources[n] \in Spots /\ sources[n][2] \in Nat  BY SpotsAssumption
        <5>7. /\ Run(sources[n], reach[<<n, -1>>] + 1, reach[<<n, 1>>])
                   = Run(sources[n], reach[<<n, -1>>], reach[<<n, 1>>])
                       \union {Beyond(sources[n], -1, reach[<<n, -1>>] + 1)}
              /\ Run(sources[n], reach[<<n, -1>>], reach[<<n, 1>>] + 1)
                   = Run(sources[n], reach[<<n, -1>>], reach[<<n, 1>>])
                       \union {Beyond(sources[n], 1, reach[<<n, 1>>] + 1)}
          <6> DEFINE source == sources[n]
                     left == reach[<<n, -1>>]
                     right == reach[<<n, 1>>]
          <6>1. source[2] \in Nat /\ left \in Nat /\ right \in Nat  BY <1>4, <5>1, <5>2
          <6> HIDE DEF source, left, right
          <6>2. Run(source, left + 1, right)
                  = Run(source, left, right) \union {Beyond(source, -1, left + 1)}
            BY <6>1, RunGrowsBefore
          <6>3. Run(source, left, right + 1)
                  = Run(source, left, right) \union {Beyond(source, 1, right + 1)}
            BY <6>1, RunGrowsBehind
          <6> QED  BY <6>2, <6>3 DEF source, left, right
        <5>3. state.runs[n] = Run(sources[n], reach[<<n, -1>>], reach[<<n, 1>>])
          BY <1>1 DEF GrownTo
        <5>4. CASE n # a.n
          <6>1. further[<<n, -1>>] = reach[<<n, -1>>] /\ further[<<n, 1>>] = reach[<<n, 1>>]
            BY <3>6, <5>1, <5>4
          <6> QED  BY <3>3, <5>3, <5>4, <6>1
        <5>5. CASE n = a.n /\ a.side = -1
          <6>1. further[<<n, -1>>] = reach[<<n, -1>>] + 1 /\ further[<<n, 1>>] = reach[<<n, 1>>]
            BY <3>6, <5>1, <5>5
          <6>2. spot = Beyond(sources[n], -1, reach[<<n, -1>>] + 1)  BY <2>2, <5>5
          <6>3. Run(sources[n], reach[<<n, -1>>] + 1, reach[<<n, 1>>])
                  = Run(sources[n], reach[<<n, -1>>], reach[<<n, 1>>]) \union {spot}
            BY <5>7, <6>2
          <6> QED  BY <3>3, <5>3, <5>5, <6>1, <6>3
        <5>6. CASE n = a.n /\ a.side = 1
          <6>1. further[<<n, 1>>] = reach[<<n, 1>>] + 1 /\ further[<<n, -1>>] = reach[<<n, -1>>]
            BY <3>6, <5>1, <5>6
          <6>2. spot = Beyond(sources[n], 1, reach[<<n, 1>>] + 1)  BY <2>2, <5>6
          <6>3. Run(sources[n], reach[<<n, -1>>], reach[<<n, 1>>] + 1)
                  = Run(sources[n], reach[<<n, -1>>], reach[<<n, 1>>]) \union {spot}
            BY <5>7, <6>2
          <6> QED  BY <3>3, <5>3, <5>6, <6>1, <6>3
        <5> QED  BY <5>4, <5>5, <5>6 DEF Sides
      <4> QED  BY <4>1
    <3>9. next.taken = UNION {next.runs[n] : n \in DOMAIN sources}
      <4> HIDE DEF next
      <4>1. state.taken = UNION {state.runs[n] : n \in DOMAIN sources}
        BY <1>1 DEF GrownTo
      <4>2. a.n \in DOMAIN sources  OBVIOUS
      <4>3. ASSUME NEW x
            PROVE  x \in next.taken <=> \E n \in DOMAIN sources : x \in next.runs[n]
        <5>1. x \in state.taken <=> \E n \in DOMAIN sources : x \in state.runs[n]  BY <4>1
        <5>2. x \in next.taken <=> x \in state.taken \/ x = spot  BY <3>2
        <5> HIDE DEF spot
        <5> QED  BY <3>3, <4>2, <5>1, <5>2
      <4> QED  BY <4>3
    <3>10. \A m, n \in DOMAIN sources : m # n => next.runs[m] \cap next.runs[n] = {}
      <4> HIDE DEF next, spot
      <4>1. \A n \in DOMAIN sources : spot \notin state.runs[n]
        BY <1>1, <3>5 DEF GrownTo
      <4>2. \A m, n \in DOMAIN sources : m # n => state.runs[m] \cap state.runs[n] = {}
        BY <1>1 DEF GrownTo
      <4>3. ASSUME NEW m \in DOMAIN sources, NEW n \in DOMAIN sources, m # n, NEW x,
                   x \in next.runs[m], x \in next.runs[n]
            PROVE  FALSE
        <5>1. /\ x \in state.runs[m] \/ (m = a.n /\ x = spot)
              /\ x \in state.runs[n] \/ (n = a.n /\ x = spot)
          BY <3>3, <4>3
        <5>2. spot \notin state.runs[m] /\ spot \notin state.runs[n]  BY <4>1
        <5>3. state.runs[m] \cap state.runs[n] = {}  BY <4>2, <4>3
        <5> QED  BY <4>3, <5>1, <5>2, <5>3
      <4> QED  BY <4>3
    <3>11. ASSUME NEW q \in SidesOf(sources)
           PROVE  /\ further[q] \in 0..more[q]
                  /\ \/ /\ q \in next.closed
                        /\ Ended(content, next, Beyond(sources[q[1]], q[2], further[q] + 1))
                     \/ q \notin next.closed /\ further[q] = more[q]
      <4> HIDE DEF next, further, p, spot
      <4>1. CASE q = p  BY <1>3, <1>4, <1>9, <2>1, <3>2, <3>6, <4>1
      <4>2. CASE q # p
        <5>1. further[q] = reach[q] /\ more[q] = tried[q]  BY <1>3, <3>6, <4>2
        <5>2. reach[q] \in 0..tried[q]  BY <1>1 DEF GrownTo
        <5>3. \/ /\ q \in state.closed
                 /\ Ended(content, state, Beyond(sources[q[1]], q[2], reach[q] + 1))
              \/ q \notin state.closed /\ reach[q] = tried[q]
          BY <1>1, <1>9 DEF GrownTo
        <5> QED  BY <3>2, <5>1, <5>2, <5>3 DEF Ended
      <4> QED  BY <4>1, <4>2
    <3>12. Fits(content, next.runs, budget)  BY <2>5, <3>2
    <3>13. GrownTo(content, sources, budget, next, more, further)
      <4> HIDE DEF next, further
      <4> QED  BY <3>4, <3>8, <3>9, <3>10, <3>11, <3>12 DEF GrownTo
    <3> QED
      <4> HIDE DEF next, further
      <4> QED  BY <3>2, <3>7, <3>13 DEF Grown
  <2> QED  BY <2>3, <2>4, <2>5
<1> QED  BY <1>7, <1>8, <1>9

-----------------------------------------------------------------------------
(* All attempts for one source, one after the other.                       *)

AttemptsTo(content, sources, budget, former, n, states, k) ==
    IF k = 0 THEN former
    ELSE Extend(content, sources, budget, states[k - 1], Attempt(n, k))
Attempted(content, sources, budget, former, n, states, last) ==
    states = [k \in 0..last |-> AttemptsTo(content, sources, budget, former, n, states, k)]
CanBeAttempted(content, sources, budget, former, n, last) ==
    \E states : Attempted(content, sources, budget, former, n, states, last)

LEMMA AttemptsOneMore ==
  ASSUME NEW content, NEW sources, NEW budget, NEW former, NEW n, NEW k \in Nat,
         CanBeAttempted(content, sources, budget, former, n, k)
  PROVE  CanBeAttempted(content, sources, budget, former, n, k + 1)
<1>1. PICK states : Attempted(content, sources, budget, former, n, states, k)
  BY DEF CanBeAttempted
<1> DEFINE T(g, m) == AttemptsTo(content, sources, budget, former, n, g, m)
           more == [m \in 0..k + 1 |-> T(states, m)]
<1>2. ASSUME NEW m \in 0..k
      PROVE  more[m] = states[m]
  <2>1. states = [i \in 0..k |-> T(states, i)]  BY <1>1 DEF Attempted
  <2> HIDE DEF T
  <2>2. m \in 0..k + 1  OBVIOUS
  <2> QED  BY <2>1, <2>2
<1>3. ASSUME NEW m \in 0..k + 1
      PROVE  T(more, m) = T(states, m)
  <2>1. CASE m = 0  BY <2>1 DEF AttemptsTo
  <2>2. CASE m # 0
    <3>1. m - 1 \in 0..k  BY <2>2
    <3>2. more[m - 1] = states[m - 1]  BY <1>2, <3>1
    <3> HIDE DEF more
    <3> QED  BY <3>2 DEF AttemptsTo
  <2> QED  BY <2>1, <2>2
<1>4. more = [m \in 0..k + 1 |-> T(more, m)]
  <2> HIDE DEF T
  <2>1. [m \in 0..k + 1 |-> T(more, m)] = [m \in 0..k + 1 |-> T(states, m)]  BY <1>3
  <2> QED  BY <2>1
<1>5. Attempted(content, sources, budget, former, n, more, k + 1)  BY <1>4 DEF Attempted
<1> QED  BY <1>5 DEF CanBeAttempted

LEMMA AttemptsAll ==
  ASSUME NEW content, NEW sources, NEW budget, NEW former, NEW n, NEW k \in Nat
  PROVE  CanBeAttempted(content, sources, budget, former, n, k)
<1> DEFINE Can(m) == CanBeAttempted(content, sources, budget, former, n, m)
           Bad == {m \in Nat : ~Can(m)}
           least == Sets!Min(Bad)
<1>1. Can(0)
  <2> DEFINE none == [m \in 0..0 |-> former]
             T(m) == AttemptsTo(content, sources, budget, former, n, none, m)
  <2>1. \A m \in 0..0 : T(m) = former
    <3>1. \A m \in 0..0 : m = 0  OBVIOUS
    <3> HIDE DEF none
    <3> QED  BY <3>1 DEF AttemptsTo
  <2> HIDE DEF T
  <2>2. none = [m \in 0..0 |-> T(m)]  BY <2>1
  <2>3. Attempted(content, sources, budget, former, n, none, 0)  BY <2>2 DEF Attempted, T
  <2> QED  BY <2>3 DEF CanBeAttempted
<1>2. \A m \in Nat : Can(m) => Can(m + 1)  BY AttemptsOneMore
<1> HIDE DEF Can
<1>3. ASSUME Bad # {}
      PROVE  FALSE
  <2>1. Bad \in SUBSET Nat  OBVIOUS
  <2> HIDE DEF Bad, least
  <2>2. least \in Bad /\ \A m \in Bad : least <= m  BY <1>3, <2>1, LeastIs DEF least
  <2>3. least \in Nat /\ ~Can(least)  BY <2>2 DEF Bad
  <2>4. least # 0  BY <1>1, <2>3
  <2>5. least - 1 \in Nat /\ least - 1 \notin Bad  BY <2>2, <2>3, <2>4
  <2>6. Can(least - 1)  BY <2>5 DEF Bad
  <2>7. Can((least - 1) + 1)  BY <1>2, <2>5, <2>6
  <2>8. (least - 1) + 1 = least  BY <2>3
  <2> QED  BY <2>3, <2>7, <2>8
<1> QED  BY <1>3 DEF Can

LEMMA AroundIs ==
  ASSUME NEW content, NEW sources, NEW distance \in Nat, NEW budget, NEW former, NEW n
  PROVE  \E states : /\ Attempted(content, sources, budget, former, n, states, 2 * distance)
                     /\ Around(content, sources, distance, budget, former, n)
                          = states[2 * distance]
<1> DEFINE G(states) == Attempted(content, sources, budget, former, n, states, 2 * distance)
           chosen == CHOOSE states : G(states)
<1>1. \E states : G(states)
  <2>1. 2 * distance \in Nat  OBVIOUS
  <2>2. CanBeAttempted(content, sources, budget, former, n, 2 * distance)
    BY <2>1, AttemptsAll
  <2> QED  BY <2>2 DEF CanBeAttempted
<1>2. G(chosen)
  <2> HIDE DEF G
  <2> QED  BY <1>1
<1>3. Around(content, sources, distance, budget, former, n) = chosen[2 * distance]
  BY DEF Around, Attempted, AttemptsTo
<1> HIDE DEF chosen
<1> QED  BY <1>2, <1>3

(* How far each side has been tried after k attempts for source n. *)
Tried(content, sources, distance, n, k) ==
    [p \in SidesOf(sources) |->
       IF content[sources[p[1]]] = "image" \/ p[1] > n THEN 0
       ELSE IF p[1] < n THEN distance
       ELSE IF p[2] = -1 THEN (k + 1) \div 2 ELSE k \div 2]

LEMMA Halves ==
  ASSUME NEW k \in Nat, k - 1 \in Nat
  PROVE  /\ k % 2 = 1 => (k + 1) \div 2 = k \div 2 + 1 /\ (k - 1) \div 2 = k \div 2
         /\ k % 2 # 1 => (k + 1) \div 2 = k \div 2 /\ k \div 2 = (k - 1) \div 2 + 1
<1> DEFINE h == k \div 2
<1>1. h \in Int /\ (k = 2 * h \/ k = 2 * h + 1) /\ k % 2 = k - 2 * h  OBVIOUS
<1>2. \A i \in Int : (2 * i) \div 2 = i /\ (2 * i + 1) \div 2 = i  OBVIOUS
<1> HIDE DEF h
<1>3. CASE k = 2 * h
  <2>1. k + 1 = 2 * h + 1 /\ k - 1 = 2 * (h - 1) + 1 /\ h - 1 \in Int  BY <1>1, <1>3
  <2>2. (k + 1) \div 2 = h /\ (k - 1) \div 2 = h - 1  BY <1>1, <1>2, <2>1
  <2>3. k % 2 # 1  BY <1>1, <1>3
  <2> QED  BY <1>1, <2>2, <2>3 DEF h
<1>4. CASE k = 2 * h + 1
  <2>1. k + 1 = 2 * (h + 1) /\ k - 1 = 2 * h /\ h + 1 \in Int  BY <1>1, <1>4
  <2>2. (k + 1) \div 2 = h + 1 /\ (k - 1) \div 2 = h  BY <1>1, <1>2, <2>1
  <2>3. k % 2 = 1  BY <1>1, <1>4
  <2> QED  BY <2>2, <2>3 DEF h
<1> QED  BY <1>1, <1>3, <1>4

LEMMA AroundGrows ==
  ASSUME NEW content, NEW sources \in Seq(Spots), NEW distance \in Nat, NEW budget,
         NEW former, NEW n \in DOMAIN sources, content[sources[n]] # "image",
         Grown(content, sources, budget, former, Tried(content, sources, distance, n, 0))
  PROVE  Grown(content, sources, budget,
               Around(content, sources, distance, budget, former, n),
               Tried(content, sources, distance, n, 2 * distance))
<1>1. PICK states :
        /\ Attempted(content, sources, budget, former, n, states, 2 * distance)
        /\ Around(content, sources, distance, budget, former, n) = states[2 * distance]
  BY AroundIs
<1> DEFINE K == 2 * distance
           T(k) == AttemptsTo(content, sources, budget, former, n, states, k)
           W(k) == Grown(content, sources, budget, states[k],
                         Tried(content, sources, distance, n, k))
           Bad == {k \in 0..K : ~W(k)}
           least == Sets!Min(Bad)
<1>2. K \in Nat  OBVIOUS
<1>3. \A k \in 0..K : states[k] = T(k)
  <2>1. states = [k \in 0..K |-> T(k)]  BY <1>1 DEF Attempted
  <2> HIDE DEF T, K
  <2> QED  BY <2>1
<1>4. W(0)
  <2>1. 0 \in 0..K  BY <1>2
  <2>2. states[0] = former  BY <1>3, <2>1 DEF AttemptsTo
  <2> QED  BY <2>2
<1>5. ASSUME NEW k \in 1..K, W(k - 1)
      PROVE  W(k)
  <2> DEFINE a == Attempt(n, k)
             tried == Tried(content, sources, distance, n, k - 1)
             more == [tried EXCEPT ![<<a.n, a.side>>] = @ + 1]
  <2>1. states[k] = Extend(content, sources, budget, states[k - 1], a)
    <3>1. k \in 0..K /\ k # 0  BY <1>2
    <3> HIDE DEF K
    <3> QED  BY <1>3, <3>1 DEF AttemptsTo
  <2>2. a.n = n /\ a.step = (k + 1) \div 2 /\ a.side = IF k % 2 = 1 THEN -1 ELSE 1
    BY DEF Attempt
  <2>3. a.side \in Sides  BY <2>2 DEF Sides
  <2>4. k \in Nat /\ k - 1 \in Nat /\ (k - 1) + 1 = k  BY <1>2
  <2>5. tried \in [SidesOf(sources) -> Nat]
    <3>1. \A p \in SidesOf(sources) : tried[p] \in Nat
      <4>1. (k - 1) \div 2 \in Nat /\ k \div 2 \in Nat  BY <2>4
      <4> QED  BY <2>4, <4>1 DEF Tried
    <3> QED  BY <3>1 DEF Tried
  <2>6. <<n, -1>> \in SidesOf(sources) /\ <<n, 1>> \in SidesOf(sources)
    BY DEF SidesOf, Sides
  <2>7. n \in Nat  OBVIOUS
  <2>8. /\ tried[<<n, -1>>] = k \div 2 /\ tried[<<n, 1>>] = (k - 1) \div 2
    BY <2>4, <2>6, <2>7 DEF Tried
  <2>9. /\ k % 2 = 1 => (k + 1) \div 2 = k \div 2 + 1 /\ (k - 1) \div 2 = k \div 2
        /\ k % 2 # 1 => (k + 1) \div 2 = k \div 2 /\ k \div 2 = (k - 1) \div 2 + 1
    BY <2>4, Halves
  <2>10. a.step = tried[<<a.n, a.side>>] + 1
    <3> HIDE DEF a, tried
    <3> QED  BY <2>2, <2>8, <2>9
  <2>11. Tried(content, sources, distance, n, k) = more
    <3>1. ASSUME NEW p \in SidesOf(sources)
          PROVE  Tried(content, sources, distance, n, k)[p] = more[p]
      <4>1. p[1] \in DOMAIN sources /\ p[2] \in Sides /\ p = <<p[1], p[2]>>
        BY DEF SidesOf
      <4>2. CASE p[1] # n
        <5>1. more[p] = tried[p]  BY <2>2, <2>5, <4>1, <4>2
        <5>2. Tried(content, sources, distance, n, k)[p] = tried[p]
          BY <4>1, <4>2, <2>7 DEF Tried
        <5> QED  BY <5>1, <5>2
      <4>3. CASE p[1] = n
        <5> HIDE DEF a
        <5>1. \/ p = <<n, -1>> \/ p = <<n, 1>>  BY <4>1, <4>3 DEF Sides
        <5>2. /\ Tried(content, sources, distance, n, k)[<<n, -1>>] = (k + 1) \div 2
              /\ Tried(content, sources, distance, n, k)[<<n, 1>>] = k \div 2
          BY <2>6, <2>7 DEF Tried
        <5> HIDE DEF tried
        <5>3. \A q \in SidesOf(sources) :
                more[q] = IF q = <<a.n, a.side>> THEN tried[q] + 1 ELSE tried[q]
          BY <2>5
        <5> HIDE DEF more
        <5>4. CASE k % 2 = 1
          <6>1. <<a.n, a.side>> = <<n, -1>> /\ <<n, -1>> # <<n, 1>>  BY <2>2, <5>4
          <6>2. CASE p = <<n, -1>>  BY <2>6, <2>8, <2>9, <5>2, <5>3, <5>4, <6>1, <6>2
          <6>3. CASE p = <<n, 1>>  BY <2>6, <2>8, <2>9, <5>2, <5>3, <5>4, <6>1, <6>3
          <6> QED  BY <5>1, <6>2, <6>3
        <5>5. CASE k % 2 # 1
          <6>1. <<a.n, a.side>> = <<n, 1>> /\ <<n, -1>> # <<n, 1>>  BY <2>2, <5>5
          <6>2. CASE p = <<n, -1>>  BY <2>6, <2>8, <2>9, <5>2, <5>3, <5>5, <6>1, <6>2
          <6>3. CASE p = <<n, 1>>  BY <2>6, <2>8, <2>9, <5>2, <5>3, <5>5, <6>1, <6>3
          <6> QED  BY <5>1, <6>2, <6>3
        <5> QED  BY <5>4, <5>5
      <4> QED  BY <4>2, <4>3
    <3>2. DOMAIN more = SidesOf(sources)  BY <2>5
    <3>3. more \in [SidesOf(sources) -> {more[q] : q \in SidesOf(sources)}]
      <4> HIDE DEF tried, a
      <4> QED  BY <2>5
    <3> HIDE DEF more
    <3> QED  BY <3>1, <3>3 DEF Tried
  <2>12. Grown(content, sources, budget, states[k - 1], tried)  BY <1>5
  <2> HIDE DEF a, tried
  <2>13. Grown(content, sources, budget, Extend(content, sources, budget, states[k - 1], a),
               more)
    BY <2>2, <2>3, <2>5, <2>10, <2>12, ExtendGrows
  <2> QED  BY <2>1, <2>11, <2>13
<1>6. Bad = {}
  <2> SUFFICES ASSUME Bad # {} PROVE FALSE  OBVIOUS
  <2>1. Bad \in SUBSET Nat  BY <1>2
  <2> HIDE DEF W, Bad, least, K
  <2>2. least \in Bad /\ \A m \in Bad : least <= m  BY <2>1, LeastIs DEF least
  <2>3. least \in 0..K /\ ~W(least)  BY <2>2 DEF Bad
  <2>4. least # 0  BY <1>4, <2>3
  <2>5. least \in 1..K /\ least - 1 \in 0..K /\ least - 1 \notin Bad
    BY <1>2, <2>2, <2>3, <2>4
  <2>6. W(least - 1)  BY <2>5 DEF Bad
  <2>7. W(least)  BY <1>5, <2>5, <2>6
  <2> QED  BY <2>3, <2>7
<1>7. W(K)
  <2> HIDE DEF W, K
  <2> QED  BY <1>2, <1>6
<1> QED  BY <1>1, <1>7

-----------------------------------------------------------------------------
(* All sources, one after the other.                                       *)

Start(sources) ==
    [runs |-> Alone(sources), taken |-> {sources[m] : m \in DOMAIN sources},
     closed |-> {}, full |-> FALSE]
SourcesTo(content, sources, distance, budget, states, n) ==
    IF n = 0 THEN Start(sources)
    ELSE IF content[sources[n]] = "image" THEN states[n - 1]
    ELSE Around(content, sources, distance, budget, states[n - 1], n)
Extended(content, sources, distance, budget, states, last) ==
    states = [n \in 0..last |-> SourcesTo(content, sources, distance, budget, states, n)]
CanBeExtended(content, sources, distance, budget, last) ==
    \E states : Extended(content, sources, distance, budget, states, last)

LEMMA ExtendsOneMore ==
  ASSUME NEW content, NEW sources, NEW distance, NEW budget, NEW k \in Nat,
         CanBeExtended(content, sources, distance, budget, k)
  PROVE  CanBeExtended(content, sources, distance, budget, k + 1)
<1>1. PICK states : Extended(content, sources, distance, budget, states, k)
  BY DEF CanBeExtended
<1> DEFINE T(g, m) == SourcesTo(content, sources, distance, budget, g, m)
           more == [m \in 0..k + 1 |-> T(states, m)]
<1>2. ASSUME NEW m \in 0..k
      PROVE  more[m] = states[m]
  <2>1. states = [i \in 0..k |-> T(states, i)]  BY <1>1 DEF Extended
  <2> HIDE DEF T
  <2>2. m \in 0..k + 1  OBVIOUS
  <2> QED  BY <2>1, <2>2
<1>3. ASSUME NEW m \in 0..k + 1
      PROVE  T(more, m) = T(states, m)
  <2>1. CASE m = 0  BY <2>1 DEF SourcesTo
  <2>2. CASE m # 0
    <3>1. m - 1 \in 0..k  BY <2>2
    <3>2. more[m - 1] = states[m - 1]  BY <1>2, <3>1
    <3> HIDE DEF more
    <3> QED  BY <3>2 DEF SourcesTo
  <2> QED  BY <2>1, <2>2
<1>4. more = [m \in 0..k + 1 |-> T(more, m)]
  <2> HIDE DEF T
  <2>1. [m \in 0..k + 1 |-> T(more, m)] = [m \in 0..k + 1 |-> T(states, m)]  BY <1>3
  <2> QED  BY <2>1
<1>5. Extended(content, sources, distance, budget, more, k + 1)  BY <1>4 DEF Extended
<1> QED  BY <1>5 DEF CanBeExtended

LEMMA ExtendsAll ==
  ASSUME NEW content, NEW sources, NEW distance, NEW budget, NEW k \in Nat
  PROVE  CanBeExtended(content, sources, distance, budget, k)
<1> DEFINE Can(m) == CanBeExtended(content, sources, distance, budget, m)
           Bad == {m \in Nat : ~Can(m)}
           least == Sets!Min(Bad)
<1>1. Can(0)
  <2> DEFINE none == [m \in 0..0 |-> Start(sources)]
             T(m) == SourcesTo(content, sources, distance, budget, none, m)
  <2>1. \A m \in 0..0 : T(m) = Start(sources)
    <3>1. \A m \in 0..0 : m = 0  OBVIOUS
    <3> HIDE DEF none
    <3> QED  BY <3>1 DEF SourcesTo
  <2> HIDE DEF T
  <2>2. none = [m \in 0..0 |-> T(m)]  BY <2>1
  <2>3. Extended(content, sources, distance, budget, none, 0)  BY <2>2 DEF Extended, T
  <2> QED  BY <2>3 DEF CanBeExtended
<1>2. \A m \in Nat : Can(m) => Can(m + 1)  BY ExtendsOneMore
<1> HIDE DEF Can
<1>3. ASSUME Bad # {}
      PROVE  FALSE
  <2>1. Bad \in SUBSET Nat  OBVIOUS
  <2> HIDE DEF Bad, least
  <2>2. least \in Bad /\ \A m \in Bad : least <= m  BY <1>3, <2>1, LeastIs DEF least
  <2>3. least \in Nat /\ ~Can(least)  BY <2>2 DEF Bad
  <2>4. least # 0  BY <1>1, <2>3
  <2>5. least - 1 \in Nat /\ least - 1 \notin Bad  BY <2>2, <2>3, <2>4
  <2>6. Can(least - 1)  BY <2>5 DEF Bad
  <2>7. Can((least - 1) + 1)  BY <1>2, <2>5, <2>6
  <2>8. (least - 1) + 1 = least  BY <2>3
  <2> QED  BY <2>3, <2>7, <2>8
<1> QED  BY <1>3 DEF Can

LEMMA WithNeighborsIs ==
  ASSUME NEW content, NEW sources, Len(sources) \in Nat, NEW distance, NEW budget
  PROVE  \E states : /\ Extended(content, sources, distance, budget, states, Len(sources))
                     /\ WithNeighbors(content, sources, distance, budget)
                          = states[Len(sources)]
<1> DEFINE G(states) == Extended(content, sources, distance, budget, states, Len(sources))
           chosen == CHOOSE states : G(states)
<1>1. \E states : G(states)
  <2>1. CanBeExtended(content, sources, distance, budget, Len(sources))  BY ExtendsAll
  <2> QED  BY <2>1 DEF CanBeExtended
<1>2. G(chosen)
  <2> HIDE DEF G
  <2> QED  BY <1>1
<1>3. WithNeighbors(content, sources, distance, budget) = chosen[Len(sources)]
  BY DEF WithNeighbors, Extended, SourcesTo, Start
<1> HIDE DEF chosen
<1> QED  BY <1>2, <1>3

(* At first each source is alone. *)
LEMMA StartGrows ==
  ASSUME NEW content, NEW sources \in Seq(Spots), NEW distance \in Nat, NEW budget,
         \A i, j \in 1..Len(sources) : sources[i] = sources[j] => i = j,
         Fits(content, Alone(sources), budget)
  PROVE  Grown(content, sources, budget, Start(sources),
               Tried(content, sources, distance, 1, 0))
<1> DEFINE state == Start(sources)
           tried == Tried(content, sources, distance, 1, 0)
           reach == [p \in SidesOf(sources) |-> 0]
<1>1. /\ state.runs = Alone(sources) /\ state.taken = {sources[m] : m \in DOMAIN sources}
      /\ state.closed = {} /\ state.full = FALSE
      /\ state = [runs |-> state.runs, taken |-> state.taken, closed |-> state.closed,
                  full |-> state.full]
  BY DEF Start
<1>2. DOMAIN sources = 1..Len(sources) /\ Len(sources) \in Nat  OBVIOUS
<1>3. \A n \in DOMAIN sources : state.runs[n] = {sources[n]}  BY <1>1 DEF Alone
<1>4. DOMAIN state.runs = DOMAIN sources  BY <1>1 DEF Alone
<1>5. \A p \in SidesOf(sources) : tried[p] = 0
  <2>1. (0 + 1) \div 2 = 0 /\ 0 \div 2 = 0  OBVIOUS
  <2>2. \A p \in SidesOf(sources) : p[1] \in DOMAIN sources  BY DEF SidesOf
  <2> QED  BY <1>2, <2>1, <2>2 DEF Tried
<1>6. reach \in [SidesOf(sources) -> Nat] /\ \A p \in SidesOf(sources) : reach[p] = 0
  OBVIOUS
<1> HIDE DEF state, tried, reach
<1>7. \A n \in DOMAIN sources :
        state.runs[n] = Run(sources[n], reach[<<n, -1>>], reach[<<n, 1>>])
  <2>1. ASSUME NEW n \in DOMAIN sources
        PROVE  state.runs[n] = Run(sources[n], reach[<<n, -1>>], reach[<<n, 1>>])
    <3>1. sources[n] = <<sources[n][1], sources[n][2]>> /\ sources[n][2] \in Nat
      BY SpotsAssumption
    <3>2. <<n, -1>> \in SidesOf(sources) /\ <<n, 1>> \in SidesOf(sources)
      BY DEF SidesOf, Sides
    <3>3. sources[n][2] - 0..sources[n][2] + 0 = {sources[n][2]}  BY <3>1
    <3>4. Run(sources[n], 0, 0) = {<<sources[n][1], sources[n][2]>>}  BY <3>3 DEF Run
    <3> QED  BY <1>3, <1>6, <3>1, <3>2, <3>4
  <2> QED  BY <2>1
<1>8. state.taken = UNION {state.runs[n] : n \in DOMAIN sources}
  BY <1>1, <1>3
<1>9. \A m, n \in DOMAIN sources : m # n => state.runs[m] \cap state.runs[n] = {}
  BY <1>2, <1>3
<1>10. \A p \in SidesOf(sources) :
         reach[p] \in 0..tried[p] /\ p \notin state.closed /\ reach[p] = tried[p]
  BY <1>1, <1>5, <1>6
<1>11. Fits(content, state.runs, budget)  BY <1>1
<1>12. GrownTo(content, sources, budget, state, tried, reach)
  BY <1>4, <1>7, <1>8, <1>9, <1>10, <1>11 DEF GrownTo
<1> QED  BY <1>1, <1>6, <1>12 DEF Grown, state, tried

LEMMA NextSource ==
  ASSUME NEW content, NEW sources \in Seq(Spots), NEW distance \in Nat,
         NEW n \in DOMAIN sources
  PROVE  Tried(content, sources, distance, n + 1, 0) =
         Tried(content, sources, distance, n,
               IF content[sources[n]] = "image" THEN 0 ELSE 2 * distance)
<1>1. n \in Nat /\ \A p \in SidesOf(sources) : p[1] \in Nat  BY DEF SidesOf
<1>2. (0 + 1) \div 2 = 0 /\ 0 \div 2 = 0  OBVIOUS
<1>3. (2 * distance + 1) \div 2 = distance /\ (2 * distance) \div 2 = distance  OBVIOUS
<1>4. CASE content[sources[n]] = "image"
  <2>1. \A p \in SidesOf(sources) :
          Tried(content, sources, distance, n + 1, 0)[p]
            = Tried(content, sources, distance, n, 0)[p]
    BY <1>1, <1>2, <1>4 DEF Tried
  <2> QED  BY <1>4, <2>1 DEF Tried
<1>5. CASE content[sources[n]] # "image"
  <2>1. \A p \in SidesOf(sources) :
          Tried(content, sources, distance, n + 1, 0)[p]
            = Tried(content, sources, distance, n, 2 * distance)[p]
    BY <1>1, <1>2, <1>3, <1>5 DEF Tried
  <2> QED  BY <1>5, <2>1 DEF Tried
<1> QED  BY <1>4, <1>5

LEMMA AllAreGrown ==
  ASSUME NEW content, NEW sources \in Seq(Spots), NEW distance \in Nat, NEW budget,
         \A i, j \in 1..Len(sources) : sources[i] = sources[j] => i = j,
         Fits(content, Alone(sources), budget)
  PROVE  Grown(content, sources, budget,
               WithNeighbors(content, sources, distance, budget),
               Tried(content, sources, distance, Len(sources) + 1, 0))
<1>1. Len(sources) \in Nat /\ DOMAIN sources = 1..Len(sources)  OBVIOUS
<1>2. PICK states :
        /\ Extended(content, sources, distance, budget, states, Len(sources))
        /\ WithNeighbors(content, sources, distance, budget) = states[Len(sources)]
  BY <1>1, WithNeighborsIs
<1> DEFINE L == Len(sources)
           T(n) == SourcesTo(content, sources, distance, budget, states, n)
           W(n) == Grown(content, sources, budget, states[n],
                         Tried(content, sources, distance, n + 1, 0))
           Bad == {n \in 0..L : ~W(n)}
           least == Sets!Min(Bad)
<1>3. \A n \in 0..L : states[n] = T(n)
  <2>1. states = [n \in 0..L |-> T(n)]  BY <1>2 DEF Extended
  <2> HIDE DEF T, L
  <2> QED  BY <2>1
<1>4. W(0)
  <2>1. 0 \in 0..L  BY <1>1
  <2>2. states[0] = Start(sources)  BY <1>3, <2>1 DEF SourcesTo
  <2>3. 0 + 1 = 1  OBVIOUS
  <2> QED  BY <2>2, <2>3, StartGrows
<1>5. ASSUME NEW n \in 1..L, W(n - 1)
      PROVE  W(n)
  <2>1. n \in DOMAIN sources /\ n \in 0..L /\ n # 0 /\ (n - 1) + 1 = n  BY <1>1
  <2>2. Grown(content, sources, budget, states[n - 1],
              Tried(content, sources, distance, n, 0))
    BY <1>5, <2>1
  <2>3. CASE content[sources[n]] = "image"
    <3>1. states[n] = states[n - 1]  BY <1>3, <2>1, <2>3 DEF SourcesTo
    <3>2. Tried(content, sources, distance, n + 1, 0)
            = Tried(content, sources, distance, n, 0)
      BY <2>1, <2>3, NextSource
    <3> QED  BY <2>2, <3>1, <3>2
  <2>4. CASE content[sources[n]] # "image"
    <3>1. states[n] = Around(content, sources, distance, budget, states[n - 1], n)
      BY <1>3, <2>1, <2>4 DEF SourcesTo
    <3>2. Tried(content, sources, distance, n + 1, 0)
            = Tried(content, sources, distance, n, 2 * distance)
      BY <2>1, <2>4, NextSource
    <3>3. Grown(content, sources, budget,
                Around(content, sources, distance, budget, states[n - 1], n),
                Tried(content, sources, distance, n, 2 * distance))
      BY <2>1, <2>2, <2>4, AroundGrows
    <3> QED  BY <3>1, <3>2, <3>3
  <2> QED  BY <2>3, <2>4
<1>6. Bad = {}
  <2> SUFFICES ASSUME Bad # {} PROVE FALSE  OBVIOUS
  <2>1. Bad \in SUBSET Nat  BY <1>1
  <2>2. L \in Nat  BY <1>1
  <2> HIDE DEF W, Bad, least, L
  <2>3. least \in Bad /\ \A m \in Bad : least <= m  BY <2>1, LeastIs DEF least
  <2>4. least \in 0..L /\ ~W(least)  BY <2>3 DEF Bad
  <2>5. least # 0  BY <1>4, <2>4
  <2>6. least \in 1..L /\ least - 1 \in 0..L /\ least - 1 \notin Bad
    BY <2>2, <2>3, <2>4, <2>5
  <2>7. W(least - 1)  BY <2>6 DEF Bad
  <2>8. W(least)  BY <1>5, <2>6, <2>7
  <2> QED  BY <2>4, <2>8
<1>7. W(L)
  <2>1. L \in Nat  BY <1>1
  <2> HIDE DEF W, L
  <2> QED  BY <1>6, <2>1
<1> QED  BY <1>2, <1>7

-----------------------------------------------------------------------------
(* What a source is given: no gap, up to the distance, as far as there are texts.          *)
LEMMA RunIs ==
  ASSUME NEW spot, spot \in {spot[1]} \X Nat, NEW left \in Nat, NEW right \in Nat
  PROVE  /\ spot \in Run(spot, left, right)
         /\ left = 0 /\ right = 0 => Run(spot, left, right) = {spot}
         /\ \A s \in Run(spot, left, right) :
              /\ s = <<spot[1], s[2]>> /\ s[1] = spot[1] /\ s[2] \in Int
              /\ spot[2] - left <= s[2] /\ s[2] <= spot[2] + right
         /\ \A m \in Int : spot[2] - left <= m /\ m <= spot[2] + right =>
              <<spot[1], m>> \in Run(spot, left, right)
<1>1. spot = <<spot[1], spot[2]>> /\ spot[2] \in Nat  OBVIOUS
<1>2. \A m \in Int : spot[2] - left <= m /\ m <= spot[2] + right =>
        <<spot[1], m>> \in Run(spot, left, right)
  BY <1>1 DEF Run
<1>3. spot \in Run(spot, left, right)
  <2>1. spot[2] \in Int /\ spot[2] - left <= spot[2] /\ spot[2] <= spot[2] + right
    BY <1>1
  <2> QED  BY <1>1, <1>2, <2>1
<1>4. \A s \in Run(spot, left, right) :
        /\ s = <<spot[1], s[2]>> /\ s[1] = spot[1] /\ s[2] \in Int
        /\ spot[2] - left <= s[2] /\ s[2] <= spot[2] + right
  BY <1>1 DEF Run
<1>5. ASSUME left = 0, right = 0
      PROVE  Run(spot, left, right) = {spot}
  <2>1. \A s \in Run(spot, left, right) : s[2] = spot[2]  BY <1>1, <1>4, <1>5
  <2>2. \A s \in Run(spot, left, right) : s = spot  BY <1>1, <1>4, <2>1
  <2> QED  BY <1>3, <2>2
<1> QED  BY <1>2, <1>3, <1>4, <1>5

(* For every number of documents, of fragments found, every distance and budget: no source *)
(* is left out that would have fitted, each is extended by the fragments next to it        *)
(* without a gap, none is given twice, and a text next to a source is left out only if it  *)
(* was given elsewhere or the budget was used up (kb/context.py).                          *)
THEOREM SourcesAreWhole == SourcesAreExtended
<1> SUFFICES ASSUME NEW content \in Contents, NEW found \in Rankings(content),
                    NEW distance \in Distances, NEW budget \in Remainders
    PROVE
        LET sources == FitSources(content, found, budget)
            state == WithNeighbors(content, sources, distance, budget)
            Given(n) == state.runs[n]
            Near(n, spot) ==
                spot[1] = sources[n][1]
                /\ spot[2] - sources[n][2] \in -distance..distance
        IN  /\ Lists!IsPrefix(sources, found)
            /\ Len(sources) < Len(found) =>
                 ~Fits(content, Alone(SubSeq(found, 1, Len(sources) + 1)), budget)
            /\ sources = <<>> \/ Fits(content, state.runs, budget)
            /\ \A n \in DOMAIN sources :
                 /\ sources[n] \in Given(n)
                 /\ content[sources[n]] = "image" => Given(n) = {sources[n]}
                 /\ \A s \in Given(n) : Near(n, s)
                 /\ \A s, t \in Given(n) : \A m \in s[2]..t[2] : <<s[1], m>> \in Given(n)
                 /\ \A m \in DOMAIN sources : m # n => Given(m) \cap Given(n) = {}
                 /\ content[sources[n]] # "image" /\ ~state.full =>
                      \A s \in Given(n), side \in {-1, 1} :
                        LET next == <<s[1], s[2] + side>>
                        IN  Near(n, next) /\ IsText(content, next) =>
                              \E m \in DOMAIN sources : next \in Given(m)
  BY DEF SourcesAreExtended
<1> DEFINE sources == FitSources(content, found, budget)
           state == WithNeighbors(content, sources, distance, budget)
           Given(n) == state.runs[n]
           Near(n, spot) ==
             spot[1] = sources[n][1] /\ spot[2] - sources[n][2] \in -distance..distance
           tried == Tried(content, sources, distance, Len(sources) + 1, 0)
<1>1. /\ found \in Seq(Spots) /\ Len(found) \in Nat
      /\ \A i, j \in 1..Len(found) : found[i] = found[j] => i = j
  BY RankingIs
<1>2. distance \in Nat  BY NumbersAssumption
<1>3. /\ Len(sources) \in 0..Len(found) /\ sources = SubSeq(found, 1, Len(sources))
      /\ Len(sources) = 0 \/ Fits(content, Alone(sources), budget)
      /\ Len(sources) < Len(found) =>
           ~Fits(content, Alone(SubSeq(found, 1, Len(sources) + 1)), budget)
  BY <1>1, SourcesAre
<1> HIDE DEF sources
<1>4. /\ sources \in Seq(Spots) /\ Len(sources) \in Nat /\ DOMAIN sources = 1..Len(sources)
      /\ \A i \in 1..Len(sources) : sources[i] = found[i]
  BY <1>1, <1>3
<1>5. \A i, j \in 1..Len(sources) : sources[i] = sources[j] => i = j
  BY <1>1, <1>3, <1>4
<1>6. Lists!IsPrefix(sources, found)
  <2>1. SubSeq(sources, 1, Len(sources)) = sources  BY <1>4
  <2> QED  BY <1>3, <1>4, <2>1 DEF Lists!IsPrefix
<1>7. CASE Len(sources) = 0
  <2>1. sources = <<>> /\ DOMAIN sources = {}  BY <1>4, <1>7
  <2> QED  BY <1>3, <1>6, <2>1 DEF sources
<1>8. CASE Len(sources) # 0
  <2>1. Grown(content, sources, budget, state, tried)
    BY <1>2, <1>3, <1>4, <1>5, <1>8, AllAreGrown
  <2>2. PICK reach \in [SidesOf(sources) -> Nat] :
          GrownTo(content, sources, budget, state, tried, reach)
    BY <2>1 DEF Grown
  <2>3. \A p \in SidesOf(sources) :
          /\ tried[p] = IF content[sources[p[1]]] = "image" THEN 0 ELSE distance
          /\ p[1] \in DOMAIN sources /\ p = <<p[1], p[2]>>
    <3>1. \A p \in SidesOf(sources) : p[1] \in 1..Len(sources)  BY <1>4 DEF SidesOf
    <3> QED  BY <1>4, <3>1 DEF Tried, SidesOf
  <2> HIDE DEF state, tried
  <2>4. Fits(content, state.runs, budget)  BY <2>2 DEF GrownTo
  <2>5. ASSUME NEW n \in DOMAIN sources
        PROVE
           /\ sources[n] \in Given(n)
           /\ content[sources[n]] = "image" => Given(n) = {sources[n]}
           /\ \A s \in Given(n) : Near(n, s)
           /\ \A s, t \in Given(n) : \A m \in s[2]..t[2] : <<s[1], m>> \in Given(n)
           /\ \A m \in DOMAIN sources : m # n => Given(m) \cap Given(n) = {}
           /\ content[sources[n]] # "image" /\ ~state.full =>
                \A s \in Given(n), side \in {-1, 1} :
                  Near(n, <<s[1], s[2] + side>>) /\ IsText(content, <<s[1], s[2] + side>>) =>
                    \E m \in DOMAIN sources : <<s[1], s[2] + side>> \in Given(m)
    <3> DEFINE spot == sources[n]
               left == reach[<<n, -1>>]
               right == reach[<<n, 1>>]
    <3>1. spot \in {spot[1]} \X Nat /\ spot[2] \in Nat  BY <1>4, SpotsAssumption
    <3>2. <<n, -1>> \in SidesOf(sources) /\ <<n, 1>> \in SidesOf(sources)
      BY DEF SidesOf, Sides
    <3>3. left \in 0..tried[<<n, -1>>] /\ right \in 0..tried[<<n, 1>>]
      BY <2>2, <3>2 DEF GrownTo
    <3>4. /\ tried[<<n, -1>>] = IF content[spot] = "image" THEN 0 ELSE distance
          /\ tried[<<n, 1>>] = IF content[spot] = "image" THEN 0 ELSE distance
      BY <2>3, <3>2
    <3>5. Given(n) = Run(spot, left, right)  BY <2>2 DEF GrownTo
    <3>6. left \in Nat /\ right \in Nat /\ left <= distance /\ right <= distance
      BY <1>2, <3>3, <3>4
    <3> HIDE DEF spot, left, right
    <3>7. /\ spot \in Given(n)
          /\ left = 0 /\ right = 0 => Given(n) = {spot}
          /\ \A s \in Given(n) :
               /\ s = <<spot[1], s[2]>> /\ s[1] = spot[1] /\ s[2] \in Int
               /\ spot[2] - left <= s[2] /\ s[2] <= spot[2] + right
          /\ \A m \in Int : spot[2] - left <= m /\ m <= spot[2] + right =>
               <<spot[1], m>> \in Given(n)
      <4>1. /\ spot \in Run(spot, left, right)
            /\ left = 0 /\ right = 0 => Run(spot, left, right) = {spot}
            /\ \A s \in Run(spot, left, right) :
                 /\ s = <<spot[1], s[2]>> /\ s[1] = spot[1] /\ s[2] \in Int
                 /\ spot[2] - left <= s[2] /\ s[2] <= spot[2] + right
            /\ \A m \in Int : spot[2] - left <= m /\ m <= spot[2] + right =>
                 <<spot[1], m>> \in Run(spot, left, right)
        BY <3>1, <3>6, RunIs
      <4> HIDE DEF Given
      <4> QED  BY <3>5, <4>1
    <3>8. content[spot] = "image" => Given(n) = {spot}  BY <3>3, <3>4, <3>7
    <3>9. \A s \in Given(n) : Near(n, s)
      BY <1>2, <3>1, <3>6, <3>7 DEF spot
    <3>10. \A s, t \in Given(n) : \A m \in s[2]..t[2] : <<s[1], m>> \in Given(n)
      BY <3>1, <3>6, <3>7
    <3>11. \A m \in DOMAIN sources : m # n => Given(m) \cap Given(n) = {}
      BY <2>2 DEF GrownTo
    <3>12. ASSUME content[spot] # "image", ~state.full, NEW s \in Given(n),
                  NEW side \in {-1, 1}, Near(n, <<s[1], s[2] + side>>),
                  IsText(content, <<s[1], s[2] + side>>)
           PROVE  \E m \in DOMAIN sources : <<s[1], s[2] + side>> \in Given(m)
      <4> DEFINE next == <<s[1], s[2] + side>>
                 p == <<n, side>>
      <4>1. /\ s[1] = spot[1] /\ s[2] \in Int
            /\ spot[2] - left <= s[2] /\ s[2] <= spot[2] + right
        BY <3>7
      <4>2. CASE next \in Given(n)  BY <4>2
      <4>3. CASE next \notin Given(n)
        <5>1. ~(spot[2] - left <= s[2] + side /\ s[2] + side <= spot[2] + right)
          BY <3>7, <4>1, <4>3
        <5>2. reach[p] = IF side = -1 THEN left ELSE right  BY DEF left, right
        <5>3. s[2] + side = spot[2] + side * (reach[p] + 1)
          <6>1. CASE side = -1
            <7>1. s[2] = spot[2] - left  BY <3>1, <3>6, <4>1, <5>1, <6>1
            <7> QED  BY <3>1, <3>6, <5>2, <6>1, <7>1
          <6>2. CASE side = 1
            <7>1. s[2] = spot[2] + right  BY <3>1, <3>6, <4>1, <5>1, <6>2
            <7> QED  BY <3>1, <3>6, <5>2, <6>2, <7>1
          <6> QED  BY <6>1, <6>2
        <5>4. next = Beyond(sources[p[1]], p[2], reach[p] + 1)
          BY <4>1, <5>3 DEF Beyond, spot
        <5>5. p \in SidesOf(sources) /\ tried[p] = distance
          BY <3>2, <3>4, <3>12
        <5>6. \/ Ended(content, state, next)
              \/ reach[p] = distance
          BY <2>2, <3>12, <5>4, <5>5 DEF GrownTo
        <5>7. reach[p] # distance
          <6>1. next[2] - spot[2] \in -distance..distance  BY <3>12 DEF spot
          <6>2. next[2] = spot[2] + side * (reach[p] + 1)  BY <5>3
          <6> HIDE DEF p, next
          <6>3. CASE side = -1
            <7>1. next[2] = spot[2] - (left + 1)  BY <3>1, <3>6, <5>2, <6>2, <6>3
            <7>2. left + 1 <= distance  BY <1>2, <3>1, <3>6, <6>1, <7>1
            <7> QED  BY <1>2, <3>6, <5>2, <6>3, <7>2
          <6>4. CASE side = 1
            <7>1. next[2] = spot[2] + (right + 1)  BY <3>1, <3>6, <5>2, <6>2, <6>4
            <7>2. right + 1 <= distance  BY <1>2, <3>1, <3>6, <6>1, <7>1
            <7> QED  BY <1>2, <3>6, <5>2, <6>4, <7>2
          <6> QED  BY <6>3, <6>4
        <5>8. next \in state.taken  BY <3>12, <5>6, <5>7 DEF Ended
        <5> QED  BY <2>2, <5>8 DEF GrownTo
      <4> QED  BY <4>2, <4>3
    <3> QED  BY <3>7, <3>8, <3>9, <3>10, <3>11, <3>12 DEF spot
  <2> QED  BY <1>3, <1>6, <2>4, <2>5 DEF sources, state
<1> QED  BY <1>7, <1>8

(* Whenever an index is staged or something is found: no text is lost or given twice on    *)
(* its way from a page to a source (kb/chunking.py, kb/context.py).                        *)
THEOREM TextsStay == Spec => []TextsAreKept
<1>1. TextsAreKept
  BY SplitsKeepAll, SourcesAreWhole DEF TextsAreKept, StagedKeepsAll, FoundIsExtended
<1> QED  BY <1>1, PTL

=============================================================================
