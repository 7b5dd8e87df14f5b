------------------------- MODULE CodeProjectProofs -------------------------
(***************************************************************************)
(* The safety of CodeProject for every set of paths, contents, files,      *)
(* answers and builds, every limit of files and of versions above one, and *)
(* any number of changes.                                                  *)
(***************************************************************************)
EXTENDS CodeProject, FiniteSetTheorems, TLAPS

Text(file) == [path |-> file.path, content |-> file.content]

Used(fs) == {i \in FileIds : fs[i] # None}

(* Files are of the texts there are, and no two have one path. *)
Laid(fs) ==
    /\ \A i \in FileIds : fs[i] # None => Text(fs[i]) \in Texts
    /\ \A i, j \in FileIds :
          fs[i] # None /\ fs[j] # None /\ fs[i].path = fs[j].path => i = j

(* The number of a file is at most that of the project: both start with 1. *)
FilesAreLaid ==
    /\ Laid(files)
    /\ Sound(TreeOf(files))
    /\ \A i \in FileIds :
          files[i] # None => project # None /\ files[i].revision <= project

(* Every tree that was read, proposed, chosen or kept can be built. *)
TreesAreSound ==
    /\ \A r \in 1..MaxRevision : versions[r] # None => Sound(versions[r])
    /\ \A a \in Answers : edit[a] # None => Sound(edit[a].files)
    /\ assistant # None => Sound(assistant.read)
    /\ \A b \in Builds : builds[b] # None => Sound(builds[b].files)
    /\ decision # None => Sound(decision.accept)

(* A number the page has is of the file as it was then. *)
SeenIsFormer ==
    \A i \in FileIds : seen[i] # None /\ files[i] # None =>
        /\ seen[i].revision <= files[i].revision
        /\ seen[i].revision = files[i].revision => Text(seen[i]) = Text(files[i])

(* What is kept is of the project as it was or is. *)
KeptIsFormer ==
    /\ \A r \in 1..MaxRevision : versions[r] # None => project # None /\ r <= project
    /\ archive # None => project # None /\ archive.revision <= project

(* A build has read the number of the project, then its files. *)
BuildsHaveRead ==
    \A b \in Builds : builds[b] # None /\ builds[b].kind = "button" =>
        /\ builds[b].pc \in {"files", "compile"} =>
              builds[b].revision # 0 /\ (project # None => builds[b].revision <= project)
        /\ builds[b].pc = "compile" /\ builds[b].revision = project =>
              builds[b].files = TreeOf(files)

(* All builds have asked for one queue, and one of them holds it. *)
QueueIsShared ==
    /\ \A b \in Builds : builds[b] # None => builds[b].queue = queue
    /\ \A b, c \in Builds :
          /\ builds[b] # None /\ builds[b].pc \in Holding
          /\ builds[c] # None /\ builds[c].pc \in Holding
          => b = c

(* A decision is on an edit nobody has decided; an answer that is formed has none. *)
EditsAreOpen ==
    /\ decision # None =>
          /\ project # None
          /\ edit[decision.answer] # None =>
               edit[decision.answer].status \in {"proposed", "superseded"}
          /\ decision.accept = {} \/ project < MaxRevision
          /\ assistant # None => assistant.answer # decision.answer
    /\ assistant # None => edit[assistant.answer] = None

(* The inductive invariant. *)
ProjectInv ==
    /\ TypeOK
    /\ FilesAreLaid
    /\ TreesAreSound
    /\ SeenIsFormer
    /\ KeptIsFormer
    /\ VersionIsCurrent
    /\ ArchiveIsCurrent
    /\ BuildsHaveRead
    /\ QueueIsShared
    /\ EditsAreOpen
-----------------------------------------------------------------------------
(* Trees.                                                                  *)

LEMMA NoneIsNothing ==
    /\ None \notin 0..MaxRevision /\ None \notin 1..MaxRevision
    /\ None \notin FileIds
    /\ None \notin Answers
    /\ None \notin Queues
    /\ None \notin Tree
    /\ None \notin File
    /\ None \notin Archive
    /\ None \notin Edit
    /\ None \notin Decision
    /\ None \notin Assistant
    /\ None \notin Build
BY NoneAssumption, BoundAssumption

(* Part of what can be built can be built. *)
LEMMA PartIsSound ==
    ASSUME NEW T \in Tree, Sound(T), NEW S \in SUBSET T
    PROVE  Sound(S)
<1>1. IsFiniteSet(T)  BY TextsAssumption, FS_Subset DEF Tree
<1>2. Cardinality(S) <= Cardinality(T) /\ IsFiniteSet(S)  BY <1>1, FS_Subset
<1>3. Cardinality(S) \in Nat /\ Cardinality(T) \in Nat  BY <1>1, <1>2, FS_CardinalityType
<1> QED  BY <1>2, <1>3, FilesAssumption DEF Sound

LEMMA NoFileIsSound == Sound({}) /\ {} \in Tree
BY FS_EmptySet, FilesAssumption DEF Sound, Tree

(* As many paths as texts, if no two have one path. *)
LEMMA PathsAreAsMany ==
    ASSUME NEW T \in Tree, \A s, t \in T : s # t => s.path # t.path
    PROVE  Cardinality(PathsOf(T)) = Cardinality(T)
<1>1. IsFiniteSet(T)  BY TextsAssumption, FS_Subset DEF Tree
<1> DEFINE f == [t \in T |-> t.path]
<1>2. f \in Surjection(T, PathsOf(T)) /\ f \in Injection(T, PathsOf(T))
  BY DEF Surjection, Injection, PathsOf, IsInjective
<1>3. ExistsBijection(T, PathsOf(T))  BY <1>2 DEF ExistsBijection, Bijection
<1> QED  BY <1>1, <1>3, FS_Bijection

(* A fix corrects an edit of the files that were read at first. *)
LEMMA FixIsOfTheFilesRead ==
    ASSUME NEW read \in Tree, Sound(read),
           NEW e \in Edits(read), NEW next \in Edits(Applied(read, e))
    PROVE  Corrected(read, e, next) \in Edits(read)
<1> DEFINE c == Corrected(read, e, next)
           Base == {t \in read : t.path \notin PathsOf(c)}
           Next2 == {t \in Applied(read, e) : t.path \notin PathsOf(next)} \union next
<1>1. e \in SUBSET (Texts \ read) /\ next \in SUBSET Texts /\ Sound(Next2)
  BY DEF Edits
<1>2. c \in SUBSET (Texts \ read)  BY <1>1 DEF Corrected
<1>3. \A s, t \in read : s.path = t.path => s = t  BY DEF Sound
<1>4. \A s, t \in Next2 : s.path = t.path => s = t  BY <1>1 DEF Sound
<1>5. next \subseteq Next2  OBVIOUS
<1>6. c \subseteq Next2  BY DEF Corrected, Applied, PathsOf
<1>7. Base \subseteq Next2
  <2> SUFFICES ASSUME NEW t \in Base PROVE t \in Next2  OBVIOUS
  <2>1. CASE \E n \in next : n.path = t.path
    <3>1. PICK n \in next : n.path = t.path  BY <2>1
    <3>2. n \in read  BY <3>1 DEF PathsOf, Corrected
    <3> QED  BY <1>3, <3>1, <3>2
  <2>2. CASE ~ \E n \in next : n.path = t.path
    <3>1. t.path \notin PathsOf(next)  BY <2>2 DEF PathsOf
    <3>2. t.path \notin PathsOf(e)  BY <2>2, <3>1 DEF PathsOf, Corrected
    <3> QED  BY <3>1, <3>2 DEF Applied
  <2> QED  BY <2>1, <2>2
<1>8. Next2 \in Tree  BY <1>1 DEF Applied, Tree
<1>9. Sound(Base \union c)  BY <1>1, <1>6, <1>7, <1>8, PartIsSound
<1>10. Cardinality(PathsOf(c)) = Cardinality(c)
  BY <1>2, <1>4, <1>6, PathsAreAsMany DEF Tree
<1> QED  BY <1>2, <1>9, <1>10 DEF Edits

LEMMA InTree ==
    ASSUME NEW fs
    PROVE  \A t : t \in TreeOf(fs) <=> \E i \in FileIds : fs[i] # None /\ t = Text(fs[i])
BY DEF TreeOf, Text

LEMMA InPaths ==
    ASSUME NEW fs
    PROVE  \A p : p \in PathsOf(TreeOf(fs)) <=> \E i \in FileIds : fs[i] # None /\ p = fs[i].path
<1>1. ASSUME NEW p, p \in PathsOf(TreeOf(fs))
      PROVE  \E i \in FileIds : fs[i] # None /\ p = fs[i].path
  BY <1>1, InTree DEF PathsOf, Text
<1>2. ASSUME NEW i \in FileIds, fs[i] # None
      PROVE  fs[i].path \in PathsOf(TreeOf(fs))
  <2>1. Text(fs[i]) \in TreeOf(fs) /\ Text(fs[i]).path = fs[i].path  BY <1>2, InTree DEF Text
  <2> QED  BY <2>1 DEF PathsOf
<1> QED  BY <1>1, <1>2

(* There are as many texts as files. *)
LEMMA TreeIsOfTheFiles ==
    ASSUME NEW fs, Laid(fs)
    PROVE  /\ TreeOf(fs) \in Tree
           /\ IsFiniteSet(TreeOf(fs)) /\ IsFiniteSet(Used(fs))
           /\ Cardinality(TreeOf(fs)) = Cardinality(Used(fs))
<1>1. TreeOf(fs) \in Tree  BY DEF TreeOf, Tree, Laid, Text
<1>2. IsFiniteSet(TreeOf(fs))  BY <1>1, TextsAssumption, FS_Subset DEF Tree
<1> DEFINE f == [i \in Used(fs) |-> Text(fs[i])]
<1>3. f \in Injection(Used(fs), TreeOf(fs))
  <2>1. f \in [Used(fs) -> TreeOf(fs)]  BY DEF Used, TreeOf, Text
  <2>2. \A i, j \in Used(fs) : f[i] = f[j] => i = j  BY DEF Used, Laid, Text
  <2> QED  BY <2>1, <2>2 DEF Injection, IsInjective
<1>4. f \in Surjection(Used(fs), TreeOf(fs))
  BY DEF Surjection, Used, TreeOf, Text
<1> QED  BY <1>1, <1>2, <1>3, <1>4, FS_Injection
-----------------------------------------------------------------------------
(* What a step does to the files.                                          *)

(* A file stays, goes, is new with number 1 where nothing was shown, or gets the next number. *)
FileStep(i) ==
    \/ files'[i] \in {None, files[i]}
    \/ files[i] = None /\ seen[i] = None /\ files'[i] # None /\ files'[i].revision = 1
    \/ files[i] # None /\ files'[i] # None /\ files'[i].revision = files[i].revision + 1

(* A change of the project that keeps its files in order. *)
OrderlyChange ==
    /\ project \in 1..MaxRevision /\ project < MaxRevision
    /\ project' = project + 1
    /\ files' \in Files
    /\ Laid(files')
    /\ Sound(TreeOf(files'))
    /\ \A i \in FileIds : FileStep(i)

LEMMA Numbers ==
    ASSUME ProjectInv
    PROVE  /\ project # None => project \in 1..MaxRevision
           /\ \A i \in FileIds : files[i] # None =>
                 /\ files[i] \in File /\ files[i].revision \in 1..MaxRevision
                 /\ project # None /\ files[i].revision <= project
                 /\ project < MaxRevision => files[i].revision + 1 \in 1..MaxRevision
           /\ MaxRevision \in Nat \ {0}
<1>1. MaxRevision \in Nat \ {0}  BY BoundAssumption
<1>2. project # None => project \in 1..MaxRevision  BY DEF ProjectInv, TypeOK
<1>3. ASSUME NEW i \in FileIds, files[i] # None
      PROVE  /\ files[i] \in File /\ files[i].revision \in 1..MaxRevision
             /\ project # None /\ files[i].revision <= project
  <2>1. files[i] \in File  BY <1>3 DEF ProjectInv, TypeOK, Files
  <2> QED  BY <1>3, <2>1 DEF ProjectInv, FilesAreLaid, File
<1> QED  BY <1>1, <1>2, <1>3

LEMMA AddFileStep ==
    ASSUME ProjectInv, NEW i \in FileIds, NEW text \in Texts, AddFile(i, text)
    PROVE  OrderlyChange
<1>1. /\ files' = [files EXCEPT ![i] = NewFile(text)]
      /\ files[i] = None /\ seen[i] = None /\ project # None /\ project < MaxRevision
      /\ text.path \notin PathsOf(TreeOf(files)) /\ Sound(TreeOf(files) \union {text})
      /\ project' = project + 1
  BY DEF AddFile, CanChange, FreshFile, Touched
<1>2. text \in [path : Paths, content : Contents]  BY TextsAssumption
<1>3. NewFile(text) \in File /\ NewFile(text) # None /\ Text(NewFile(text)) = text
  BY <1>2, NoneIsNothing, Numbers DEF NewFile, File, Text
<1>4. files \in Files /\ files' \in Files  BY <1>1, <1>3 DEF ProjectInv, TypeOK, Files
<1>5. files'[i] = NewFile(text) /\ \A j \in FileIds \ {i} : files'[j] = files[j]
  BY <1>1, <1>4 DEF Files
<1>6. \A j \in FileIds : files[j] # None => files[j].path # text.path
  BY <1>1, InPaths
<1>7. Laid(files')
  BY <1>3, <1>5, <1>6 DEF Laid, ProjectInv, FilesAreLaid, Text, NewFile
<1>8. TreeOf(files') = TreeOf(files) \union {text}
  <2>1. ASSUME NEW t \in TreeOf(files') PROVE t \in TreeOf(files) \union {text}
    <3>1. PICK j \in FileIds : files'[j] # None /\ t = Text(files'[j])  BY InTree
    <3> QED  BY <1>3, <1>5, <3>1, InTree
  <2>2. text \in TreeOf(files')  BY <1>3, <1>5, InTree
  <2>3. ASSUME NEW t \in TreeOf(files) PROVE t \in TreeOf(files')
    <3>1. PICK j \in FileIds : files[j] # None /\ t = Text(files[j])  BY InTree
    <3> QED  BY <1>1, <1>5, <3>1, InTree
  <2> QED  BY <2>1, <2>2, <2>3
<1>9. \A j \in FileIds : FileStep(j)  BY <1>1, <1>3, <1>5 DEF FileStep, NewFile
<1> QED  BY <1>1, <1>4, <1>7, <1>8, <1>9, Numbers DEF OrderlyChange

LEMMA UpdateFileStep ==
    ASSUME ProjectInv, NEW i \in FileIds, NEW text \in Texts, NEW here \in BOOLEAN,
           UpdateFile(i, text, here)
    PROVE  OrderlyChange
<1>1. /\ files' = [files EXCEPT ![i] = Changed(files[i], text)]
      /\ files[i] # None /\ project # None /\ project < MaxRevision
      /\ \A j \in FileIds \ {i} : files[j] # None =>
            files[j].path # text.path /\ ~Clash(files[j].path, text.path)
      /\ project' = project + 1
  BY DEF UpdateFile, CanChange, Touched
<1> DEFINE new == Changed(files[i], text)
<1>2. text \in [path : Paths, content : Contents]  BY TextsAssumption
<1>3. new \in File /\ new # None /\ Text(new) = text /\ new.revision = files[i].revision + 1
  <2>1. files[i].revision + 1 \in 1..MaxRevision  BY <1>1, Numbers
  <2> QED  BY <1>2, <2>1, NoneIsNothing DEF Changed, File, Text
<1>4. files \in Files /\ files' \in Files  BY <1>1, <1>3 DEF ProjectInv, TypeOK, Files
<1>5. files'[i] = new /\ \A j \in FileIds \ {i} : files'[j] = files[j]
  BY <1>1, <1>4 DEF Files
<1>6. new.path = text.path  BY DEF Changed
<1> HIDE DEF new
<1>7. Laid(files')
  BY <1>1, <1>3, <1>5, <1>6 DEF Laid, ProjectInv, FilesAreLaid
<1>8. Used(files') = Used(files)  BY <1>1, <1>3, <1>5 DEF Used
<1>9. Cardinality(TreeOf(files')) <= MaxFiles
  <2>1. Cardinality(TreeOf(files')) = Cardinality(Used(files'))  BY <1>7, TreeIsOfTheFiles
  <2>2. Cardinality(TreeOf(files)) = Cardinality(Used(files))
    BY TreeIsOfTheFiles DEF ProjectInv, FilesAreLaid
  <2> QED  BY <1>8, <2>1, <2>2 DEF ProjectInv, FilesAreLaid, Sound
<1>10. ASSUME NEW s \in TreeOf(files'), NEW t \in TreeOf(files'), s # t
       PROVE  s.path # t.path /\ ~Clash(s.path, t.path)
  <2>1. PICK j \in FileIds : files'[j] # None /\ s = Text(files'[j])  BY DEF TreeOf, Text
  <2>2. PICK k \in FileIds : files'[k] # None /\ t = Text(files'[k])  BY DEF TreeOf, Text
  <2>3. j # k  BY <1>10, <2>1, <2>2
  <2>4. CASE j = i  BY <1>1, <1>5, <1>6, <2>1, <2>2, <2>3, <2>4 DEF Text, Clash
  <2>5. CASE k = i  BY <1>1, <1>5, <1>6, <2>1, <2>2, <2>3, <2>5 DEF Text, Clash
  <2>6. CASE j # i /\ k # i
    <3>1. s \in TreeOf(files) /\ t \in TreeOf(files)  BY <1>5, <2>1, <2>2, <2>6 DEF TreeOf, Text
    <3> QED  BY <1>10, <3>1 DEF ProjectInv, FilesAreLaid, Sound
  <2> QED  BY <2>4, <2>5, <2>6
<1>11. \A j \in FileIds : FileStep(j)  BY <1>1, <1>3, <1>5 DEF FileStep
<1> QED  BY <1>1, <1>4, <1>7, <1>9, <1>10, <1>11, Numbers DEF OrderlyChange, Sound

LEMMA DeleteFileStep ==
    ASSUME ProjectInv, NEW i \in FileIds, DeleteFile(i)
    PROVE  OrderlyChange
<1>1. /\ files' = [files EXCEPT ![i] = None]
      /\ project # None /\ project < MaxRevision /\ project' = project + 1
  BY DEF DeleteFile, CanChange, Touched
<1>2. files \in Files /\ files' \in Files  BY <1>1 DEF ProjectInv, TypeOK, Files
<1>3. files'[i] = None /\ \A j \in FileIds \ {i} : files'[j] = files[j]
  BY <1>1, <1>2 DEF Files
<1>4. Laid(files')  BY <1>3 DEF Laid, ProjectInv, FilesAreLaid
<1>5. TreeOf(files') \in SUBSET TreeOf(files)  BY <1>3 DEF TreeOf
<1>6. Sound(TreeOf(files'))
  BY <1>5, PartIsSound, TreeIsOfTheFiles DEF ProjectInv, FilesAreLaid
<1>7. \A j \in FileIds : FileStep(j)  BY <1>3 DEF FileStep
<1> QED  BY <1>1, <1>2, <1>4, <1>6, <1>7, Numbers DEF OrderlyChange

LEMMA PatchStep ==
    ASSUME ProjectInv, Patch
    PROVE  OrderlyChange
BY Numbers DEF Patch, CanChange, Touched, OrderlyChange, ProjectInv, TypeOK, FilesAreLaid, FileStep

(* A restore leaves the files of the version it restores. *)
LEMMA RestoreStep ==
    ASSUME ProjectInv, NEW r \in 1..MaxRevision, Restore(r)
    PROVE  OrderlyChange /\ TreeOf(files') = versions[r]
<1> DEFINE tree == versions[r]
           missing == {t \in tree : t.path \notin PathsOf(TreeOf(files))}
<1>1. tree # None /\ tree \in Tree /\ Sound(tree)
  BY DEF Restore, ProjectInv, TypeOK, TreesAreSound
<1>2. project # None /\ project < MaxRevision /\ project' = project + 1
  BY DEF Restore, CanChange, Touched
<1>3. PICK new \in [tree -> FileIds \union {None}] :
        /\ \A t \in tree : IF t \in missing THEN new[t] # None /\ FreshFile(new[t])
                           ELSE new[t] = None
        /\ \A s, t \in missing : new[s] = new[t] => s = t
        /\ files' = Restored(tree, new)
  BY DEF Restore
<1>4. \A s, t \in tree : s.path = t.path => s = t  BY <1>1 DEF Sound
<1> HIDE DEF tree
<1>5. ASSUME NEW i \in FileIds, files[i] # None, files[i].path \in PathsOf(tree)
      PROVE  \E t \in tree : t.path = files[i].path /\ files'[i] = Replaced(files[i], t)
  <2> DEFINE u == CHOOSE t \in tree : t.path = files[i].path
  <2>1. \E t \in tree : t.path = files[i].path  BY <1>5 DEF PathsOf
  <2>2. u \in tree /\ u.path = files[i].path  BY <2>1
  <2>3. files'[i] = Replaced(files[i], u)  BY <1>3, <1>5 DEF Restored
  <2> QED  BY <2>2, <2>3
<1>6. ASSUME NEW i \in FileIds, files[i] # None, files[i].path \notin PathsOf(tree)
      PROVE  files'[i] = None
  BY <1>3, <1>6 DEF Restored
<1>7. ASSUME NEW i \in FileIds, files[i] = None, NEW s \in tree, new[s] = i
      PROVE  /\ files'[i] = NewFile(s) /\ s \in missing /\ FreshFile(i)
  <2> DEFINE u == CHOOSE t \in tree : new[t] = i
  <2>1. u \in tree /\ new[u] = i  BY <1>7
  <2>2. i # None  BY NoneIsNothing
  <2>3. s \in missing /\ u \in missing /\ FreshFile(i)  BY <1>3, <1>7, <2>1, <2>2
  <2>4. u = s  BY <1>3, <1>7, <2>1, <2>3
  <2>5. files'[i] = NewFile(u)  BY <1>3, <1>7 DEF Restored
  <2> QED  BY <2>3, <2>4, <2>5
<1>8. ASSUME NEW i \in FileIds, files[i] = None, ~ \E s \in tree : new[s] = i
      PROVE  files'[i] = None
  BY <1>3, <1>8 DEF Restored
<1>9. ASSUME NEW i \in FileIds, NEW t \in tree, files[i] # None, t.path = files[i].path,
             files'[i] = Replaced(files[i], t)
      PROVE  /\ files'[i] \in File /\ files'[i] # None /\ Text(files'[i]) = t
             /\ files'[i] = files[i] \/ files'[i].revision = files[i].revision + 1
  <2>1. t \in [path : Paths, content : Contents]  BY <1>1, TextsAssumption DEF Tree
  <2>2. files[i] \in File /\ files[i].revision + 1 \in 1..MaxRevision  BY <1>2, <1>9, Numbers
  <2>3. CASE files[i].content = t.content  BY <1>9, <2>1, <2>2, <2>3 DEF Replaced, Text, File
  <2>4. CASE files[i].content # t.content
    <3>1. files'[i] = [files[i] EXCEPT !.content = t.content, !.revision = files[i].revision + 1]
      BY <1>9, <2>4 DEF Replaced
    <3>2. /\ files'[i].path = t.path /\ files'[i].content = t.content
          /\ files'[i].revision = files[i].revision + 1 /\ files'[i] \in File
      BY <1>9, <2>1, <2>2, <3>1 DEF File
    <3> QED  BY <2>1, <3>2, NoneIsNothing DEF Text
  <2> QED  BY <2>3, <2>4
<1>10. ASSUME NEW t \in tree
       PROVE  NewFile(t) \in File /\ NewFile(t) # None /\ Text(NewFile(t)) = t
  <2>1. t \in [path : Paths, content : Contents]  BY <1>1, TextsAssumption DEF Tree
  <2> QED  BY <2>1, NoneIsNothing, BoundAssumption DEF NewFile, File, Text
<1>11. ASSUME NEW i \in FileIds
       PROVE  FileStep(i) /\ files'[i] \in File \union {None}
  <2>1. CASE files[i] # None
    <3>1. CASE files[i].path \in PathsOf(tree)
      <4>1. PICK t \in tree : t.path = files[i].path /\ files'[i] = Replaced(files[i], t)
        BY <1>5, <2>1, <3>1
      <4> QED  BY <1>9, <2>1, <4>1 DEF FileStep
    <3> QED  BY <1>6, <2>1, <3>1 DEF FileStep
  <2>2. CASE files[i] = None
    <3>1. CASE \E s \in tree : new[s] = i
      <4>1. PICK s \in tree : new[s] = i  BY <3>1
      <4>2. files'[i] = NewFile(s) /\ seen[i] = None  BY <1>7, <2>2, <4>1 DEF FreshFile
      <4>3. NewFile(s).revision = 1  BY DEF NewFile
      <4> QED  BY <1>10, <2>2, <4>2, <4>3 DEF FileStep
    <3> QED  BY <1>8, <2>2, <3>1 DEF FileStep
  <2> QED  BY <2>1, <2>2
<1>12. ASSUME NEW i \in FileIds, files'[i] # None
       PROVE  /\ Text(files'[i]) \in tree
              /\ files[i] # None => files'[i].path = files[i].path
              /\ files[i] = None => \E s \in missing : new[s] = i /\ files'[i].path = s.path
  BY <1>5, <1>6, <1>7, <1>8, <1>9, <1>10, <1>12 DEF Text
<1>13. Laid(files')
  <2>1. \A i \in FileIds : files'[i] # None => Text(files'[i]) \in Texts
    BY <1>1, <1>12 DEF Tree
  <2>2. ASSUME NEW i \in FileIds, NEW j \in FileIds, files'[i] # None, files'[j] # None,
               files'[i].path = files'[j].path
        PROVE  i = j
    <3>1. CASE files[i] # None /\ files[j] # None
      BY <1>12, <2>2, <3>1 DEF ProjectInv, FilesAreLaid, Laid
    <3>2. CASE files[i] = None /\ files[j] = None
      BY <1>4, <1>12, <2>2, <3>2
    <3>3. CASE files[i] # None /\ files[j] = None
      BY <1>12, <2>2, <3>3, InPaths
    <3>4. CASE files[i] = None /\ files[j] # None
      BY <1>12, <2>2, <3>4, InPaths
    <3> QED  BY <3>1, <3>2, <3>3, <3>4
  <2> QED  BY <2>1, <2>2 DEF Laid
<1>14. TreeOf(files') = tree
  <2>1. ASSUME NEW t \in TreeOf(files') PROVE t \in tree
    BY <1>12, InTree
  <2>2. ASSUME NEW t \in tree PROVE t \in TreeOf(files')
    <3>1. CASE t \in missing
      <4>1. new[t] \in FileIds /\ files[new[t]] = None  BY <1>3, <3>1 DEF FreshFile
      <4>2. files'[new[t]] = NewFile(t)  BY <1>7, <4>1
      <4> QED  BY <1>10, <4>1, <4>2, InTree
    <3>2. CASE t \notin missing
      <4>1. PICK i \in FileIds : files[i] # None /\ t.path = files[i].path  BY <3>2, InPaths
      <4>2. files[i].path \in PathsOf(tree)  BY <4>1 DEF PathsOf
      <4>3. files'[i] = Replaced(files[i], t)  BY <1>4, <1>5, <4>1, <4>2
      <4> QED  BY <1>9, <4>1, <4>3, InTree
    <3> QED  BY <3>1, <3>2
  <2> QED  BY <2>1, <2>2
<1>15. files' \in Files
  <2>1. files' = [i \in FileIds |-> files'[i]]  BY <1>3 DEF Restored
  <2> QED  BY <1>11, <2>1 DEF Files
<1> QED  BY <1>1, <1>2, <1>11, <1>13, <1>14, <1>15, Numbers DEF OrderlyChange, tree

-----------------------------------------------------------------------------
(* Numbers of paths. *)
LEMMA NumberIsOfAFile ==
    ASSUME NEW fs, NEW p, p \in PathsOf(TreeOf(fs))
    PROVE  \E i \in FileIds : fs[i] # None /\ fs[i].path = p /\ RevisionAt(fs, p) = fs[i].revision
<1> DEFINE j == CHOOSE i \in FileIds : fs[i] # None /\ fs[i].path = p
<1>1. \E i \in FileIds : fs[i] # None /\ fs[i].path = p  BY InPaths
<1>2. j \in FileIds /\ fs[j] # None /\ fs[j].path = p  BY <1>1
<1>3. RevisionAt(fs, p) = fs[j].revision  BY DEF RevisionAt
<1> QED  BY <1>2, <1>3

LEMMA NumbersArePositive ==
    ASSUME NEW fs \in Files, NEW p
    PROVE  RevisionAt(fs, p) = 0 <=> p \notin PathsOf(TreeOf(fs))
<1>1. CASE p \in PathsOf(TreeOf(fs))
  <2>1. PICK i \in FileIds : fs[i] # None /\ RevisionAt(fs, p) = fs[i].revision
    BY <1>1, NumberIsOfAFile
  <2>2. fs[i] \in File  BY <2>1 DEF Files
  <2>3. fs[i].revision \in 1..MaxRevision  BY <2>2 DEF File
  <2>4. 0 \notin 1..MaxRevision  BY BoundAssumption
  <2> QED  BY <1>1, <2>1, <2>3, <2>4
<1>2. CASE p \notin PathsOf(TreeOf(fs))  BY <1>2 DEF RevisionAt
<1> QED  BY <1>1, <1>2

(* What an accepted edit leads to can be built, though it was checked against other files. *)
LEMMA AcceptStep ==
    ASSUME ProjectInv, Accept
    PROVE  /\ OrderlyChange
           /\ seen' = files'
           /\ versions' = WithVersion(versions, project + 1, TreeOf(files'))
           /\ \A i \in FileIds : files[i] # None /\ files[i].path \notin PathsOf(decision.accept) =>
                 files'[i] = files[i]
<1> DEFINE accept == decision.accept
           tree == TreeOf(files)
           added == {t \in accept : t.path \notin PathsOf(tree)}
<1>1. /\ decision # None /\ accept # {} /\ Acceptable /\ project' = project + 1
      /\ seen' = files' /\ versions' = WithVersion(versions, project + 1, TreeOf(files'))
  BY DEF Accept, Touched
<1>2. /\ project # None /\ project < MaxRevision /\ accept \in Tree /\ Sound(accept)
  BY <1>1 DEF ProjectInv, TypeOK, Decision, EditsAreOpen, TreesAreSound
<1>3. PICK new \in [added -> {i \in FileIds : FreshFile(i)}] :
        /\ \A s, t \in added : new[s] = new[t] => s = t
        /\ files' = [i \in FileIds |->
             IF \E t \in added : new[t] = i THEN NewFile(CHOOSE t \in added : new[t] = i)
             ELSE IF files[i] # None /\ files[i].path \in PathsOf(accept)
                  THEN [files[i] EXCEPT !.revision = @ + 1, !.content =
                          (CHOOSE t \in accept : t.path = files[i].path).content]
             ELSE files[i]]
  BY DEF Accept
<1>4. /\ \A s, t \in accept : s.path = t.path => s = t
      /\ tree \in Tree /\ Sound(tree) /\ Laid(files)
  BY <1>2, TreeIsOfTheFiles DEF Sound, ProjectInv, FilesAreLaid
<1> HIDE DEF accept, tree
<1>5. ASSUME NEW s \in added
      PROVE  /\ new[s] \in FileIds /\ files[new[s]] = None /\ seen[new[s]] = None
             /\ files'[new[s]] = NewFile(s)
  <2> DEFINE i == new[s]
             u == CHOOSE t \in added : new[t] = i
  <2>1. i \in FileIds /\ FreshFile(i)  BY <1>3
  <2>2. u \in added /\ new[u] = i  OBVIOUS
  <2>3. u = s  BY <1>3, <2>2
  <2>4. files'[i] = NewFile(u)  BY <1>3, <2>1
  <2> QED  BY <2>1, <2>3, <2>4 DEF FreshFile
<1>6. ASSUME NEW i \in FileIds, files[i] # None, files[i].path \in PathsOf(accept)
      PROVE  \E t \in accept : t.path = files[i].path /\
                files'[i] = [files[i] EXCEPT !.revision = files[i].revision + 1, !.content = t.content]
  <2> DEFINE u == CHOOSE t \in accept : t.path = files[i].path
  <2>1. \E t \in accept : t.path = files[i].path  BY <1>6 DEF PathsOf
  <2>2. u \in accept /\ u.path = files[i].path  BY <2>1
  <2>3. ~ \E t \in added : new[t] = i  BY <1>5, <1>6
  <2>4. files'[i] = [files[i] EXCEPT !.revision = files[i].revision + 1, !.content = u.content]
    BY <1>3, <1>6, <2>3
  <2> QED  BY <2>2, <2>4
<1>7. ASSUME NEW i \in FileIds, files[i] # None, files[i].path \notin PathsOf(accept)
      PROVE  files'[i] = files[i]
  <2>1. ~ \E t \in added : new[t] = i  BY <1>5, <1>7
  <2> QED  BY <1>3, <1>7, <2>1
<1>8. ASSUME NEW i \in FileIds, files[i] = None, ~ \E t \in added : new[t] = i
      PROVE  files'[i] = None
  BY <1>3, <1>8
<1>9. ASSUME NEW i \in FileIds, NEW t \in accept, files[i] # None, t.path = files[i].path,
             files'[i] = [files[i] EXCEPT !.revision = files[i].revision + 1, !.content = t.content]
      PROVE  /\ files'[i] \in File /\ files'[i] # None /\ Text(files'[i]) = t
             /\ files'[i].revision = files[i].revision + 1
  <2>1. t \in [path : Paths, content : Contents]  BY <1>2, TextsAssumption DEF Tree
  <2>2. files[i] \in File /\ files[i].revision + 1 \in 1..MaxRevision  BY <1>2, <1>9, Numbers
  <2>3. /\ files'[i].path = t.path /\ files'[i].content = t.content
        /\ files'[i].revision = files[i].revision + 1 /\ files'[i] \in File
    BY <1>9, <2>1, <2>2 DEF File
  <2> QED  BY <2>1, <2>3, NoneIsNothing DEF Text
<1>10. ASSUME NEW t \in accept
       PROVE  /\ NewFile(t) \in File /\ NewFile(t) # None /\ Text(NewFile(t)) = t
              /\ NewFile(t).revision = 1
  <2>1. t \in [path : Paths, content : Contents]  BY <1>2, TextsAssumption DEF Tree
  <2> QED  BY <2>1, NoneIsNothing, BoundAssumption DEF NewFile, File, Text
<1>11. ASSUME NEW i \in FileIds
       PROVE  FileStep(i) /\ files'[i] \in File \union {None}
  <2>1. CASE files[i] # None
    <3>1. CASE files[i].path \in PathsOf(accept)
      <4>1. PICK t \in accept : t.path = files[i].path /\
              files'[i] = [files[i] EXCEPT !.revision = files[i].revision + 1, !.content = t.content]
        BY <1>6, <2>1, <3>1
      <4> QED  BY <1>9, <2>1, <4>1 DEF FileStep
    <3>2. CASE files[i].path \notin PathsOf(accept)
      BY <1>7, <2>1, <3>2, Numbers DEF FileStep
    <3> QED  BY <3>1, <3>2
  <2>2. CASE files[i] = None
    <3>1. CASE \E s \in added : new[s] = i
      <4>1. PICK s \in added : new[s] = i  BY <3>1
      <4>2. files'[i] = NewFile(s) /\ seen[i] = None  BY <1>5, <4>1
      <4> QED  BY <1>10, <2>2, <4>2 DEF FileStep
    <3> QED  BY <1>8, <2>2, <3>1 DEF FileStep
  <2> QED  BY <2>1, <2>2
<1>12. ASSUME NEW i \in FileIds, files'[i] # None
       PROVE  /\ Text(files'[i]) \in Applied(tree, accept)
              /\ files[i] # None => files'[i].path = files[i].path
              /\ files[i] = None => \E s \in added : new[s] = i /\ files'[i].path = s.path
  <2>1. CASE files[i] # None
    <3>1. CASE files[i].path \in PathsOf(accept)
      <4>1. PICK t \in accept : t.path = files[i].path /\
              files'[i] = [files[i] EXCEPT !.revision = files[i].revision + 1, !.content = t.content]
        BY <1>6, <2>1, <3>1
      <4>2. Text(files'[i]) = t  BY <1>9, <2>1, <4>1
      <4>3. files'[i].path = t.path  BY <4>2 DEF Text
      <4> QED  BY <2>1, <4>1, <4>2, <4>3 DEF Applied
    <3>2. CASE files[i].path \notin PathsOf(accept)
      <4>1. files'[i] = files[i] /\ Text(files[i]) \in tree /\ Text(files[i]).path = files[i].path
        BY <1>7, <2>1, <3>2, InTree DEF tree, Text
      <4> QED  BY <2>1, <3>2, <4>1 DEF Applied
    <3> QED  BY <3>1, <3>2
  <2>2. CASE files[i] = None
    <3>1. PICK s \in added : new[s] = i  BY <1>8, <1>12, <2>2
    <3>2. files'[i] = NewFile(s)  BY <1>5, <3>1
    <3> QED  BY <1>10, <2>2, <3>1, <3>2 DEF Applied, NewFile
  <2> QED  BY <2>1, <2>2
<1>13. ASSUME NEW s \in added, NEW i \in FileIds, files[i] # None
       PROVE  files[i].path # s.path
  BY <1>13, InPaths DEF tree
<1>14. Laid(files')
  <2>1. \A i \in FileIds : files'[i] # None => Text(files'[i]) \in Texts
    BY <1>2, <1>4, <1>12 DEF Tree, Applied
  <2>2. ASSUME NEW i \in FileIds, NEW j \in FileIds, files'[i] # None, files'[j] # None,
               files'[i].path = files'[j].path
        PROVE  i = j
    <3>1. CASE files[i] # None /\ files[j] # None
      BY <1>4, <1>12, <2>2, <3>1 DEF Laid
    <3>2. CASE files[i] = None /\ files[j] = None
      BY <1>4, <1>12, <2>2, <3>2
    <3>3. CASE files[i] # None /\ files[j] = None
      BY <1>12, <1>13, <2>2, <3>3
    <3>4. CASE files[i] = None /\ files[j] # None
      BY <1>12, <1>13, <2>2, <3>4
    <3> QED  BY <3>1, <3>2, <3>3, <3>4
  <2> QED  BY <2>1, <2>2 DEF Laid
<1>15. ASSUME NEW s \in added, NEW t \in tree
       PROVE  s.path # t.path /\ ~Clash(s.path, t.path)
  <2>1. PICK i \in FileIds : files[i] # None /\ t = Text(files[i])  BY InTree DEF tree
  <2>2. s.path \in PathsOf(accept) /\ ~Stale(s.path)
    BY <1>1 DEF Acceptable, PathsOf, accept
  <2>3. RevisionAt(files, s.path) = 0 /\ files \in Files
    BY NumbersArePositive DEF ProjectInv, TypeOK, tree
  <2>4. ~Clash(files[i].path, s.path)
    BY <2>1, <2>2, <2>3 DEF Stale
  <2> QED  BY <1>13, <2>1, <2>4 DEF Text, Clash
<1>16. Sound(Applied(tree, accept))
  <2>1. Cardinality(Applied(tree, accept)) <= MaxFiles
    BY <1>1 DEF Acceptable, accept, tree
  <2>2. ASSUME NEW s \in accept, NEW t \in tree, t.path \notin PathsOf(accept)
        PROVE  s.path # t.path /\ ~Clash(s.path, t.path) /\ ~Clash(t.path, s.path)
    <3>1. s.path # t.path  BY <2>2 DEF PathsOf
    <3>2. CASE s \in added  BY <1>15, <3>2 DEF Clash
    <3>3. CASE s \notin added
      <4>1. PICK u \in tree : u.path = s.path  BY <3>3 DEF PathsOf
      <4>2. u # t /\ ~Clash(u.path, t.path)  BY <1>4, <3>1, <4>1 DEF Sound
      <4> QED  BY <3>1, <4>1, <4>2 DEF Clash
    <3> QED  BY <3>2, <3>3
  <2>3. ASSUME NEW s \in Applied(tree, accept), NEW t \in Applied(tree, accept), s # t
        PROVE  s.path # t.path /\ ~Clash(s.path, t.path)
    <3>1. CASE s \in accept /\ t \in accept  BY <1>2, <2>3, <3>1 DEF Sound
    <3>2. CASE s \in tree /\ t \in tree  BY <1>4, <2>3, <3>2 DEF Sound
    <3>3. CASE s \in accept /\ t \in tree /\ t.path \notin PathsOf(accept)  BY <2>2, <3>3
    <3>4. CASE t \in accept /\ s \in tree /\ s.path \notin PathsOf(accept)  BY <2>2, <3>4
    <3> QED  BY <3>1, <3>2, <3>3, <3>4 DEF Applied
  <2> QED  BY <2>1, <2>3 DEF Sound
<1>17. Sound(TreeOf(files'))
  <2>1. TreeOf(files') \in SUBSET Applied(tree, accept)  BY <1>12, InTree
  <2>2. Applied(tree, accept) \in Tree  BY <1>2, <1>4 DEF Applied, Tree
  <2> QED  BY <1>16, <2>1, <2>2, PartIsSound
<1>18. files' \in Files
  <2> DEFINE F(i) == IF \E t \in added : new[t] = i THEN NewFile(CHOOSE t \in added : new[t] = i)
             ELSE IF files[i] # None /\ files[i].path \in PathsOf(accept)
                  THEN [files[i] EXCEPT !.revision = @ + 1, !.content =
                          (CHOOSE t \in accept : t.path = files[i].path).content]
             ELSE files[i]
  <2>1. files' = [i \in FileIds |-> F(i)]  BY <1>3
  <2> HIDE DEF F
  <2>2. \A i \in FileIds : files'[i] = F(i)  BY <2>1
  <2> QED  BY <1>11, <2>1, <2>2 DEF Files
<1>19. OrderlyChange  BY <1>1, <1>2, <1>11, <1>14, <1>17, <1>18, Numbers DEF OrderlyChange
<1> QED  BY <1>1, <1>7, <1>19 DEF accept

LEMMA DeleteStep ==
    ASSUME ProjectInv, Delete
    PROVE  /\ project' = None /\ versions' = NoVersions /\ archive' = None
           /\ files' \in Files /\ Laid(files') /\ Sound(TreeOf(files'))
           /\ \A i \in FileIds : files'[i] = None
           /\ \A a \in Answers : edit'[a] = None
<1>1. /\ project' = None /\ versions' = NoVersions /\ archive' = None
      /\ files' = [i \in FileIds |-> None] /\ edit' = [a \in Answers |-> None]
  BY DEF Delete
<1>2. \A i \in FileIds : files'[i] = None  BY <1>1
<1>3. TreeOf(files') = {}  BY <1>2 DEF TreeOf
<1> QED  BY <1>1, <1>2, <1>3, NoFileIsSound DEF Files, Laid

(* Every step keeps the files, deletes the project, or changes it in order. *)
LEMMA FilesInOrder ==
    ASSUME ProjectInv, [Next]_vars
    PROVE  UNCHANGED <<project, files>> \/ Delete \/ OrderlyChange
<1>1. ASSUME NEW b \in Builds, Builder(b) PROVE UNCHANGED <<project, files>>
  BY <1>1 DEF Builder, Press, Check, TakeQueue, TakePlace, GiveUp, ReadProject, ReadFiles,
              Compiled, Save, Stored
<1>2. CASE Look \/ Refuse \/ Reject \/ Assists \/ Restart \/ UNCHANGED vars
           \/ \E a \in Answers, accept \in Tree : Decide(a, accept)
  BY <1>2 DEF Look, Refuse, Reject, Assists, Propose, Regenerate, SaveEdit, Interrupt, Restart, Decide,
              Stored, vars
<1>3. CASE Patch \/ Delete \/ Accept  BY <1>3, PatchStep, AcceptStep
<1>4. CASE \E i \in FileIds, text \in Texts : AddFile(i, text)  BY <1>4, AddFileStep
<1>5. CASE \E i \in FileIds, text \in Texts, here \in BOOLEAN : UpdateFile(i, text, here)
  BY <1>5, UpdateFileStep
<1>6. CASE \E i \in FileIds : DeleteFile(i)  BY <1>6, DeleteFileStep
<1>7. CASE \E r \in 1..MaxRevision : Restore(r)  BY <1>7, RestoreStep
<1> QED  BY <1>1, <1>2, <1>3, <1>4, <1>5, <1>6, <1>7 DEF Next, User

LEMMA FilesStep ==
    ASSUME ProjectInv, [Next]_vars
    PROVE  FilesAreLaid' /\ files' \in Files /\ project' \in 1..MaxRevision \union {None}
<1>1. CASE UNCHANGED <<project, files>>
  BY <1>1 DEF ProjectInv, TypeOK, FilesAreLaid
<1>2. CASE Delete  BY <1>2, DeleteStep DEF FilesAreLaid
<1>3. CASE OrderlyChange
  <2>1. /\ files' \in Files /\ Laid(files') /\ Sound(TreeOf(files'))
        /\ project' = project + 1 /\ project \in 1..MaxRevision /\ project < MaxRevision
    BY <1>3 DEF OrderlyChange
  <2>2. project' \in 1..MaxRevision /\ project' # None
    BY <2>1, BoundAssumption, NoneIsNothing
  <2>3. ASSUME NEW i \in FileIds, files'[i] # None PROVE files'[i].revision <= project'
    <3>1. FileStep(i)  BY <1>3 DEF OrderlyChange
    <3>2. files[i] # None => files[i].revision \in 1..MaxRevision /\ files[i].revision <= project
      BY Numbers
    <3> QED  BY <2>1, <2>3, <3>1, <3>2, BoundAssumption DEF FileStep
  <2> QED  BY <2>1, <2>2, <2>3 DEF FilesAreLaid
<1> QED  BY <1>1, <1>2, <1>3, FilesInOrder

-----------------------------------------------------------------------------
(* Versions and the archive. *)

Versions == [1..MaxRevision -> Tree \union {None}]

(* What is recorded of a project with this number and these files. *)
Recorded(vs, number, tree) ==
    /\ vs \in Versions
    /\ \A r \in 1..MaxRevision : vs[r] # None =>
          number # None /\ r <= number /\ Sound(vs[r]) /\ (r = number => vs[r] = tree)

LEMMA VersionsAreRecorded ==
    ASSUME ProjectInv
    PROVE  Recorded(versions, project, TreeOf(files))
BY DEF ProjectInv, TypeOK, Versions, Recorded, KeptIsFormer, VersionIsCurrent, TreesAreSound

(* A version that is kept is the one that was there, or the new one. *)
LEMMA OneVersionMore ==
    ASSUME NEW vs \in Versions, NEW r \in 1..MaxRevision, NEW tree \in Tree
    PROVE  /\ WithVersion(vs, r, tree) \in Versions
           /\ \A q \in 1..MaxRevision : WithVersion(vs, r, tree)[q] # None =>
                 \/ WithVersion(vs, r, tree)[q] = vs[q]
                 \/ vs[r] = None /\ q = r /\ WithVersion(vs, r, tree)[q] = tree
BY DEF WithVersion, Versions

LEMMA OneRecordMore ==
    ASSUME NEW vs, NEW number \in 1..MaxRevision, NEW tree, Recorded(vs, number, tree),
           NEW r \in 1..MaxRevision, r <= number,
           NEW new \in Tree, Sound(new), r = number => new = tree
    PROVE  Recorded(WithVersion(vs, r, new), number, tree)
<1>1. vs \in Versions  BY DEF Recorded
<1>2. WithVersion(vs, r, new) \in Versions  BY <1>1, OneVersionMore
<1>3. ASSUME NEW q \in 1..MaxRevision, WithVersion(vs, r, new)[q] # None
      PROVE  /\ number # None /\ q <= number /\ Sound(WithVersion(vs, r, new)[q])
             /\ q = number => WithVersion(vs, r, new)[q] = tree
  <2>1. \/ WithVersion(vs, r, new)[q] = vs[q]
        \/ q = r /\ WithVersion(vs, r, new)[q] = new
    BY <1>1, <1>3, OneVersionMore
  <2>2. number # None  BY NoneIsNothing
  <2> QED  BY <1>3, <2>1, <2>2 DEF Recorded
<1> QED  BY <1>2, <1>3 DEF Recorded

(* What was recorded stays true of a later number. *)
LEMMA RecordsStay ==
    ASSUME NEW vs, NEW number \in 1..MaxRevision, NEW tree, NEW later,
           Recorded(vs, number, tree), number + 1 \in 1..MaxRevision
    PROVE  Recorded(vs, number + 1, later)
<1>1. number + 1 # None  BY NoneIsNothing
<1> QED  BY <1>1, BoundAssumption DEF Recorded

LEMMA VersionsStep ==
    ASSUME ProjectInv, [Next]_vars
    PROVE  Recorded(versions', project', TreeOf(files'))
<1>1. CASE UNCHANGED <<project, files, versions>>  BY <1>1, VersionsAreRecorded
<1>2. CASE Delete
  <2>1. versions' = NoVersions  BY <1>2, DeleteStep
  <2>2. versions' \in Versions /\ \A r \in 1..MaxRevision : versions'[r] = None
    BY <2>1 DEF NoVersions, Versions
  <2> QED  BY <2>2 DEF Recorded
<1>3. ASSUME OrderlyChange
      PROVE  /\ project \in 1..MaxRevision /\ project + 1 \in 1..MaxRevision
             /\ project' = project + 1 /\ TreeOf(files') \in Tree /\ Sound(TreeOf(files'))
             /\ Recorded(versions, project + 1, TreeOf(files'))
  <2>1. /\ project \in 1..MaxRevision /\ project < MaxRevision /\ project' = project + 1
        /\ Laid(files') /\ Sound(TreeOf(files'))
    BY <1>3 DEF OrderlyChange
  <2>2. project + 1 \in 1..MaxRevision  BY <2>1, BoundAssumption
  <2> QED  BY <2>1, <2>2, TreeIsOfTheFiles, VersionsAreRecorded, RecordsStay
<1>4. CASE OrderlyChange /\ UNCHANGED versions  BY <1>3, <1>4
<1>5. CASE Accept
  <2>1. OrderlyChange /\ versions' = WithVersion(versions, project + 1, TreeOf(files'))
    BY <1>5, AcceptStep
  <2> QED  BY <1>3, <2>1, OneRecordMore, BoundAssumption
<1>6. CASE \E r \in 1..MaxRevision : Restore(r)
  <2>1. PICK r \in 1..MaxRevision : Restore(r)  BY <1>6
  <2>2. OrderlyChange /\ TreeOf(files') = versions[r]  BY <2>1, RestoreStep
  <2>3. versions' = WithVersion(KeptBefore, project + 1, TreeOf(files'))
    BY <2>1, <2>2 DEF Restore
  <2>4. project \in 1..MaxRevision /\ TreeOf(files) \in Tree /\ Sound(TreeOf(files))
    BY <1>3, <2>2, TreeIsOfTheFiles DEF ProjectInv, FilesAreLaid
  <2>5. Recorded(KeptBefore, project, TreeOf(files))
    BY <2>4, VersionsAreRecorded, OneRecordMore DEF KeptBefore
  <2>6. Recorded(KeptBefore, project + 1, TreeOf(files'))
    BY <1>3, <2>2, <2>4, <2>5, RecordsStay
  <2> QED  BY <1>3, <2>2, <2>3, <2>6, OneRecordMore, BoundAssumption
<1>7. ASSUME NEW b \in Builds, Save(b)
      PROVE  Recorded(versions', project', TreeOf(files'))
  <2>1. /\ UNCHANGED <<project, files>>
        /\ builds[b] # None /\ builds[b].pc = "compile" /\ builds[b].kind = "button"
    BY <1>7 DEF Save, At
  <2>2. CASE UNCHANGED versions  BY <2>1, <2>2, VersionsAreRecorded
  <2>3. CASE project # None /\ versions' = VersionOf(b)
    <3>1. builds[b] \in Build  BY <2>1 DEF ProjectInv, TypeOK
    <3>2. /\ builds[b].revision \in 1..MaxRevision /\ builds[b].revision <= project
          /\ builds[b].files \in Tree /\ Sound(builds[b].files)
          /\ builds[b].revision = project => builds[b].files = TreeOf(files)
      BY <2>1, <2>3, <3>1 DEF Build, ProjectInv, BuildsHaveRead, TreesAreSound
    <3>3. project \in 1..MaxRevision  BY <2>3, Numbers
    <3> QED  BY <2>1, <2>3, <3>2, <3>3, VersionsAreRecorded, OneRecordMore DEF VersionOf
  <2> QED  BY <1>7, <2>2, <2>3 DEF Save
<1>8. \/ UNCHANGED versions \/ Delete \/ Accept \/ \E r \in 1..MaxRevision : Restore(r)
      \/ \E b \in Builds : Save(b)
  BY DEF Next, User, Assists, Builder, Look, Patch, Refuse, Reject, AddFile, UpdateFile, DeleteFile,
         Decide, Propose, Regenerate, SaveEdit, Interrupt, Restart, Press, Check, TakeQueue, TakePlace, GiveUp,
         ReadProject, ReadFiles, Compiled, Stored, vars
<1> QED  BY <1>1, <1>2, <1>4, <1>5, <1>6, <1>7, <1>8, FilesInOrder

(* The archive is replaced by a build, and goes with the project. *)
LEMMA ArchiveStep ==
    ASSUME ProjectInv, [Next]_vars
    PROVE  /\ archive' \in Archive \union {None}
           /\ archive' # None => project' # None /\ archive'.revision <= project'
           /\ archive' # None /\ archive'.revision = project' => archive'.files = TreeOf(files')
<1>0. archive # None => archive \in Archive /\ archive.revision \in 1..MaxRevision
  BY DEF ProjectInv, TypeOK, Archive
<1>1. CASE UNCHANGED <<project, files, archive>>
  BY <1>1 DEF ProjectInv, TypeOK, KeptIsFormer, ArchiveIsCurrent
<1>2. CASE Delete  BY <1>2, DeleteStep
<1>3. CASE OrderlyChange /\ UNCHANGED archive
  <2>1. project \in 1..MaxRevision /\ project' = project + 1 /\ project' \in 1..MaxRevision
    BY <1>3, BoundAssumption DEF OrderlyChange
  <2>2. archive # None => archive.revision <= project  BY DEF ProjectInv, KeptIsFormer
  <2>3. project' # None  BY <2>1, NoneIsNothing
  <2> QED  BY <1>0, <1>3, <2>1, <2>2, <2>3, BoundAssumption DEF ProjectInv, TypeOK
<1>4. ASSUME NEW b \in Builds, Save(b), archive' # archive, archive' # None
      PROVE  /\ archive' \in Archive /\ UNCHANGED <<project, files>> /\ project # None
             /\ archive'.revision <= project
             /\ archive'.revision = project => archive'.files = TreeOf(files)
  <2>1. /\ UNCHANGED <<project, files>> /\ archive' = Result(b) /\ project # None
        /\ builds[b] # None /\ builds[b].pc = "compile" /\ builds[b].kind = "button"
    BY <1>4 DEF Save, At
  <2>2. builds[b] \in Build  BY <2>1 DEF ProjectInv, TypeOK
  <2>3. /\ builds[b].revision \in 1..MaxRevision /\ builds[b].files \in Tree
        /\ builds[b].revision <= project
        /\ builds[b].revision = project => builds[b].files = TreeOf(files)
    BY <2>1, <2>2 DEF Build, ProjectInv, BuildsHaveRead
  <2> QED  BY <2>1, <2>3 DEF Result, Archive
<1>5. ASSUME NEW b \in Builds, Save(b) PROVE UNCHANGED <<project, files>>
  BY <1>5 DEF Save
<1>6. UNCHANGED archive \/ Delete \/ \E b \in Builds : Save(b)
  <2>1. User => UNCHANGED archive \/ Delete
    BY DEF User, Look, Patch, Refuse, Reject, AddFile, UpdateFile, DeleteFile, Restore, Accept,
           Decide, Stored
  <2>2. Assists \/ Restart => UNCHANGED archive
    BY DEF Assists, Propose, Regenerate, SaveEdit, Interrupt, Restart, Stored
  <2>3. ASSUME NEW b \in Builds, Builder(b) PROVE UNCHANGED archive \/ Save(b)
    BY <2>3 DEF Builder, Press, Check, TakeQueue, TakePlace, GiveUp, ReadProject, ReadFiles,
                Compiled, Stored
  <2> QED  BY <2>1, <2>2, <2>3 DEF Next, vars
<1> QED  BY <1>1, <1>2, <1>3, <1>4, <1>5, <1>6, FilesInOrder

-----------------------------------------------------------------------------
(* Builds. *)

(* The parts of the invariant about the builds, as they are after a step. *)
BuildsInOrder ==
    /\ builds \in [Builds -> Build \union {None}]
    /\ queue \in Queues \union {None}
    /\ \A b \in Builds : builds[b] # None => Sound(builds[b].files)
    /\ BuildsHaveRead
    /\ QueueIsShared

LEMMA BuildsAreInOrder ==
    ASSUME ProjectInv
    PROVE  BuildsInOrder
BY DEF ProjectInv, TypeOK, TreesAreSound, BuildsInOrder

(* What a build has read was true before the change of the project. *)
LEMMA BuildsAge ==
    ASSUME ProjectInv, [Next]_vars, UNCHANGED <<builds, queue>>
    PROVE  BuildsInOrder'
<1>1. \A b \in Builds : builds[b] # None => builds[b].revision \in 0..MaxRevision
  BY DEF ProjectInv, TypeOK, Build
<1>2. CASE UNCHANGED <<project, files>>
  BY <1>2, BuildsAreInOrder DEF BuildsInOrder, BuildsHaveRead, QueueIsShared
<1>3. CASE Delete
  <2>1. project' = None  BY <1>3, DeleteStep
  <2>2. BuildsHaveRead'
    BY <1>1, <2>1, NoneIsNothing DEF ProjectInv, BuildsHaveRead
  <2> QED  BY <2>2, BuildsAreInOrder DEF BuildsInOrder, QueueIsShared
<1>4. CASE OrderlyChange
  <2>1. project \in 1..MaxRevision /\ project' = project + 1  BY <1>4 DEF OrderlyChange
  <2>2. project # None  BY <2>1, NoneIsNothing
  <2>3. ASSUME NEW b \in Builds, builds[b] # None, builds[b].kind = "button",
               builds[b].pc \in {"files", "compile"}
        PROVE  /\ builds[b].revision # 0 /\ builds[b].revision <= project'
               /\ builds[b].revision # project'
    <3>1. builds[b].revision # 0 /\ builds[b].revision <= project
      BY <2>2, <2>3 DEF ProjectInv, BuildsHaveRead
    <3> QED  BY <1>1, <2>1, <2>3, <3>1, BoundAssumption
  <2>4. BuildsHaveRead'  BY <2>3 DEF BuildsHaveRead
  <2> QED  BY <2>4, BuildsAreInOrder DEF BuildsInOrder, QueueIsShared
<1> QED  BY <1>2, <1>3, <1>4, FilesInOrder

(* Builds that end leave the others their queue. *)
LEMMA BuildsLeave ==
    ASSUME ProjectInv, NEW left \in SUBSET Builds, Leave(left), UNCHANGED <<project, files>>
    PROVE  BuildsInOrder'
<1>1. builds' = [b \in Builds |-> IF b \in left THEN None ELSE builds[b]]
      /\ queue' = IF \E c \in Builds \ left : builds[c] # None THEN queue ELSE None
  BY DEF Leave, QueueWithout
<1>2. \A b \in Builds : builds'[b] # None => b \notin left /\ builds'[b] = builds[b]  BY <1>1
<1>3. BuildsInOrder  BY BuildsAreInOrder
<1>4. builds' \in [Builds -> Build \union {None}] /\ queue' \in Queues \union {None}
  BY <1>1, <1>3 DEF BuildsInOrder
<1>5. QueueIsShared'  BY <1>1, <1>2, <1>3 DEF BuildsInOrder, QueueIsShared
<1>6. BuildsHaveRead'
  BY <1>2, <1>3 DEF BuildsInOrder, BuildsHaveRead
<1>7. \A b \in Builds : builds'[b] # None => Sound(builds'[b].files)
  BY <1>2, <1>3 DEF BuildsInOrder
<1> QED  BY <1>4, <1>5, <1>6, <1>7 DEF BuildsInOrder

(* One build goes on. *)
LEMMA OneBuildGoes ==
    ASSUME ProjectInv, NEW b \in Builds, NEW new \in Build, builds' = [builds EXCEPT ![b] = new],
           UNCHANGED <<project, files>>, queue' \in Queues, new.queue = queue',
           Sound(new.files),
           \A c \in Builds \ {b} : builds[c] # None => builds[c].queue = queue',
           new.pc \in Holding =>
               \A c \in Builds \ {b} : builds[c] # None => builds[c].pc \notin Holding,
           /\ new.kind = "button" /\ new.pc \in {"files", "compile"}
           => new.revision # 0 /\ (project # None => new.revision <= project),
           /\ new.kind = "button" /\ new.pc = "compile" /\ new.revision = project
           => new.files = TreeOf(files)
    PROVE  BuildsInOrder'
<1>1. BuildsInOrder  BY BuildsAreInOrder
<1>2. /\ builds' \in [Builds -> Build \union {None}] /\ builds'[b] = new /\ new # None
      /\ \A c \in Builds \ {b} : builds'[c] = builds[c]
  BY <1>1, NoneIsNothing DEF BuildsInOrder
<1>3. QueueIsShared'
  BY <1>1, <1>2 DEF BuildsInOrder, QueueIsShared
<1>4. BuildsHaveRead'
  BY <1>1, <1>2 DEF BuildsInOrder, BuildsHaveRead
<1>5. \A c \in Builds : builds'[c] # None => Sound(builds'[c].files)
  BY <1>1, <1>2 DEF BuildsInOrder
<1> QED  BY <1>2, <1>3, <1>4, <1>5 DEF BuildsInOrder

LEMMA EnterStep ==
    ASSUME ProjectInv, NEW b \in Builds, NEW kind \in {"button", "cycle"}, Enter(b, kind),
           UNCHANGED <<project, files>>
    PROVE  BuildsInOrder'
<1>1. PICK q \in Queues :
        /\ IF queue = None THEN \A c \in Builds : builds[c] # None => builds[c].queue # q
           ELSE q = queue
        /\ builds' = [builds EXCEPT ![b] =
             [kind |-> kind, pc |-> "queue", queue |-> q, revision |-> 0, files |-> {}]]
        /\ queue' = q
  BY DEF Enter
<1> DEFINE new == [kind |-> kind, pc |-> "queue", queue |-> q, revision |-> 0, files |-> {}]
<1>2. new \in Build  BY NoFileIsSound, BoundAssumption DEF Build
<1>3. \A c \in Builds \ {b} : builds[c] # None => builds[c].queue = q
  <2> SUFFICES ASSUME NEW c \in Builds, builds[c] # None PROVE builds[c].queue = q  OBVIOUS
  <2>1. builds[c].queue = queue /\ builds[c].queue \in Queues
    BY DEF ProjectInv, TypeOK, QueueIsShared, Build
  <2>2. queue # None  BY <2>1, NoneIsNothing
  <2> QED  BY <1>1, <2>1, <2>2
<1>4. new.pc \notin Holding /\ new.pc \notin {"files", "compile"}  BY DEF Holding
<1> QED  BY <1>1, <1>2, <1>3, <1>4, NoFileIsSound, OneBuildGoes

LEMMA BuilderStep ==
    ASSUME ProjectInv, NEW b \in Builds, Builder(b)
    PROVE  BuildsInOrder'
<1>0. UNCHANGED <<project, files>>
  BY DEF Builder, Press, Check, TakeQueue, TakePlace, GiveUp, ReadProject, ReadFiles,
         Compiled, Save, Stored
<1>1. CASE Press(b) \/ Check(b)  BY <1>0, <1>1, EnterStep DEF Press, Check
<1>2. CASE Leave({b})
  <2>1. {b} \in SUBSET Builds  OBVIOUS
  <2> QED  BY <1>0, <1>2, <2>1, BuildsLeave
<1>3. ASSUME builds[b] # None
      PROVE  /\ builds[b] \in Build /\ queue \in Queues /\ Sound(builds[b].files)
             /\ \A c \in Builds : builds[c] # None => builds[c].queue = queue
  <2>1. builds[b] \in Build /\ queue \in Queues \union {None}  BY <1>3 DEF ProjectInv, TypeOK
  <2>2. builds[b].queue = queue  BY <1>3 DEF ProjectInv, QueueIsShared
  <2>3. builds[b].queue \in Queues  BY <2>1 DEF Build
  <2> QED  BY <1>3, <2>1, <2>2, <2>3 DEF ProjectInv, QueueIsShared, TreesAreSound
<1>4. ASSUME builds[b] # None, builds[b].pc \in Holding
      PROVE  \A c \in Builds \ {b} : builds[c] # None => builds[c].pc \notin Holding
  BY <1>4 DEF ProjectInv, QueueIsShared
<1>5. CASE TakeQueue(b)
  <2> DEFINE new == [builds[b] EXCEPT !.pc = "place"]
  <2>1. builds[b] # None /\ builds' = [builds EXCEPT ![b] = new] /\ queue' = queue
    BY <1>5 DEF TakeQueue, At, Goes
  <2>2. new \in Build /\ new.queue = builds[b].queue /\ new.files = builds[b].files /\ new.pc = "place"
    BY <1>3, <2>1 DEF Build, Holding
  <2>3. \A c \in Builds \ {b} : builds[c] # None => builds[c].pc \notin Holding
    BY <1>3, <1>5, <2>1 DEF TakeQueue
  <2> HIDE DEF new
  <2> QED  BY <1>0, <1>3, <2>1, <2>2, <2>3, OneBuildGoes
<1>6. CASE TakePlace(b)
  <2> DEFINE new == [builds[b] EXCEPT !.pc = IF builds[b].kind = "button" THEN "project" ELSE "compile"]
  <2>1. /\ builds[b] # None /\ builds[b].pc \in Holding
        /\ builds' = [builds EXCEPT ![b] = new] /\ queue' = queue
    BY <1>6 DEF TakePlace, At, Goes, Holding
  <2>2. /\ new \in Build /\ new.queue = builds[b].queue /\ new.files = builds[b].files
        /\ new.kind = "button" => new.pc = "project"
    BY <1>3, <2>1 DEF Build, Holding
  <2> HIDE DEF new
  <2> QED  BY <1>0, <1>3, <1>4, <2>1, <2>2, OneBuildGoes
<1>7. CASE ReadProject(b) /\ project # None
  <2> DEFINE new == [builds[b] EXCEPT !.pc = "files", !.revision = project]
  <2>1. /\ builds[b] # None /\ builds[b].pc \in Holding
        /\ builds' = [builds EXCEPT ![b] = new] /\ queue' = queue
    BY <1>3, <1>7 DEF ReadProject, At, Holding
  <2>2. project \in 1..MaxRevision  BY <1>7, Numbers
  <2>3. /\ new \in Build /\ new.queue = builds[b].queue /\ new.files = builds[b].files
        /\ new.pc = "files" /\ new.revision = project
    <3>1. project \in 0..MaxRevision /\ "files" \in {"queue"} \union Holding
      BY <2>2, BoundAssumption DEF Holding
    <3>2. builds[b] \in Build  BY <1>3, <2>1
    <3> QED  BY <3>1, <3>2 DEF Build
  <2> HIDE DEF new
  <2>4. project <= project /\ project # 0  BY <2>2, BoundAssumption
  <2> QED  BY <1>0, <1>3, <1>4, <2>1, <2>3, <2>4, OneBuildGoes
<1>8. CASE ReadFiles(b)
  <2> DEFINE new == [builds[b] EXCEPT !.pc = "compile", !.files = TreeOf(files)]
  <2>1. /\ builds[b] # None /\ builds[b].pc \in Holding /\ builds[b].pc = "files"
        /\ builds' = [builds EXCEPT ![b] = new] /\ queue' = queue
    BY <1>8 DEF ReadFiles, At, Holding
  <2>2. TreeOf(files) \in Tree /\ Sound(TreeOf(files))
    BY TreeIsOfTheFiles DEF ProjectInv, FilesAreLaid
  <2>3. /\ new \in Build /\ new.queue = builds[b].queue /\ new.files = TreeOf(files)
        /\ new.kind = builds[b].kind /\ new.revision = builds[b].revision
    BY <1>3, <2>1, <2>2 DEF Build, Holding
  <2>4. builds[b].kind = "button" =>
            builds[b].revision # 0 /\ (project # None => builds[b].revision <= project)
    BY <2>1 DEF ProjectInv, BuildsHaveRead
  <2> HIDE DEF new
  <2> QED  BY <1>0, <1>3, <1>4, <2>1, <2>2, <2>3, <2>4, OneBuildGoes
<1>9. CASE GiveUp(b) \/ Compiled(b) \/ Save(b) \/ (ReadProject(b) /\ project = None)
  BY <1>2, <1>9 DEF GiveUp, Compiled, Save, ReadProject
<1> QED  BY <1>1, <1>5, <1>6, <1>7, <1>8, <1>9 DEF Builder

LEMMA BuildsStep ==
    ASSUME ProjectInv, [Next]_vars
    PROVE  BuildsInOrder'
<1>1. CASE \E b \in Builds : Builder(b)  BY <1>1, BuilderStep
<1>2. CASE Interrupt
  <2> DEFINE left == {b \in Builds : builds[b] # None /\ builds[b].kind = "cycle"}
  <2>1. Leave(left) /\ UNCHANGED <<project, files>>  BY <1>2 DEF Interrupt, Stored
  <2>2. left \in SUBSET Builds  OBVIOUS
  <2> HIDE DEF left
  <2> QED  BY <2>1, <2>2, BuildsLeave
<1>3. CASE Restart
  <2>1. Builds \in SUBSET Builds  OBVIOUS
  <2>2. Leave(Builds) /\ UNCHANGED <<project, files>>  BY <1>3 DEF Restart, Stored
  <2> QED  BY <2>1, <2>2, BuildsLeave
<1>4. UNCHANGED <<builds, queue>> \/ Interrupt \/ Restart \/ \E b \in Builds : Builder(b)
  BY DEF Next, User, Assists, Look, Patch, Delete, Refuse, Reject, AddFile, UpdateFile, DeleteFile,
         Restore, Accept, Decide, Propose, Regenerate, SaveEdit, Memory, vars
<1> QED  BY <1>1, <1>2, <1>3, <1>4, BuildsAge

-----------------------------------------------------------------------------
(* Edits, decisions and what the page shows. *)

(* The parts of the invariant about the edits, as they are after a step. *)
EditsInOrder ==
    /\ edit \in [Answers -> Edit \union {None}]
    /\ last \in Answers \union {None}
    /\ \A a \in Answers : edit[a] # None => Sound(edit[a].files)
    /\ decision \in Decision \union {None}
    /\ assistant \in Assistant \union {None}
    /\ assistant # None => Sound(assistant.read)
    /\ decision # None => Sound(decision.accept)
    /\ EditsAreOpen

LEMMA EditsAreInOrder ==
    ASSUME ProjectInv
    PROVE  EditsInOrder
BY DEF ProjectInv, TypeOK, TreesAreSound, EditsInOrder

(* An edit that was decided keeps what was decided, or goes as the last one. *)
EditsStay ==
    \A a \in Answers :
        edit[a] # None /\ edit[a].status \in {"accepted", "rejected"} /\ project' # None =>
            edit'[a] = edit[a] \/ (a = last /\ edit'[a] = None /\ last' = None)

LEMMA ClosedIsEdit ==
    ASSUME NEW status \in Statuses
    PROVE  Closed(status) \in Edit /\ Closed(status).status = status /\ Sound(Closed(status).files)
BY NoFileIsSound DEF Closed, Edit

LEMMA LookEdits ==
    ASSUME ProjectInv, Look
    PROVE  EditsInOrder' /\ EditsStay
<1> DEFINE Marked(a) == [edit[a] EXCEPT !.shown = @ \/ Open(edit[a])]
<1>1. /\ edit' = [a \in Answers |-> IF edit[a] # None THEN Marked(a) ELSE None]
      /\ UNCHANGED <<project, last, decision, assistant>>
  BY DEF Look, Stored
<1>2. EditsInOrder  BY EditsAreInOrder
<1>3. ASSUME NEW a \in Answers, edit[a] # None
      PROVE  /\ Marked(a) \in Edit /\ Marked(a) # None
             /\ Marked(a).status = edit[a].status /\ Marked(a).files = edit[a].files
             /\ ~Open(edit[a]) => Marked(a) = edit[a]
  <2>1. edit[a] \in Edit  BY <1>2, <1>3 DEF EditsInOrder
  <2>2. Open(edit[a]) \in BOOLEAN  BY DEF Open
  <2>3. Marked(a) \in Edit /\ Marked(a).status = edit[a].status /\ Marked(a).files = edit[a].files
    BY <2>1, <2>2 DEF Edit
  <2>4. ~Open(edit[a]) => Marked(a) = edit[a]
    BY <2>1 DEF Edit
  <2> QED  BY <2>3, <2>4, NoneIsNothing
<1> HIDE DEF Marked
<1>4. \A a \in Answers : edit'[a] = IF edit[a] # None THEN Marked(a) ELSE None  BY <1>1
<1>5. edit' \in [Answers -> Edit \union {None}]  BY <1>1, <1>3
<1>6. EditsAreOpen'
  <2>1. decision # None => decision.answer \in Answers  BY <1>2 DEF EditsInOrder, Decision
  <2>2. assistant # None => assistant.answer \in Answers  BY <1>2 DEF EditsInOrder, Assistant
  <2> QED  BY <1>1, <1>2, <1>3, <1>4, <2>1, <2>2 DEF EditsInOrder, EditsAreOpen
<1>7. EditsStay  BY <1>3, <1>4 DEF EditsStay, Open
<1> QED  BY <1>1, <1>2, <1>3, <1>4, <1>5, <1>6, <1>7 DEF EditsInOrder

LEMMA SaveEditEdits ==
    ASSUME ProjectInv, SaveEdit
    PROVE  EditsInOrder' /\ EditsStay
<1>1. assistant # None /\ assistant' = None /\ UNCHANGED <<project, decision>>
  BY DEF SaveEdit, Stored
<1>2. EditsInOrder  BY EditsAreInOrder
<1>3. assistant \in Assistant /\ assistant.answer \in Answers /\ assistant.read \in Tree
  BY <1>1, <1>2 DEF EditsInOrder, Assistant
<1>4. CASE UNCHANGED Dialog
  BY <1>1, <1>2, <1>4 DEF Dialog, EditsInOrder, EditsAreOpen, EditsStay
<1>5. ASSUME NEW e \in Edits(assistant.read),
             edit' = [Superseded(assistant.answer) EXCEPT ![assistant.answer] =
                        [status |-> IF e = {} THEN "rejected" ELSE "proposed",
                         files |-> e, shown |-> FALSE]],
             last' = assistant.answer
      PROVE  EditsInOrder' /\ EditsStay
  <2> DEFINE a0 == assistant.answer
             new == [status |-> IF e = {} THEN "rejected" ELSE "proposed",
                     files |-> e, shown |-> FALSE]
  <2>1. e \in Tree /\ Sound(e)
    <3>1. LET whole == {t \in assistant.read : t.path \notin PathsOf(e)} \union e
          IN  Sound(whole) /\ e \in SUBSET whole /\ whole \in Tree /\ e \in Tree
      BY <1>3 DEF Edits, Tree
    <3> QED  BY <3>1, PartIsSound
  <2>2. new \in Edit /\ new # None
    <3>1. (IF e = {} THEN "rejected" ELSE "proposed") \in Statuses  BY DEF Statuses
    <3>2. new \in Edit  BY <2>1, <3>1 DEF Edit
    <3> QED  BY <3>2, NoneIsNothing
  <2>3. edit[a0] = None  BY <1>1, <1>2 DEF EditsInOrder, EditsAreOpen
  <2>4. /\ edit'[a0] = new
        /\ \A a \in Answers \ {a0} :
              edit'[a] = IF edit[a] # None /\ Open(edit[a]) THEN Closed("superseded") ELSE edit[a]
    BY <1>3, <1>5 DEF Superseded
  <2>5. edit' \in [Answers -> Edit \union {None}]
    <3>1. Closed("superseded") \in Edit  BY ClosedIsEdit DEF Statuses
    <3>2. Superseded(a0) \in [Answers -> Edit \union {None}]
      BY <1>2, <3>1 DEF Superseded, EditsInOrder
    <3> HIDE DEF new
    <3> QED  BY <1>3, <1>5, <2>2, <3>2 DEF new
  <2>6. /\ Closed("superseded") # None /\ Sound(Closed("superseded").files)
        /\ Closed("superseded").status = "superseded"
    BY ClosedIsEdit, NoneIsNothing DEF Statuses
  <2>7. \A a \in Answers : edit'[a] # None => Sound(edit'[a].files)
    BY <1>2, <2>1, <2>4, <2>6 DEF EditsInOrder
  <2>8. EditsAreOpen'
    <3>1. decision # None => decision.answer \in Answers \ {a0}
      BY <1>1, <1>2 DEF EditsInOrder, EditsAreOpen, Decision
    <3> QED  BY <1>1, <1>2, <2>4, <2>6, <3>1 DEF EditsInOrder, EditsAreOpen
  <2>9. EditsStay  BY <2>3, <2>4 DEF EditsStay, Open
  <2> QED  BY <1>1, <1>2, <1>3, <1>5, <2>5, <2>7, <2>8, <2>9 DEF EditsInOrder
<1> QED  BY <1>4, <1>5 DEF SaveEdit

LEMMA DecidedEdits ==
    ASSUME ProjectInv, decision # None, NEW status \in Statuses, edit' = Decided(status),
           decision' = None, UNCHANGED <<last, assistant>>
    PROVE  EditsInOrder' /\ EditsStay
<1>1. EditsInOrder  BY EditsAreInOrder
<1>2. decision.answer \in Answers  BY <1>1 DEF EditsInOrder, Decision
<1>3. /\ edit' \in [Answers -> Edit \union {None}]
      /\ edit'[decision.answer] =
            IF edit[decision.answer] = None THEN None ELSE Closed(status)
      /\ \A a \in Answers \ {decision.answer} : edit'[a] = edit[a]
  BY <1>1, <1>2, ClosedIsEdit DEF EditsInOrder, Decided
<1>4. \A a \in Answers : edit'[a] # None => Sound(edit'[a].files)
  BY <1>1, <1>3, ClosedIsEdit DEF EditsInOrder
<1>5. assistant # None => assistant.answer \in Answers \ {decision.answer}
  BY <1>1 DEF EditsInOrder, EditsAreOpen, Assistant
<1>6. EditsAreOpen'  BY <1>1, <1>3, <1>5 DEF EditsInOrder, EditsAreOpen
<1>7. EditsStay
  <2>1. edit[decision.answer] # None =>
          edit[decision.answer].status \notin {"accepted", "rejected"}
    BY <1>1 DEF EditsInOrder, EditsAreOpen
  <2> QED  BY <1>2, <1>3, <2>1 DEF EditsStay
<1> QED  BY <1>1, <1>3, <1>4, <1>6, <1>7 DEF EditsInOrder

(* The last answer goes, and nothing but its edit. *)
LEMMA RegenerateEdits ==
    ASSUME ProjectInv, Regenerate
    PROVE  EditsInOrder' /\ EditsStay
<1>1. EditsInOrder  BY EditsAreInOrder
<1>2. /\ last \in Answers /\ last' = None /\ assistant = None
      /\ edit' = [edit EXCEPT ![last] = None] /\ UNCHANGED <<project, decision, assistant>>
  BY <1>1 DEF Regenerate, EditsInOrder, Stored
<1>3. /\ edit' \in [Answers -> Edit \union {None}] /\ edit'[last] = None
      /\ \A a \in Answers \ {last} : edit'[a] = edit[a]
  BY <1>1, <1>2 DEF EditsInOrder
<1>4. decision # None => decision.answer \in Answers  BY <1>1 DEF EditsInOrder, Decision
<1>5. EditsAreOpen'  BY <1>1, <1>2, <1>3, <1>4 DEF EditsInOrder, EditsAreOpen
<1>6. EditsStay  BY <1>2, <1>3 DEF EditsStay
<1> QED  BY <1>1, <1>2, <1>3, <1>5, <1>6 DEF EditsInOrder

LEMMA EditsStep ==
    ASSUME ProjectInv, [Next]_vars
    PROVE  EditsInOrder' /\ EditsStay
<1>0. EditsInOrder  BY EditsAreInOrder
<1>1. CASE Look  BY <1>1, LookEdits
<1>2. CASE SaveEdit  BY <1>2, SaveEditEdits
<1>3. CASE Accept \/ Reject
  <2>1. /\ decision # None /\ decision' = None /\ UNCHANGED <<last, assistant>>
        /\ edit' = Decided("accepted") \/ edit' = Decided("rejected")
    BY <1>3 DEF Accept, Reject
  <2> QED  BY <2>1, DecidedEdits DEF Statuses
<1>4. CASE Delete
  <2>1. project' = None /\ \A a \in Answers : edit'[a] = None  BY <1>4, DeleteStep
  <2>2. decision = None /\ UNCHANGED <<decision, assistant>> /\ edit' = [a \in Answers |-> None]
      /\ last' = None
    BY <1>4 DEF Delete, LockFree
  <2>3. assistant # None => assistant.answer \in Answers  BY <1>0 DEF EditsInOrder, Assistant
  <2> QED  BY <1>0, <2>1, <2>2, <2>3 DEF EditsInOrder, EditsAreOpen, EditsStay
<1>5. CASE \E a \in Answers, accept \in Tree : Decide(a, accept)
  <2>1. PICK a \in Answers, accept \in Tree : Decide(a, accept)  BY <1>5
  <2>2. /\ decision' = [answer |-> a, accept |-> accept] /\ UNCHANGED <<project, Dialog, assistant>>
        /\ project # None /\ edit[a] # None /\ edit[a].status = "proposed"
        /\ accept \in SUBSET edit[a].files /\ (accept = {} \/ project < MaxRevision)
    BY <2>1 DEF Decide, Stored, Open
  <2>3. edit[a] \in Edit /\ edit[a].files \in Tree /\ Sound(edit[a].files)
    BY <1>0, <2>2 DEF EditsInOrder, Edit
  <2>4. Sound(accept)  BY <2>2, <2>3, PartIsSound
  <2>5. decision' \in Decision /\ decision'.answer = a /\ decision'.accept = accept
    BY <2>2 DEF Decision
  <2>6. assistant # None => assistant.answer # a
    BY <1>0, <2>2 DEF EditsInOrder, EditsAreOpen
  <2> QED  BY <1>0, <2>2, <2>4, <2>5, <2>6 DEF EditsInOrder, EditsAreOpen, EditsStay, Dialog
<1>6. CASE \E a \in Answers : Propose(a)
  <2>1. PICK a \in Answers : Propose(a)  BY <1>6
  <2>2. /\ assistant' = [answer |-> a, read |-> TreeOf(files)] /\ edit[a] = None
        /\ (decision # None => decision.answer # a)
        /\ last' = None /\ UNCHANGED <<project, edit, decision>>
    BY <2>1 DEF Propose, Stored
  <2>3. TreeOf(files) \in Tree /\ Sound(TreeOf(files))
    BY TreeIsOfTheFiles DEF ProjectInv, FilesAreLaid
  <2>4. assistant' \in Assistant /\ assistant'.answer = a /\ assistant'.read = TreeOf(files)
    BY <2>2, <2>3 DEF Assistant
  <2> QED  BY <1>0, <2>2, <2>3, <2>4 DEF EditsInOrder, EditsAreOpen, EditsStay
<1>7. CASE Refuse \/ Interrupt \/ Restart
  <2>1. /\ UNCHANGED <<project, edit, last>> /\ decision' \in {decision, None}
        /\ assistant' \in {assistant, None}
    BY <1>7 DEF Refuse, Interrupt, Restart, Stored, Dialog
  <2> QED  BY <1>0, <2>1 DEF EditsInOrder, EditsAreOpen, EditsStay
<1>8. CASE /\ UNCHANGED <<edit, last, decision, assistant>>
           /\ UNCHANGED project \/ decision = None
  BY <1>0, <1>8 DEF EditsInOrder, EditsAreOpen, EditsStay
<1>9. ASSUME NEW b \in Builds, Builder(b)
      PROVE  UNCHANGED <<project, edit, last, decision, assistant>>
  BY <1>9 DEF Builder, Press, Check, TakeQueue, TakePlace, GiveUp, ReadProject, ReadFiles,
              Compiled, Save, Stored, Dialog
<1>10. CASE \/ Patch
            \/ \E i \in FileIds, text \in Texts : AddFile(i, text)
            \/ \E i \in FileIds, text \in Texts, here \in BOOLEAN : UpdateFile(i, text, here)
            \/ \E i \in FileIds : DeleteFile(i)
            \/ \E r \in 1..MaxRevision : Restore(r)
  <2>1. UNCHANGED <<edit, last, decision, assistant>> /\ decision = None
    BY <1>10 DEF Patch, AddFile, UpdateFile, DeleteFile, Restore, CanChange, LockFree, Dialog
  <2> QED  BY <1>8, <2>1
<1>11. CASE Regenerate  BY <1>11, RegenerateEdits
<1> QED  BY <1>1, <1>2, <1>3, <1>4, <1>5, <1>6, <1>7, <1>8, <1>9, <1>10, <1>11
         DEF Next, User, Assists, vars

(* The page is shown a file, or keeps what it had of an earlier number. *)
LEMMA SeenStep ==
    ASSUME ProjectInv, [Next]_vars
    PROVE  seen' \in Files /\ SeenIsFormer'
<1>0. /\ seen \in Files /\ files' \in Files /\ files \in Files
      /\ \A i \in FileIds : seen[i] # None => seen[i].revision \in 1..MaxRevision
      /\ \A i \in FileIds : files'[i] # None => files'[i].revision \in 1..MaxRevision
  BY FilesStep DEF ProjectInv, TypeOK, Files, File
<1>1. CASE seen' = files'
  <2>1. \A i \in FileIds : files'[i] # None => files'[i].revision <= files'[i].revision
    BY <1>0, BoundAssumption
  <2> QED  BY <1>0, <1>1, <2>1 DEF SeenIsFormer
<1>2. ASSUME NEW i \in FileIds, FileStep(i), seen[i] # None, files'[i] # None
      PROVE  /\ seen[i].revision <= files'[i].revision
             /\ seen[i].revision = files'[i].revision => Text(seen[i]) = Text(files'[i])
  <2>1. CASE files'[i] = files[i]  BY <1>2, <2>1 DEF ProjectInv, SeenIsFormer
  <2>2. CASE files[i] # None /\ files'[i].revision = files[i].revision + 1
    <3>1. seen[i].revision <= files[i].revision /\ files[i].revision \in 1..MaxRevision
      BY <1>2, <2>2, Numbers DEF ProjectInv, SeenIsFormer
    <3> QED  BY <1>0, <1>2, <2>2, <3>1, BoundAssumption
  <2> QED  BY <1>2, <2>1, <2>2 DEF FileStep
<1>3. \/ UNCHANGED <<project, files>> \/ \A i \in FileIds : files'[i] = None
      \/ \A i \in FileIds : FileStep(i)
  BY FilesInOrder, DeleteStep DEF OrderlyChange
<1>4. \A i \in FileIds : files'[i] = None \/ FileStep(i)  BY <1>3 DEF FileStep
<1>5. CASE UNCHANGED seen
  BY <1>0, <1>2, <1>4, <1>5 DEF SeenIsFormer
<1>6. CASE \E i \in FileIds : seen' = [seen EXCEPT ![i] = files'[i]]
  <2>1. PICK i \in FileIds : seen' = [seen EXCEPT ![i] = files'[i]]  BY <1>6
  <2>2. seen'[i] = files'[i] /\ \A j \in FileIds \ {i} : seen'[j] = seen[j]
    BY <1>0, <2>1 DEF Files
  <2>3. seen' \in Files  BY <1>0, <2>1 DEF Files
  <2>4. files'[i] # None => files'[i].revision <= files'[i].revision
    BY <1>0, BoundAssumption
  <2> QED  BY <1>2, <1>4, <2>2, <2>3, <2>4 DEF SeenIsFormer
<1>7. CASE Look \/ Accept  BY <1>1, <1>7 DEF Look, Accept, Stored
<1>8. UNCHANGED seen \/ Look \/ Accept \/ \E i \in FileIds : seen' = [seen EXCEPT ![i] = files'[i]]
  BY DEF Next, User, Assists, Builder, Patch, Delete, Refuse, Reject, AddFile, UpdateFile,
         DeleteFile, Restore, Decide, Propose, Regenerate, SaveEdit, Interrupt, Restart, Press, Check,
         TakeQueue, TakePlace, GiveUp, ReadProject, ReadFiles, Compiled, Save, vars
<1> QED  BY <1>5, <1>6, <1>7, <1>8

-----------------------------------------------------------------------------
(* The invariant. *)

LEMMA ProjectStarts ==
    ASSUME Init
    PROVE  ProjectInv
<1>1. 1 \in 1..MaxRevision /\ 1 # None  BY BoundAssumption, NoneIsNothing
<1> DEFINE New(t) == [path |-> t.path, content |-> t.content, revision |-> 1]
<1>2. ASSUME NEW t \in Texts
      PROVE  New(t) \in File /\ New(t) # None /\ New(t).revision = 1 /\ Text(New(t)) = t
  <2>1. t \in [path : Paths, content : Contents]  BY TextsAssumption
  <2> QED  BY <1>1, <2>1, NoneIsNothing DEF File, Text
<1>3. files \in [FileIds -> {None} \union {New(t) : t \in Texts}]  BY DEF Init
<1> HIDE DEF New
<1>4. ASSUME NEW i \in FileIds, files[i] # None
      PROVE  files[i] \in File /\ files[i].revision = 1 /\ Text(files[i]) \in Texts
  <2>1. PICK t \in Texts : files[i] = New(t)  BY <1>3, <1>4
  <2> QED  BY <1>2, <2>1
<1>5. files \in Files  BY <1>3, <1>4 DEF Files
<1>6. Laid(files)
  <2>1. \A i, j \in FileIds : files[i] # None /\ files[j] # None /\ files[i].path = files[j].path
            => i = j
    BY DEF Init
  <2> QED  BY <1>4, <2>1 DEF Laid
<1>7. FilesAreLaid  BY <1>1, <1>4, <1>6 DEF Init, FilesAreLaid
<1>8. /\ versions = NoVersions /\ NoVersions \in Versions /\ \A r \in 1..MaxRevision : versions[r] = None
      /\ archive = None /\ seen = files /\ decision = None /\ assistant = None /\ queue = None
      /\ edit = [a \in Answers |-> None] /\ last = None /\ builds = [b \in Builds |-> None] /\ project = 1
  BY DEF Init, NoVersions, Versions
<1>9. TypeOK  BY <1>1, <1>5, <1>8 DEF TypeOK, Versions
<1>10. TreesAreSound  BY <1>8 DEF TreesAreSound
<1>11. SeenIsFormer  BY <1>4, <1>8 DEF SeenIsFormer
<1>12. KeptIsFormer /\ VersionIsCurrent /\ ArchiveIsCurrent
  BY <1>1, <1>8 DEF KeptIsFormer, VersionIsCurrent, ArchiveIsCurrent
<1>13. BuildsHaveRead /\ QueueIsShared /\ EditsAreOpen
  BY <1>8 DEF BuildsHaveRead, QueueIsShared, EditsAreOpen
<1> QED  BY <1>7, <1>9, <1>10, <1>11, <1>12, <1>13 DEF ProjectInv

LEMMA ProjectGoesOn ==
    ASSUME ProjectInv, [Next]_vars
    PROVE  ProjectInv'
<1>1. FilesAreLaid' /\ files' \in Files /\ project' \in 1..MaxRevision \union {None}  BY FilesStep
<1>2. Recorded(versions', project', TreeOf(files'))  BY VersionsStep
<1>3. /\ archive' \in Archive \union {None}
      /\ archive' # None => project' # None /\ archive'.revision <= project'
      /\ archive' # None /\ archive'.revision = project' => archive'.files = TreeOf(files')
  BY ArchiveStep
<1>4. BuildsInOrder'  BY BuildsStep
<1>5. EditsInOrder'  BY EditsStep
<1>6. seen' \in Files /\ SeenIsFormer'  BY SeenStep
<1>7. TypeOK'
  BY <1>1, <1>2, <1>3, <1>4, <1>5, <1>6
     DEF TypeOK, Recorded, Versions, BuildsInOrder, EditsInOrder
<1>8. TreesAreSound'  BY <1>2, <1>4, <1>5 DEF TreesAreSound, Recorded, BuildsInOrder, EditsInOrder
<1>9. KeptIsFormer'  BY <1>2, <1>3 DEF KeptIsFormer, Recorded
<1>10. VersionIsCurrent'  BY <1>1, <1>2 DEF VersionIsCurrent, Recorded
<1>11. ArchiveIsCurrent'  BY <1>3 DEF ArchiveIsCurrent
<1>12. BuildsHaveRead' /\ QueueIsShared' /\ EditsAreOpen'
  BY <1>4, <1>5 DEF BuildsInOrder, EditsInOrder
<1> QED  BY <1>1, <1>6, <1>7, <1>8, <1>9, <1>10, <1>11, <1>12 DEF ProjectInv

LEMMA ProjectInvariant == Spec => []ProjectInv
<1> QED  BY ProjectStarts, ProjectGoesOn, PTL DEF Spec
-----------------------------------------------------------------------------
(* Files, versions, edits and builds keep their types; a tree that is kept  *)
(* anywhere is made of texts there are (code/repositories.py).              *)
THEOREM ProjectTypes == Spec => []TypeOK
<1>1. ProjectInv => TypeOK  BY DEF ProjectInv
<1> QED  BY <1>1, ProjectInvariant, PTL

(* Whatever the order of changes, restores and accepted edits, the project  *)
(* can be built, and what the fix of an edit comes to is an edit of the     *)
(* files it was formed against (CodeService.decide, code/edit.py).          *)
THEOREM ProjectCanBeBuilt == Spec => []FilesAndEditsFit
<1>1. ProjectInv => FilesFit  BY DEF ProjectInv, FilesAreLaid, FilesFit
<1>2. ProjectInv => FixGivesAnEdit
  <2>1. ASSUME ProjectInv, assistant # None PROVE assistant.read \in Tree /\ Sound(assistant.read)
    BY <2>1 DEF ProjectInv, TypeOK, Assistant, TreesAreSound
  <2> QED  BY <2>1, FixIsOfTheFilesRead DEF FixGivesAnEdit
<1> QED  BY <1>1, <1>2, ProjectInvariant, PTL DEF FilesAndEditsFit

(* Builds take turns, and what is kept of one under the number of now is of *)
(* the files of now, though a build reads number and files apart and is     *)
(* saved after any changes (HttpCodeSandbox, CodeService.build).            *)
THEOREM BuildsTakeTurns == Spec => []BuildsAreOrdered
<1> DEFINE Running == {b \in Builds : builds[b] # None /\ builds[b].pc \in Holding}
<1>1. ProjectInv => OneBuildAtATime
  <2> SUFFICES ASSUME ProjectInv PROVE Cardinality(Running) <= 1  BY DEF OneBuildAtATime
  <2>1. CASE Running = {}  BY <2>1, FS_EmptySet
  <2>2. CASE Running # {}
    <3>1. PICK b \in Running : TRUE  BY <2>2
    <3>2. Running = {b}  BY <3>1 DEF ProjectInv, QueueIsShared
    <3>3. Cardinality({b}) = 1  BY FS_Singleton
    <3> QED  BY <3>2, <3>3
  <2> QED  BY <2>1, <2>2
<1>2. ProjectInv => VersionIsCurrent /\ ArchiveIsCurrent  BY DEF ProjectInv
<1> QED  BY <1>1, <1>2, ProjectInvariant, PTL DEF BuildsAreOrdered

(* Of two versions the older one stays too, if two are kept. *)
LEMMA KeptStays ==
    ASSUME ProjectInv, NEW r \in 1..MaxRevision, Restore(r), MaxSnapshots > 1
    PROVE  \E q \in 1..MaxRevision : versions'[q] = TreeOf(files)
<1> DEFINE tree == TreeOf(files)
           had == {q \in 1..MaxRevision : versions[q] # None} \union {project}
           has == {q \in 1..MaxRevision : KeptBefore[q] # None} \union {project + 1}
<1>1. /\ project \in 1..MaxRevision /\ project < MaxRevision /\ project + 1 \in 1..MaxRevision
      /\ TreeOf(files') = versions[r]
      /\ versions' = WithVersion(KeptBefore, project + 1, versions[r])
  BY RestoreStep, BoundAssumption DEF Restore, OrderlyChange
<1>2. tree \in Tree /\ Sound(tree) /\ tree # None
  BY TreeIsOfTheFiles, NoneIsNothing DEF ProjectInv, FilesAreLaid
<1>3. Recorded(versions, project, tree)  BY VersionsAreRecorded
<1>4. Recorded(KeptBefore, project, tree)
  BY <1>1, <1>2, <1>3, OneRecordMore DEF KeptBefore
<1> HIDE DEF tree
<1>5. KeptBefore[project] = tree
  <2>1. CASE versions[project] # None
    BY <1>1, <1>3, <2>1 DEF KeptBefore, WithVersion, Recorded
  <2>2. CASE versions[project] = None
    <3>1. {q \in had : q > project} = {}
      BY <1>1, <1>3, BoundAssumption DEF Recorded
    <3>2. Cardinality({q \in had : q > project}) = 0  BY <3>1, FS_EmptySet
    <3>3. project \in Kept(had)  BY <3>2, VersionsAssumption DEF Kept
    <3> QED  BY <1>1, <2>2, <3>3 DEF KeptBefore, WithVersion, tree
  <2> QED  BY <2>1, <2>2
<1>6. KeptBefore[project + 1] = None
  BY <1>1, <1>4, BoundAssumption DEF Recorded
<1>7. project \in Kept(has)
  <2>1. {q \in has : q > project} = {project + 1}
    BY <1>1, <1>4, BoundAssumption DEF Recorded
  <2>2. Cardinality({q \in has : q > project}) = 1  BY <2>1, FS_Singleton
  <2>3. project \in has  BY <1>1, <1>2, <1>5
  <2> QED  BY <2>2, <2>3, VersionsAssumption DEF Kept
<1>8. versions'[project] = tree
  <2>1. project # project + 1  BY <1>1, BoundAssumption
  <2> QED  BY <1>1, <1>5, <1>6, <1>7, <2>1 DEF WithVersion
<1> QED  BY <1>1, <1>8 DEF tree

(* Files are overwritten by what the user saw, or an edit took them by path and number. *)
LEMMA OverwrittenIsShown ==
    ASSUME ProjectInv, [Next]_vars, NEW i \in FileIds, files[i] # None
    PROVE  /\ (\E text \in Texts : UpdateFile(i, text, TRUE)) => Shown(i)
           /\ Accept /\ files'[i] # files[i] => Shown(i) \/ ShownAnother(i)
<1>1. ASSUME seen[i] # None, seen[i].revision = files[i].revision PROVE Shown(i)
  BY <1>1 DEF ProjectInv, SeenIsFormer, Text, Shown
<1>2. ASSUME NEW text \in Texts, UpdateFile(i, text, TRUE) PROVE Shown(i)
  BY <1>1, <1>2 DEF UpdateFile
<1>3. ASSUME Accept, files'[i] # files[i] PROVE Shown(i) \/ ShownAnother(i)
  <2>1. files[i].path \in PathsOf(decision.accept)
    <3> SUFFICES ASSUME files[i].path \notin PathsOf(decision.accept) PROVE files'[i] = files[i]
      BY <1>3
    <3> QED  BY AcceptStep, <1>3
  <2>2. RevisionAt(files, files[i].path) = RevisionAt(seen, files[i].path)
    BY <1>3, <2>1 DEF Accept, Acceptable, Stale
  <2>3. files[i].path \in PathsOf(TreeOf(files))  BY InPaths
  <2>4. RevisionAt(files, files[i].path) = files[i].revision
    BY <2>3, NumberIsOfAFile DEF ProjectInv, FilesAreLaid, Laid
  <2>5. files[i].path \in PathsOf(TreeOf(seen))
    BY <2>2, <2>3, NumbersArePositive DEF ProjectInv, TypeOK
  <2>6. PICK j \in FileIds : /\ seen[j] # None /\ seen[j].path = files[i].path
                             /\ RevisionAt(seen, files[i].path) = seen[j].revision
    BY <2>5, NumberIsOfAFile
  <2> QED  BY <1>1, <2>2, <2>4, <2>6 DEF ShownAnother
<1> QED  BY <1>2, <1>3

(* What was there is not lost: the files of before a restore are a version  *)
(* after it, if more than one is kept; a decided edit stays decided until   *)
(* the project goes or another answer takes the place of its own, the last  *)
(* one; and the user overwrites no content the page did not show, but for a *)
(* file that took the path and the number of another (CodeService.restore,  *)
(* decide, update_file; GenerationService.regenerate).                          *)
THEOREM NothingPastIsLost == Spec => PastIsKept
<1>1. ProjectInv /\ [Next]_vars =>
        [\A r \in 1..MaxRevision : Restore(r) /\ MaxSnapshots > 1 =>
            \E q \in 1..MaxRevision : versions'[q] = TreeOf(files)]_vars
  BY KeptStays
<1>2. ProjectInv /\ [Next]_vars => [EditsStay]_vars
  BY EditsStep
<1>3. ProjectInv /\ [Next]_vars =>
        [\A i \in FileIds : files[i] # None =>
           /\ (\E text \in Texts : UpdateFile(i, text, TRUE)) => Shown(i)
           /\ Accept /\ files'[i] # files[i] => Shown(i) \/ ShownAnother(i)]_vars
  BY OverwrittenIsShown
<1> QED  BY <1>1, <1>2, <1>3, ProjectInvariant, PTL
         DEF Spec, PastIsKept, RestoreLosesNothing, DecisionStays, EditsStay, UnseenIsKept

=============================================================================
