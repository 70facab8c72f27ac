--------------------------- MODULE ArchiveProofs ---------------------------
(***************************************************************************)
(* Theorems about Archive, for every set of paths and contents, every hash, *)
(* every length of the periods, and every behaviour of the environment.     *)
(***************************************************************************)
EXTENDS ArchiveInv, TLAPS

-----------------------------------------------------------------------------
(* Types of the values the actions build. *)

LEMMA EmptyIndexType == EmptyIndex \in Index
BY DEF EmptyIndex, EmptyFiles, EmptyMarks, Index, NoMark

LEMMA PublishedType == ASSUME TypeOK PROVE Published \in Index
BY EmptyIndexType DEF TypeOK, Published

LEMMA KeyType == ASSUME NEW c \in Content PROVE KeyOf(c) \in Chunk
BY FileAssumption DEF KeyOf, Chunk, Sizes, Hashes

\* A mark that changes leaves an index an index.
LEMMA MarksType ==
    ASSUME NEW idx \in Index, NEW m \in [Chunk -> Nat \cup {NoMark}]
    PROVE  [idx EXCEPT !.marks = m] \in Index
BY DEF Index

LEMMA SetMarkType ==
    ASSUME NEW idx \in Index, NEW k \in Chunk, NEW t \in Nat \cup {NoMark}
    PROVE  [idx EXCEPT !.marks = [@ EXCEPT ![k] = t]] \in Index
BY DEF Index

LEMMA AddEntryType ==
    ASSUME NEW idx \in Index, NEW p \in Path, NEW e \in Entry
    PROVE  [idx EXCEPT !.files = [@ EXCEPT ![p] = e]] \in Index
BY DEF Index

\* The end of the billing period is a time, and so is a mark moved to it.
LEMMA BilledType ==
    ASSUME TypeOK, NEW k \in Chunk
    PROVE  /\ BilledUntil(k) \in Nat
           /\ FixedMark(k) \in Nat
           /\ FixedMark(k) # NoMark
<1>1. BilledUntil(k) \in Nat
  BY TimeAssumption DEF TypeOK, BilledUntil, Stored, Object
<1>2. local.marks[k] \in Nat \cup {NoMark}
  BY DEF TypeOK, Index
<1>. QED BY <1>1, <1>2 DEF FixedMark, NoMark

LEMMA InheritedType == ASSUME TypeOK PROVE InheritedMarks \in [Chunk -> Nat \cup {NoMark}]
BY TimeAssumption DEF TypeOK, InheritedMarks, Index

LEMMA UnusedType == ASSUME TypeOK PROVE MarkedUnused \in [Chunk -> Nat \cup {NoMark}]
BY DEF TypeOK, MarkedUnused, Index

LEMMA RepairedType ==
    ASSUME TypeOK PROVE [files |-> RepairedFiles, marks |-> RepairedMarks] \in Index
BY TimeAssumption DEF TypeOK, RepairedFiles, RepairedMarks, Index

LEMMA EndRunType == ASSUME TypeOK, EndRun,
                           UNCHANGED <<now, fs, objects, skipped>>,
                           latest' \in Index \cup {NoIndex}
                    PROVE  TypeOK'
BY EmptyIndexType DEF TypeOK, EndRun, Phases, EmptyFiles

LEMMA InitType == Init => TypeOK
<1>. SUFFICES ASSUME Init PROVE TypeOK
  OBVIOUS
<1>1. /\ fs \in [Path -> [content : Content \cup {Absent}, mtime : Nat]]
      /\ objects \in [Chunk -> Object \cup {NoObject}]
      /\ stated \in [Path -> Stat \cup {NoEntry}]
  BY DEF Init, NoRun, EmptyFiles
<1>2. remote \in Index /\ local \in Index
  BY EmptyIndexType DEF Init, NoRun
<1>. QED BY <1>1, <1>2 DEF Init, NoRun, TypeOK, Phases

-----------------------------------------------------------------------------
(* Type correctness, action by action. *)

LEMMA EnvironmentType == TypeOK /\ Environment => TypeOK'
<1>. SUFFICES ASSUME TypeOK, Environment PROVE TypeOK'
  OBVIOUS
<1>1. CASE Tick
  BY <1>1 DEF TypeOK, Tick, bucketVars, runVars, scanVars, indexVars, uploadVars, gcVars
<1>2. ASSUME NEW p \in Path, NEW c \in Content, WriteFile(p, c) PROVE TypeOK'
  BY <1>2 DEF TypeOK, WriteFile, ChangeFiles, bucketVars, runVars, scanVars, indexVars,
              uploadVars, gcVars
<1>3. ASSUME NEW p \in Path, RemoveFile(p) PROVE TypeOK'
  BY <1>3 DEF TypeOK, RemoveFile, ChangeFiles, bucketVars, runVars, scanVars, indexVars,
              uploadVars, gcVars
<1>4. ASSUME NEW p \in Path, NEW q \in Path, RenameFile(p, q) PROVE TypeOK'
  <2>1. fs' \in [Path -> [content : Content \cup {Absent}, mtime : Nat]]
    BY <1>4 DEF TypeOK, RenameFile, ChangeFiles
  <2>. QED BY <1>4, <2>1 DEF TypeOK, RenameFile, ChangeFiles, bucketVars, runVars, scanVars,
                           indexVars, uploadVars, gcVars
<1>. QED BY <1>1, <1>2, <1>3, <1>4 DEF Environment

LEMMA StartType == TypeOK /\ Start => TypeOK'
BY DEF TypeOK, Start, StartBackup, StartFsck, Phases, envVars, bucketVars, scanVars,
       indexVars, uploadVars, gcVars

LEMMA ScanType ==
    ASSUME TypeOK, NEW p \in Path,
           ScanFile(p) \/ ReuseHash(p) \/ HashFile(p) \/ HashError(p)
    PROVE  TypeOK'
<1>. USE DEF Scanning, Backing, envVars, bucketVars, runVars, uploadVars, gcVars
<1>1. CASE ScanFile(p)
  <2>1. stated' \in [Path -> Stat \cup {NoEntry}]
    BY <1>1, FileAssumption DEF TypeOK, ScanFile, Stat, Sizes
  <2>. QED BY <1>1, <2>1 DEF TypeOK, ScanFile
<1>2. ASSUME NEW key \in Chunk, Hashing(p), AddEntry(p, key) PROVE TypeOK'
  <2>1. [key |-> key, mtime |-> stated[p].mtime] \in Entry
    BY <1>2 DEF TypeOK, Hashing, Stat, Entry
  <2>2. local' \in Index
    BY <1>2, <2>1, AddEntryType DEF TypeOK, AddEntry
  <2>3. stated' \in [Path -> Stat \cup {NoEntry}]
    BY <1>2 DEF TypeOK, AddEntry
  <2>. QED BY <1>2, <2>2, <2>3 DEF TypeOK, AddEntry, Hashing
<1>3. CASE ReuseHash(p)
  <2>1. remote.files[p].key \in Chunk
    BY <1>3 DEF TypeOK, ReuseHash, LooksUnchanged, Index, Entry
  <2>. QED BY <1>2, <1>3, <2>1 DEF ReuseHash
<1>4. CASE HashFile(p)
  <2>1. stated[p].size \in Sizes
    BY <1>4 DEF TypeOK, HashFile, Hashing, Stat
  <2>2. HashOf[fs[p].content] \in Hashes
    BY <1>4 DEF TypeOK, HashFile, Hashes
  <2>3. [size |-> stated[p].size, hash |-> HashOf[fs[p].content]] \in Chunk
    BY <2>1, <2>2 DEF Chunk
  <2>. QED BY <1>2, <1>4, <2>3 DEF HashFile
<1>5. CASE HashError(p)
  <2>1. stated' \in [Path -> Stat \cup {NoEntry}]
    BY <1>5 DEF TypeOK, HashError
  <2>. QED BY <1>5, <2>1 DEF TypeOK, HashError, Hashing
<1>. QED BY <1>1, <1>3, <1>4, <1>5

LEMMA UploadType == ASSUME TypeOK, NEW t \in tasks \cup puts, UploadTask(t) PROVE TypeOK'
<1>. USE DEF Uploading, Backing, envVars, runVars, scanVars, indexVars, gcVars
<1>0. t \in Task
  BY DEF TypeOK
<1>1. CASE SkipStored(t)
  BY <1>0, <1>1 DEF TypeOK, SkipStored, BeginTask
<1>2. CASE BeginPut(t)
  BY <1>0, <1>2 DEF TypeOK, BeginPut, BeginTask
<1>3. CASE HeadFails(t)
  BY <1>0, <1>3 DEF TypeOK, HeadFails, BeginTask
<1>4. ASSUME StoreChunk(t)
      PROVE  /\ objects' \in [Chunk -> Object \cup {NoObject}]
             /\ skipped' \subseteq Chunk
  <2>1. [body |-> fs[t.path].content, modified |-> now] \in Object
    BY <1>0, <1>4 DEF TypeOK, StoreChunk, Object, Task
  <2>2. objects' = [objects EXCEPT ![t.key] =
                      [body |-> fs[t.path].content, modified |-> now]]
        /\ skipped' = skipped \ {t.key}
    BY <1>4 DEF StoreChunk
  <2>3. objects \in [Chunk -> Object \cup {NoObject}] /\ skipped \subseteq Chunk
    BY DEF TypeOK
  <2>. QED BY <2>1, <2>2, <2>3
<1>5. CASE PutDone(t)
  BY <1>0, <1>4, <1>5 DEF TypeOK, PutDone
<1>6. CASE PutRetried(t)
  BY <1>0, <1>4, <1>6 DEF TypeOK, PutRetried
<1>7. CASE PutVanished(t)
  BY <1>0, <1>7 DEF TypeOK, PutVanished, Task
<1>8. CASE PutFails(t)
  BY <1>0, <1>8 DEF TypeOK, PutFails
<1>. QED BY <1>1, <1>2, <1>3, <1>5, <1>6, <1>7, <1>8 DEF UploadTask

LEMMA BackupStepType == TypeOK /\ BackupStep => TypeOK'
<1>. SUFFICES ASSUME TypeOK, BackupStep PROVE TypeOK'
  OBVIOUS
<1>. USE DEF Backing, envVars, bucketVars, runVars, scanVars, indexVars, uploadVars, gcVars
<1>1. CASE LoadForBackup
  BY <1>1, PublishedType DEF TypeOK, LoadForBackup, Phases
<1>2. ASSUME NEW lost, ScanError(lost) PROVE TypeOK'
  BY <1>2 DEF TypeOK, ScanError, Scanning
<1>3. CASE PlanUpload
  <2>1. tasks' \subseteq Task
    <3>1. PICK pick \in [NewChunks -> Path] :
            tasks' = {[key |-> k, path |-> pick[k]] : k \in NewChunks}
      BY <1>3 DEF PlanUpload
    <3>2. NewChunks \subseteq Chunk
      BY DEF NewChunks, Refs
    <3>. QED BY <3>1, <3>2 DEF Task
  <2>2. local' \in Index
    BY <1>3, InheritedType, MarksType DEF TypeOK, PlanUpload
  <2>3. deleteTime' \in Nat
    BY <1>3, TimeAssumption DEF TypeOK, PlanUpload
  <2>. QED BY <1>3, <2>1, <2>2, <2>3 DEF TypeOK, PlanUpload, Phases
<1>4. CASE UploadFailed
  BY <1>4, EndRunType DEF TypeOK, UploadFailed
<1>5. CASE UploadDone
  <2>1. local' \in Index
    BY <1>5, UnusedType, MarksType DEF TypeOK, UploadDone
  <2>2. gcTodo' \subseteq Chunk /\ gcTime' \in Nat
    BY <1>5 DEF TypeOK, UploadDone, StartGc, Marked
  <2>. QED BY <1>5, <2>1, <2>2 DEF TypeOK, UploadDone, StartGc, Phases
<1>6. CASE BackupGcDone
  BY <1>6 DEF TypeOK, BackupGcDone, Phases
<1>7. CASE BackupGcFailed
  BY <1>7, EndRunType DEF TypeOK, BackupGcFailed
<1>. QED BY <1>1, <1>2, <1>3, <1>4, <1>5, <1>6, <1>7, ScanType, UploadType DEF BackupStep

LEMMA FsckStepType == TypeOK /\ FsckStep => TypeOK'
<1>. SUFFICES ASSUME TypeOK, FsckStep PROVE TypeOK'
  OBVIOUS
<1>. USE DEF Checking, envVars, bucketVars, runVars, scanVars, indexVars, uploadVars, gcVars
<1>1. CASE FsckWithoutIndex
  BY <1>1, EndRunType DEF TypeOK, FsckWithoutIndex
<1>2. CASE LoadForFsck
  <2>1. local' \in Index
    BY <1>2 DEF TypeOK, LoadForFsck
  <2>2. gcTodo' \subseteq Chunk /\ gcTime' \in Nat
    BY <1>2 DEF TypeOK, LoadForFsck, StartGc, Marked
  <2>. QED BY <1>2, <2>1, <2>2 DEF TypeOK, LoadForFsck, StartGc, Phases
<1>3. CASE FsckGcDone
  BY <1>3 DEF TypeOK, FsckGcDone, Phases
<1>4. CASE FsckReconcile
  BY <1>4, RepairedType DEF TypeOK, FsckReconcile, Phases
<1>. QED BY <1>1, <1>2, <1>3, <1>4 DEF FsckStep

LEMMA GcType == ASSUME TypeOK, NEW k \in gcTodo, GcChunk(k) PROVE TypeOK'
<1>. USE DEF GcStep, envVars, runVars, scanVars, uploadVars
<1>0. k \in Chunk
  BY DEF TypeOK
<1>1. ASSUME NEW t \in Nat \cup {NoMark}, SetMark(k, t) PROVE local' \in Index
  BY <1>0, <1>1, SetMarkType DEF TypeOK, SetMark
<1>2. FixedMark(k) \in Nat \cup {NoMark}
  BY <1>0, BilledType
<1>3. CASE GcHeadFails(k)
  BY <1>3 DEF TypeOK, GcHeadFails
<1>4. CASE GcKeep(k)
  <2>1. local' \in Index
    BY <1>1, <1>2, <1>4 DEF GcKeep
  <2>. QED BY <1>4, <2>1 DEF TypeOK, GcKeep
<1>5. [objects EXCEPT ![k] = NoObject] \in [Chunk -> Object \cup {NoObject}]
  BY <1>0 DEF TypeOK
<1>6. CASE GcDelete(k)
  <2>1. local' \in Index
    BY <1>1, <1>6 DEF GcDelete
  <2>. QED BY <1>5, <1>6, <2>1 DEF TypeOK, GcDelete
<1>7. CASE GcDeleteFails(k)
  <2>1. local' \in Index
    BY <1>1, <1>2, <1>7 DEF GcDeleteFails
  <2>. QED BY <1>5, <1>7, <2>1 DEF TypeOK, GcDeleteFails
<1>. QED BY <1>3, <1>4, <1>6, <1>7 DEF GcChunk

LEMMA NextType == TypeOK /\ [Next]_vars => TypeOK'
<1>. SUFFICES ASSUME TypeOK, [Next]_vars PROVE TypeOK'
  OBVIOUS
<1>1. CASE PublishIndex
  BY <1>1, EndRunType DEF TypeOK, PublishIndex, envVars
<1>2. CASE Abort
  BY <1>2, EndRunType DEF TypeOK, Abort, envVars, bucketVars
<1>3. CASE UNCHANGED vars
  BY <1>3 DEF TypeOK, vars, envVars, bucketVars, runVars, scanVars, indexVars, uploadVars,
              gcVars
<1>. QED BY <1>1, <1>2, <1>3, EnvironmentType, StartType, BackupStepType, FsckStepType, GcType
         DEF Next, RunStep

\* Every variable keeps its type, whatever the environment does.
THEOREM TypeCorrect == Spec => []TypeOK
<1>. QED BY InitType, NextType, PTL DEF Spec

-----------------------------------------------------------------------------
(* The inductive invariant.  A run must end within the grace period: a       *)
(* longer one could delete what it has just marked.                          *)

LEMMA EmptyRefs == Refs(EmptyFiles) = {} /\ Marked(EmptyMarks) = {}
BY DEF Refs, Marked, EmptyFiles, EmptyMarks

LEMMA EmptyExclusive == Exclusive(EmptyIndex)
BY EmptyRefs DEF Exclusive, EmptyIndex

LEMMA InitInv == Init => IInv
<1>. SUFFICES ASSUME Init PROVE IInv
  OBVIOUS
<1>1. TypeOK
  BY InitType
<1>2. Published = EmptyIndex
  BY DEF Init, Published
<1>3. MarksUnreferenced /\ PublishedRefsStored
  BY <1>2, EmptyExclusive, EmptyRefs
     DEF Init, NoRun, MarksUnreferenced, PublishedRefsStored, EmptyIndex
<1>. QED BY <1>1, <1>3 DEF IInv, Init, NoRun, RunShape, Deadlines, RemoteIsPublished,
            LocalRefsStored, MarksInherited, GcTargets, AccountsCarried

\* What an ending run must have seen to: only the published index remains.
LEMMA EndRunInv ==
    ASSUME TypeOK', EndRun, Exclusive(Published'),
           Refs(Published'.files) \subseteq Stored' \cup skipped'
    PROVE  IInv'
<1>1. pc' = "idle" /\ action' = "none"
  BY DEF EndRun
<1>2. MarksUnreferenced'
  BY <1>1 DEF MarksUnreferenced
<1>3. PublishedRefsStored'
  BY DEF PublishedRefsStored
<1>. QED BY <1>1, <1>2, <1>3 DEF IInv, RunShape, Deadlines, RemoteIsPublished,
            LocalRefsStored, MarksInherited, GcTargets, AccountsCarried

\* A run that ends without publishing keeps the published index as it was.
LEMMA QuitInv == ASSUME IInv, TypeOK', EndRun, UNCHANGED <<bucketVars, skipped>> PROVE IInv'
<1>1. Published' = Published /\ Stored' = Stored /\ skipped' = skipped
  BY DEF bucketVars, Published, Stored
<1>2. Exclusive(Published) /\ Refs(Published.files) \subseteq Stored \cup skipped
  BY DEF IInv, MarksUnreferenced, PublishedRefsStored
<1>. QED BY <1>1, <1>2, EndRunInv

\* Steps that leave the bucket, the indexes and the phase alone.
LEMMA FrameInv ==
    ASSUME IInv, TypeOK', UNCHANGED <<bucketVars, pc, runVars, indexVars, uploadVars,
                                      gcVars, failed, skipped>>,
           now' >= now, pc # "idle" => now' <= started + MaxRun
    PROVE  IInv'
<1>. USE DEF bucketVars, runVars, indexVars, uploadVars, gcVars
<1>1. Published' = Published /\ Stored' = Stored
  BY DEF Published, Stored
<1>2. RunShape'
  BY DEF IInv, RunShape
<1>3. Deadlines'
  BY TimeAssumption DEF IInv, TypeOK, Deadlines
<1>4. RemoteIsPublished' /\ MarksUnreferenced' /\ PublishedRefsStored'
  BY <1>1 DEF IInv, RemoteIsPublished, MarksUnreferenced, PublishedRefsStored
<1>5. LocalRefsStored' /\ MarksInherited'
  BY <1>1 DEF IInv, LocalRefsStored, MarksInherited
<1>6. GcTargets' /\ AccountsCarried'
  BY <1>1 DEF IInv, GcTargets, AccountsCarried, LocalAccounts, Accounted
<1>. QED BY <1>2, <1>3, <1>4, <1>5, <1>6 DEF IInv

LEMMA EnvironmentInv == IInv /\ Environment => IInv'
<1>. SUFFICES ASSUME IInv, Environment PROVE IInv'
  OBVIOUS
<1>1. TypeOK'
  BY EnvironmentType DEF IInv
<1>2. CASE Tick
  <2>1. now' >= now /\ (pc # "idle" => now' <= started + MaxRun)
    BY <1>2, TimeAssumption DEF Tick, IInv, TypeOK
  <2>. QED BY <1>1, <1>2, <2>1, FrameInv DEF Tick
<1>3. ASSUME NEW newFs, ChangeFiles(newFs) PROVE IInv'
  <2>1. now' >= now /\ (pc # "idle" => now' <= started + MaxRun)
    BY <1>3 DEF ChangeFiles, IInv, TypeOK, Deadlines
  <2>. QED BY <1>1, <1>3, <2>1, FrameInv DEF ChangeFiles
<1>. QED BY <1>2, <1>3 DEF Environment, WriteFile, RemoveFile, RenameFile

LEMMA StartInv == IInv /\ Start => IInv'
<1>. SUFFICES ASSUME IInv, Start PROVE IInv'
  OBVIOUS
<1>. USE DEF Start, StartBackup, StartFsck, envVars, bucketVars, indexVars, uploadVars, gcVars
<1>1. TypeOK'
  BY StartType DEF IInv
<1>2. Published' = Published /\ Stored' = Stored
  BY DEF Published, Stored
<1>3. pc' = "load" /\ action' \in {"backup", "fsck"} /\ started' = now /\ now' = now
  BY DEF IInv
<1>4. Deadlines'
  BY <1>3, TimeAssumption DEF IInv, TypeOK, Deadlines
<1>5. MarksUnreferenced' /\ PublishedRefsStored'
  BY <1>2, <1>3 DEF IInv, MarksUnreferenced, PublishedRefsStored
<1>. QED BY <1>1, <1>3, <1>4, <1>5 DEF IInv, RunShape, RemoteIsPublished,
            LocalRefsStored, MarksInherited, GcTargets, AccountsCarried

\* The scan changes nothing but the index under construction.
LEMMA ScanInv ==
    ASSUME IInv, TypeOK', Scanning PROVE IInv'
<1>. USE DEF Scanning, Backing, envVars, bucketVars, runVars, uploadVars, gcVars
<1>1. Published' = Published /\ Stored' = Stored
  BY DEF Published, Stored
<1>2. pc' = "scan" /\ action' = "backup"
  OBVIOUS
<1>3. RunShape' /\ Deadlines'
  BY <1>2 DEF IInv, RunShape, Deadlines
<1>4. RemoteIsPublished' /\ MarksUnreferenced' /\ PublishedRefsStored'
  BY <1>1, <1>2 DEF IInv, RemoteIsPublished, MarksUnreferenced, PublishedRefsStored
<1>. QED BY <1>2, <1>3, <1>4 DEF IInv, LocalRefsStored, MarksInherited, GcTargets,
            AccountsCarried

LEMMA LoadInv == ASSUME IInv, TypeOK', LoadForBackup PROVE IInv'
<1>. USE DEF LoadForBackup, Backing, envVars, bucketVars, runVars, uploadVars, gcVars
<1>1. Published' = Published /\ Stored' = Stored /\ remote' = Published
  BY DEF Published, Stored
<1>2. pc' = "scan" /\ action' = "backup"
  OBVIOUS
<1>3. RunShape' /\ Deadlines'
  BY <1>2 DEF IInv, RunShape, Deadlines
<1>4. RemoteIsPublished' /\ MarksUnreferenced' /\ PublishedRefsStored'
  BY <1>1, <1>2 DEF IInv, RemoteIsPublished, MarksUnreferenced, PublishedRefsStored
<1>. QED BY <1>2, <1>3, <1>4 DEF IInv, LocalRefsStored, MarksInherited, GcTargets,
            AccountsCarried

\* The plan drops the marks of what is used again, and every chunk used that
\* the published index lacks gets a task.
LEMMA PlanInv == ASSUME IInv, TypeOK', PlanUpload PROVE IInv'
<1>. USE DEF Backing, envVars, bucketVars, runVars, scanVars, gcVars
<1>1. Published' = Published /\ Stored' = Stored
  BY DEF PlanUpload, Published, Stored
<1>2. pc = "scan" /\ action = "backup" /\ pc' = "upload" /\ action' = "backup"
  BY DEF PlanUpload
<1>3. remote = Published /\ remote' = remote
  BY <1>2 DEF IInv, RemoteIsPublished, PlanUpload
<1>4. local'.files = local.files /\ local'.marks = InheritedMarks
  BY DEF PlanUpload, IInv, TypeOK, Index
<1>5. RunShape' /\ Deadlines'
  BY <1>2, TimeAssumption DEF IInv, TypeOK, RunShape, Deadlines, PlanUpload
<1>6. Exclusive(local')
  BY <1>4 DEF Exclusive, InheritedMarks, Marked
<1>7. RemoteIsPublished' /\ MarksUnreferenced' /\ PublishedRefsStored'
  BY <1>1, <1>2, <1>3, <1>6
     DEF IInv, RemoteIsPublished, MarksUnreferenced, PublishedRefsStored, PlanUpload
<1>8. {t.key : t \in tasks'} = NewChunks
  <2>1. PICK pick \in [NewChunks -> Path] :
          tasks' = {[key |-> k, path |-> pick[k]] : k \in NewChunks}
    BY DEF PlanUpload
  <2>2. ASSUME NEW k \in NewChunks PROVE \E t \in tasks' : t.key = k
    <3>1. [key |-> k, path |-> pick[k]] \in tasks'
      BY <2>1
    <3>. QED BY <3>1
  <2>3. ASSUME NEW t \in tasks' PROVE t.key \in NewChunks
    BY <2>1
  <2>. QED BY <2>2, <2>3
<1>9. LocalRefsStored'
  <2>1. Refs(local.files) \subseteq Refs(Published.files) \cup NewChunks
    BY <1>3 DEF NewChunks
  <2>2. Refs(Published.files) \subseteq Stored \cup skipped
    BY DEF IInv, PublishedRefsStored
  <2>3. Refs(local'.files) \subseteq
          Stored' \cup skipped' \cup {t.key : t \in tasks' \cup puts'}
    BY <1>1, <1>4, <1>8, <2>1, <2>2 DEF PlanUpload
  <2>. QED BY <1>2, <2>3 DEF LocalRefsStored
<1>10. MarksInherited'
  <2>1. ASSUME NEW k \in Marked(local'.marks)
        PROVE  /\ k \in Marked(remote.marks)
               /\ local'.marks[k] = remote.marks[k] \/ local'.marks[k] >= started + Grace
    <3>1. k \in Chunk /\ InheritedMarks[k] # NoMark
      BY <1>4, <2>1 DEF Marked
    <3>2. remote.marks[k] \in Nat \cup {NoMark}
      BY <3>1 DEF IInv, TypeOK, Index
    <3>3. started <= now /\ started \in Nat /\ now \in Nat
      BY <1>2 DEF IInv, TypeOK, Deadlines
    <3>4. CASE remote.marks[k] > now + Review
      <4>1. InheritedMarks[k] = now + Grace
        BY <3>1, <3>4 DEF InheritedMarks
      <4>2. remote.marks[k] # NoMark
        BY <3>2, <3>3, <3>4, TimeAssumption DEF NoMark
      <4>. QED BY <1>4, <3>1, <3>3, <4>1, <4>2, TimeAssumption DEF Marked
    <3>5. CASE ~(remote.marks[k] > now + Review)
      BY <1>4, <3>1, <3>5 DEF InheritedMarks, Marked
    <3>. QED BY <3>4, <3>5
  <2>. QED BY <1>2, <1>3, <2>1 DEF MarksInherited, PlanUpload
<1>11. AccountsCarried'
  <2>1. ASSUME NEW k \in Marked(Published.marks), k \notin Refs(local.files)
        PROVE  InheritedMarks[k] # NoMark
    <3>1. remote.marks[k] # NoMark /\ k \in Chunk
      BY <1>3, <2>1 DEF Marked
    <3>2. now + Grace # NoMark
      BY TimeAssumption DEF NoMark, IInv, TypeOK
    <3>. QED BY <2>1, <3>1, <3>2 DEF InheritedMarks
  <2>2. Marked(Published'.marks) \subseteq LocalAccounts'
    BY <1>1, <1>4, <2>1 DEF LocalAccounts, Marked
  <2>. QED BY <1>2, <2>2 DEF AccountsCarried
<1>. QED BY <1>2, <1>5, <1>7, <1>9, <1>10, <1>11 DEF IInv, GcTargets

\* An upload step ends with its chunk stored, skipped or still to come, or
\* with an error that keeps this index from being published.
LEMMA UploadInv ==
    ASSUME IInv, TypeOK', NEW t \in tasks \cup puts, UploadTask(t) PROVE IInv'
<1>. USE DEF Uploading, Backing, envVars, runVars, scanVars, indexVars, gcVars
<1>1. Uploading
  BY DEF UploadTask, SkipStored, BeginPut, HeadFails, BeginTask, PutDone, PutRetried,
         PutVanished, PutFails
<1>2. Published' = Published
  BY <1>1 DEF Published
<1>3. pc = "upload" /\ action = "backup" /\ pc' = "upload" /\ action' = "backup"
  BY <1>1
<1>4. t.key \in Chunk
  BY DEF IInv, TypeOK, Task
<1>5. StoreChunk(t) => Stored' = Stored \cup {t.key}
  <2>1. [body |-> fs[t.path].content, modified |-> now] # NoObject
            \/ fs[t.path].content = Absent
    BY SentinelAssumption DEF IInv, TypeOK, Object, Task
  <2>2. StoreChunk(t) => \A k \in Chunk :
             objects'[k] = IF k = t.key THEN [body |-> fs[t.path].content, modified |-> now]
                           ELSE objects[k]
    BY <1>4 DEF StoreChunk, IInv, TypeOK
  <2>. QED BY <1>4, <2>1, <2>2 DEF Stored, StoreChunk
<1>6. Stored \cup skipped \subseteq Stored' \cup skipped'
  <2>1. ASSUME StoreChunk(t) PROVE Stored \cup skipped \subseteq Stored' \cup skipped'
    BY <1>5, <2>1 DEF StoreChunk
  <2>2. objects' = objects => Stored' = Stored
    BY DEF Stored
  <2>. QED BY <2>1, <2>2 DEF UploadTask, SkipStored, BeginPut, HeadFails, BeginTask, PutDone,
              PutRetried, PutVanished, PutFails
<1>7. ~failed' =>
        /\ ~failed
        /\ {u.key : u \in tasks \cup puts} \subseteq
             Stored' \cup skipped' \cup {u.key : u \in tasks' \cup puts'}
  <2>1. CASE SkipStored(t)
    BY <2>1 DEF SkipStored, BeginTask, Stored
  <2>2. CASE BeginPut(t)
    BY <2>2 DEF BeginPut, BeginTask
  <2>3. CASE HeadFails(t) \/ PutFails(t)
    BY <2>3 DEF HeadFails, PutFails
  <2>4. CASE PutDone(t)
    BY <1>5, <2>4 DEF PutDone
  <2>5. CASE PutRetried(t)
    BY <2>5 DEF PutRetried
  <2>6. CASE PutVanished(t)
    BY <2>6 DEF PutVanished, Stored
  <2>. QED BY <2>1, <2>2, <2>3, <2>4, <2>5, <2>6 DEF UploadTask
<1>8. RunShape' /\ Deadlines'
  BY <1>1, <1>3 DEF IInv, RunShape, Deadlines
<1>9. RemoteIsPublished' /\ MarksUnreferenced'
  BY <1>1, <1>2 DEF IInv, RemoteIsPublished, MarksUnreferenced
<1>10. PublishedRefsStored'
  BY <1>2, <1>6 DEF IInv, PublishedRefsStored
<1>11. LocalRefsStored'
  BY <1>1, <1>3, <1>6, <1>7 DEF IInv, LocalRefsStored
<1>12. MarksInherited'
  BY <1>1 DEF IInv, MarksInherited
<1>13. AccountsCarried'
  BY <1>1, <1>2, <1>3 DEF IInv, AccountsCarried, LocalAccounts
<1>. QED BY <1>3, <1>8, <1>9, <1>10, <1>11, <1>12, <1>13 DEF IInv, GcTargets

\* What the new index marks is either a mark of the published one or too
\* young to have expired before the run must end.
LEMMA UploadDoneInv == ASSUME MaxRun <= Grace, IInv, TypeOK', UploadDone PROVE IInv'
<1>. USE DEF Backing, StartGc, envVars, bucketVars, runVars, scanVars, uploadVars
<1>1. Published' = Published /\ Stored' = Stored /\ remote = Published
  BY DEF UploadDone, Published, Stored, IInv, RemoteIsPublished
<1>2. pc = "upload" /\ action = "backup" /\ pc' = "gc" /\ action' = "backup"
  BY DEF UploadDone
<1>3. local'.files = local.files /\ local'.marks = MarkedUnused
  BY DEF UploadDone, IInv, TypeOK, Index
<1>4. Exclusive(Published) /\ Exclusive(local)
  BY <1>2 DEF IInv, MarksUnreferenced
<1>5. RunShape' /\ Deadlines'
  BY <1>2 DEF IInv, TypeOK, RunShape, Deadlines, UploadDone
<1>6. Exclusive(local')
  <2>1. ASSUME NEW k \in Refs(local.files) PROVE MarkedUnused[k] = NoMark
    BY <1>4, <2>1 DEF MarkedUnused, Exclusive, Refs, Marked
  <2>. QED BY <1>3, <2>1 DEF Exclusive, Marked, Refs
<1>7. RemoteIsPublished' /\ MarksUnreferenced' /\ PublishedRefsStored'
  BY <1>1, <1>2, <1>4, <1>6
     DEF IInv, RemoteIsPublished, MarksUnreferenced, PublishedRefsStored, UploadDone
<1>8. LocalRefsStored'
  <2>1. Refs(local.files) \subseteq Stored \cup skipped
    BY <1>2 DEF UploadDone, IInv, LocalRefsStored
  <2>. QED BY <1>1, <1>2, <1>3, <2>1 DEF UploadDone, LocalRefsStored
<1>9. GcTargets'
  <2>1. ASSUME NEW k \in gcTodo'
        PROVE  /\ k \notin Refs(Published.files)
               /\ k \notin Refs(local.files)
               /\ k \in Marked(Published.marks)
               /\ Published.marks[k] < now
    <3>1. k \in Chunk /\ MarkedUnused[k] # NoMark /\ now > MarkedUnused[k]
      BY <2>1 DEF UploadDone, Marked
    <3>2. /\ started \in Nat /\ now \in Nat /\ deleteTime \in Nat
          /\ now <= started + MaxRun /\ deleteTime >= started + Grace
      BY <1>2 DEF IInv, TypeOK, Deadlines
    <3>3. k \notin Refs(remote.files) \ Refs(local.files)
      <4>1. SUFFICES ASSUME k \in Refs(remote.files) \ Refs(local.files) PROVE FALSE
        OBVIOUS
      <4>2. MarkedUnused[k] = deleteTime
        BY <3>1, <4>1 DEF MarkedUnused
      <4>. QED BY <3>1, <3>2, <4>2, TimeAssumption
    <3>4. MarkedUnused[k] = local.marks[k] /\ k \in Marked(local.marks)
      BY <3>1, <3>3 DEF MarkedUnused, Marked
    <3>5. /\ k \in Marked(remote.marks)
          /\ local.marks[k] = remote.marks[k] \/ local.marks[k] >= started + Grace
      BY <1>2, <3>4 DEF IInv, MarksInherited
    <3>6. ~(local.marks[k] >= started + Grace)
      BY <3>1, <3>2, <3>4, TimeAssumption DEF IInv, TypeOK, Index, NoMark
    <3>. QED BY <1>1, <1>4, <3>1, <3>4, <3>5, <3>6 DEF Exclusive
  <2>. QED BY <1>1, <1>3, <2>1 DEF GcTargets, UploadDone
<1>10. AccountsCarried'
  <2>1. ASSUME NEW k \in Chunk, Accounted(k) PROVE k \in LocalAccounts'
    <3>1. CASE k \in Refs(local.files)
      BY <1>3, <3>1 DEF LocalAccounts
    <3>2. CASE k \in Refs(Published.files) /\ k \notin Refs(local.files)
      <4>1. MarkedUnused[k] # NoMark
        BY <1>1, <3>2 DEF MarkedUnused, IInv, TypeOK, NoMark
      <4>. QED BY <1>3, <4>1 DEF LocalAccounts, Marked
    <3>3. CASE k \in Marked(Published.marks) /\ k \notin Refs(local.files)
      <4>1. k \in Marked(local.marks)
        BY <1>2, <3>3 DEF IInv, AccountsCarried, LocalAccounts
      <4>2. MarkedUnused[k] # NoMark
        BY <4>1 DEF MarkedUnused, Marked, IInv, TypeOK, NoMark
      <4>. QED BY <1>3, <4>2 DEF LocalAccounts, Marked
    <3>. QED BY <2>1, <3>1, <3>2, <3>3 DEF Accounted
  <2>. QED BY <1>1, <1>2, <2>1 DEF AccountsCarried, Stored, Accounted
<1>. QED BY <1>2, <1>5, <1>7, <1>8, <1>9, <1>10 DEF IInv, MarksInherited

\* Garbage collection touches only chunks the published index has given up.
LEMMA GcInv == ASSUME IInv, TypeOK', NEW k \in gcTodo, GcChunk(k) PROVE IInv'
<1>. USE DEF envVars, runVars, scanVars, uploadVars
<1>1. GcStep(k)
  BY DEF GcChunk, GcHeadFails, GcKeep, GcDelete, GcDeleteFails
<1>2. Published' = Published
  BY <1>1 DEF GcStep, Published
<1>3. pc = "gc" /\ pc' = "gc" /\ action' = action
  BY <1>1 DEF GcStep
<1>4. k \in Chunk /\ FixedMark(k) # NoMark
  BY BilledType DEF IInv, TypeOK
<1>5. /\ k \notin Refs(Published.files) /\ k \notin Refs(local.files)
      /\ k \in Marked(Published.marks)
  BY <1>3 DEF IInv, GcTargets
<1>6. local'.files = local.files
  BY DEF GcChunk, GcHeadFails, GcKeep, GcDelete, GcDeleteFails, SetMark, IInv, TypeOK, Index
<1>7. Stored' = Stored \/ Stored' = Stored \ {k}
  <2>1. CASE objects' = objects
    BY <2>1 DEF Stored
  <2>2. CASE objects' = [objects EXCEPT ![k] = NoObject]
    BY <2>2 DEF Stored, IInv, TypeOK
  <2>. QED BY <2>1, <2>2 DEF GcChunk, GcHeadFails, GcKeep, GcDelete, GcDeleteFails
<1>8. \/ Marked(local'.marks) = Marked(local.marks)
      \/ Marked(local'.marks) = Marked(local.marks) \cup {k}
      \/ Marked(local'.marks) = Marked(local.marks) \ {k} /\ k \notin Stored'
  <2>1. local \in Index
    BY DEF IInv, TypeOK
  <2>2. ASSUME NEW t, SetMark(k, t)
        PROVE  Marked(local'.marks) = IF t = NoMark THEN Marked(local.marks) \ {k}
                                      ELSE Marked(local.marks) \cup {k}
    <3>1. local'.marks = [local.marks EXCEPT ![k] = t]
      BY <2>1, <2>2 DEF SetMark, Index
    <3>. QED BY <1>4, <2>1, <3>1 DEF Marked, Index
  <2>3. CASE GcHeadFails(k)
    BY <2>3 DEF GcHeadFails
  <2>4. CASE GcKeep(k) \/ GcDeleteFails(k)
    BY <1>4, <2>2, <2>4 DEF GcKeep, GcDeleteFails
  <2>5. CASE GcDelete(k)
    <3>1. k \notin Stored'
      BY <1>4, <2>5 DEF GcDelete, Stored, IInv, TypeOK
    <3>. QED BY <2>2, <2>5, <3>1 DEF GcDelete
  <2>. QED BY <2>3, <2>4, <2>5 DEF GcChunk
<1>9. RunShape' /\ Deadlines'
  BY <1>1, <1>3 DEF GcStep, IInv, RunShape, Deadlines
<1>10. RemoteIsPublished' /\ MarksUnreferenced'
  BY <1>1, <1>2, <1>3, <1>5, <1>6, <1>8
     DEF GcStep, IInv, RemoteIsPublished, MarksUnreferenced, Exclusive
<1>11. PublishedRefsStored'
  BY <1>1, <1>2, <1>5, <1>7 DEF GcStep, IInv, PublishedRefsStored
<1>12. LocalRefsStored'
  BY <1>1, <1>2, <1>3, <1>5, <1>6, <1>7 DEF GcStep, IInv, LocalRefsStored
<1>13. GcTargets'
  BY <1>1, <1>2, <1>3, <1>6 DEF GcStep, IInv, GcTargets
<1>14. AccountsCarried'
  <2>1. ASSUME NEW j \in Stored', Accounted(j)' PROVE j \in LocalAccounts'
    <3>1. j \in Stored /\ Accounted(j)
      BY <1>2, <1>7, <2>1 DEF Accounted
    <3>2. j \in LocalAccounts
      BY <1>3, <3>1 DEF IInv, AccountsCarried
    <3>. QED BY <1>6, <1>8, <2>1, <3>2 DEF LocalAccounts
  <2>. QED BY <1>3, <2>1 DEF AccountsCarried
<1>. QED BY <1>3, <1>9, <1>10, <1>11, <1>12, <1>13, <1>14 DEF IInv, MarksInherited

LEMMA BackupStepInv == ASSUME MaxRun <= Grace, IInv, BackupStep PROVE IInv'
<1>1. TypeOK'
  BY BackupStepType DEF IInv
<1>2. CASE Scanning
  BY <1>1, <1>2, ScanInv
<1>3. CASE LoadForBackup
  BY <1>1, <1>3, LoadInv
<1>4. CASE PlanUpload
  BY <1>1, <1>4, PlanInv
<1>5. ASSUME NEW t \in tasks \cup puts, UploadTask(t) PROVE IInv'
  BY <1>1, <1>5, UploadInv
<1>6. CASE UploadFailed \/ BackupGcFailed
  BY <1>1, <1>6, QuitInv DEF UploadFailed, BackupGcFailed
<1>7. CASE UploadDone
  BY <1>1, <1>7, UploadDoneInv
<1>8. CASE BackupGcDone
  <2>. USE DEF BackupGcDone, Backing, envVars, bucketVars, runVars, scanVars, indexVars,
               uploadVars, gcVars
  <2>1. Published' = Published /\ Stored' = Stored
    BY <1>8 DEF Published, Stored
  <2>2. pc = "gc" /\ action = "backup" /\ pc' = "publish" /\ action' = "backup"
    BY <1>8
  <2>3. RunShape' /\ Deadlines'
    BY <1>8, <2>2 DEF IInv, RunShape, Deadlines
  <2>4. RemoteIsPublished' /\ MarksUnreferenced' /\ PublishedRefsStored'
    BY <1>8, <2>1, <2>2
       DEF IInv, RemoteIsPublished, MarksUnreferenced, PublishedRefsStored
  <2>5. LocalRefsStored'
    BY <1>8, <2>1, <2>2 DEF IInv, LocalRefsStored
  <2>6. AccountsCarried'
    BY <1>8, <2>1, <2>2 DEF IInv, AccountsCarried, LocalAccounts, Accounted
  <2>. QED BY <1>1, <2>2, <2>3, <2>4, <2>5, <2>6 DEF IInv, MarksInherited, GcTargets
<1>. QED BY <1>2, <1>3, <1>4, <1>5, <1>6, <1>7, <1>8
         DEF BackupStep, ScanFile, ReuseHash, HashFile, HashError, Hashing, ScanError

\* What fsck is about to publish refers only to what the LIST showed.
LEMMA RepairedFacts ==
    ASSUME TypeOK
    PROVE  /\ Refs(RepairedFiles) = Refs(local.files) \cap Stored
           /\ Marked(RepairedMarks) = Stored \ (Refs(local.files) \ Marked(local.marks))
<1>1. Refs(RepairedFiles) = Refs(local.files) \cap Stored
  BY DEF Refs, RepairedFiles
<1>2. now + Forever # NoMark
  BY TimeAssumption DEF TypeOK, NoMark
<1>3. ASSUME NEW k \in Chunk
      PROVE  RepairedMarks[k] # NoMark <=>
               k \in Stored /\ ~(k \in Refs(local.files) /\ k \notin Marked(local.marks))
  BY <1>2 DEF RepairedMarks, Marked
<1>4. Stored \subseteq Chunk
  BY DEF Stored
<1>. QED BY <1>1, <1>3, <1>4 DEF Marked

LEMMA FsckStepInv == ASSUME IInv, FsckStep PROVE IInv'
<1>. USE DEF Checking, envVars, bucketVars, runVars, scanVars, indexVars, uploadVars, gcVars
<1>1. TypeOK'
  BY FsckStepType DEF IInv
<1>2. CASE FsckWithoutIndex
  BY <1>1, <1>2, QuitInv DEF FsckWithoutIndex
<1>3. ASSUME ~FsckWithoutIndex
      PROVE  Published' = Published /\ Stored' = Stored /\ skipped' = skipped
  BY <1>3 DEF FsckStep, LoadForFsck, FsckGcDone, FsckReconcile, Published, Stored
<1>4. CASE LoadForFsck
  <2>1. /\ pc' = "gc" /\ action = "fsck" /\ action' = "fsck" /\ pc = "load"
        /\ Published = latest /\ local' = Published /\ gcTime' = now
        /\ gcTodo' = {k \in Marked(Published.marks) : now > Published.marks[k]}
    BY <1>4 DEF LoadForFsck, StartGc, Published
  <2>2. Published' = Published /\ Stored' = Stored /\ skipped' = skipped
    BY <1>4 DEF LoadForFsck, Published, Stored
  <2>3. RunShape' /\ Deadlines'
    BY <1>4, <2>1 DEF LoadForFsck, IInv, TypeOK, RunShape, Deadlines
  <2>4. Exclusive(Published)
    BY DEF IInv, MarksUnreferenced
  <2>5. RemoteIsPublished' /\ MarksUnreferenced' /\ PublishedRefsStored'
    BY <2>1, <2>2, <2>4 DEF IInv, RemoteIsPublished, MarksUnreferenced, PublishedRefsStored
  <2>6. LocalRefsStored'
    BY <2>1, <2>2 DEF LocalRefsStored
  <2>7. GcTargets'
    BY <1>1, <2>1, <2>2, <2>4 DEF GcTargets, Exclusive, TypeOK
  <2>8. AccountsCarried'
    BY <2>1, <2>2 DEF AccountsCarried, LocalAccounts, Accounted
  <2>. QED BY <1>1, <2>1, <2>3, <2>5, <2>6, <2>7, <2>8 DEF IInv, MarksInherited
<1>5. CASE FsckGcDone
  <2>1. pc = "gc" /\ pc' = "list" /\ action = "fsck" /\ action' = "fsck" /\ local' = local
    BY <1>5 DEF FsckGcDone
  <2>2. Published' = Published /\ Stored' = Stored /\ skipped' = skipped
    BY <1>5 DEF FsckGcDone, Published, Stored
  <2>3. RunShape' /\ Deadlines'
    BY <1>5, <2>1 DEF FsckGcDone, IInv, RunShape, Deadlines
  <2>4. RemoteIsPublished' /\ MarksUnreferenced' /\ PublishedRefsStored'
    BY <2>1, <2>2 DEF IInv, RemoteIsPublished, MarksUnreferenced, PublishedRefsStored
  <2>5. LocalRefsStored' /\ AccountsCarried'
    BY <2>1, <2>2 DEF IInv, LocalRefsStored, AccountsCarried, LocalAccounts, Accounted
  <2>. QED BY <1>1, <2>1, <2>3, <2>4, <2>5 DEF IInv, MarksInherited, GcTargets
<1>6. CASE FsckReconcile
  <2>1. /\ pc = "list" /\ pc' = "publish" /\ action = "fsck" /\ action' = "fsck"
        /\ local'.files = RepairedFiles /\ local'.marks = RepairedMarks
    BY <1>6 DEF FsckReconcile
  <2>2. Published' = Published /\ Stored' = Stored /\ skipped' = skipped
    BY <1>6 DEF FsckReconcile, Published, Stored
  <2>3. Refs(local'.files) = Refs(local.files) \cap Stored
    BY <2>1, RepairedFacts DEF IInv
  <2>4. Marked(local'.marks) = Stored \ (Refs(local.files) \ Marked(local.marks))
    BY <2>1, RepairedFacts DEF IInv
  <2>5. Exclusive(local)
    BY <2>1 DEF IInv, MarksUnreferenced
  <2>6. RunShape' /\ Deadlines'
    BY <1>6, <2>1 DEF FsckReconcile, IInv, RunShape, Deadlines
  <2>7. Exclusive(local')
    BY <2>3, <2>4, <2>5 DEF Exclusive
  <2>8. RemoteIsPublished' /\ MarksUnreferenced' /\ PublishedRefsStored'
    BY <2>1, <2>2, <2>7 DEF IInv, RemoteIsPublished, MarksUnreferenced, PublishedRefsStored
  <2>9. LocalRefsStored'
    BY <2>1, <2>2, <2>3 DEF LocalRefsStored
  <2>10. AccountsCarried'
    BY <2>1, <2>2, <2>3, <2>4 DEF IInv, AccountsCarried, LocalAccounts, Accounted
  <2>. QED BY <1>1, <2>1, <2>6, <2>8, <2>9, <2>10 DEF IInv, MarksInherited, GcTargets
<1>. QED BY <1>2, <1>4, <1>5, <1>6 DEF FsckStep

\* The index about to be published meets what a published index must.
LEMMA PublishInv == ASSUME IInv, TypeOK', PublishIndex PROVE IInv'
<1>1. Published' = local
  BY IndexAssumption DEF PublishIndex, Published, IInv, TypeOK
<1>2. Stored' = Stored /\ skipped' = skipped
  BY DEF PublishIndex, Stored
<1>3. Exclusive(local)
  BY DEF PublishIndex, IInv, MarksUnreferenced
<1>4. Refs(local.files) \subseteq Stored \cup skipped
  BY DEF PublishIndex, IInv, RunShape, LocalRefsStored, TypeOK
<1>. QED BY <1>1, <1>2, <1>3, <1>4, EndRunInv DEF PublishIndex

LEMMA NextInv == ASSUME MaxRun <= Grace, IInv, [Next]_vars PROVE IInv'
<1>1. TypeOK'
  BY NextType DEF IInv
<1>2. ASSUME NEW k \in gcTodo, GcChunk(k) PROVE IInv'
  BY <1>1, <1>2, GcInv
<1>3. CASE PublishIndex
  BY <1>1, <1>3, PublishInv
<1>4. CASE Abort
  BY <1>1, <1>4, QuitInv DEF Abort
<1>5. CASE UNCHANGED vars
  <2>1. now' >= now /\ (pc # "idle" => now' <= started + MaxRun)
    BY <1>5 DEF vars, envVars, IInv, TypeOK, Deadlines
  <2>. QED BY <1>1, <1>5, <2>1, FrameInv DEF vars
<1>. QED BY <1>2, <1>3, <1>4, <1>5, EnvironmentInv, StartInv, BackupStepInv, FsckStepInv
         DEF Next, RunStep

\* If no run lasts longer than the grace period, whatever a run has done so far
\* leaves the published index its chunks and its marks their time: IInv holds.
THEOREM Inductive == ASSUME MaxRun <= Grace PROVE Spec => []IInv
<1>1. Init => IInv
  BY InitInv
<1>2. IInv /\ [Next]_vars => IInv'
  BY NextInv
<1>. QED BY <1>1, <1>2, PTL DEF Spec

-----------------------------------------------------------------------------
(* The safety theorems. *)

\* If no run lasts longer than the grace period, no index ever both uses a
\* chunk and marks it for deletion.
THEOREM MarksNeverReferenced == ASSUME MaxRun <= Grace PROVE Spec => []MarksUnreferenced
<1>1. IInv => MarksUnreferenced
  BY DEF IInv
<1>. QED BY <1>1, Inductive, PTL

\* Under the same condition every chunk of the published index is stored,
\* except those whose upload was skipped for a missing local file.
THEOREM PublishedRefsAlwaysStored ==
    ASSUME MaxRun <= Grace PROVE Spec => []PublishedRefsStored
<1>1. IInv => PublishedRefsStored
  BY DEF IInv
<1>. QED BY <1>1, Inductive, PTL

\* Which steps take a chunk out of the bucket.
LEMMA OnlyGcDeletes ==
    ASSUME TypeOK, [Next]_vars, NEW k \in Stored \ Stored'
    PROVE  k \in gcTodo /\ (GcDelete(k) \/ GcDeleteFails(k))
<1>. USE DEF envVars, bucketVars
<1>0. k \in Chunk /\ objects[k] # NoObject /\ objects'[k] = NoObject
  BY DEF Stored
<1>1. ASSUME NEW j \in gcTodo, GcChunk(j) PROVE j = k /\ (GcDelete(k) \/ GcDeleteFails(k))
  <2>1. CASE GcHeadFails(j) \/ GcKeep(j)
    BY <1>0, <2>1 DEF GcHeadFails, GcKeep
  <2>2. CASE GcDelete(j) \/ GcDeleteFails(j)
    <3>1. j = k
      BY <1>0, <2>2 DEF GcDelete, GcDeleteFails, TypeOK
    <3>. QED BY <2>2, <3>1
  <2>. QED BY <1>1, <2>1, <2>2 DEF GcChunk
<1>2. ASSUME NEW t \in tasks \cup puts, UploadTask(t) PROVE FALSE
  <2>1. ASSUME StoreChunk(t) PROVE FALSE
    <3>1. [body |-> fs[t.path].content, modified |-> now] # NoObject
      BY <2>1, SentinelAssumption DEF StoreChunk, TypeOK, Task, Object
    <3>. QED BY <1>0, <2>1, <3>1 DEF StoreChunk, TypeOK
  <2>. QED BY <1>0, <1>2, <2>1 DEF UploadTask, SkipStored, BeginPut, HeadFails, BeginTask,
              PutDone, PutRetried, PutVanished, PutFails
<1>3. \/ UNCHANGED objects
      \/ \E j \in gcTodo : GcChunk(j)
      \/ \E t \in tasks \cup puts : UploadTask(t)
  BY DEF Next, Environment, Tick, WriteFile, RemoveFile, RenameFile, ChangeFiles, Start,
         StartBackup, StartFsck, RunStep, BackupStep, LoadForBackup, ScanFile, ReuseHash,
         HashFile, HashError, Hashing, ScanError, Scanning, PlanUpload, UploadFailed,
         UploadDone, BackupGcDone, BackupGcFailed, FsckStep, FsckWithoutIndex, LoadForFsck,
         FsckGcDone, FsckReconcile, PublishIndex, Abort, vars
<1>. QED BY <1>0, <1>1, <1>2, <1>3

\* If no run lasts longer than the grace period, a chunk is deleted only when
\* the published index has given it up long enough ago and its billing period
\* is over.
THEOREM OnlyExpiredEverDeleted == ASSUME MaxRun <= Grace PROVE Spec => OnlyExpiredDeleted
<1>1. IInv /\ [Next]_vars => [DeleteExpiredOnly]_vars
  <2>. SUFFICES ASSUME IInv, [Next]_vars, NEW k \in Stored \ Stored' PROVE Expired(k)
    BY DEF DeleteExpiredOnly
  <2>1. k \in gcTodo /\ (GcDelete(k) \/ GcDeleteFails(k))
    BY OnlyGcDeletes DEF IInv
  <2>2. pc = "gc" /\ gcTime > BilledUntil(k)
    BY <2>1 DEF GcDelete, GcDeleteFails, GcStep
  <2>3. /\ k \notin Refs(Published.files) /\ k \in Marked(Published.marks)
        /\ Published.marks[k] < gcTime
    BY <2>1, <2>2 DEF IInv, GcTargets
  <2>4. gcTime <= now /\ gcTime \in Nat /\ now \in Nat
    BY <2>2 DEF IInv, TypeOK, Deadlines
  <2>5. objects[k].modified + Billing < gcTime /\ objects[k].modified \in Nat
    BY <2>2 DEF BilledUntil, Stored, IInv, TypeOK, Object
  <2>6. Published.marks[k] \in Nat \cup {NoMark}
    BY PublishedType DEF IInv, Index, Stored
  <2>. QED BY <2>3, <2>4, <2>5, <2>6, TimeAssumption DEF Expired, NoMark
<1>. QED BY <1>1, Inductive, PTL DEF Spec, OnlyExpiredDeleted

\* If no run lasts longer than the grace period, a stored chunk that the
\* published index accounts for stays accounted for.
THEOREM AccountsAlwaysKept == ASSUME MaxRun <= Grace PROVE Spec => AccountsKept
<1>1. IInv /\ [Next]_vars => [KeepAccounts]_vars
  <2>. SUFFICES ASSUME IInv, [Next]_vars, NEW k \in Stored \cap Stored', Accounted(k)
                PROVE  Accounted(k)'
    BY DEF KeepAccounts
  <2>1. latest' = latest \/ PublishIndex
    BY DEF Next, Environment, Tick, WriteFile, RemoveFile, RenameFile, ChangeFiles, Start,
         StartBackup, StartFsck, RunStep, BackupStep, LoadForBackup, ScanFile, ReuseHash,
         HashFile, HashError, Hashing, ScanError, Scanning, PlanUpload, UploadTask,
         SkipStored, BeginPut, HeadFails, BeginTask, PutDone, PutRetried, PutVanished,
         PutFails, Uploading, UploadFailed, UploadDone, BackupGcDone, BackupGcFailed,
         FsckStep, FsckWithoutIndex, LoadForFsck, FsckGcDone, FsckReconcile, GcChunk,
         GcHeadFails, GcKeep, GcDelete, GcDeleteFails, GcStep, Abort, vars, envVars,
         bucketVars
  <2>2. CASE latest' = latest
    BY <2>2 DEF Accounted, Published
  <2>3. CASE PublishIndex
    <3>1. Published' = local
      BY <2>3, IndexAssumption DEF PublishIndex, Published, IInv, TypeOK
    <3>2. k \in LocalAccounts
      BY <2>3 DEF PublishIndex, IInv, AccountsCarried
    <3>. QED BY <3>1, <3>2 DEF Accounted, LocalAccounts
  <2>. QED BY <2>1, <2>2, <2>3
<1>. QED BY <1>1, Inductive, PTL DEF Spec, AccountsKept

-----------------------------------------------------------------------------
(* fsck's repair, for runs of any length. *)

\* What fsck is about to publish agrees with what the LIST showed, and nothing
\* is stored or deleted in between.
FsckReady == pc = "publish" /\ action = "fsck" => LocalAccounts = Stored

LEMMA ReconcileReady == ASSUME TypeOK, FsckReconcile PROVE LocalAccounts' = Stored'
<1>1. local'.files = RepairedFiles /\ local'.marks = RepairedMarks /\ Stored' = Stored
  BY DEF FsckReconcile, bucketVars, Stored
<1>2. LocalAccounts' = (Refs(local.files) \cap Stored)
                         \cup (Stored \ (Refs(local.files) \ Marked(local.marks)))
  BY <1>1, RepairedFacts DEF LocalAccounts
<1>. QED BY <1>1, <1>2

LEMMA ReadyInv == ASSUME TypeOK, FsckReady, [Next]_vars PROVE FsckReady'
<1>. SUFFICES ASSUME pc' = "publish", action' = "fsck" PROVE LocalAccounts' = Stored'
  BY DEF FsckReady
<1>1. CASE FsckReconcile
  BY <1>1, ReconcileReady
<1>2. CASE ~FsckReconcile
  <2>1. pc = "publish" /\ action = "fsck" /\ UNCHANGED <<local, objects>>
    BY <1>2 DEF Next, Environment, Tick, WriteFile, RemoveFile, RenameFile, ChangeFiles, Start,
         StartBackup, StartFsck, RunStep, BackupStep, LoadForBackup, ScanFile, ReuseHash,
         HashFile, HashError, Hashing, ScanError, Scanning, PlanUpload, UploadTask,
         SkipStored, BeginPut, HeadFails, BeginTask, PutDone, PutRetried, PutVanished,
         PutFails, Uploading, UploadFailed, UploadDone, BackupGcDone, BackupGcFailed, Backing,
         FsckStep, FsckWithoutIndex, LoadForFsck, FsckGcDone, StartGc, GcChunk,
         GcHeadFails, GcKeep, GcDelete, GcDeleteFails, GcStep, PublishIndex, Abort, EndRun,
         vars, envVars, bucketVars, runVars, indexVars
  <2>. QED BY <2>1 DEF FsckReady, LocalAccounts, Stored
<1>. QED BY <1>1, <1>2

\* The index that fsck publishes accounts for every stored chunk, and for no
\* other.
THEOREM FsckAlwaysRepairs == Spec => FsckRepairs
<1>1. Init => FsckReady
  BY DEF Init, NoRun, FsckReady
<1>2. TypeOK /\ FsckReady /\ [Next]_vars => FsckReady'
  BY ReadyInv
<1>3. TypeOK /\ FsckReady /\ [Next]_vars => [FsckAgrees]_vars
  <2>. SUFFICES ASSUME TypeOK, FsckReady, [Next]_vars, Publishing("fsck")
                PROVE  Refs(latest'.files) \cup Marked(latest'.marks) = Stored'
    BY DEF FsckAgrees
  <2>1. PublishIndex
    BY DEF Publishing, Next, Environment, Tick, WriteFile, RemoveFile, RenameFile, ChangeFiles,
         Start, StartBackup, StartFsck, RunStep, BackupStep, LoadForBackup, ScanFile, ReuseHash,
         HashFile, HashError, Hashing, ScanError, Scanning, PlanUpload, UploadTask,
         SkipStored, BeginPut, HeadFails, BeginTask, PutDone, PutRetried, PutVanished,
         PutFails, Uploading, UploadFailed, UploadDone, BackupGcDone, BackupGcFailed,
         FsckStep, FsckWithoutIndex, LoadForFsck, FsckGcDone, FsckReconcile, GcChunk,
         GcHeadFails, GcKeep, GcDelete, GcDeleteFails, GcStep, Abort, vars, envVars,
         bucketVars
  <2>2. latest' = local /\ Stored' = Stored /\ LocalAccounts = Stored
    BY <2>1 DEF PublishIndex, Stored, FsckReady, Publishing
  <2>. QED BY <2>2 DEF LocalAccounts
<1>. QED BY <1>1, <1>2, <1>3, TypeCorrect, PTL DEF Spec, FsckRepairs

-----------------------------------------------------------------------------
(* Size and mtime tell whether a file has changed: DatedInv. *)

\* What each step does to the files, the entries found, and the indexes.
LEMMA Records ==
    ASSUME TypeOK, [Next]_vars
    PROVE  \/ Environment
           \/ \E p \in Path : ScanFile(p) \/ ReuseHash(p) \/ HashFile(p) \/ HashError(p)
           \/ LoadForBackup \/ LoadForFsck \/ FsckReconcile \/ PublishIndex
           \/ EndRun /\ UNCHANGED <<now, fs, objects, latest>>
           \/ /\ UNCHANGED <<now, fs, latest, stated, remote>>
              /\ local'.files = local.files
<1>. USE DEF envVars, bucketVars, runVars, scanVars, indexVars, uploadVars, gcVars
<1>1. CASE Start
  BY <1>1 DEF Start, StartBackup, StartFsck
<1>2. CASE BackupStep
  <2>1. ASSUME NEW lost, ScanError(lost) PROVE UNCHANGED <<now, fs, latest, stated, remote, local>>
    BY <2>1 DEF ScanError, Scanning
  <2>2. ASSUME NEW t \in tasks \cup puts, UploadTask(t)
        PROVE  UNCHANGED <<now, fs, latest, stated, remote, local>>
    BY <2>2 DEF UploadTask, SkipStored, BeginPut, HeadFails, BeginTask, PutDone, PutRetried,
                PutVanished, PutFails, Uploading
  <2>3. CASE PlanUpload \/ UploadDone
    <3>1. UNCHANGED <<now, fs, latest, stated, remote>>
      BY <2>3 DEF PlanUpload, UploadDone
    <3>2. local'.files = local.files
      BY <2>3 DEF PlanUpload, UploadDone, TypeOK, Index
    <3>. QED BY <3>1, <3>2
  <2>4. CASE BackupGcDone
    BY <2>4 DEF BackupGcDone
  <2>5. CASE UploadFailed \/ BackupGcFailed
    BY <2>5 DEF UploadFailed, BackupGcFailed
  <2>. QED BY <1>2, <2>1, <2>2, <2>3, <2>4, <2>5 DEF BackupStep
<1>3. CASE FsckStep
  BY <1>3 DEF FsckStep, FsckWithoutIndex, FsckGcDone
<1>4. ASSUME NEW k \in gcTodo, GcChunk(k)
      PROVE  UNCHANGED <<now, fs, latest, stated, remote>> /\ local'.files = local.files
  <2>1. GcStep(k)
    BY <1>4 DEF GcChunk, GcHeadFails, GcKeep, GcDelete, GcDeleteFails
  <2>2. local'.files = local.files
    BY <1>4 DEF GcChunk, GcHeadFails, GcKeep, GcDelete, GcDeleteFails, SetMark, TypeOK, Index
  <2>. QED BY <2>1, <2>2 DEF GcStep
<1>5. CASE Abort
  BY <1>5 DEF Abort
<1>6. CASE UNCHANGED vars
  BY <1>6 DEF vars
<1>. QED BY <1>1, <1>2, <1>3, <1>4, <1>5, <1>6 DEF Next, RunStep

\* An entry stays dated while its file is written or removed, if every write
\* gives the file an mtime it has not had yet.
LEMMA FileDated ==
    ASSUME TypeOK, NEW files \in [Path -> Entry \cup {NoEntry}], Dated(files),
           \A q \in Path : fs[q].mtime <= now,
           NEW p \in Path, NEW c \in Content \cup {Absent},
           c = Absent \/ fs[p].mtime < now,
           fs' = [fs EXCEPT ![p] = [content |-> c, mtime |-> now]]
    PROVE  \A q \in Path : files[q] # NoEntry =>
             /\ files[q].mtime <= fs'[q].mtime
             /\ fs'[q].content # Absent /\ files[q].mtime = fs'[q].mtime =>
                   files[q].key = KeyOf(fs'[q].content)
<1>. SUFFICES ASSUME NEW q \in Path, files[q] # NoEntry
              PROVE  /\ files[q].mtime <= fs'[q].mtime
                     /\ fs'[q].content # Absent /\ files[q].mtime = fs'[q].mtime =>
                           files[q].key = KeyOf(fs'[q].content)
  OBVIOUS
<1>1. /\ files[q].mtime <= fs[q].mtime
      /\ fs[q].content # Absent /\ files[q].mtime = fs[q].mtime =>
            files[q].key = KeyOf(fs[q].content)
  BY DEF Dated
<1>2. CASE q # p
  BY <1>1, <1>2 DEF TypeOK
<1>3. CASE q = p
  <2>1. fs'[q].content = c /\ fs'[q].mtime = now
    BY <1>3 DEF TypeOK
  <2>2. files[q].mtime \in Nat /\ fs[q].mtime \in Nat /\ now \in Nat /\ fs[q].mtime <= now
    BY DEF TypeOK, Entry
  <2>. QED BY <1>1, <1>3, <2>1, <2>2
<1>. QED BY <1>2, <1>3

LEMMA FilesType ==
    ASSUME TypeOK
    PROVE  /\ Published.files \in [Path -> Entry \cup {NoEntry}]
           /\ remote.files \in [Path -> Entry \cup {NoEntry}]
           /\ local.files \in [Path -> Entry \cup {NoEntry}]
BY PublishedType DEF TypeOK, Index

LEMMA EnvironmentDated ==
    ASSUME Disturbances \cap {"same-second", "old-mtime"} = {}, DatedInv, TypeOK', Environment
    PROVE  DatedInv'
<1>. USE DEF bucketVars, scanVars, indexVars
<1>1. UNCHANGED <<latest, stated, remote, local>> /\ Published' = Published
  BY DEF Environment, Tick, WriteFile, RemoveFile, RenameFile, ChangeFiles, Published
<1>2. CASE Tick
  <2>1. fs' = fs /\ now' = now + 1 /\ now \in Nat
    BY <1>2 DEF Tick, DatedInv, TypeOK
  <2>2. \A p \in Path : fs'[p].mtime <= now'
    BY <2>1 DEF DatedInv, TypeOK
  <2>. QED BY <1>1, <2>1, <2>2 DEF DatedInv, StatedDated, Dated
<1>3. ASSUME NEW p \in Path, NEW c \in Content \cup {Absent},
             c = Absent \/ fs[p].mtime < now, now' = now,
             fs' = [fs EXCEPT ![p] = [content |-> c, mtime |-> now]]
      PROVE  DatedInv'
  <2>1. \A q \in Path : fs'[q].mtime <= now'
    BY <1>3 DEF DatedInv, TypeOK
  <2>2. Dated(Published.files)' /\ Dated(remote.files)' /\ Dated(local.files)'
    <3>1. TypeOK /\ \A q \in Path : fs[q].mtime <= now
      BY DEF DatedInv
    <3>2. ASSUME NEW files \in [Path -> Entry \cup {NoEntry}], Dated(files)
          PROVE  \A q \in Path : files[q] # NoEntry =>
                   /\ files[q].mtime <= fs'[q].mtime
                   /\ fs'[q].content # Absent /\ files[q].mtime = fs'[q].mtime =>
                         files[q].key = KeyOf(fs'[q].content)
      BY <1>3, <3>1, <3>2, FileDated
    <3>3. Dated(Published.files) /\ Dated(remote.files) /\ Dated(local.files)
      BY DEF DatedInv
    <3>. QED BY <1>1, <3>1, <3>2, <3>3, FilesType DEF Dated
  <2>3. StatedDated'
    <3>. SUFFICES ASSUME NEW q \in Path, stated[q] # NoEntry
                  PROVE  /\ stated[q].mtime <= fs'[q].mtime
                         /\ fs'[q].content # Absent /\ stated[q].mtime = fs'[q].mtime =>
                               stated[q].size = SizeOf[fs'[q].content]
      BY <1>1 DEF StatedDated
    <3>1. /\ stated[q].mtime <= fs[q].mtime
          /\ fs[q].content # Absent /\ stated[q].mtime = fs[q].mtime =>
                stated[q].size = SizeOf[fs[q].content]
      BY DEF DatedInv, StatedDated
    <3>2. CASE q # p
      BY <1>3, <3>1, <3>2 DEF DatedInv, TypeOK
    <3>3. CASE q = p
      <4>1. fs'[q].content = c /\ fs'[q].mtime = now
        BY <1>3, <3>3 DEF DatedInv, TypeOK
      <4>2. stated[q].mtime \in Nat /\ fs[q].mtime \in Nat /\ now \in Nat /\ fs[q].mtime <= now
        BY DEF DatedInv, TypeOK, Stat
      <4>. QED BY <1>3, <3>1, <3>3, <4>1, <4>2
    <3>. QED BY <3>2, <3>3
  <2>. QED BY <2>1, <2>2, <2>3 DEF DatedInv
<1>4. ASSUME NEW p \in Path, NEW c \in Content, WriteFile(p, c) PROVE DatedInv'
  <2>1. fs[p].mtime < now
    BY <1>4 DEF WriteFile, Allowed
  <2>. QED BY <1>3, <1>4, <2>1 DEF WriteFile, ChangeFiles
<1>5. ASSUME NEW p \in Path, RemoveFile(p) PROVE DatedInv'
  BY <1>3, <1>5 DEF RemoveFile, ChangeFiles
<1>6. ASSUME NEW p \in Path, NEW q \in Path, RenameFile(p, q) PROVE FALSE
  BY <1>6 DEF RenameFile, Allowed
<1>. QED BY <1>2, <1>4, <1>5, <1>6 DEF Environment

LEMMA HashDated ==
    ASSUME DatedInv, TypeOK', NEW p \in Path,
           ScanFile(p) \/ ReuseHash(p) \/ HashFile(p) \/ HashError(p)
    PROVE  DatedInv'
<1>. USE DEF Scanning, envVars, bucketVars
<1>1. UNCHANGED <<now, fs, latest, remote>> /\ Published' = Published
  BY DEF ScanFile, ReuseHash, HashFile, HashError, Hashing, Published
<1>2. /\ (\A q \in Path : fs'[q].mtime <= now')
      /\ Dated(Published.files)' /\ Dated(remote.files)'
  BY <1>1 DEF DatedInv, Dated
<1>3. CASE ScanFile(p)
  <2>1. local' = local
    BY <1>3 DEF ScanFile
  <2>2. stated' = IF fs[p].content = Absent THEN stated
                  ELSE [stated EXCEPT ![p] = [size  |-> SizeOf[fs[p].content],
                                              mtime |-> fs[p].mtime]]
    BY <1>3 DEF ScanFile
  <2>3. StatedDated'
    BY <1>1, <2>2 DEF DatedInv, StatedDated, TypeOK
  <2>. QED BY <1>1, <1>2, <2>1, <2>3 DEF DatedInv, Dated
<1>4. ASSUME NEW key \in Chunk, Hashing(p), AddEntry(p, key),
             fs[p].content # Absent /\ stated[p].mtime = fs[p].mtime =>
                key = KeyOf(fs[p].content)
      PROVE  DatedInv'
  <2>1. /\ local'.files = [local.files EXCEPT ![p] = [key |-> key, mtime |-> stated[p].mtime]]
        /\ stated' = [stated EXCEPT ![p] = NoEntry]
    BY <1>4 DEF AddEntry, DatedInv, TypeOK, Index
  <2>2. stated[p] # NoEntry /\ stated[p].mtime <= fs[p].mtime
    BY <1>4 DEF Hashing, DatedInv, StatedDated
  <2>3. StatedDated'
    BY <1>1, <2>1 DEF DatedInv, StatedDated, TypeOK
  <2>4. Dated(local.files)'
    <3>1. local.files \in [Path -> Entry \cup {NoEntry}]
      BY FilesType DEF DatedInv
    <3>. QED BY <1>1, <1>4, <2>1, <2>2, <3>1 DEF DatedInv, Dated
  <2>. QED BY <1>1, <1>2, <2>3, <2>4 DEF DatedInv
<1>5. CASE ReuseHash(p)
  <2>1. /\ Hashing(p) /\ AddEntry(p, remote.files[p].key)
        /\ remote.files[p] # NoEntry /\ remote.files[p].mtime = stated[p].mtime
    BY <1>5 DEF ReuseHash, LooksUnchanged
  <2>2. remote.files[p].key \in Chunk
    BY <2>1, FilesType DEF DatedInv, Entry
  <2>. QED BY <1>4, <2>1, <2>2 DEF DatedInv, Dated
<1>6. CASE HashFile(p)
  <2>. DEFINE key == [size |-> stated[p].size, hash |-> HashOf[fs[p].content]]
  <2>1. Hashing(p) /\ AddEntry(p, key) /\ fs[p].content # Absent /\ stated[p] # NoEntry
    BY <1>6 DEF HashFile, Hashing
  <2>2. stated[p].size \in Sizes /\ HashOf[fs[p].content] \in Hashes
    BY <2>1 DEF DatedInv, TypeOK, Stat, Hashes
  <2>3. key \in Chunk
    BY <2>2 DEF Chunk
  <2>4. stated[p].mtime = fs[p].mtime => key = KeyOf(fs[p].content)
    BY <2>1 DEF DatedInv, StatedDated, KeyOf
  <2>. QED BY <1>4, <2>1, <2>3, <2>4
<1>7. CASE HashError(p)
  <2>1. local' = local /\ stated' = [stated EXCEPT ![p] = NoEntry]
    BY <1>7 DEF HashError
  <2>2. StatedDated'
    BY <1>1, <2>1 DEF DatedInv, StatedDated, TypeOK
  <2>. QED BY <1>1, <1>2, <2>1, <2>2 DEF DatedInv, Dated
<1>. QED BY <1>3, <1>5, <1>6, <1>7

LEMMA EmptyDated == Dated(EmptyIndex.files)
BY DEF Dated, EmptyIndex, EmptyFiles

LEMMA NextDated ==
    ASSUME Disturbances \cap {"same-second", "old-mtime"} = {}, DatedInv, [Next]_vars
    PROVE  DatedInv'
<1>. USE DEF envVars, bucketVars, runVars, scanVars, indexVars
<1>1. TypeOK /\ TypeOK'
  BY NextType DEF DatedInv
<1>2. CASE Environment
  BY <1>1, <1>2, EnvironmentDated
<1>3. ASSUME NEW p \in Path, ScanFile(p) \/ ReuseHash(p) \/ HashFile(p) \/ HashError(p)
      PROVE  DatedInv'
  BY <1>1, <1>3, HashDated
<1>4. ASSUME UNCHANGED <<now, fs, stated>>,
             Dated(Published'.files), Dated(remote'.files), Dated(local'.files)
      PROVE  DatedInv'
  BY <1>1, <1>4 DEF DatedInv, StatedDated, Dated
<1>5. ASSUME UNCHANGED latest PROVE Published' = Published
  BY <1>5 DEF Published
<1>6. CASE LoadForBackup
  BY <1>4, <1>5, <1>6 DEF LoadForBackup, DatedInv
<1>7. CASE LoadForFsck
  BY <1>4, <1>5, <1>7 DEF LoadForFsck, DatedInv, Published
<1>8. CASE FsckReconcile
  <2>1. local'.files = RepairedFiles
    BY <1>8 DEF FsckReconcile
  <2>2. Dated(local'.files)
    BY <2>1 DEF RepairedFiles, DatedInv, Dated
  <2>. QED BY <1>4, <1>5, <1>8, <2>2 DEF FsckReconcile, DatedInv
<1>9. ASSUME EndRun, UNCHANGED <<now, fs>>, Dated(Published'.files) PROVE DatedInv'
  <2>1. Dated(remote.files)' /\ Dated(local.files)'
    BY <1>9 DEF EndRun, Dated, EmptyIndex, EmptyFiles
  <2>2. Dated(Published.files)'
    BY <1>9 DEF Dated
  <2>3. StatedDated'
    BY <1>9 DEF EndRun, StatedDated, EmptyFiles
  <2>. QED BY <1>1, <1>9, <2>1, <2>2, <2>3 DEF DatedInv
<1>10. CASE PublishIndex
  <2>1. Published' = local
    BY <1>10, <1>1, IndexAssumption DEF PublishIndex, Published, TypeOK
  <2>. QED BY <1>9, <1>10, <2>1 DEF PublishIndex, DatedInv
<1>11. CASE EndRun /\ UNCHANGED <<now, fs, objects, latest>>
  BY <1>5, <1>9, <1>11 DEF DatedInv
<1>12. CASE UNCHANGED <<now, fs, latest, stated, remote>> /\ local'.files = local.files
  BY <1>4, <1>5, <1>12 DEF DatedInv
<1>. QED BY <1>1, <1>2, <1>3, <1>6, <1>7, <1>8, <1>10, <1>11, <1>12, Records

LEMMA InitDated == Init => DatedInv
<1>. SUFFICES ASSUME Init PROVE DatedInv
  OBVIOUS
<1>1. TypeOK
  BY InitType
<1>2. Published = EmptyIndex /\ remote = EmptyIndex /\ local = EmptyIndex /\ stated = EmptyFiles
  BY DEF Init, NoRun, Published
<1>3. \A p \in Path : fs[p].mtime <= now
  BY DEF Init
<1>. QED BY <1>1, <1>2, <1>3, EmptyDated DEF DatedInv, StatedDated, EmptyFiles

\* If no file changes twice within a second or takes over the mtime of another,
\* every index, published or being built, is dated: where mtimes agree, so do
\* the keys.
THEOREM DatedInductive ==
    ASSUME Disturbances \cap {"same-second", "old-mtime"} = {} PROVE Spec => []DatedInv
<1>1. Init => DatedInv
  BY InitDated
<1>2. DatedInv /\ [Next]_vars => DatedInv'
  BY NextDated
<1>. QED BY <1>1, <1>2, PTL DEF Spec

\* If no file changes twice within a second or takes over the mtime of another,
\* a file that looks unchanged by size and mtime has the content that the
\* published index records, however often it is written during a backup.
THEOREM UnchangedAlwaysMeansSame ==
    ASSUME Disturbances \cap {"same-second", "old-mtime"} = {}
    PROVE  Spec => []UnchangedMeansSame
<1>1. DatedInv => UnchangedMeansSame
  BY DEF DatedInv, Dated, UnchangedMeansSame
<1>. QED BY <1>1, DatedInductive, PTL

-----------------------------------------------------------------------------
(* Objects hold what their names say: AddressedInv. *)

\* Only the end of a run and the start of one lead to where nothing is in hand.
LEMMA NextNothingBuilt == ASSUME TypeOK, NothingBuilt, [Next]_vars PROVE NothingBuilt'
<1>. USE DEF envVars, bucketVars, runVars, scanVars, indexVars, uploadVars, gcVars
<1>1. SUFFICES ASSUME pc' \in {"idle", "load"}
               PROVE  stated' = EmptyFiles /\ local' = EmptyIndex /\ tasks' = {} /\ puts' = {}
  BY DEF NothingBuilt
<1>2. CASE EndRun
  BY <1>2 DEF EndRun
<1>3. CASE ~EndRun
  <2>1. Environment \/ Start \/ UNCHANGED vars
    BY <1>1, <1>3 DEF Next, RunStep, BackupStep, LoadForBackup, ScanFile, ReuseHash, HashFile,
         HashError, Hashing, ScanError, Scanning, PlanUpload, UploadTask, SkipStored, BeginPut,
         HeadFails, BeginTask, PutDone, PutRetried, PutVanished, PutFails, Uploading,
         UploadFailed, UploadDone, BackupGcDone, BackupGcFailed, Backing, FsckStep,
         FsckWithoutIndex, LoadForFsck, FsckGcDone, FsckReconcile, Checking, StartGc, GcChunk,
         GcHeadFails, GcKeep, GcDelete, GcDeleteFails, GcStep, PublishIndex, Abort
  <2>2. pc \in {"idle", "load"} /\ UNCHANGED <<stated, local, tasks, puts>>
    BY <1>1, <2>1 DEF Environment, Tick, WriteFile, RemoveFile, RenameFile, ChangeFiles, Start,
         StartBackup, StartFsck, vars
  <2>. QED BY <2>2 DEF NothingBuilt
<1>. QED BY <1>2, <1>3

\* An ended run has nothing in hand.
LEMMA EndRunAddressed ==
    ASSUME AddressedInv, TypeOK', EndRun, UNCHANGED objects PROVE AddressedInv'
<1>1. /\ pc' = "idle" /\ action' = "none" /\ stated' = EmptyFiles /\ local' = EmptyIndex
      /\ tasks' = {} /\ puts' = {}
  BY DEF EndRun
<1>2. NothingBuilt' /\ KeysHold' /\ TasksHold'
  BY <1>1 DEF NothingBuilt, KeysHold, TasksHold
<1>3. SizesHold'
  BY <1>1 DEF SizesHold, EmptyFiles
<1>4. ContentAddressed'
  BY DEF AddressedInv, ContentAddressed, Stored
<1>. QED BY <1>2, <1>3, <1>4 DEF AddressedInv

\* Steps that add nothing to the bucket, and nothing to what is in hand.
LEMMA FrameAddressed ==
    ASSUME AddressedInv, TypeOK', UNCHANGED <<fs, action, remote, tasks, puts, stated>>,
           local'.files = local.files,
           \A k \in Chunk : objects'[k] \in {objects[k], NoObject},
           NothingBuilt'
    PROVE  AddressedInv'
<1>1. SizesHold' /\ KeysHold'
  BY DEF AddressedInv, SizesHold, KeysHold
<1>2. TasksHold'
  BY DEF AddressedInv, TasksHold
<1>3. ContentAddressed'
  BY DEF AddressedInv, ContentAddressed, Stored
<1>. QED BY <1>1, <1>2, <1>3 DEF AddressedInv

LEMMA EnvironmentAddressed ==
    ASSUME "write" \notin Disturbances, AddressedInv, TypeOK', Environment PROVE AddressedInv'
<1>. USE DEF bucketVars, runVars, scanVars, indexVars, uploadVars
<1>1. UNCHANGED <<objects, pc, action, remote, local, stated, tasks, puts>>
  BY DEF Environment, Tick, WriteFile, RemoveFile, RenameFile, ChangeFiles
<1>2. NothingBuilt' /\ ContentAddressed'
  BY <1>1 DEF AddressedInv, NothingBuilt, ContentAddressed, Stored
<1>3. CASE pc = "idle"
  <2>1. stated' = EmptyFiles /\ local' = EmptyIndex /\ tasks' = {} /\ puts' = {}
    BY <1>1, <1>3 DEF AddressedInv, NothingBuilt
  <2>2. SizesHold' /\ KeysHold' /\ TasksHold'
    BY <2>1 DEF SizesHold, KeysHold, TasksHold, EmptyIndex, EmptyFiles
  <2>. QED BY <1>2, <2>2 DEF AddressedInv
<1>4. CASE pc # "idle"
  <2>1. \A p \in Path : fs'[p].content # Absent => fs'[p].content = fs[p].content
    <3>1. ASSUME NEW p \in Path, RemoveFile(p)
          PROVE  \A q \in Path : fs'[q].content # Absent => fs'[q].content = fs[q].content
      BY <3>1 DEF RemoveFile, ChangeFiles, AddressedInv, TypeOK
    <3>2. Tick \/ \E p \in Path : RemoveFile(p)
      BY <1>4 DEF Environment, WriteFile, RenameFile, Allowed
    <3>. QED BY <3>1, <3>2 DEF Tick
  <2>2. SizesHold' /\ KeysHold'
    BY <1>1, <2>1 DEF AddressedInv, SizesHold, KeysHold
  <2>3. \A t \in tasks \cup puts : t.path \in Path
    BY DEF AddressedInv, TypeOK, Task
  <2>4. TasksHold'
    BY <1>1, <2>1, <2>3 DEF AddressedInv, TasksHold
  <2>. QED BY <1>2, <2>2, <2>4 DEF AddressedInv
<1>. QED BY <1>3, <1>4

\* The hash of a file that nobody writes is that of its chunk.
LEMMA HashAddressed ==
    ASSUME AddressedInv, TypeOK', NEW p \in Path,
           ScanFile(p) \/ ReuseHash(p) \/ HashFile(p) \/ HashError(p)
    PROVE  AddressedInv'
<1>. USE DEF Scanning, Backing, envVars, bucketVars, runVars, uploadVars
<1>1. UNCHANGED <<fs, objects, pc, action, remote, tasks, puts>> /\ pc = "scan" /\ action = "backup"
  BY DEF ScanFile, ReuseHash, HashFile, HashError, Hashing
<1>2. NothingBuilt' /\ ContentAddressed' /\ TasksHold'
  BY <1>1 DEF AddressedInv, NothingBuilt, ContentAddressed, Stored, TasksHold
<1>3. CASE ScanFile(p)
  <2>1. /\ local' = local
        /\ stated' = IF fs[p].content = Absent THEN stated
                     ELSE [stated EXCEPT ![p] = [size  |-> SizeOf[fs[p].content],
                                                 mtime |-> fs[p].mtime]]
    BY <1>3 DEF ScanFile
  <2>2. SizesHold' /\ KeysHold'
    BY <1>1, <2>1 DEF AddressedInv, SizesHold, KeysHold, TypeOK
  <2>. QED BY <1>2, <2>2 DEF AddressedInv
<1>4. ASSUME NEW key \in Chunk, AddEntry(p, key),
             \/ key \in Refs(remote.files)
             \/ fs[p].content # Absent => key = KeyOf(fs[p].content)
      PROVE  AddressedInv'
  <2>1. /\ local'.files = [local.files EXCEPT ![p] = [key |-> key, mtime |-> stated[p].mtime]]
        /\ stated' = [stated EXCEPT ![p] = NoEntry]
    BY <1>4 DEF AddEntry, AddressedInv, TypeOK, Index
  <2>2. SizesHold'
    BY <1>1, <2>1 DEF AddressedInv, SizesHold, TypeOK
  <2>3. KeysHold'
    <3>1. local.files \in [Path -> Entry \cup {NoEntry}]
      BY FilesType DEF AddressedInv
    <3>. QED BY <1>1, <1>4, <2>1, <3>1 DEF AddressedInv, KeysHold
  <2>. QED BY <1>2, <2>2, <2>3 DEF AddressedInv
<1>5. CASE ReuseHash(p)
  <2>1. AddEntry(p, remote.files[p].key) /\ remote.files[p] # NoEntry
    BY <1>5 DEF ReuseHash, LooksUnchanged
  <2>2. remote.files[p].key \in Chunk
    BY <2>1, FilesType DEF AddressedInv, Entry
  <2>3. remote.files[p].key \in Refs(remote.files)
    BY <2>1, <2>2 DEF Refs
  <2>. QED BY <1>4, <2>1, <2>2, <2>3
<1>6. CASE HashFile(p)
  <2>. DEFINE key == [size |-> stated[p].size, hash |-> HashOf[fs[p].content]]
  <2>1. AddEntry(p, key) /\ fs[p].content # Absent /\ stated[p] # NoEntry
    BY <1>6 DEF HashFile, Hashing
  <2>2. stated[p].size \in Sizes /\ HashOf[fs[p].content] \in Hashes
    BY <2>1 DEF AddressedInv, TypeOK, Stat, Hashes
  <2>3. key \in Chunk
    BY <2>2 DEF Chunk
  <2>4. key = KeyOf(fs[p].content)
    BY <2>1 DEF AddressedInv, SizesHold, KeyOf
  <2>. QED BY <1>4, <2>1, <2>3, <2>4
<1>7. CASE HashError(p)
  <2>1. local' = local /\ stated' = [stated EXCEPT ![p] = NoEntry]
    BY <1>7 DEF HashError
  <2>2. SizesHold' /\ KeysHold'
    BY <1>1, <2>1 DEF AddressedInv, SizesHold, KeysHold, TypeOK
  <2>. QED BY <1>2, <2>2 DEF AddressedInv
<1>. QED BY <1>3, <1>5, <1>6, <1>7

\* A chunk to be uploaded is new, so its hash has just been computed.
LEMMA PlanAddressed == ASSUME AddressedInv, TypeOK', PlanUpload PROVE AddressedInv'
<1>. USE DEF Backing, envVars, bucketVars, runVars, scanVars
<1>1. /\ UNCHANGED <<fs, objects, action, remote, stated, puts>>
      /\ pc' = "upload" /\ action = "backup"
  BY DEF PlanUpload
<1>2. local'.files = local.files
  BY DEF PlanUpload, AddressedInv, TypeOK, Index
<1>3. NothingBuilt' /\ SizesHold' /\ KeysHold' /\ ContentAddressed'
  BY <1>1, <1>2 DEF AddressedInv, NothingBuilt, SizesHold, KeysHold, ContentAddressed, Stored
<1>4. PICK pick \in [NewChunks -> Path] :
        /\ \A k \in NewChunks : local.files[pick[k]] # NoEntry /\ local.files[pick[k]].key = k
        /\ tasks' = {[key |-> k, path |-> pick[k]] : k \in NewChunks}
  BY DEF PlanUpload
<1>5. ASSUME NEW k \in NewChunks, fs[pick[k]].content # Absent
      PROVE  k = KeyOf(fs[pick[k]].content)
  <2>1. k \notin Refs(remote.files) /\ pick[k] \in Path
    BY <1>4 DEF NewChunks
  <2>. QED BY <1>1, <1>4, <1>5, <2>1 DEF AddressedInv, KeysHold
<1>6. TasksHold'
  BY <1>1, <1>4, <1>5 DEF AddressedInv, TasksHold
<1>. QED BY <1>3, <1>6 DEF AddressedInv

\* What is stored under a key is the file whose hash gave the key.
LEMMA UploadAddressed ==
    ASSUME AddressedInv, TypeOK', NEW t \in tasks \cup puts, UploadTask(t) PROVE AddressedInv'
<1>. USE DEF Uploading, Backing, envVars, runVars, scanVars, indexVars
<1>1. Uploading /\ UNCHANGED <<fs, action, remote, local, stated, pc>> /\ pc = "upload"
  BY DEF UploadTask, SkipStored, BeginPut, HeadFails, BeginTask, PutDone, PutRetried,
         PutVanished, PutFails
<1>2. tasks' \cup puts' \subseteq tasks \cup puts
  BY DEF UploadTask, SkipStored, BeginPut, HeadFails, BeginTask, PutDone, PutRetried,
         PutVanished, PutFails
<1>3. NothingBuilt' /\ SizesHold' /\ KeysHold'
  BY <1>1 DEF AddressedInv, NothingBuilt, SizesHold, KeysHold
<1>4. TasksHold'
  BY <1>1, <1>2 DEF AddressedInv, TasksHold
<1>5. ContentAddressed'
  <2>1. CASE UNCHANGED objects
    BY <2>1 DEF AddressedInv, ContentAddressed, Stored
  <2>2. CASE StoreChunk(t)
    <3>1. t.key \in Chunk /\ t.path \in Path
      BY DEF AddressedInv, TypeOK, Task
    <3>2. t.key = KeyOf(fs[t.path].content)
      BY <2>2 DEF StoreChunk, AddressedInv, TasksHold
    <3>3. objects' = [objects EXCEPT ![t.key] =
                        [body |-> fs[t.path].content, modified |-> now]]
      BY <2>2 DEF StoreChunk
    <3>4. objects \in [Chunk -> Object \cup {NoObject}]
      BY DEF AddressedInv, TypeOK
    <3>5. ASSUME NEW k \in Stored' PROVE KeyOf(objects'[k].body) = k
      BY <3>1, <3>2, <3>3, <3>4, <3>5 DEF AddressedInv, ContentAddressed, Stored
    <3>. QED BY <3>5 DEF ContentAddressed
  <2>. QED BY <2>1, <2>2 DEF UploadTask, SkipStored, BeginPut, HeadFails, BeginTask, PutDone,
              PutRetried, PutVanished, PutFails
<1>. QED BY <1>3, <1>4, <1>5 DEF AddressedInv

LEMMA NextAddressed ==
    ASSUME "write" \notin Disturbances, AddressedInv, [Next]_vars PROVE AddressedInv'
<1>. USE DEF envVars, bucketVars, runVars, scanVars, indexVars, uploadVars, gcVars
<1>1. TypeOK /\ TypeOK' /\ NothingBuilt'
  BY NextType, NextNothingBuilt DEF AddressedInv
<1>2. CASE Start
  <2>1. /\ UNCHANGED <<fs, objects, remote, tasks, puts, stated, local>>
        /\ pc = "idle"
    BY <1>2 DEF Start, StartBackup, StartFsck
  <2>2. stated' = EmptyFiles /\ local' = EmptyIndex /\ tasks' = {} /\ puts' = {}
    BY <2>1 DEF AddressedInv, NothingBuilt
  <2>3. SizesHold' /\ KeysHold' /\ TasksHold' /\ ContentAddressed'
    BY <2>1, <2>2 DEF AddressedInv, SizesHold, KeysHold, TasksHold,
                      ContentAddressed, Stored, EmptyIndex, EmptyFiles
  <2>. QED BY <1>1, <2>3 DEF AddressedInv
<1>3. CASE LoadForBackup
  <2>1. /\ UNCHANGED <<fs, objects, action, tasks, puts, stated, local>>
        /\ pc = "load" /\ pc' = "scan"
    BY <1>3 DEF LoadForBackup, Backing
  <2>2. stated' = EmptyFiles /\ local' = EmptyIndex /\ tasks' = {} /\ puts' = {}
    BY <2>1 DEF AddressedInv, NothingBuilt
  <2>3. SizesHold' /\ KeysHold' /\ TasksHold' /\ ContentAddressed'
    BY <2>1, <2>2 DEF AddressedInv, SizesHold, KeysHold, TasksHold,
                      ContentAddressed, Stored, EmptyIndex, EmptyFiles
  <2>. QED BY <1>1, <2>3 DEF AddressedInv
<1>4. ASSUME NEW lost, ScanError(lost) PROVE AddressedInv'
  BY <1>1, <1>4, FrameAddressed DEF ScanError, Scanning
<1>5. CASE UploadDone \/ BackupGcDone
  <2>1. UNCHANGED <<fs, objects, action, remote, tasks, puts, stated>>
    BY <1>5 DEF UploadDone, BackupGcDone
  <2>2. local'.files = local.files
    BY <1>1, <1>5 DEF UploadDone, BackupGcDone, TypeOK, Index
  <2>. QED BY <1>1, <2>1, <2>2, FrameAddressed
<1>6. CASE LoadForFsck \/ FsckReconcile
  <2>1. /\ UNCHANGED <<fs, objects, action, remote, tasks, puts, stated>>
        /\ pc' \in {"gc", "publish"} /\ action = "fsck"
    BY <1>6 DEF LoadForFsck, FsckReconcile, StartGc, Checking
  <2>2. SizesHold' /\ KeysHold' /\ TasksHold' /\ ContentAddressed'
    BY <2>1 DEF AddressedInv, SizesHold, KeysHold, TasksHold, ContentAddressed, Stored
  <2>. QED BY <1>1, <2>2 DEF AddressedInv
<1>7. CASE FsckGcDone
  BY <1>1, <1>7, FrameAddressed DEF FsckGcDone
<1>8. ASSUME NEW k \in gcTodo, GcChunk(k) PROVE AddressedInv'
  <2>1. GcStep(k)
    BY <1>8 DEF GcChunk, GcHeadFails, GcKeep, GcDelete, GcDeleteFails
  <2>2. local'.files = local.files
    BY <1>1, <1>8 DEF GcChunk, GcHeadFails, GcKeep, GcDelete, GcDeleteFails, SetMark, TypeOK, Index
  <2>3. objects' = objects \/ objects' = [objects EXCEPT ![k] = NoObject]
    BY <1>8 DEF GcChunk, GcHeadFails, GcKeep, GcDelete, GcDeleteFails
  <2>4. \A j \in Chunk : objects'[j] \in {objects[j], NoObject}
    BY <1>1, <2>3 DEF TypeOK
  <2>. QED BY <1>1, <2>1, <2>2, <2>4, FrameAddressed DEF GcStep
<1>9. CASE UploadFailed \/ BackupGcFailed \/ FsckWithoutIndex \/ PublishIndex \/ Abort
  BY <1>1, <1>9, EndRunAddressed
     DEF UploadFailed, BackupGcFailed, FsckWithoutIndex, PublishIndex, Abort
<1>10. CASE UNCHANGED vars
  BY <1>1, <1>10, FrameAddressed DEF vars
<1>. QED BY <1>1, <1>2, <1>3, <1>4, <1>5, <1>6, <1>7, <1>8, <1>9, <1>10, EnvironmentAddressed,
            HashAddressed, PlanAddressed, UploadAddressed
         DEF Next, RunStep, BackupStep, FsckStep

\* If no file is written while an action runs, sizes, keys and uploads in hand
\* are those of the files, and objects hold what their names say.
THEOREM AddressedInductive ==
    ASSUME "write" \notin Disturbances PROVE Spec => []AddressedInv
<1>1. Init => AddressedInv
  <2>. SUFFICES ASSUME Init PROVE AddressedInv
    OBVIOUS
  <2>1. TypeOK
    BY InitType
  <2>2. NothingBuilt /\ SizesHold /\ KeysHold /\ TasksHold /\ ContentAddressed
    BY DEF Init, NoRun, NothingBuilt, SizesHold, KeysHold, TasksHold, ContentAddressed, Stored,
           EmptyFiles
  <2>. QED BY <2>1, <2>2 DEF AddressedInv
<1>2. AddressedInv /\ [Next]_vars => AddressedInv'
  BY NextAddressed
<1>. QED BY <1>1, <1>2, PTL DEF Spec

\* If no file is written while an action runs, every object holds what its name
\* says, even if files disappear, cannot be read or took over old mtimes before
\* the run: a hash that was reused wrongly is that of a chunk already stored.
THEOREM AlwaysContentAddressed ==
    ASSUME "write" \notin Disturbances PROVE Spec => []ContentAddressed
<1>1. AddressedInv => ContentAddressed
  BY DEF AddressedInv
<1>. QED BY <1>1, AddressedInductive, PTL

-----------------------------------------------------------------------------
(* A backup that nothing disturbs: SnapshotInv. *)

LEMMA ScanSnapshot ==
    ASSUME DatedInv, ScanProgress, TypeOK', Disturbances = {}, NEW p \in Path,
           ScanFile(p) \/ ReuseHash(p) \/ HashFile(p) \/ HashError(p)
    PROVE  ScanProgress'
<1>. USE DEF Scanning, Backing, envVars
<1>. DEFINE Final(q) == IF fs[q].content = Absent THEN NoEntry
                        ELSE [key |-> KeyOf(fs[q].content), mtime |-> fs[q].mtime]
            Progress(q) ==
                /\ q \in todo => stated[q] = NoEntry
                /\ q \in todo \/ stated[q] # NoEntry => local.files[q] = NoEntry
                /\ stated[q] # NoEntry =>
                      /\ fs[q].content # Absent
                      /\ stated[q] = [size |-> SizeOf[fs[q].content], mtime |-> fs[q].mtime]
                /\ q \notin todo /\ stated[q] = NoEntry => local.files[q] = Final(q)
<1>1. pc = "scan" /\ fs' = fs /\ \A q \in Path : Progress(q)
  BY DEF ScanFile, ReuseHash, HashFile, HashError, Hashing, ScanProgress
<1>2. SUFFICES ASSUME NEW q \in Path PROVE Progress(q)'
  BY <1>1 DEF ScanProgress
<1>3. /\ stated \in [Path -> Stat \cup {NoEntry}]
      /\ local.files \in [Path -> Entry \cup {NoEntry}]
      /\ local \in Index
  BY FilesType DEF DatedInv, TypeOK
<1>4. ASSUME stated[p] # NoEntry
      PROVE  /\ fs[p].content # Absent
             /\ stated[p].size = SizeOf[fs[p].content] /\ stated[p].mtime = fs[p].mtime
  <2>1. /\ fs[p].content # Absent
        /\ stated[p] = [size |-> SizeOf[fs[p].content], mtime |-> fs[p].mtime]
    BY <1>1, <1>4
  <2>. QED BY <2>1
<1>5. CASE ScanFile(p)
  <2>1. /\ p \in todo /\ todo' = todo \ {p} /\ local' = local
        /\ stated' = IF fs[p].content = Absent THEN stated
                     ELSE [stated EXCEPT ![p] = [size  |-> SizeOf[fs[p].content],
                                                 mtime |-> fs[p].mtime]]
    BY <1>5 DEF ScanFile
  <2>2. CASE q # p
    BY <1>1, <1>3, <2>1, <2>2
  <2>3. CASE q = p
    <3>1. stated[p] = NoEntry /\ local.files[p] = NoEntry
      BY <1>1, <2>1
    <3>2. fs[p].content # Absent =>
            stated'[p] = [size |-> SizeOf[fs[p].content], mtime |-> fs[p].mtime]
      BY <1>3, <2>1
    <3>3. CASE fs[p].content = Absent
      BY <1>1, <2>1, <2>3, <3>1, <3>3
    <3>4. CASE fs[p].content # Absent
      <4>1. stated'[p] # NoEntry
        BY <3>2, <3>4, FileAssumption, SentinelAssumption DEF Stat, Sizes, DatedInv, TypeOK
      <4>. QED BY <1>1, <2>1, <2>3, <3>1, <3>2, <3>4, <4>1
    <3>. QED BY <3>3, <3>4
  <2>. QED BY <2>2, <2>3
<1>6. ASSUME NEW key, Hashing(p), AddEntry(p, key), key = KeyOf(fs[p].content)
      PROVE  Progress(q)'
  <2>1. /\ todo' = todo /\ todo = {} /\ stated[p] # NoEntry
        /\ stated' = [stated EXCEPT ![p] = NoEntry]
        /\ local'.files = [local.files EXCEPT ![p] = [key |-> key, mtime |-> stated[p].mtime]]
    BY <1>3, <1>6 DEF AddEntry, Hashing, Index
  <2>2. CASE q # p
    BY <1>1, <1>3, <2>1, <2>2
  <2>3. CASE q = p
    BY <1>1, <1>3, <1>6, <2>1, <2>3
  <2>. QED BY <2>2, <2>3
<1>7. CASE ReuseHash(p)
  <2>1. /\ Hashing(p) /\ AddEntry(p, remote.files[p].key) /\ stated[p] # NoEntry
        /\ remote.files[p] # NoEntry /\ remote.files[p].mtime = stated[p].mtime
    BY <1>7 DEF ReuseHash, Hashing, LooksUnchanged
  <2>2. fs[p].content # Absent /\ stated[p].mtime = fs[p].mtime
    BY <1>4, <2>1
  <2>3. remote.files[p].key = KeyOf(fs[p].content)
    BY <2>1, <2>2 DEF DatedInv, Dated
  <2>. QED BY <1>6, <2>1, <2>3
<1>8. CASE HashFile(p)
  <2>1. /\ Hashing(p) /\ stated[p] # NoEntry
        /\ AddEntry(p, [size |-> stated[p].size, hash |-> HashOf[fs[p].content]])
    BY <1>8 DEF HashFile, Hashing
  <2>2. [size |-> stated[p].size, hash |-> HashOf[fs[p].content]] = KeyOf(fs[p].content)
    BY <1>4, <2>1 DEF KeyOf
  <2>. QED BY <1>6, <2>1, <2>2
<1>9. CASE HashError(p)
  <2>1. stated[p] # NoEntry /\ ~Allowed("scan-error")
    BY <1>9 DEF HashError, Hashing, Allowed
  <2>2. fs[p].content # Absent /\ stated[p].size = SizeOf[fs[p].content]
    BY <1>4, <2>1
  <2>3. fs[p].content \in Content /\ SizeOf[fs[p].content] \in Nat
    BY <2>2, FileAssumption DEF DatedInv, TypeOK
  <2>. QED BY <1>9, <2>1, <2>2, <2>3 DEF HashError
<1>. QED BY <1>5, <1>7, <1>8, <1>9

LEMMA NextSnapshot == ASSUME Disturbances = {}, SnapshotInv, [Next]_vars PROVE SnapshotInv'
<1>. USE DEF envVars, bucketVars, runVars, scanVars, indexVars, uploadVars, gcVars
<1>1. TypeOK /\ TypeOK' /\ DatedInv' /\ NothingBuilt'
  BY NextType, NextDated, NextNothingBuilt DEF SnapshotInv, DatedInv
<1>. DEFINE Ready == action = "backup" /\ pc \in {"upload", "gc", "publish"}
<1>2. ScanProgress'
  <2>1. SUFFICES ASSUME pc' = "scan" PROVE ScanProgress'
    BY DEF ScanProgress
  <2>2. CASE LoadForBackup
    <3>1. UNCHANGED <<fs, stated, local>> /\ pc = "load" /\ todo' = Path
      BY <2>2 DEF LoadForBackup, Backing
    <3>2. stated' = EmptyFiles /\ local' = EmptyIndex
      BY <3>1 DEF SnapshotInv, NothingBuilt
    <3>. QED BY <3>1, <3>2 DEF ScanProgress, EmptyIndex, EmptyFiles
  <2>3. ASSUME NEW p \in Path, ScanFile(p) \/ ReuseHash(p) \/ HashFile(p) \/ HashError(p)
        PROVE  ScanProgress'
    BY <1>1, <2>3, ScanSnapshot DEF SnapshotInv
  <2>4. CASE UNCHANGED <<fs, pc, todo, stated, local>>
    BY <2>4 DEF SnapshotInv, ScanProgress
  <2>5. \/ LoadForBackup
        \/ \E p \in Path : ScanFile(p) \/ ReuseHash(p) \/ HashFile(p) \/ HashError(p)
        \/ UNCHANGED <<fs, pc, todo, stated, local>>
    BY <2>1 DEF Next, Environment, Tick, WriteFile, RemoveFile, RenameFile, ChangeFiles, Allowed,
         Start, StartBackup, StartFsck, RunStep, BackupStep, ScanError, PlanUpload, UploadTask,
         SkipStored, BeginPut, HeadFails, BeginTask, PutDone, PutRetried, PutVanished,
         PutFails, Uploading, UploadFailed, UploadDone, BackupGcDone, BackupGcFailed, Backing,
         FsckStep, FsckWithoutIndex, LoadForFsck, FsckGcDone, FsckReconcile, StartGc, GcChunk,
         GcHeadFails, GcKeep, GcDelete, GcDeleteFails, GcStep, PublishIndex, Abort, EndRun, vars
  <2>. QED BY <2>2, <2>3, <2>4, <2>5
<1>3. ASSUME Ready' PROVE Snapshot(local.files)'
  <2>1. CASE PlanUpload
    <3>1. /\ pc = "scan" /\ todo = {} /\ stated = EmptyFiles /\ fs' = fs
          /\ local'.files = local.files
      BY <1>1, <2>1 DEF PlanUpload, Backing, TypeOK, Index
    <3>2. Snapshot(local.files)
      BY <3>1 DEF SnapshotInv, ScanProgress, Snapshot, EmptyFiles
    <3>. QED BY <3>1, <3>2 DEF Snapshot
  <2>2. CASE UNCHANGED fs /\ local'.files = local.files /\ Ready
    BY <2>2 DEF SnapshotInv, Snapshot
  <2>3. ASSUME NEW k \in gcTodo, GcChunk(k)
        PROVE  fs' = fs /\ local'.files = local.files /\ Ready
    <3>1. GcStep(k)
      BY <2>3 DEF GcChunk, GcHeadFails, GcKeep, GcDelete, GcDeleteFails
    <3>2. local'.files = local.files
      BY <1>1, <2>3 DEF GcChunk, GcHeadFails, GcKeep, GcDelete, GcDeleteFails, SetMark, TypeOK,
                        Index
    <3>. QED BY <1>3, <3>1, <3>2 DEF GcStep
  <2>4. CASE UploadDone
    <3>1. local'.files = local.files
      BY <1>1, <2>4 DEF UploadDone, TypeOK, Index
    <3>. QED BY <2>2, <2>4, <3>1 DEF UploadDone, Backing
  <2>5. \/ PlanUpload \/ UploadDone \/ \E k \in gcTodo : GcChunk(k)
        \/ UNCHANGED <<fs, local>> /\ Ready
    BY <1>3 DEF Next, Environment, Tick, WriteFile, RemoveFile, RenameFile, ChangeFiles, Allowed,
         Start, StartBackup, StartFsck, RunStep, BackupStep, LoadForBackup, ScanFile, ReuseHash,
         HashFile, HashError, Hashing, ScanError, Scanning, UploadTask,
         SkipStored, BeginPut, HeadFails, BeginTask, PutDone, PutRetried, PutVanished,
         PutFails, Uploading, UploadFailed, BackupGcDone, BackupGcFailed, Backing, Checking,
         FsckStep, FsckWithoutIndex, LoadForFsck, FsckGcDone, FsckReconcile, StartGc,
         PublishIndex, Abort, EndRun, vars
  <2>. QED BY <2>1, <2>2, <2>3, <2>4, <2>5
<1>. QED BY <1>1, <1>2, <1>3 DEF SnapshotInv

\* If nothing disturbs a backup, and no file is given an mtime that it has had
\* before, the index it publishes lists every file under the key of its content
\* and nothing else.
THEOREM BackupIsAlwaysSnapshot == ASSUME Disturbances = {} PROVE Spec => BackupIsSnapshot
<1>1. Init => SnapshotInv
  <2>. SUFFICES ASSUME Init PROVE SnapshotInv
    OBVIOUS
  <2>1. NothingBuilt /\ ScanProgress /\ pc = "idle"
    BY DEF Init, NoRun, NothingBuilt, ScanProgress
  <2>. QED BY <2>1, InitDated DEF SnapshotInv
<1>2. SnapshotInv /\ [Next]_vars => SnapshotInv'
  BY NextSnapshot
<1>3. SnapshotInv /\ [Next]_vars => [SnapshotPublished]_vars
  <2>. SUFFICES ASSUME SnapshotInv, [Next]_vars, Publishing("backup") PROVE Snapshot(latest'.files)
    BY DEF SnapshotPublished
  <2>1. PublishIndex
    BY DEF Publishing, Next, Environment, Tick, WriteFile, RemoveFile, RenameFile, ChangeFiles,
         Start, StartBackup, StartFsck, RunStep, BackupStep, LoadForBackup, ScanFile, ReuseHash,
         HashFile, HashError, Hashing, ScanError, Scanning, PlanUpload, UploadTask,
         SkipStored, BeginPut, HeadFails, BeginTask, PutDone, PutRetried, PutVanished,
         PutFails, Uploading, UploadFailed, UploadDone, BackupGcDone, BackupGcFailed,
         FsckStep, FsckWithoutIndex, LoadForFsck, FsckGcDone, FsckReconcile, GcChunk,
         GcHeadFails, GcKeep, GcDelete, GcDeleteFails, GcStep, Abort, vars, envVars,
         bucketVars
  <2>. QED BY <2>1 DEF PublishIndex, Publishing, SnapshotInv
<1>. QED BY <1>1, <1>2, <1>3, PTL DEF Spec, BackupIsSnapshot
=============================================================================
