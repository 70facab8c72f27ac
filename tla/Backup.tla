------------------------------- MODULE Backup -------------------------------
(***************************************************************************)
(* The backup action: load the published index, scan and hash the local     *)
(* files, upload the chunks the bucket does not hold, collect garbage, and  *)
(* publish the new index.                                                   *)
(***************************************************************************)
EXTENDS ChunkGC

Backing(phase) == pc = phase /\ action = "backup"

StartBackup ==
    /\ pc = "idle"
    /\ pc' = "load" /\ action' = "backup" /\ started' = now
    /\ UNCHANGED <<envVars, bucketVars, scanVars, indexVars, uploadVars, gcVars,
                   failed, skipped>>

\* Mutant: the new index starts from the entries of the published one.
LoadForBackupMerged ==
    /\ Backing("load")
    /\ pc' = "scan"
    /\ remote' = Published
    /\ local' = [Published EXCEPT !.marks = EmptyMarks]
    /\ todo' = Path
    /\ UNCHANGED <<envVars, bucketVars, runVars, stated, uploadVars, gcVars,
                   failed, skipped>>

\* LoadRemote, then the walk of GenerateLocal begins on an empty index.
LoadForBackup ==
    /\ Backing("load")
    /\ pc' = "scan"
    /\ remote' = Published
    /\ todo' = Path
    /\ UNCHANGED <<envVars, bucketVars, runVars, stated, local, uploadVars, gcVars,
                   failed, skipped>>

-----------------------------------------------------------------------------
(* GenerateLocal: the walk, then the hashes. *)

Scanning ==
    /\ Backing("scan")
    /\ UNCHANGED <<envVars, bucketVars, pc, runVars, remote, uploadVars, gcVars,
                   failed, skipped>>

ScanFile(p) ==
    /\ Scanning /\ p \in todo
    /\ todo' = todo \ {p}
    /\ stated' = IF fs[p].content = Absent THEN stated
                 ELSE [stated EXCEPT ![p] = [size  |-> SizeOf[fs[p].content],
                                             mtime |-> fs[p].mtime]]
    /\ UNCHANGED local

\* A stat error loses one file; an error of the walk ends it for a whole root
\* and is not reported.
ScanError(lost) ==
    /\ Scanning /\ Allowed("scan-error")
    /\ lost # {} /\ todo' = todo \ lost
    /\ UNCHANGED <<stated, local>>

\* Mutant: the cached hash is reused on the strength of the size alone.
LooksUnchangedBySize(p, st) ==
    /\ remote.files[p] # NoEntry
    /\ remote.files[p].key.size = st.size

LooksUnchanged(p, st) ==
    /\ remote.files[p] # NoEntry
    /\ remote.files[p].key.size = st.size
    /\ remote.files[p].mtime = st.mtime

Hashing(p) == Scanning /\ todo = {} /\ stated[p] # NoEntry

AddEntry(p, key) ==
    /\ local' = [local EXCEPT !.files =
                   [@ EXCEPT ![p] = [key |-> key, mtime |-> stated[p].mtime]]]
    /\ stated' = [stated EXCEPT ![p] = NoEntry]
    /\ UNCHANGED todo

ReuseHash(p) ==
    /\ Hashing(p) /\ LooksUnchanged(p, stated[p])
    /\ AddEntry(p, remote.files[p].key)

\* The size is the walk's, the hash that of what the file holds by now.
HashFile(p) ==
    /\ Hashing(p) /\ ~LooksUnchanged(p, stated[p])
    /\ fs[p].content # Absent
    /\ AddEntry(p, [size |-> stated[p].size, hash |-> HashOf[fs[p].content]])

\* Mutant: an entry whose hash failed stays in the index.
HashErrorKeepsEntry(p) ==
    /\ Hashing(p) /\ ~LooksUnchanged(p, stated[p])
    /\ fs[p].content = Absent \/ Allowed("scan-error")
    /\ local' = [local EXCEPT !.files = [@ EXCEPT ![p] = stated[p]]]
    /\ stated' = [stated EXCEPT ![p] = NoEntry]
    /\ UNCHANGED todo

\* The file is gone, is shorter than its windows, or cannot be read.
HashError(p) ==
    /\ Hashing(p) /\ ~LooksUnchanged(p, stated[p])
    /\ \/ fs[p].content = Absent
       \/ fs[p].content \in {c \in Content : SizeOf[c] < stated[p].size}
       \/ Allowed("scan-error")
    /\ stated' = [stated EXCEPT ![p] = NoEntry]
    /\ UNCHANGED <<todo, local>>

-----------------------------------------------------------------------------
(* uploadFiles up to the start of the uploads. *)

\* Mutant: a chunk that is used again keeps its mark.
InheritedMarksInUse ==
    [k \in Chunk |-> IF remote.marks[k] > now + Review THEN now + Grace
                     ELSE remote.marks[k]]

\* Mutant: marks beyond the review horizon are dropped, not shortened.
InheritedMarksForgotten ==
    [k \in Chunk |->
        IF k \in Refs(local.files) \/ remote.marks[k] > now + Review THEN NoMark
        ELSE remote.marks[k]]

\* The marks of the published index, without the chunks in use again; a mark
\* beyond the review horizon (one that fsck set) becomes an ordinary one.
InheritedMarks ==
    [k \in Chunk |->
        IF k \in Refs(local.files) THEN NoMark
        ELSE IF remote.marks[k] > now + Review THEN now + Grace
        ELSE remote.marks[k]]

\* Mutant: a chunk with a deletion mark is taken to be in the bucket.
NewChunksUnmarked ==
    Refs(local.files) \ (Refs(remote.files) \cup Marked(remote.marks))

NewChunks == Refs(local.files) \ Refs(remote.files)

\* Mutant: a chunk is uploaded from a file of the right size only.
PlanUploadBySize ==
    /\ Backing("scan") /\ todo = {} /\ stated = EmptyFiles
    /\ pc' = "upload"
    /\ deleteTime' = now + Grace
    /\ local' = [local EXCEPT !.marks = InheritedMarks]
    /\ \E pick \in [NewChunks -> Path] :
          /\ \A k \in NewChunks :
                local.files[pick[k]] # NoEntry /\ local.files[pick[k]].key.size = k.size
          /\ tasks' = {[key |-> k, path |-> pick[k]] : k \in NewChunks}
    /\ UNCHANGED <<envVars, bucketVars, runVars, scanVars, remote, puts, gcVars,
                   failed, skipped>>

PlanUpload ==
    /\ Backing("scan") /\ todo = {} /\ stated = EmptyFiles
    /\ pc' = "upload"
    /\ deleteTime' = now + Grace
    /\ local' = [local EXCEPT !.marks = InheritedMarks]
    /\ \E pick \in [NewChunks -> Path] :
          /\ \A k \in NewChunks :
                local.files[pick[k]] # NoEntry /\ local.files[pick[k]].key = k
          /\ tasks' = {[key |-> k, path |-> pick[k]] : k \in NewChunks}
    /\ UNCHANGED <<envVars, bucketVars, runVars, scanVars, remote, puts, gcVars,
                   failed, skipped>>

-----------------------------------------------------------------------------
(* uploadPayload, run by at most Threads goroutines; the first error cancels *)
(* the uploads that have not sent their HEAD.                                *)

Uploading ==
    /\ Backing("upload")
    /\ UNCHANGED <<envVars, latest, pc, runVars, scanVars, indexVars, deleteTime, gcVars>>

BeginTask(t) ==
    /\ Uploading /\ ~failed
    /\ t \in tasks /\ Cardinality(puts) < Threads
    /\ tasks' = tasks \ {t}
    /\ UNCHANGED <<objects, skipped>>

SkipStored(t) ==
    /\ BeginTask(t)
    /\ t.key \in Stored
    /\ UNCHANGED <<puts, failed>>

BeginPut(t) ==
    /\ BeginTask(t)
    /\ t.key \notin Stored
    /\ puts' = puts \cup {t}
    /\ UNCHANGED failed

HeadFails(t) ==
    /\ BeginTask(t)
    /\ failed' = TRUE
    /\ UNCHANGED puts

\* The object gets what the file holds when the request is sent.
StoreChunk(t) ==
    /\ fs[t.path].content # Absent
    /\ objects' = [objects EXCEPT ![t.key] =
                     [body |-> fs[t.path].content, modified |-> now]]
    /\ skipped' = skipped \ {t.key}

PutDone(t) ==
    /\ Uploading /\ t \in puts
    /\ puts' = puts \ {t}
    /\ StoreChunk(t)
    /\ UNCHANGED <<tasks, failed>>

\* The object is written but the answer is lost: UploadFile tries again.
PutRetried(t) ==
    /\ Uploading /\ t \in puts
    /\ StoreChunk(t)
    /\ UNCHANGED <<tasks, puts, failed>>

\* The local file has disappeared: the upload counts as done.
PutVanished(t) ==
    /\ Uploading /\ t \in puts
    /\ fs[t.path].content = Absent
    /\ puts' = puts \ {t}
    /\ skipped' = (skipped \cup {t.key}) \ Stored
    /\ UNCHANGED <<objects, tasks, failed>>

\* The retries are used up, or the request was cancelled.
PutFails(t) ==
    /\ Uploading /\ t \in puts
    /\ puts' = puts \ {t}
    /\ failed' = TRUE
    /\ UNCHANGED <<objects, tasks, skipped>>

UploadTask(t) ==
    \/ SkipStored(t) \/ BeginPut(t) \/ HeadFails(t)
    \/ PutDone(t) \/ PutRetried(t) \/ PutVanished(t) \/ PutFails(t)

UploadFailed ==
    /\ Backing("upload") /\ failed /\ puts = {}
    /\ EndRun
    /\ UNCHANGED <<envVars, bucketVars, skipped>>

\* Every upload is done: what the new index no longer refers to is marked,
\* and DeleteOutdatedChunks starts.
MarkedUnused ==
    [k \in Chunk |-> IF k \in Refs(remote.files) \ Refs(local.files)
                     THEN deleteTime ELSE local.marks[k]]

\* Mutant: the error of errgroup.Wait is ignored.
UploadDoneAnyway ==
    /\ Backing("upload") /\ (failed \/ tasks = {}) /\ puts = {}
    /\ local' = [local EXCEPT !.marks = MarkedUnused]
    /\ StartGc(MarkedUnused)
    /\ failed' = FALSE
    /\ UNCHANGED <<envVars, bucketVars, runVars, scanVars, remote, uploadVars, skipped>>

UploadDone ==
    /\ Backing("upload") /\ ~failed /\ tasks = {} /\ puts = {}
    /\ local' = [local EXCEPT !.marks = MarkedUnused]
    /\ StartGc(MarkedUnused)
    /\ UNCHANGED <<envVars, bucketVars, runVars, scanVars, remote, uploadVars,
                   failed, skipped>>

\* A deletion that failed keeps a backup from publishing its index.
BackupGcDone ==
    /\ Backing("gc") /\ gcTodo = {} /\ ~failed
    /\ pc' = "publish"
    /\ UNCHANGED <<envVars, bucketVars, runVars, scanVars, indexVars, uploadVars,
                   gcVars, failed, skipped>>

\* Mutant: the deletions are tried until none fails.
BackupGcRepeats ==
    /\ Backing("gc") /\ gcTodo = {} /\ failed
    /\ StartGc(local.marks) /\ failed' = FALSE
    /\ UNCHANGED <<envVars, bucketVars, runVars, scanVars, indexVars, uploadVars, skipped>>

BackupGcFailed ==
    /\ Backing("gc") /\ gcTodo = {} /\ failed
    /\ EndRun
    /\ UNCHANGED <<envVars, bucketVars, skipped>>

BackupStep ==
    \/ LoadForBackup
    \/ \E p \in Path : ScanFile(p) \/ ReuseHash(p) \/ HashFile(p) \/ HashError(p)
    \/ \E p \in todo : ScanError({p})
    \/ \E root \in Roots : ScanError(root \cap todo)
    \/ PlanUpload
    \/ \E t \in tasks \cup puts : UploadTask(t)
    \/ UploadFailed \/ UploadDone
    \/ BackupGcDone \/ BackupGcFailed
=============================================================================
