-------------------------------- MODULE Fsck --------------------------------
(***************************************************************************)
(* The fsck action: load the published index, collect garbage, compare the  *)
(* index with a LIST of the chunks, and publish the repaired index.         *)
(***************************************************************************)
EXTENDS ChunkGC

Checking(phase) == pc = phase /\ action = "fsck"

StartFsck ==
    /\ pc = "idle"
    /\ pc' = "load" /\ action' = "fsck" /\ started' = now
    /\ UNCHANGED <<envVars, bucketVars, scanVars, indexVars, uploadVars, gcVars,
                   failed, skipped>>

FsckWithoutIndex ==
    /\ Checking("load") /\ latest = NoIndex
    /\ EndRun
    /\ UNCHANGED <<envVars, bucketVars, skipped>>

LoadForFsck ==
    /\ Checking("load") /\ latest # NoIndex
    /\ local' = latest
    /\ StartGc(latest.marks)
    /\ UNCHANGED <<envVars, bucketVars, runVars, scanVars, remote, uploadVars,
                   failed, skipped>>

\* Deletions that failed are logged and forgotten.
FsckGcDone ==
    /\ Checking("gc") /\ gcTodo = {}
    /\ pc' = "list" /\ failed' = FALSE
    /\ UNCHANGED <<envVars, bucketVars, runVars, scanVars, indexVars, uploadVars,
                   gcVars, skipped>>

\* Entries whose chunk is lost are dropped, and so are marks without an
\* object; an object that nothing accounts for gets a far-away mark.
RepairedFiles ==
    [p \in Path |-> IF local.files[p] # NoEntry /\ local.files[p].key \notin Stored
                    THEN NoEntry ELSE local.files[p]]

\* Mutant: marks of objects that are gone are kept.
RepairedMarksKept ==
    [k \in Chunk |-> IF k \in Marked(local.marks) \cup Refs(local.files) \/ k \notin Stored
                     THEN local.marks[k]
                     ELSE now + Forever]

RepairedMarks ==
    [k \in Chunk |-> IF k \notin Stored THEN NoMark
                     ELSE IF k \in Marked(local.marks) \cup Refs(local.files)
                          THEN local.marks[k]
                          ELSE now + Forever]

FsckReconcile ==
    /\ Checking("list")
    /\ pc' = "publish"
    /\ local' = [files |-> RepairedFiles, marks |-> RepairedMarks]
    /\ UNCHANGED <<envVars, bucketVars, runVars, scanVars, remote, uploadVars,
                   gcVars, failed, skipped>>

FsckStep == FsckWithoutIndex \/ LoadForFsck \/ FsckGcDone \/ FsckReconcile
=============================================================================
