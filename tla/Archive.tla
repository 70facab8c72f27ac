------------------------------ MODULE Archive ------------------------------
(***************************************************************************)
(* The archive as a whole: one cos-archive process at a time, a backup or   *)
(* an fsck, against the bucket, while the user changes the files and the    *)
(* process may be killed at any point.                                      *)
(***************************************************************************)
EXTENDS Backup, Fsck

\* UploadRemote: the new index becomes the newest version in the bucket.
PublishIndex ==
    /\ pc = "publish"
    /\ latest' = local
    /\ EndRun
    /\ UNCHANGED <<envVars, objects, skipped>>

\* The process is killed, or a request outside of the upload and deletion
\* loops fails and the action returns its error.
Abort ==
    /\ pc # "idle"
    /\ EndRun
    /\ UNCHANGED <<envVars, bucketVars, skipped>>

Start == StartBackup \/ StartFsck

\* The steps a running action takes by itself.
RunStep ==
    \/ BackupStep
    \/ FsckStep
    \/ \E k \in gcTodo : GcChunk(k)
    \/ PublishIndex

Next == Environment \/ Start \/ RunStep \/ Abort

Spec == Init /\ [][Next]_vars

\* The process is scheduled and the bucket answers each request, with
\* success or with an error.
FairSpec == Spec /\ WF_vars(RunStep)

-----------------------------------------------------------------------------
(* Safety *)

\* No index, published or about to be, both refers to a chunk and marks it
\* for deletion: GenerateLocal's files against the marks that uploadFiles
\* inherits and adds, and fsck's repairs.
Exclusive(idx) == Refs(idx.files) \cap Marked(idx.marks) = {}

MarksUnreferenced ==
    /\ Exclusive(Published)
    /\ pc \in {"upload", "gc", "list", "publish"} => Exclusive(local)

\* Every chunk the published index refers to is in the bucket, but for those
\* whose upload was skipped because the local file had disappeared; through
\* every kill, lost answer, failed upload and failed deletion.
PublishedRefsStored == Refs(Published.files) \subseteq Stored \cup skipped

\* What README.en.md promises without that exception: a published index
\* has its chunks.
PublishedRefsReallyStored == Refs(Published.files) \subseteq Stored

\* An object holds what its name says (README.en.md: self-describing chunk
\* paths).
ContentAddressed == \A k \in Stored : KeyOf(objects[k].body) = k

\* A file that looks unchanged against the published index, by size and mtime,
\* has the content recorded there: scanSingleFile and the hash may not straddle
\* a change, or every later backup would keep the wrong hash.
UnchangedMeansSame ==
    \A p \in Path :
        LET e == Published.files[p]
            f == fs[p]
        IN  (/\ e # NoEntry
             /\ f.content # Absent
             /\ e.key.size = SizeOf[f.content]
             /\ e.mtime = f.mtime) => e.key = KeyOf(f.content)

-----------------------------------------------------------------------------
(* Action properties *)

\* A chunk leaves the bucket only if the index published at that moment does
\* not need it, gave it a mark that has expired, and its billing period is
\* over: DeleteOutdatedChunks works on an index that is not published yet.
Expired(k) ==
    /\ k \notin Refs(Published.files)
    /\ k \in Marked(Published.marks)
    /\ Published.marks[k] < now
    /\ objects[k].modified + Billing < now

DeleteExpiredOnly == \A k \in Stored \ Stored' : Expired(k)

OnlyExpiredDeleted == [][DeleteExpiredOnly]_vars

\* A stored chunk that the published index refers to or marks is referred to
\* or marked by every later one: no backup or fsck leaks it.
Accounted(k) == k \in Refs(Published.files) \cup Marked(Published.marks)

KeepAccounts == \A k \in Stored \cap Stored' : Accounted(k) => Accounted(k)'

AccountsKept == [][KeepAccounts]_vars

Publishing(a) == action = a /\ latest' # latest

\* The index that fsck publishes and the bucket agree: what it refers to or
\* marks is stored, and whatever is stored is referred to or marked.
FsckAgrees ==
    Publishing("fsck") =>
        Refs(latest'.files) \cup Marked(latest'.marks) = Stored'

FsckRepairs == [][FsckAgrees]_vars

\* If nobody touches the files during a backup and they can be read, its
\* index lists each of them under the hash of its content, and nothing else.
Snapshot(files) ==
    \A p \in Path :
        files[p] = IF fs[p].content = Absent THEN NoEntry
                   ELSE [key |-> KeyOf(fs[p].content), mtime |-> fs[p].mtime]

SnapshotPublished == Publishing("backup") => Snapshot(latest'.files)

BackupIsSnapshot == [][SnapshotPublished]_vars

-----------------------------------------------------------------------------
(* Liveness *)

\* Every action ends, whatever the bucket answers and the user does.
RunEnds == (pc # "idle") ~> (pc = "idle")

\* The process is killed, or a request reports an error.
Trouble ==
    \/ Abort /\ ~RunStep
    \/ \E t \in tasks \cup puts : HeadFails(t) \/ PutFails(t)
    \/ \E k \in gcTodo : GcHeadFails(k) \/ GcDeleteFails(k)

\* Once the trouble is over, backups publish again: no mark, no half-done
\* deletion and no lost chunk that it left behind makes every later backup
\* fail, whatever the user goes on doing to his files.
PublishesAfterTrouble ==
    <>[][~Trouble]_vars /\ []<>(action = "backup") => []<><<Backing("publish") /\ PublishIndex>>_vars
=============================================================================
