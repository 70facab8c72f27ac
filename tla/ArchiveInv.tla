----------------------------- MODULE ArchiveInv -----------------------------
(***************************************************************************)
(* The inductive invariant behind the safety theorems of ArchiveProofs: how *)
(* far a running action has come, and what it has kept of the published     *)
(* index by then.                                                           *)
(***************************************************************************)
EXTENDS Archive

RunShape ==
    /\ action = "none" <=> pc = "idle"
    /\ pc \in {"scan", "upload"} => action = "backup"
    /\ pc = "list" => action = "fsck"

Deadlines ==
    /\ pc # "idle" => started <= now /\ now <= started + MaxRun
    /\ pc = "upload" => deleteTime >= started + Grace
    /\ pc = "gc" => gcTime <= now

RemoteIsPublished ==
    action = "backup" /\ pc \notin {"idle", "load"} => remote = Published

\* What the index being built refers to is stored, skipped, or being uploaded.
LocalRefsStored ==
    /\ pc = "upload" /\ ~failed =>
          Refs(local.files) \subseteq Stored \cup skipped \cup {t.key : t \in tasks \cup puts}
    /\ pc \in {"gc", "publish"} /\ action = "backup" =>
          Refs(local.files) \subseteq Stored \cup skipped
    /\ pc \in {"gc", "list"} /\ action = "fsck" => local.files = Published.files
    /\ pc = "publish" /\ action = "fsck" => Refs(local.files) \subseteq Stored

MarksInherited ==
    pc = "upload" =>
        \A k \in Marked(local.marks) :
            /\ k \in Marked(remote.marks)
            /\ local.marks[k] = remote.marks[k] \/ local.marks[k] >= started + Grace

\* DeleteOutdatedChunks looks only at what the published index has given up.
GcTargets ==
    pc = "gc" =>
        \A k \in gcTodo :
            /\ k \notin Refs(Published.files)
            /\ k \notin Refs(local.files)
            /\ k \in Marked(Published.marks)
            /\ Published.marks[k] < gcTime

LocalAccounts == Refs(local.files) \cup Marked(local.marks)

AccountsCarried ==
    /\ pc = "upload" => Marked(Published.marks) \subseteq LocalAccounts
    /\ pc \in {"gc", "list", "publish"} =>
          \A k \in Stored : Accounted(k) => k \in LocalAccounts

\* The inductive invariant: when it holds and MaxRun <= Grace, every step of
\* Archive keeps it, and it implies MarksUnreferenced and PublishedRefsStored.
IInv ==
    /\ TypeOK
    /\ RunShape
    /\ Deadlines
    /\ RemoteIsPublished
    /\ MarksUnreferenced
    /\ PublishedRefsStored
    /\ LocalRefsStored
    /\ MarksInherited
    /\ GcTargets
    /\ AccountsCarried
-----------------------------------------------------------------------------
(* What a run has recorded of the files, against what they hold by now.      *)

\* An index entry is no newer than its file, and one of the same mtime has the
\* key of what the file holds.
Dated(files) ==
    \A p \in Path : files[p] # NoEntry =>
        /\ files[p].mtime <= fs[p].mtime
        /\ fs[p].content # Absent /\ files[p].mtime = fs[p].mtime =>
              files[p].key = KeyOf(fs[p].content)

StatedDated ==
    \A p \in Path : stated[p] # NoEntry =>
        /\ stated[p].mtime <= fs[p].mtime
        /\ fs[p].content # Absent /\ stated[p].mtime = fs[p].mtime =>
              stated[p].size = SizeOf[fs[p].content]

\* Inductive when no file changes twice in a second or takes over an old mtime;
\* implies UnchangedMeansSame.
DatedInv ==
    /\ TypeOK
    /\ \A p \in Path : fs[p].mtime <= now
    /\ StatedDated
    /\ Dated(Published.files) /\ Dated(remote.files) /\ Dated(local.files)

\* A run has nothing in hand before it has loaded the index.
NothingBuilt ==
    pc \in {"idle", "load"} =>
        stated = EmptyFiles /\ local = EmptyIndex /\ tasks = {} /\ puts = {}

SizesHold ==
    \A p \in Path : stated[p] # NoEntry /\ fs[p].content # Absent =>
        stated[p].size = SizeOf[fs[p].content]

\* Only a reused hash may be wrong, and its chunk is not uploaded again.
KeysHold ==
    action = "backup" =>
        \A p \in Path : local.files[p] # NoEntry /\ fs[p].content # Absent =>
            \/ local.files[p].key \in Refs(remote.files)
            \/ local.files[p].key = KeyOf(fs[p].content)

TasksHold ==
    \A t \in tasks \cup puts :
        fs[t.path].content # Absent => t.key = KeyOf(fs[t.path].content)

\* Inductive when no file is written during a run.
AddressedInv ==
    TypeOK /\ NothingBuilt /\ SizesHold /\ KeysHold /\ TasksHold /\ ContentAddressed

\* A path is still to be visited, or has its stat, or its final entry.
ScanProgress ==
    pc = "scan" =>
        \A p \in Path :
            /\ p \in todo => stated[p] = NoEntry
            /\ p \in todo \/ stated[p] # NoEntry => local.files[p] = NoEntry
            /\ stated[p] # NoEntry =>
                  /\ fs[p].content # Absent
                  /\ stated[p] = [size |-> SizeOf[fs[p].content], mtime |-> fs[p].mtime]
            /\ p \notin todo /\ stated[p] = NoEntry =>
                  local.files[p] = IF fs[p].content = Absent THEN NoEntry
                                   ELSE [key |-> KeyOf(fs[p].content), mtime |-> fs[p].mtime]

\* Inductive when nothing disturbs a run.
SnapshotInv ==
    /\ DatedInv /\ NothingBuilt /\ ScanProgress
    /\ action = "backup" /\ pc \in {"upload", "gc", "publish"} => Snapshot(local.files)
=============================================================================
