---------------------------- MODULE ArchiveState ----------------------------
(***************************************************************************)
(* The state shared by every action of cos-archive: the wall clock, the     *)
(* local files, the chunks stored in the bucket, the published index, and   *)
(* the variables of the one process that the lock file lets run.            *)
(*                                                                          *)
(* Times are in one unit (a second in the code); a size and a hash stand    *)
(* for the two halves of a chunk's name.  File modes, directories and       *)
(* symbolic links are carried by the index but decide nothing here.         *)
(***************************************************************************)
EXTENDS Integers, FiniteSets

CONSTANTS
    Path,          \* regular files below the configured roots
    Roots,         \* one set of paths for each entry of FilePaths
    Content,       \* the contents a file can have
    SizeOf,        \* Content -> size
    HashOf,        \* Content -> sampled SHA-1; different contents may collide
    Absent,        \* the "content" of a path where no file is
    NoEntry,       \* a path an index does not list
    NoObject,      \* a chunk the bucket does not hold
    NoIndex,       \* no meta.json.* object yet
    Threads,       \* errgroup limit of the upload
    Grace,         \* 7 days: first deletion mark of a chunk
    Billing,       \* 180 days: minimum storage duration
    Review,        \* 3 years: a backup shortens marks beyond it
    Forever,       \* 10 years: fsck's mark for an orphan
    MaxRun,        \* environment: how long one run may last
    MaxTime,       \* bound of the clock
    Disturbances   \* what the environment may do, see below

\* "write", "remove":  a file is written / removed while an action runs
\* "same-second":      a file changes twice within one second of the clock
\* "old-mtime":        a rename carries an old mtime to another path
\* "scan-error":       readdir, stat or read fail on a file that exists
AllDisturbances == {"write", "remove", "same-second", "old-mtime", "scan-error"}

ASSUME FileAssumption ==
    /\ SizeOf \in [Content -> Nat]
    /\ DOMAIN HashOf = Content
    /\ Roots \subseteq SUBSET Path
    /\ Absent \notin Content

Sizes  == {SizeOf[c] : c \in Content}
Hashes == {HashOf[c] : c \in Content}
Chunk  == [size : Sizes, hash : Hashes]
NoMark == -1

Stat  == [size : Sizes, mtime : Nat]
Entry == [key : Chunk, mtime : Nat]
Object == [body : Content, modified : Nat]

ASSUME SentinelAssumption ==
    /\ NoEntry \notin Stat \cup Entry
    /\ NoObject \notin Object

ASSUME TimeAssumption ==
    /\ Threads \in Nat \ {0}
    /\ Grace \in Nat \ {0} /\ Billing \in Nat /\ Review \in Nat /\ Forever \in Nat
    /\ MaxRun \in Nat /\ MaxTime \in Nat
    /\ Disturbances \subseteq AllDisturbances

Index == [files : [Path -> Entry \cup {NoEntry}],
          marks : [Chunk -> Nat \cup {NoMark}]]

ASSUME IndexAssumption == NoIndex \notin Index

VARIABLES
    now,         \* the wall clock
    fs,          \* Path -> content and mtime
    objects,     \* the chunks in the bucket
    latest,      \* the index of the newest meta.json.<timestamp>
    pc,          \* where the running action is; "idle" when none runs
    action,      \* the action that runs
    started,     \* when it started
    todo,        \* paths the directory walk has still to visit
    stated,      \* entries found by the walk that have no hash yet
    remote,      \* backup: the index loaded from the bucket
    local,       \* the index that will be published
    tasks,       \* uploads not yet begun
    puts,        \* uploads whose HEAD said 404
    deleteTime,  \* the mark for newly unreferenced chunks
    gcTime,      \* time.Now() of DeleteOutdatedChunks
    gcTodo,      \* marks it has still to look at
    failed,      \* an upload or a deletion reported an error
    skipped      \* history: chunks not stored because their file was gone

envVars    == <<now, fs>>
bucketVars == <<objects, latest>>
runVars    == <<action, started>>
scanVars   == <<todo, stated>>
indexVars  == <<remote, local>>
uploadVars == <<tasks, puts, deleteTime>>
gcVars     == <<gcTime, gcTodo>>
vars == <<envVars, bucketVars, pc, runVars, scanVars, indexVars, uploadVars,
          gcVars, failed, skipped>>

-----------------------------------------------------------------------------
\* ChunkKey: the size and the hash of a content, the name of its object.
KeyOf(c) == [size |-> SizeOf[c], hash |-> HashOf[c]]

EmptyFiles == [p \in Path |-> NoEntry]
EmptyMarks == [k \in Chunk |-> NoMark]
EmptyIndex == [files |-> EmptyFiles, marks |-> EmptyMarks]

\* buildChunksMap: the chunks that the files of an index refer to.
Refs(files) == {k \in Chunk : \E p \in Path : files[p] # NoEntry /\ files[p].key = k}

Marked(marks) == {k \in Chunk : marks[k] # NoMark}

Stored == {k \in Chunk : objects[k] # NoObject}

\* What LoadRemote delivers to a backup: ErrIndexNotFound means a fresh start.
Published == IF latest = NoIndex THEN EmptyIndex ELSE latest

Task == [key : Chunk, path : Path]

Phases == {"idle", "load", "scan", "upload", "gc", "list", "publish"}

TypeOK ==
    /\ now \in Nat
    /\ fs \in [Path -> [content : Content \cup {Absent}, mtime : Nat]]
    /\ objects \in [Chunk -> Object \cup {NoObject}]
    /\ latest \in Index \cup {NoIndex}
    /\ pc \in Phases
    /\ action \in {"none", "backup", "fsck"}
    /\ started \in Nat
    /\ todo \subseteq Path
    /\ stated \in [Path -> Stat \cup {NoEntry}]
    /\ remote \in Index
    /\ local \in Index
    /\ tasks \subseteq Task
    /\ puts \subseteq Task
    /\ deleteTime \in Nat
    /\ gcTime \in Nat
    /\ gcTodo \subseteq Chunk
    /\ failed \in BOOLEAN
    /\ skipped \subseteq Chunk

-----------------------------------------------------------------------------
\* A process starts with none of its variables set and loses them when it ends.
NoRun ==
    /\ pc = "idle" /\ action = "none" /\ started = 0
    /\ todo = {} /\ stated = EmptyFiles
    /\ remote = EmptyIndex /\ local = EmptyIndex
    /\ tasks = {} /\ puts = {} /\ deleteTime = 0
    /\ gcTime = 0 /\ gcTodo = {} /\ failed = FALSE

EndRun ==
    /\ pc' = "idle" /\ action' = "none" /\ started' = 0
    /\ todo' = {} /\ stated' = EmptyFiles
    /\ remote' = EmptyIndex /\ local' = EmptyIndex
    /\ tasks' = {} /\ puts' = {} /\ deleteTime' = 0
    /\ gcTime' = 0 /\ gcTodo' = {} /\ failed' = FALSE

Init ==
    /\ now = 1
    /\ fs = [p \in Path |-> [content |-> Absent, mtime |-> 0]]
    /\ objects = [k \in Chunk |-> NoObject]
    /\ latest = NoIndex
    /\ skipped = {}
    /\ NoRun

-----------------------------------------------------------------------------
(* The environment: the clock and the user's own work on the files. *)

Allowed(d) == d \in Disturbances

Tick ==
    /\ now < MaxTime
    /\ pc # "idle" => now < started + MaxRun
    /\ now' = now + 1
    /\ UNCHANGED <<fs, bucketVars, pc, runVars, scanVars, indexVars, uploadVars,
                   gcVars, failed, skipped>>

ChangeFiles(newFs) ==
    /\ fs' = newFs
    /\ UNCHANGED <<now, bucketVars, pc, runVars, scanVars, indexVars, uploadVars,
                   gcVars, failed, skipped>>

WriteFile(p, c) ==
    /\ pc = "idle" \/ Allowed("write")
    /\ fs[p].mtime < now \/ Allowed("same-second")
    /\ ChangeFiles([fs EXCEPT ![p] = [content |-> c, mtime |-> now]])

\* The mtime left behind remembers when the path last changed.
RemoveFile(p) ==
    /\ pc = "idle" \/ Allowed("remove")
    /\ fs[p].content # Absent
    /\ ChangeFiles([fs EXCEPT ![p] = [content |-> Absent, mtime |-> now]])

RenameFile(p, q) ==
    /\ Allowed("old-mtime")
    /\ pc = "idle" \/ Allowed("write")
    /\ p # q /\ fs[p].content # Absent
    /\ ChangeFiles([fs EXCEPT ![q] = fs[p],
                              ![p] = [content |-> Absent, mtime |-> now]])

Environment ==
    \/ Tick
    \/ \E p \in Path, c \in Content : WriteFile(p, c)
    \/ \E p \in Path : RemoveFile(p)
    \/ \E p, q \in Path : RenameFile(p, q)
=============================================================================
