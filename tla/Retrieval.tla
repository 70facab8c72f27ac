----------------------------- MODULE Retrieval -----------------------------
(***************************************************************************)
(* Getting the files back: restore asks the bucket to thaw the chunks,      *)
(* download fetches them into the target directory, and link rebuilds the   *)
(* file tree there with hard links.  The actions run one at a time, in any  *)
(* order and as often as the user likes, and can be killed at any step.     *)
(* The bucket changes meanwhile: a backup from another machine, or under    *)
(* another lock, deletes chunks and stores some again.                      *)
(*                                                                          *)
(* A chunk file is one inode: the restored files that share a chunk share   *)
(* its content, its mode and its mtime.  The umask is taken to be 0, and    *)
(* the user to be an ordinary one, whom the modes bind.                     *)
(***************************************************************************)
EXTENDS Naturals, FiniteSets

CONSTANTS
    Chunk,       \* chunks, whether or not the bucket has them
    Misnamed,    \* those whose object holds other content than its name says
    File,        \* regular files of the index
    KeyOf,       \* File -> chunk
    AttrOf,      \* File -> [mode, mtime]
    Symlink,     \* symbolic links of the index
    Dir,         \* directories of the index and those above them
    DirMode,     \* directory of the index -> mode
    Above,       \* Dir -> the directories on the way to it, without itself
    ParentOf,    \* File or Symlink -> Dir
    Mode,        \* the modes in use
    Writable,    \* the modes that let the owner write, or create entries
    Readable,    \* the modes that let the owner read
    NewMode,     \* mode of a file that download creates
    MaxRetries,  \* maxDownloadRetries, 10 in the code
    None         \* no directory, and no chunk or file in hand

DefaultAttr == [mode |-> NewMode, mtime |-> 0]

Attr == [mode : Mode, mtime : Nat]

ASSUME RetrievalAssumption ==
    /\ KeyOf \in [File -> Chunk]
    /\ Misnamed \subseteq Chunk
    /\ AttrOf \in [File -> Attr]
    /\ DOMAIN DirMode \subseteq Dir /\ \A d \in DOMAIN DirMode : DirMode[d] \in Mode
    /\ Above \in [Dir -> SUBSET Dir]
    /\ ParentOf \in [File \cup Symlink -> Dir]
    /\ File \cap Symlink = {}
    /\ Writable \subseteq Mode /\ Readable \subseteq Mode /\ NewMode \in Mode
    /\ None \notin Mode \cup Chunk \cup File
    /\ MaxRetries \in Nat \ {0}

VARIABLES
    thaw,      \* state of each object in the archive storage class, or "gone"
    disk,      \* content of each chunk file under target/chunks
    attr,      \* mode and mtime of each chunk file
    saved,     \* the index has been saved to target/meta.json.remote
    dirs,      \* Dir -> mode under target/restore, or None
    names,     \* files and symbolic links under target/restore
    pc,        \* phase of the running action, or "idle"
    listed,    \* restore, download: the chunks that the LIST showed
    lost,      \* history: those of them deleted from the bucket since
    todo,      \* what its loop has still to visit
    current,   \* the chunk being fetched or the file being linked, or None
    tries,     \* failed GETs of the current chunk
    failed,    \* restore: some request failed
    outcome    \* how the last action ended

treeVars  == <<dirs, names>>
chunkVars == <<disk, attr>>
runVars   == <<pc, listed, lost, todo, current, tries, failed, outcome>>
vars == <<thaw, chunkVars, saved, treeVars, runVars>>

TypeOK ==
    /\ thaw \in [Chunk -> {"gone", "frozen", "thawing", "thawed"}]
    /\ disk \in [Chunk -> {"none", "partial", "named", "other"}]
    /\ attr \in [Chunk -> Attr]
    /\ saved \in BOOLEAN /\ failed \in BOOLEAN
    /\ dirs \in [Dir -> Mode \cup {None}]
    /\ names \subseteq File \cup Symlink
    /\ pc \in {"idle", "restore", "download", "dirs", "symlinks", "files", "chmod", "chtimes"}
    /\ listed \subseteq Chunk /\ lost \subseteq listed
    /\ todo \subseteq Chunk \cup Dir \cup Symlink \cup File
    /\ current \in Chunk \cup File \cup {None}
    /\ tries \in 0..MaxRetries
    /\ outcome \in {"none", "restored", "downloaded", "linked", "missing", "clash", "denied"}

Init ==
    /\ thaw = [k \in Chunk |-> "frozen"]
    /\ disk = [k \in Chunk |-> "none"]
    /\ attr = [k \in Chunk |-> DefaultAttr]
    /\ saved = FALSE
    /\ dirs = [d \in Dir |-> None]
    /\ names = {}
    /\ pc = "idle" /\ listed = {} /\ lost = {} /\ todo = {}
    /\ current = None /\ tries = 0 /\ failed = FALSE
    /\ outcome = "none"

\* What a LIST shows; its pages are in Verify.
Stored == {k \in Chunk : thaw[k] # "gone"}

Begin(phase, work) ==
    /\ pc = "idle"
    /\ pc' = phase /\ todo' = work /\ outcome' = "none" /\ lost' = {}
    /\ UNCHANGED <<thaw, chunkVars, treeVars, current, tries, failed>>

End(how) ==
    /\ pc' = "idle" /\ listed' = {} /\ lost' = {} /\ todo' = {}
    /\ current' = None /\ tries' = 0 /\ failed' = FALSE
    /\ outcome' = how

\* Killed, interrupted, or stopped by an error of the operating system.
Kill ==
    /\ pc # "idle" /\ End("none")
    /\ UNCHANGED <<thaw, chunkVars, saved, treeVars>>

-----------------------------------------------------------------------------
(* restore: one request for each chunk of the LIST. *)

StartRestore == Begin("restore", Stored) /\ listed' = Stored /\ UNCHANGED saved

Restoring(k) ==
    /\ pc = "restore" /\ k \in todo
    /\ todo' = todo \ {k}
    /\ UNCHANGED <<chunkVars, saved, treeVars, pc, listed, lost, current, tries, outcome>>

\* Accepted, or RestoreAlreadyInProgress, which is not an error.
RequestThaw(k) ==
    /\ Restoring(k) /\ thaw[k] # "gone"
    /\ thaw' = [thaw EXCEPT ![k] = IF @ = "frozen" THEN "thawing" ELSE @]
    /\ UNCHANGED failed

\* 404: the object has been deleted since the LIST, and that is no error.
RequestMissing(k) ==
    /\ Restoring(k) /\ thaw[k] = "gone"
    /\ UNCHANGED <<thaw, failed>>

\* Mutant: the error is logged only.
RequestFailsQuietly(k) ==
    /\ Restoring(k)
    /\ UNCHANGED <<thaw, failed>>

\* Other errors are collected and the loop goes on.
RequestFails(k) ==
    /\ Restoring(k)
    /\ failed' = TRUE
    /\ UNCHANGED thaw

RestoreEnds ==
    /\ pc = "restore" /\ todo = {}
    /\ End(IF failed THEN "none" ELSE "restored")
    /\ UNCHANGED <<thaw, chunkVars, saved, treeVars>>

\* The bucket: a requested object becomes readable within hours, and is
\* archived again three days after the last request, so not within a restore
\* that has asked for it.
Thaw(k) ==
    /\ \/ thaw[k] = "thawing" /\ thaw' = [thaw EXCEPT ![k] = "thawed"]
       \/ /\ thaw[k] = "thawed" /\ (pc = "restore" => k \notin listed \ todo)
          /\ thaw' = [thaw EXCEPT ![k] = "frozen"]
    /\ UNCHANGED <<chunkVars, saved, treeVars, runVars>>

\* A backup elsewhere deletes a chunk that no version refers to.
Vanish(k) ==
    /\ thaw[k] # "gone"
    /\ thaw' = [thaw EXCEPT ![k] = "gone"]
    /\ lost' = lost \cup ({k} \cap listed)
    /\ UNCHANGED <<chunkVars, saved, treeVars, pc, listed, todo, current, tries, failed, outcome>>

\* A backup elsewhere stores a chunk anew.
Reappear(k) ==
    /\ thaw[k] = "gone"
    /\ thaw' = [thaw EXCEPT ![k] = "frozen"]
    /\ UNCHANGED <<chunkVars, saved, treeVars, runVars>>

-----------------------------------------------------------------------------
(* download: the index is saved, then the chunks are fetched one by one. *)

StartDownload == Begin("download", Stored) /\ listed' = Stored /\ saved' = TRUE

NextChunk(k) ==
    /\ pc = "download" /\ current = None /\ k \in todo
    /\ todo' = todo \ {k} /\ current' = k /\ tries' = 0
    /\ UNCHANGED <<thaw, chunkVars, saved, treeVars, pc, listed, lost, failed, outcome>>

Fetching(k) ==
    /\ pc = "download" /\ current = k
    /\ UNCHANGED <<thaw, saved, treeVars, pc, listed, lost, todo, failed, outcome>>

\* The file is there, can be read, and has the size and the hash of its name.
Matches(k) == disk[k] = "named" /\ attr[k].mode \in Readable

\* Mutant: any file of that name will do.
SkipExisting(k) ==
    /\ Fetching(k) /\ tries < MaxRetries /\ disk[k] # "none"
    /\ current' = None /\ tries' = 0
    /\ UNCHANGED chunkVars

SkipChunk(k) ==
    /\ Fetching(k) /\ tries < MaxRetries /\ Matches(k)
    /\ current' = None /\ tries' = 0
    /\ UNCHANGED chunkVars

\* GetToFile: an existing file is truncated, which its mode must allow.
CanWrite(k) == thaw[k] = "thawed" /\ (disk[k] # "none" => attr[k].mode \in Writable)

\* Mutant: an off-by-one of the retry limit.
MayFetchOnceMore(k) == Fetching(k) /\ ~Matches(k) /\ tries <= MaxRetries

\* Mutant: the file on disk is not looked at.
MayFetchAnyway(k) == Fetching(k) /\ tries < MaxRetries

MayFetch(k) == Fetching(k) /\ ~Matches(k) /\ tries < MaxRetries

WriteChunk(k, content) ==
    /\ disk' = [disk EXCEPT ![k] = content]
    /\ attr' = [attr EXCEPT ![k] = [mode |-> IF disk[k] = "none" THEN NewMode ELSE @.mode,
                                    mtime |-> 0]]

\* What the whole object is, under its name.
Object(k) == IF k \in Misnamed THEN "other" ELSE "named"

\* The GET has ended.  The file is not compared with its name.
FetchChunk(k) ==
    /\ MayFetch(k) /\ CanWrite(k)
    /\ WriteChunk(k, Object(k))
    /\ current' = None /\ tries' = 0

\* Mutant: a refused GET does not count as a try.
FetchFailsUncounted(k) ==
    /\ MayFetch(k)
    /\ UNCHANGED chunkVars
    /\ UNCHANGED <<tries, current>>

\* Refused, as for an object that is archived or gone, cut off half-way, which
\* may leave of a misnamed object just what the name says, or an error reported
\* after the last byte.
FetchFails(k) ==
    /\ MayFetch(k)
    /\ \/ UNCHANGED chunkVars
       \/ CanWrite(k) /\ \E content \in {"partial", "named", Object(k)} : WriteChunk(k, content)
    /\ tries' = tries + 1
    /\ UNCHANGED current

\* ErrMaxRetries ends the download.
GiveUp(k) ==
    /\ pc = "download" /\ current = k /\ tries >= MaxRetries
    /\ End("none")
    /\ UNCHANGED <<thaw, chunkVars, saved, treeVars>>

DownloadEnds ==
    /\ pc = "download" /\ current = None /\ todo = {}
    /\ End("downloaded")
    /\ UNCHANGED <<thaw, chunkVars, saved, treeVars>>

-----------------------------------------------------------------------------
(* link: directories, symbolic links, files; each loop in the random order   *)
(* of a map.                                                                 *)

StartLink == saved /\ Begin("dirs", DOMAIN DirMode) /\ listed' = {} /\ UNCHANGED saved

Linking(phase, x) ==
    /\ pc = phase /\ x \in todo
    /\ UNCHANGED <<thaw, saved>>

\* The other variables of a loop that goes on.
GoesOn == UNCHANGED <<listed, lost, tries, failed, outcome>>

\* MkdirAll gives every directory that is missing on the way the mode of the
\* one asked for.
Chain(d)    == Above[d] \cup {d}
Missing(d)  == {e \in Chain(d) : dirs[e] = None}
Existing(d) == Chain(d) \ Missing(d)
TopMissing(d) == {e \in Missing(d) : Above[e] \subseteq Existing(d)}
Entered(d)  == {e \in Existing(d) : Existing(d) \subseteq Above[e] \cup {e}}

MakeDirs(d, made) ==
    dirs' = [e \in Dir |-> IF e \in made THEN DirMode[d] ELSE dirs[e]]

ParentAllows(d) == \A e \in Entered(d) : dirs[e] \in Writable
PathAllows(d)   == Missing(d) = TopMissing(d) \/ DirMode[d] \in Writable

MakeDir(d) ==
    /\ Linking("dirs", d)
    /\ Missing(d) = {} \/ (ParentAllows(d) /\ PathAllows(d))
    /\ MakeDirs(d, Missing(d))
    /\ todo' = todo \ {d}
    /\ UNCHANGED <<chunkVars, names, pc, current>> /\ GoesOn

MakeDirDenied(d) ==
    /\ Linking("dirs", d)
    /\ Missing(d) # {} /\ ~(ParentAllows(d) /\ PathAllows(d))
    /\ MakeDirs(d, IF ParentAllows(d) THEN TopMissing(d) ELSE {})
    /\ End("denied")
    /\ UNCHANGED <<chunkVars, names>>

DirsDone ==
    /\ pc = "dirs" /\ todo = {}
    /\ pc' = "symlinks" /\ todo' = Symlink
    /\ UNCHANGED <<thaw, chunkVars, saved, treeVars, current>> /\ GoesOn

\* What the system call says of a new name x; "none" if it succeeds.
Obstacle(x) ==
    LET parent == dirs[ParentOf[x]]
        source == x \in File => disk[KeyOf[x]] # "none"
    IN  CASE parent = None \/ ~source -> "missing"
          [] parent # None /\ source /\ x \in names -> "clash"
          [] OTHER -> IF parent \in Writable THEN "none" ELSE "denied"

NewSymlink(l) ==
    /\ Linking("symlinks", l) /\ Obstacle(l) = "none"
    /\ names' = names \cup {l} /\ todo' = todo \ {l}
    /\ UNCHANGED <<chunkVars, dirs, pc, current>> /\ GoesOn

SymlinksDone ==
    /\ pc = "symlinks" /\ todo = {}
    /\ pc' = "files" /\ todo' = File
    /\ UNCHANGED <<thaw, chunkVars, saved, treeVars, current>> /\ GoesOn

\* Mutant: the mode is left as download made it.
HardLinkOnly(f) ==
    /\ Linking("files", f) /\ Obstacle(f) = "none"
    /\ names' = names \cup {f} /\ todo' = todo \ {f}
    /\ pc' = "chtimes" /\ current' = f
    /\ UNCHANGED <<chunkVars, dirs>> /\ GoesOn

HardLink(f) ==
    /\ Linking("files", f) /\ Obstacle(f) = "none"
    /\ names' = names \cup {f} /\ todo' = todo \ {f}
    /\ pc' = "chmod" /\ current' = f
    /\ UNCHANGED <<chunkVars, dirs>> /\ GoesOn

SetAttr(newAttr) ==
    /\ attr' = [attr EXCEPT ![KeyOf[current]] = newAttr]
    /\ UNCHANGED <<thaw, disk, saved, treeVars, todo>> /\ GoesOn

Chmod ==
    /\ pc = "chmod" /\ pc' = "chtimes"
    /\ SetAttr([attr[KeyOf[current]] EXCEPT !.mode = AttrOf[current].mode])
    /\ UNCHANGED current

Chtimes ==
    /\ pc = "chtimes" /\ pc' = "files"
    /\ SetAttr([attr[KeyOf[current]] EXCEPT !.mtime = AttrOf[current].mtime])
    /\ current' = None

\* Mutant: a name that cannot be made is passed over.
LinkPassesOver(x) ==
    /\ \E phase \in {"symlinks", "files"} : Linking(phase, x)
    /\ Obstacle(x) # "none"
    /\ todo' = todo \ {x}
    /\ UNCHANGED <<chunkVars, treeVars, pc, current>> /\ GoesOn

\* The first name that cannot be made ends the action.
LinkRefused(x) ==
    /\ \E phase \in {"symlinks", "files"} : Linking(phase, x)
    /\ Obstacle(x) # "none"
    /\ End(Obstacle(x))
    /\ UNCHANGED <<chunkVars, treeVars>>

LinkEnds ==
    /\ pc = "files" /\ todo = {}
    /\ End("linked")
    /\ UNCHANGED <<thaw, chunkVars, saved, treeVars>>

\* The user removes target/restore.
RemoveTree ==
    /\ pc = "idle" /\ names # {}
    /\ names' = {} /\ dirs' = [d \in Dir |-> None]
    /\ UNCHANGED <<thaw, chunkVars, saved, runVars>>

-----------------------------------------------------------------------------
ActionStep ==
    \/ RestoreEnds \/ DownloadEnds \/ DirsDone \/ SymlinksDone \/ Chmod \/ Chtimes \/ LinkEnds
    \/ \E k \in Chunk :
          \/ RequestThaw(k) \/ RequestMissing(k) \/ RequestFails(k)
          \/ NextChunk(k) \/ SkipChunk(k) \/ FetchChunk(k) \/ FetchFails(k) \/ GiveUp(k)
    \/ \E d \in DOMAIN DirMode : MakeDir(d) \/ MakeDirDenied(d)
    \/ \E l \in Symlink : NewSymlink(l) \/ LinkRefused(l)
    \/ \E f \in File : HardLink(f) \/ LinkRefused(f)

Next ==
    \/ ActionStep
    \/ StartRestore \/ StartDownload \/ StartLink \/ Kill
    \/ RemoveTree \/ \E k \in Chunk : Thaw(k) \/ Vanish(k) \/ Reappear(k)

Spec == Init /\ [][Next]_vars

\* The process is scheduled and every request is answered.
FairSpec == Spec /\ WF_vars(ActionStep)

-----------------------------------------------------------------------------
(* What the actions promise when they report success. *)

Ends(how) == outcome # how /\ outcome' = how

\* A restore that reports success has requested the thaw of every chunk that the
\* LIST showed and nobody deleted since: one refused request among many is not
\* forgotten.  A 404 is: a chunk deleted since the LIST, and perhaps stored again
\* before the end, may be left archived.
RestoreComplete == [][Ends("restored") => \A k \in listed \ lost : thaw'[k] # "frozen"]_vars

\* A download that reports success has on disk, for every chunk that the LIST
\* showed, content that its name fits or the whole of its object, although
\* earlier downloads were killed half-way and left files of the right name, and
\* objects went while it ran.
DownloadComplete ==
    [][Ends("downloaded") => \A k \in listed : disk'[k] \in {"named", Object(k)}]_vars

\* A chunk file that holds what its name says, and whose mode lets its owner
\* read it, is never truncated or fetched again, however often download is
\* killed and repeated.  The others are, by every download, although an earlier
\* one may have ended well: the copies of misnamed objects, which never match,
\* and the files that link gave a mode without read permission.
NeverRefetched == [][\A k \in Chunk : Matches(k) => disk'[k] = "named"]_vars

\* A link that reports success has made every directory and every name, from
\* chunk files that exist: it does not mix with the remains of another link.
TreeComplete ==
    [][Ends("linked") =>
         /\ names' = File \cup Symlink
         /\ \A d \in DOMAIN DirMode : dirs'[d] # None
         /\ \A f \in File : disk'[KeyOf[f]] # "none"]_vars

\* The files of a linked tree that share a chunk show the mode and the mtime of
\* one of them, never the mode of one and the mtime of another; a file that
\* shares its chunk with no other shows its own.
AttrsOfOneFile ==
    [][Ends("linked") => \A f \in File :
         \E g \in File : KeyOf[g] = KeyOf[f] /\ attr'[KeyOf[f]] = AttrOf[g]]_vars

\* Every action ends, whatever the bucket refuses: the retries of download are
\* bounded even for an object that stays archived.
ActionsEnd == pc # "idle" ~> pc = "idle"

\* What README.en.md:30 says of a linked tree, that it preserves mode and mtime:
\* every restored file shows its own.
FileAttrsPreserved ==
    [][Ends("linked") => \A f \in File : attr'[KeyOf[f]] = AttrOf[f]]_vars
=============================================================================
