------------------------------- MODULE Verify -------------------------------
(***************************************************************************)
(* The verify action: the newest index and a scan of the chunks are held    *)
(* against the user's files.  The bucket and the files may change under it, *)
(* also between the stat of a file and the reading of its content.          *)
(*                                                                          *)
(* A name of ScanFiles is a chunk key, a size and a hash.                   *)
(***************************************************************************)
EXTENDS ScanFiles

CONSTANTS
    Path,        \* what lies under FilePaths and is not on the SkipList
    Entries,     \* what the index can say of a path
    Absent,      \* no such file, no such entry
    Unreadable   \* paths whose content cannot be read

\* attr: mode and mtime, mode, or link target; key: 0 for what is not a file.
ASSUME VerifyAssumption ==
    /\ Entries \subseteq [kind : {"file", "dir", "link"}, attr : Nat, key : Name \cup {0}]
    /\ \A e \in Entries : e.kind = "file" => e.key \in Name
    /\ Absent \notin Entries
    /\ Unreadable \subseteq Path

VARIABLES
    verify,    \* "ready", "load", "list", "walk", "hash"; "ok", "unmatched", "error"
    index,     \* the entries of the loaded index
    files,     \* the user's files
    todo,      \* what the walk has still to visit
    opened,    \* the file between its stat and its hash, <<path, stat>>
    uf,        \* unmatchedFiles
    steady     \* history: paths that have not changed since the action began

walkVars == <<verify, index, files, todo, opened, uf, steady>>

Nowhere == <<>>

VerifyTypeOK ==
    /\ verify \in {"ready", "load", "list", "walk", "hash", "ok", "unmatched", "error"}
    /\ index \in [Path -> Entries \cup {Absent}]
    /\ files \in [Path -> Entries \cup {Absent}]
    /\ todo \subseteq Path /\ uf \subseteq Path /\ steady \subseteq Path
    /\ opened \in (Path \X Entries) \cup {Nowhere}

VerifyInit ==
    /\ index \in [Path -> Entries \cup {Absent}]
    /\ files \in [Path -> Entries \cup {Absent}]
    /\ verify = "ready" /\ todo = {} /\ opened = Nowhere /\ uf = {} /\ steady = {}

BeginVerify ==
    /\ verify = "ready"
    /\ verify' = "load" /\ todo' = Path /\ uf' = {} /\ steady' = Path
    /\ UNCHANGED <<index, files, opened, scanVars>>

IndexLoaded ==
    /\ verify = "load"
    /\ verify' = "list" /\ BeginScan
    /\ UNCHANGED <<index, files, todo, opened, uf, steady>>

\* scanRemoteChunksMap
ListChunks ==
    /\ verify = "list" /\ ScanStep
    /\ verify' = IF scan' = "asking" THEN "list" ELSE IF scan' = "done" THEN "walk" ELSE "error"
    /\ UNCHANGED <<index, files, todo, opened, uf, steady>>

\* Any of LoadRemote, Info and Readlink fails: the action ends.
Broken ==
    /\ verify \in {"load", "walk"}
    /\ verify' = "error"
    /\ UNCHANGED <<index, files, todo, opened, uf, steady, scanVars>>

\* A path that was not there when its directory was read.
NotMet(p) ==
    /\ verify = "walk" /\ p \in todo
    /\ files[p] = Absent \/ p \notin steady
    /\ todo' = todo \ {p}
    /\ UNCHANGED <<verify, index, files, opened, uf, steady, scanVars>>

\* A directory or a symbolic link is compared at once.
VisitOther(p) ==
    /\ verify = "walk" /\ p \in todo
    /\ files[p] # Absent /\ files[p].kind # "file"
    /\ todo' = todo \ {p}
    /\ uf' = IF index[p] = files[p] THEN uf ELSE uf \cup {p}
    /\ UNCHANGED <<verify, index, files, opened, steady, scanVars>>

StatFile(p) ==
    /\ verify = "walk" /\ p \in todo
    /\ files[p] # Absent /\ files[p].kind = "file"
    /\ verify' = "hash" /\ opened' = <<p, files[p]>> /\ todo' = todo \ {p}
    /\ UNCHANGED <<index, files, uf, steady, scanVars>>

\* Mutant: the listing is not consulted.
MatchedByIndex(p, f) == index[p] = f

\* The chunk was listed, and the index has the file as it is.
Matched(p, f) == f.key \in seen /\ index[p] = f

\* A file that changed since its stat, or while it is read, may hash to anything.
KeyRead(p) == IF p \in steady THEN {files[p].key} ELSE Name \cup {0}

HashFile ==
    /\ verify = "hash" /\ opened[1] \notin Unreadable
    /\ \E k \in KeyRead(opened[1]) :
          uf' = IF Matched(opened[1], [opened[2] EXCEPT !.key = k])
                THEN uf ELSE uf \cup {opened[1]}
    /\ verify' = "walk" /\ opened' = Nowhere
    /\ UNCHANGED <<index, files, todo, steady, scanVars>>

\* chunkHash fails: the file is reported and the walk goes on.
HashFails ==
    /\ verify = "hash"
    /\ opened[1] \in Unreadable \/ opened[1] \notin steady
    /\ uf' = uf \cup {opened[1]}
    /\ verify' = "walk" /\ opened' = Nowhere
    /\ UNCHANGED <<index, files, todo, steady, scanVars>>

WalkDone ==
    /\ verify = "walk" /\ todo = {}
    /\ verify' = IF uf = {} THEN "ok" ELSE "unmatched"
    /\ UNCHANGED <<index, files, todo, opened, uf, steady, scanVars>>

\* The user changes, makes or removes a file.
FileChanged(p, e) ==
    /\ e # files[p]
    /\ files' = [files EXCEPT ![p] = e]
    /\ steady' = steady \ {p}
    /\ UNCHANGED <<verify, index, todo, opened, uf, scanVars>>

BucketChanged ==
    /\ \E n \in Name : ObjectAdded(n) \/ ObjectRemoved(n)
    /\ UNCHANGED walkVars

VerifyStep ==
    \/ BeginVerify \/ IndexLoaded \/ ListChunks \/ Broken \/ HashFile \/ HashFails \/ WalkDone
    \/ \E p \in Path : NotMet(p) \/ VisitOther(p) \/ StatFile(p)

VerifyNext ==
    \/ VerifyStep \/ BucketChanged
    \/ \E p \in Path, e \in Entries \cup {Absent} : FileChanged(p, e)

VerifySpec == ScanInit /\ VerifyInit /\ [][VerifyNext]_<<scanVars, walkVars>>

-----------------------------------------------------------------------------
\* The chunk of an entry is in S; directories and links have none.
ChunkIn(e, S) == e.kind = "file" => e.key \in S

\* A passed verification means: every file, directory and link that did not
\* change meanwhile is in the index exactly as it is, and its chunk was in the
\* bucket at some time of the listing.
VerifiedMeansBacked ==
    verify = "ok" =>
        \A p \in steady : files[p] # Absent => index[p] = files[p] /\ ChunkIn(files[p], ever)

\* Whatever happens to other files and chunks, a path that agrees with the
\* index and stays as it is, with a chunk that stays in the bucket, is never
\* reported.
NoFalseAlarm ==
    \A p \in (steady \cap uf) \ Unreadable :
        ~(files[p] # Absent /\ index[p] = files[p] /\ ChunkIn(files[p], throughout))

\* The action ends.
VerifyEnds == verify = "load" ~> verify \in {"ok", "unmatched", "error"}
=============================================================================
