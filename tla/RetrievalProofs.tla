-------------------------- MODULE RetrievalProofs --------------------------
(* Proofs about Retrieval: what restore, download and link report as done is *)
(* complete, whatever was killed, refused or repeated before.                *)
EXTENDS Retrieval, TLAPS

LinkPhases == {"symlinks", "files", "chmod", "chtimes"}
FilePhases == {"files", "chmod", "chtimes"}

\* What a loop has in hand fits its phase.
WorkFits ==
    /\ pc \in {"restore", "download"} => todo \subseteq listed
    /\ pc = "dirs" => todo \subseteq DOMAIN DirMode
    /\ pc = "symlinks" => todo \subseteq Symlink
    /\ pc \in FilePhases => todo \subseteq File
    /\ pc = "idle" => current = None /\ listed = {} /\ lost = {}
    /\ pc = "download" => current \in Chunk \cup {None}
    /\ pc \in {"chmod", "chtimes"} => current \in File

\* What each loop has already done.
Requested ==
    pc = "restore" =>
      /\ failed \/ \A k \in (listed \ lost) \ todo : thaw[k] # "frozen"
      /\ \A k \in listed \ lost : thaw[k] # "gone"

Fetched ==
    pc = "download" =>
      \A k \in listed \ todo : k # current => disk[k] \in {"named", Object(k)}

DirsMade ==
    /\ pc = "dirs" => \A d \in DOMAIN DirMode \ todo : dirs[d] # None
    /\ pc \in LinkPhases => \A d \in DOMAIN DirMode : dirs[d] # None

NamesMade ==
    /\ pc = "symlinks" => Symlink \ todo \subseteq names
    /\ pc \in FilePhases =>
         /\ Symlink \cup (File \ todo) \subseteq names
         /\ \A f \in File \ todo : disk[KeyOf[f]] # "none"

OfOneFile(f) == \E g \in File : KeyOf[g] = KeyOf[f] /\ attr[KeyOf[f]] = AttrOf[g]

AttrsSet ==
    /\ pc \in FilePhases =>
         \A f \in File \ todo : pc = "files" \/ KeyOf[f] # KeyOf[current] => OfOneFile(f)
    /\ pc = "chtimes" => attr[KeyOf[current]].mode = AttrOf[current].mode

LoopInv == WorkFits /\ Requested /\ Fetched /\ DirsMade /\ NamesMade /\ AttrsSet

RInv == TypeOK /\ LoopInv

-----------------------------------------------------------------------------
LEMMA RInit == Init => RInv
<1> SUFFICES ASSUME Init PROVE RInv
  OBVIOUS
<1>1. DefaultAttr \in Attr
  BY RetrievalAssumption DEF DefaultAttr, Attr
<1>2. 0 \in 0..MaxRetries
  BY RetrievalAssumption
<1>3. TypeOK
  BY <1>1, <1>2 DEF Init, TypeOK
<1>4. LoopInv
  BY DEF Init, LoopInv, WorkFits, Requested, Fetched, DirsMade, NamesMade, AttrsSet, LinkPhases,
         FilePhases
<1> QED BY <1>3, <1>4 DEF RInv

\* A step that leaves an action idle leaves nothing to the loops.
LEMMA IdleLoops ==
  ASSUME pc' = "idle", current' = None, listed' = {}, lost' = {} PROVE LoopInv'
  BY DEF LoopInv, WorkFits, Requested, Fetched, DirsMade, NamesMade, AttrsSet, LinkPhases,
         FilePhases

\* A step that ends an action, and changes no more than directories.
LEMMA EndInv ==
  ASSUME RInv, NEW how \in {"none", "restored", "downloaded", "linked", "missing", "clash", "denied"},
         End(how), UNCHANGED <<thaw, disk, attr, saved, names>>,
         dirs' \in [Dir -> Mode \cup {None}]
  PROVE  RInv'
<1>1. TypeOK'
  <2>1. 0 \in 0..MaxRetries
    BY RetrievalAssumption
  <2> QED BY <2>1 DEF RInv, TypeOK, End
<1>2. LoopInv'
  BY IdleLoops DEF End
<1> QED BY <1>1, <1>2 DEF RInv

LEMMA ObstacleKinds ==
  ASSUME NEW x PROVE Obstacle(x) \in {"none", "missing", "clash", "denied"}
  BY DEF Obstacle

\* All the ways an action ends, but for MakeDirDenied.
LEMMA EndsInv ==
  ASSUME RInv,
         \/ RestoreEnds \/ DownloadEnds \/ LinkEnds \/ Kill
         \/ \E k \in Chunk : GiveUp(k)
         \/ \E x \in File \cup Symlink : LinkRefused(x)
  PROVE  RInv'
<1>1. dirs \in [Dir -> Mode \cup {None}]
  BY DEF RInv, TypeOK
<1>2. CASE RestoreEnds
  BY <1>1, <1>2, EndInv DEF RestoreEnds, chunkVars, treeVars
<1>3. CASE DownloadEnds
  BY <1>1, <1>3, EndInv DEF DownloadEnds, chunkVars, treeVars
<1>4. CASE LinkEnds
  BY <1>1, <1>4, EndInv DEF LinkEnds, chunkVars, treeVars
<1>5. CASE Kill
  BY <1>1, <1>5, EndInv DEF Kill, chunkVars, treeVars
<1>6. CASE \E k \in Chunk : GiveUp(k)
  BY <1>1, <1>6, EndInv DEF GiveUp, chunkVars, treeVars
<1>7. CASE \E x \in File \cup Symlink : LinkRefused(x)
  BY <1>1, <1>7, EndInv, ObstacleKinds DEF LinkRefused, Linking, chunkVars, treeVars
<1> QED BY <1>2, <1>3, <1>4, <1>5, <1>6, <1>7

\* A new action starts with all its work before it.
LEMMA StartInv ==
  ASSUME RInv, StartRestore \/ StartDownload \/ StartLink
  PROVE  RInv'
<1>1. DOMAIN DirMode \subseteq Dir
  BY RetrievalAssumption
<1>2. pc = "idle" /\ current' = None
  BY DEF RInv, LoopInv, WorkFits, StartRestore, StartDownload, StartLink, Begin
<1>3. /\ UNCHANGED <<thaw, disk, attr, dirs, names, current, tries, failed>>
      /\ outcome' = "none" /\ saved' \in {saved, TRUE} /\ lost' = {}
      /\ \/ pc' \in {"restore", "download"} /\ todo' = Stored /\ listed' = Stored
         \/ pc' = "dirs" /\ todo' = DOMAIN DirMode /\ listed' = {}
  BY DEF StartRestore, StartDownload, StartLink, Begin, chunkVars, treeVars
<1>4. TypeOK'
  BY <1>1, <1>3 DEF RInv, TypeOK, Stored
<1>5. LoopInv'
  BY <1>2, <1>3
  DEF LoopInv, Stored, WorkFits, Requested, Fetched, DirsMade, NamesMade, AttrsSet, LinkPhases,
      FilePhases
<1> QED BY <1>4, <1>5 DEF RInv

\* What the bucket and the user do meanwhile.
LEMMA OutsideInv ==
  ASSUME RInv, RemoveTree \/ \E k \in Chunk : Thaw(k) \/ Vanish(k) \/ Reappear(k)
  PROVE  RInv'
<1>1. CASE RemoveTree
  <2>1. TypeOK'
    BY <1>1 DEF RInv, TypeOK, RemoveTree, chunkVars, runVars
  <2>2. LoopInv'
    BY <1>1, IdleLoops DEF RemoveTree, runVars, RInv, LoopInv, WorkFits
  <2> QED BY <2>1, <2>2 DEF RInv
<1>2. ASSUME NEW k \in Chunk, Thaw(k) \/ Vanish(k) \/ Reappear(k) PROVE RInv'
  <2>1. /\ UNCHANGED <<disk, attr, saved, dirs, names, pc, listed, todo, current, tries, failed,
                        outcome>>
        /\ thaw' \in [Chunk -> {"gone", "frozen", "thawing", "thawed"}]
        /\ lost \subseteq lost' /\ lost' \subseteq lost \cup listed
    BY <1>2 DEF RInv, TypeOK, Thaw, Vanish, Reappear, chunkVars, treeVars, runVars
  <2>2. TypeOK'
    BY <2>1 DEF RInv, TypeOK
  <2>3. Requested'
    BY <1>2 DEF RInv, TypeOK, LoopInv, Requested, Thaw, Vanish, Reappear, runVars
  <2>4. Fetched' /\ DirsMade' /\ NamesMade' /\ AttrsSet'
    BY <2>1 DEF RInv, LoopInv, Fetched, DirsMade, NamesMade, AttrsSet, OfOneFile
  <2>5. WorkFits'
    BY <2>1 DEF RInv, LoopInv, WorkFits
  <2> QED BY <2>2, <2>3, <2>4, <2>5 DEF RInv, LoopInv
<1> QED BY <1>1, <1>2

\* The other phases have nothing to say while restore or download runs.
LEMMA OtherLoops ==
  /\ pc' = "restore" => Fetched' /\ DirsMade' /\ NamesMade' /\ AttrsSet'
  /\ pc' = "download" => Requested' /\ DirsMade' /\ NamesMade' /\ AttrsSet'
  /\ pc' \in LinkPhases \cup {"dirs"} => Requested' /\ Fetched'
  BY DEF Requested, Fetched, DirsMade, NamesMade, AttrsSet, LinkPhases, FilePhases

LEMMA RestoreInv ==
  ASSUME RInv, NEW k \in Chunk, RequestThaw(k) \/ RequestMissing(k) \/ RequestFails(k)
  PROVE  RInv'
<1>1. TypeOK'
  BY DEF RInv, TypeOK, RequestThaw, RequestMissing, RequestFails, Restoring, chunkVars, treeVars
<1>2. WorkFits'
  BY DEF RInv, LoopInv, WorkFits, FilePhases, RequestThaw, RequestMissing, RequestFails, Restoring
<1>3. Requested'
  BY DEF RInv, TypeOK, LoopInv, Requested, RequestThaw, RequestMissing, RequestFails, Restoring
<1>4. pc' = "restore"
  BY DEF RequestThaw, RequestMissing, RequestFails, Restoring
<1> QED BY <1>1, <1>2, <1>3, <1>4, OtherLoops DEF RInv, LoopInv

\* A GET changes the file of one chunk.
LEMMA WriteChunkType ==
  ASSUME TypeOK, NEW k \in Chunk, NEW content \in {"partial", "named", "other"},
         WriteChunk(k, content)
  PROVE  /\ disk' \in [Chunk -> {"none", "partial", "named", "other"}]
         /\ attr' \in [Chunk -> Attr]
         /\ \A j \in Chunk : j # k => disk'[j] = disk[j]
         /\ disk'[k] = content
<1>1. disk[k] = "none" \/ attr[k].mode \in Mode
  BY DEF TypeOK, Attr
<1>2. [mode |-> IF disk[k] = "none" THEN NewMode ELSE attr[k].mode, mtime |-> 0] \in Attr
  BY <1>1, RetrievalAssumption DEF Attr
<1> QED BY <1>2 DEF TypeOK, WriteChunk

LEMMA DownloadInv ==
  ASSUME RInv, NEW k \in Chunk, NextChunk(k) \/ SkipChunk(k) \/ FetchChunk(k) \/ FetchFails(k)
  PROVE  RInv'
<1>1. TypeOK /\ MaxRetries \in Nat \ {0} /\ None \notin Chunk
  BY RetrievalAssumption DEF RInv
<1>2. /\ pc = "download" /\ pc' = "download"
      /\ UNCHANGED <<thaw, saved, dirs, names, listed, lost, failed, outcome>>
  BY DEF NextChunk, SkipChunk, FetchChunk, FetchFails, MayFetch, Fetching, treeVars
<1>3. CASE NextChunk(k)
  <2>1. TypeOK' /\ WorkFits' /\ Fetched'
    BY <1>1, <1>2, <1>3
    DEF RInv, TypeOK, LoopInv, WorkFits, Fetched, FilePhases, NextChunk, chunkVars
  <2> QED BY <2>1, <1>2, OtherLoops DEF RInv, LoopInv
<1>4. CASE SkipChunk(k)
  <2>1. TypeOK' /\ WorkFits' /\ Fetched'
    BY <1>1, <1>2, <1>4
    DEF RInv, TypeOK, LoopInv, WorkFits, Fetched, FilePhases, SkipChunk, Matches, Fetching,
        chunkVars
  <2> QED BY <2>1, <1>2, OtherLoops DEF RInv, LoopInv
<1>5. CASE FetchChunk(k)
  <2>1. /\ current = k /\ todo' = todo /\ current' = None /\ tries' = 0 /\ WriteChunk(k, Object(k))
        /\ Object(k) \in {"named", "other"}
    BY <1>5 DEF FetchChunk, MayFetch, Fetching, Object
  <2>2. TypeOK' /\ WorkFits'
    BY <1>1, <1>2, <2>1, WriteChunkType DEF RInv, TypeOK, LoopInv, WorkFits, FilePhases
  <2>3. Fetched'
    BY <1>1, <1>2, <2>1, WriteChunkType DEF RInv, TypeOK, LoopInv, Fetched, Object
  <2> QED BY <2>2, <2>3, <1>2, OtherLoops DEF RInv, LoopInv
<1>6. CASE FetchFails(k)
  <2>1. /\ current = k /\ todo' = todo /\ current' = k /\ tries' = tries + 1 /\ tries < MaxRetries
        /\ \/ UNCHANGED chunkVars
           \/ \E content \in {"partial", "named", "other"} : WriteChunk(k, content)
    BY <1>6 DEF FetchFails, MayFetch, Fetching, Object
  <2>2. /\ disk' \in [Chunk -> {"none", "partial", "named", "other"}] /\ attr' \in [Chunk -> Attr]
        /\ \A j \in Chunk : j # k => disk'[j] = disk[j]
    BY <1>1, <2>1, WriteChunkType DEF TypeOK, chunkVars
  <2>3. tries' \in 0..MaxRetries
    BY <1>1, <2>1 DEF TypeOK
  <2>4. TypeOK' /\ WorkFits'
    BY <1>1, <1>2, <2>1, <2>2, <2>3 DEF RInv, TypeOK, LoopInv, WorkFits, FilePhases
  <2>5. Fetched'
    <3>1. ASSUME NEW j \in listed \ todo, j # k PROVE disk'[j] \in {"named", Object(j)}
      BY <1>1, <1>2, <2>1, <2>2, <3>1 DEF RInv, TypeOK, LoopInv, Fetched
    <3> QED BY <3>1, <1>2, <2>1 DEF Fetched, Object
  <2> QED BY <2>4, <2>5, <1>2, OtherLoops DEF RInv, LoopInv
<1> QED BY <1>3, <1>4, <1>5, <1>6

-----------------------------------------------------------------------------
(* The loops of link. *)

\* MkdirAll gives missing directories a mode, and changes no others.
LEMMA MakeDirsMade ==
  ASSUME TypeOK, NEW d \in DOMAIN DirMode, NEW made, MakeDirs(d, made)
  PROVE  /\ dirs' \in [Dir -> Mode \cup {None}]
         /\ \A e \in Dir : dirs[e] # None => dirs'[e] # None
         /\ made = Missing(d) => dirs'[d] # None
<1>1. DirMode[d] \in Mode /\ d \in Dir /\ None \notin Mode
  BY RetrievalAssumption
<1>2. dirs' \in [Dir -> Mode \cup {None}] /\ \A e \in Dir : dirs[e] # None => dirs'[e] # None
  BY <1>1 DEF MakeDirs, TypeOK
<1>3. made = Missing(d) => dirs'[d] # None
  BY <1>1 DEF MakeDirs, Missing, Chain
<1> QED BY <1>2, <1>3

LEMMA DirsInv ==
  ASSUME RInv, \/ \E d \in DOMAIN DirMode : MakeDir(d) \/ MakeDirDenied(d)
               \/ DirsDone
  PROVE  RInv'
<1>1. TypeOK /\ DOMAIN DirMode \subseteq Dir
  BY RetrievalAssumption DEF RInv
<1>2. ASSUME NEW d \in DOMAIN DirMode, MakeDir(d) PROVE RInv'
  <2>1. /\ pc = "dirs" /\ pc' = "dirs" /\ todo' = todo \ {d} /\ MakeDirs(d, Missing(d))
        /\ UNCHANGED <<thaw, disk, attr, saved, names, listed, lost, current, tries, failed,
                        outcome>>
    BY <1>2 DEF MakeDir, Linking, GoesOn, chunkVars
  <2>2. TypeOK'
    BY <1>1, <2>1, MakeDirsMade DEF TypeOK
  <2>3. DirsMade' /\ WorkFits'
    BY <1>1, <2>1, MakeDirsMade DEF RInv, LoopInv, DirsMade, WorkFits, LinkPhases, FilePhases
  <2>4. NamesMade' /\ AttrsSet'
    BY <2>1 DEF NamesMade, AttrsSet, FilePhases
  <2> QED BY <2>1, <2>2, <2>3, <2>4, OtherLoops DEF RInv, LoopInv
<1>3. ASSUME NEW d \in DOMAIN DirMode, MakeDirDenied(d) PROVE RInv'
  BY <1>1, <1>3, MakeDirsMade, EndInv DEF MakeDirDenied, Linking, chunkVars
<1>4. CASE DirsDone
  <2>1. /\ pc = "dirs" /\ todo = {} /\ pc' = "symlinks" /\ todo' = Symlink
        /\ UNCHANGED <<thaw, disk, attr, saved, dirs, names, listed, lost, current, tries, failed,
                        outcome>>
    BY <1>4 DEF DirsDone, GoesOn, chunkVars, treeVars
  <2>2. TypeOK'
    BY <1>1, <2>1 DEF TypeOK
  <2>3. WorkFits' /\ DirsMade' /\ NamesMade' /\ AttrsSet'
    BY <2>1 DEF RInv, LoopInv, WorkFits, DirsMade, NamesMade, AttrsSet, LinkPhases, FilePhases
  <2> QED BY <2>1, <2>2, <2>3, OtherLoops DEF RInv, LoopInv, LinkPhases
<1> QED BY <1>2, <1>3, <1>4

LEMMA SymlinksInv ==
  ASSUME RInv, SymlinksDone \/ \E l \in Symlink : NewSymlink(l)
  PROVE  RInv'
<1>1. TypeOK
  BY DEF RInv
<1>2. CASE SymlinksDone
  <2>1. /\ pc = "symlinks" /\ todo = {} /\ pc' = "files" /\ todo' = File
        /\ UNCHANGED <<thaw, disk, attr, saved, dirs, names, listed, lost, current, tries, failed,
                        outcome>>
    BY <1>2 DEF SymlinksDone, GoesOn, chunkVars, treeVars
  <2>2. TypeOK'
    BY <1>1, <2>1 DEF TypeOK
  <2>3. WorkFits' /\ DirsMade' /\ NamesMade' /\ AttrsSet'
    BY <2>1 DEF RInv, LoopInv, WorkFits, DirsMade, NamesMade, AttrsSet, LinkPhases, FilePhases
  <2> QED BY <2>1, <2>2, <2>3, OtherLoops DEF RInv, LoopInv, LinkPhases
<1>3. ASSUME NEW l \in Symlink, NewSymlink(l) PROVE RInv'
  <2>1. /\ pc = "symlinks" /\ pc' = "symlinks" /\ names' = names \cup {l} /\ todo' = todo \ {l}
        /\ UNCHANGED <<thaw, disk, attr, saved, dirs, listed, lost, current, tries, failed, outcome>>
    BY <1>3 DEF NewSymlink, Linking, GoesOn, chunkVars
  <2>2. TypeOK'
    BY <1>1, <2>1 DEF TypeOK
  <2>3. WorkFits' /\ DirsMade' /\ NamesMade' /\ AttrsSet'
    BY <2>1 DEF RInv, LoopInv, WorkFits, DirsMade, NamesMade, AttrsSet, LinkPhases, FilePhases
  <2> QED BY <2>1, <2>2, <2>3, OtherLoops DEF RInv, LoopInv, LinkPhases
<1> QED BY <1>2, <1>3

\* A hard link needs the chunk file, and its inode comes under the new name.
LEMMA HardLinkInv ==
  ASSUME RInv, NEW f \in File, HardLink(f)
  PROVE  RInv'
<1>1. TypeOK
  BY DEF RInv
<1>2. /\ pc = "files" /\ pc' = "chmod" /\ names' = names \cup {f} /\ todo' = todo \ {f}
      /\ current' = f
      /\ UNCHANGED <<thaw, disk, attr, saved, dirs, listed, lost, tries, failed, outcome>>
  BY DEF HardLink, Linking, GoesOn, chunkVars
<1>3. disk[KeyOf[f]] # "none"
  BY DEF HardLink, Obstacle
<1>4. TypeOK'
  BY <1>1, <1>2 DEF TypeOK
<1>5. WorkFits' /\ DirsMade'
  BY <1>2 DEF RInv, LoopInv, WorkFits, DirsMade, LinkPhases, FilePhases
<1>6. NamesMade'
  BY <1>2, <1>3 DEF RInv, LoopInv, NamesMade, FilePhases
<1>7. AttrsSet'
  BY <1>2 DEF RInv, LoopInv, AttrsSet, FilePhases, OfOneFile
<1> QED BY <1>2, <1>4, <1>5, <1>6, <1>7, OtherLoops DEF RInv, LoopInv, LinkPhases

\* Chmod and Chtimes together give the inode the attributes of one file.
LEMMA SetAttrInv ==
  ASSUME RInv, Chmod \/ Chtimes
  PROVE  RInv'
<1> DEFINE k == KeyOf[current]
<1>1. /\ TypeOK /\ pc \in {"chmod", "chtimes"} /\ pc' \in FilePhases /\ current \in File
      /\ k \in Chunk /\ AttrOf \in [File -> Attr] /\ attr[k] \in Attr
      /\ UNCHANGED <<thaw, disk, saved, dirs, names, listed, lost, todo, tries, failed, outcome>>
  BY RetrievalAssumption
  DEF RInv, LoopInv, WorkFits, TypeOK, Chmod, Chtimes, SetAttr, GoesOn, treeVars, FilePhases
<1>2. AttrOf[current] \in Attr
  BY <1>1
<1>3. CASE Chmod
  <2>1. pc' = "chtimes" /\ current' = current
        /\ attr' = [attr EXCEPT ![k] = [attr[k] EXCEPT !.mode = AttrOf[current].mode]]
    BY <1>3 DEF Chmod, SetAttr
  <2>2. [attr[k] EXCEPT !.mode = AttrOf[current].mode] \in Attr
    BY <1>1, <1>2 DEF Attr
  <2>3. TypeOK'
    BY <1>1, <2>1, <2>2 DEF TypeOK
  <2>4. attr'[k].mode = AttrOf[current].mode /\ \A j \in Chunk : j # k => attr'[j] = attr[j]
    BY <1>1, <2>1 DEF TypeOK, Attr
  <2>5. WorkFits' /\ DirsMade' /\ NamesMade'
    BY <1>1, <2>1, <1>3
    DEF Chmod, RInv, LoopInv, WorkFits, DirsMade, NamesMade, LinkPhases, FilePhases
  <2>6. AttrsSet'
    BY <1>1, <2>1, <2>4, <1>3, RetrievalAssumption
    DEF Chmod, RInv, LoopInv, AttrsSet, OfOneFile, FilePhases
  <2> QED BY <2>1, <2>3, <2>5, <2>6, OtherLoops DEF RInv, LoopInv, LinkPhases
<1>4. CASE Chtimes
  <2>1. pc = "chtimes" /\ pc' = "files" /\ current' = None
        /\ attr' = [attr EXCEPT ![k] = [attr[k] EXCEPT !.mtime = AttrOf[current].mtime]]
    BY <1>4 DEF Chtimes, SetAttr
  <2>2. attr[k].mode = AttrOf[current].mode
    BY <2>1 DEF RInv, LoopInv, AttrsSet
  <2>3. [attr[k] EXCEPT !.mtime = AttrOf[current].mtime] = AttrOf[current]
    BY <1>1, <1>2, <2>2 DEF Attr
  <2>4. TypeOK'
    BY <1>1, <1>2, <2>1, <2>3 DEF TypeOK
  <2>5. attr'[k] = AttrOf[current] /\ \A j \in Chunk : j # k => attr'[j] = attr[j]
    BY <1>1, <2>1, <2>3 DEF TypeOK
  <2>6. WorkFits' /\ DirsMade' /\ NamesMade'
    BY <1>1, <2>1 DEF RInv, LoopInv, WorkFits, DirsMade, NamesMade, LinkPhases, FilePhases
  <2>7. AttrsSet'
    <3> SUFFICES ASSUME NEW f \in File \ todo PROVE OfOneFile(f)'
      BY <1>1, <2>1 DEF AttrsSet, FilePhases
    <3>1. CASE KeyOf[f] = k
      BY <3>1, <1>1, <2>5 DEF OfOneFile
    <3>2. CASE KeyOf[f] # k
      <4>1. OfOneFile(f) /\ KeyOf[f] \in Chunk
        BY <3>2, <2>1, RetrievalAssumption DEF RInv, LoopInv, AttrsSet, FilePhases
      <4> QED BY <4>1, <3>2, <2>5 DEF OfOneFile
    <3> QED BY <3>1, <3>2
  <2> QED BY <2>1, <2>4, <2>6, <2>7, OtherLoops DEF RInv, LoopInv, LinkPhases
<1> QED BY <1>3, <1>4

-----------------------------------------------------------------------------
LEMMA RNext ==
  ASSUME RInv, [Next]_vars PROVE RInv'
<1>1. CASE UNCHANGED vars
  BY <1>1
  DEF RInv, LoopInv, TypeOK, WorkFits, Requested, Fetched, DirsMade, NamesMade, AttrsSet, OfOneFile,
      vars, chunkVars, treeVars, runVars
<1>2. CASE Next
  BY <1>2, EndsInv, StartInv, OutsideInv, RestoreInv, DownloadInv, DirsInv, SymlinksInv, HardLinkInv,
     SetAttrInv
  DEF Next, ActionStep
<1> QED BY <1>1, <1>2

\* What each loop of Retrieval has done so far is as the code assumes it, for any
\* files, directories and chunks.
THEOREM RetrievalInductive == Spec => []RInv
<1>1. RInv /\ [Next]_vars => RInv'
  BY RNext
<1> QED BY <1>1, RInit, PTL DEF Spec

\* Success is reported by the last step of each action alone.
LEMMA WhoEnds ==
  ASSUME RInv, [Next]_vars
  PROVE  /\ Ends("restored") => RestoreEnds
         /\ Ends("downloaded") => DownloadEnds
         /\ Ends("linked") => LinkEnds
<1>1. CASE UNCHANGED vars
  BY <1>1 DEF Ends, vars, runVars
<1>2. CASE StartRestore \/ StartDownload \/ StartLink \/ Kill
  BY <1>2 DEF Ends, StartRestore, StartDownload, StartLink, Begin, Kill, End
<1>3. CASE RemoveTree \/ \E k \in Chunk : Thaw(k) \/ Vanish(k) \/ Reappear(k)
  BY <1>3 DEF Ends, RemoveTree, Thaw, Vanish, Reappear, runVars
<1>4. CASE \E k \in Chunk : RequestThaw(k) \/ RequestMissing(k) \/ RequestFails(k) \/ NextChunk(k)
                            \/ SkipChunk(k) \/ FetchChunk(k) \/ FetchFails(k)
  BY <1>4
  DEF Ends, RequestThaw, RequestMissing, RequestFails, Restoring, NextChunk, SkipChunk, FetchChunk,
      FetchFails, MayFetch, Fetching
<1>5. CASE \E k \in Chunk : GiveUp(k)
  BY <1>5 DEF Ends, GiveUp, End
<1>6. CASE RestoreEnds \/ DownloadEnds \/ LinkEnds
  BY <1>6 DEF Ends, RestoreEnds, DownloadEnds, LinkEnds, End
<1>7. CASE DirsDone \/ SymlinksDone \/ Chmod \/ Chtimes
  BY <1>7 DEF Ends, DirsDone, SymlinksDone, Chmod, Chtimes, SetAttr, GoesOn
<1>8. CASE \E d \in DOMAIN DirMode : MakeDir(d) \/ MakeDirDenied(d)
  BY <1>8 DEF Ends, MakeDir, MakeDirDenied, End, GoesOn
<1>9. CASE \E x \in File \cup Symlink : LinkRefused(x)
  BY <1>9, ObstacleKinds DEF Ends, LinkRefused, End
<1>10. CASE (\E l \in Symlink : NewSymlink(l)) \/ \E f \in File : HardLink(f)
  BY <1>10 DEF Ends, NewSymlink, HardLink, GoesOn
<1> QED BY <1>1, <1>2, <1>3, <1>4, <1>5, <1>6, <1>7, <1>8, <1>9, <1>10 DEF Next, ActionStep

\* A restore that reports success has left no chunk archived that was in its LIST
\* and has stayed in the bucket: of all the answers only a 404 is passed over.
THEOREM RestoreIsComplete == Spec => RestoreComplete
<1> DEFINE Complete == \A k \in listed \ lost : thaw'[k] # "frozen"
<1>1. RInv /\ [Next]_vars => [Ends("restored") => Complete]_vars
  <2> SUFFICES ASSUME RInv, [Next]_vars, Ends("restored") PROVE Complete
    OBVIOUS
  <2>1. RestoreEnds
    BY WhoEnds
  <2> QED BY <2>1 DEF RestoreEnds, End, Ends, RInv, LoopInv, Requested
<1> QED BY <1>1, RetrievalInductive, PTL DEF Spec, RestoreComplete

\* A finished download has every chunk of its LIST, under its name or as the bucket
\* has it, whatever killed downloads left behind and whatever was deleted since.
THEOREM DownloadIsComplete == Spec => DownloadComplete
<1> DEFINE Complete == \A k \in listed : disk'[k] \in {"named", Object(k)}
<1>1. RInv /\ [Next]_vars => [Ends("downloaded") => Complete]_vars
  <2> SUFFICES ASSUME RInv, [Next]_vars, Ends("downloaded") PROVE Complete
    OBVIOUS
  <2>1. DownloadEnds
    BY WhoEnds
  <2>2. None \notin listed
    BY RetrievalAssumption DEF RInv, TypeOK
  <2> QED BY <2>1, <2>2 DEF DownloadEnds, chunkVars, RInv, LoopInv, Fetched
<1> QED BY <1>1, RetrievalInductive, PTL DEF Spec, DownloadComplete

\* A finished link has made every directory and every name.
THEOREM TreeIsComplete == Spec => TreeComplete
<1> DEFINE Complete == /\ names' = File \cup Symlink
                       /\ \A d \in DOMAIN DirMode : dirs'[d] # None
                       /\ \A f \in File : disk'[KeyOf[f]] # "none"
<1>1. RInv /\ [Next]_vars => [Ends("linked") => Complete]_vars
  <2> SUFFICES ASSUME RInv, [Next]_vars, Ends("linked") PROVE Complete
    OBVIOUS
  <2>1. LinkEnds
    BY WhoEnds
  <2> QED BY <2>1 DEF LinkEnds, chunkVars, treeVars, RInv, TypeOK, LoopInv, DirsMade, NamesMade,
                      LinkPhases, FilePhases
<1> QED BY <1>1, RetrievalInductive, PTL DEF Spec, TreeComplete

\* The mode and the mtime of a restored inode are those of one file.
THEOREM AttrsAreOfOneFile == Spec => AttrsOfOneFile
<1> DEFINE Whole == \A f \in File : \E g \in File : KeyOf[g] = KeyOf[f] /\ attr'[KeyOf[f]] = AttrOf[g]
<1>1. RInv /\ [Next]_vars => [Ends("linked") => Whole]_vars
  <2> SUFFICES ASSUME RInv, [Next]_vars, Ends("linked") PROVE Whole
    OBVIOUS
  <2>1. LinkEnds
    BY WhoEnds
  <2> QED BY <2>1 DEF LinkEnds, chunkVars, RInv, LoopInv, AttrsSet, OfOneFile, FilePhases
<1> QED BY <1>1, RetrievalInductive, PTL DEF Spec, AttrsOfOneFile

\* Nobody truncates a chunk file that holds what its name says and can be read.
THEOREM MatchNeverRefetched == Spec => NeverRefetched
<1> DEFINE Kept == \A k \in Chunk : Matches(k) => disk'[k] = "named"
<1>1. RInv /\ [Next]_vars => [Kept]_vars
  <2> SUFFICES ASSUME RInv, [Next]_vars PROVE Kept
    OBVIOUS
  <2>1. CASE UNCHANGED disk
    BY <2>1 DEF Matches
  <2>2. CASE \E k \in Chunk : FetchChunk(k) \/ FetchFails(k)
    <3>1. PICK k \in Chunk : FetchChunk(k) \/ FetchFails(k)
      BY <2>2
    <3>2. /\ ~Matches(k)
          /\ \/ UNCHANGED disk
             \/ \E content \in {"partial", "named", "other"} : WriteChunk(k, content)
      BY <3>1 DEF FetchChunk, FetchFails, MayFetch, chunkVars, Object
    <3>3. \A j \in Chunk : j # k => disk'[j] = disk[j]
      BY <3>2, WriteChunkType DEF RInv
    <3> QED BY <3>2, <3>3 DEF Matches
  <2>3. UNCHANGED disk \/ \E k \in Chunk : FetchChunk(k) \/ FetchFails(k)
    BY DEF vars, chunkVars, Next, ActionStep, StartRestore, StartDownload, StartLink, Begin, Kill,
           RemoveTree, Thaw, Vanish, Reappear, RestoreEnds, DownloadEnds, LinkEnds, DirsDone,
           SymlinksDone, Chmod, Chtimes, SetAttr, RequestThaw, RequestMissing, RequestFails,
           Restoring, NextChunk, SkipChunk, GiveUp, MakeDir, MakeDirDenied, NewSymlink, HardLink,
           LinkRefused
  <2> QED BY <2>1, <2>2, <2>3
<1> QED BY <1>1, RetrievalInductive, PTL DEF Spec, NeverRefetched

\* Every variable of Retrieval keeps its type.
THEOREM RetrievalTypeCorrect == Spec => []TypeOK
<1>1. RInv => TypeOK
  BY DEF RInv
<1> QED BY <1>1, RetrievalInductive, PTL

=============================================================================
