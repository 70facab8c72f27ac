------------------------------- MODULE Mount -------------------------------
(***************************************************************************)
(* The mount action: buildMountTree makes a tree of the index entries, the  *)
(* directories in sorted order, files and links in the random order of a    *)
(* map; addDirChildren then gives every node an inode.                      *)
(***************************************************************************)
EXTENDS IndexTree

CONSTANT ReadExec   \* mode 0555

VARIABLES
    stage,   \* "dirs", "files", "links", "inodes", "mounted"
    left,    \* entries this stage has still to add
    tree,    \* directories made so far -> mode
    leaves,  \* files and links added so far
    ino,     \* nodes that have an inode -> its number
    nextIno

mountVars == <<entries, stage, left, tree, leaves, ino, nextIno>>

OfKind(k) == {p \in Paths : entries[p].kind = k}

MountInit ==
    /\ entries \in Indexes
    /\ stage = "dirs" /\ left = OfKind("dir")
    /\ tree = [p \in {Root} |-> ReadExec] /\ leaves = {}
    /\ ino = [p \in {Root} |-> 1] /\ nextIno = 1

\* Mutant: a directory that is there already gets the mode 0 of the caller.
EnsureDirReset(t, p, mode) ==
    [d \in DOMAIN t \cup Above(p) \cup {p} |->
        IF d = p /\ p # Root THEN mode
        ELSE IF d \in DOMAIN t THEN t[d] ELSE ReadExec]

\* ensureDir: missing directories get 0555; the last one its mode, unless that
\* is 0 or it is the root.
EnsureDir(t, p, mode) ==
    [d \in DOMAIN t \cup Above(p) \cup {p} |->
        IF d = p /\ p # Root /\ mode # 0 THEN mode
        ELSE IF d \in DOMAIN t THEN t[d] ELSE ReadExec]

AddDir(p) ==
    /\ stage = "dirs" /\ p \in left /\ Above(p) \cap left = {}
    /\ tree' = EnsureDir(tree, p, entries[p].mode)
    /\ left' = left \ {p}
    /\ UNCHANGED <<entries, stage, leaves, ino, nextIno>>

AddLeaf(p) ==
    /\ stage \in {"files", "links"} /\ p \in left
    /\ tree' = EnsureDir(tree, Parent(p), 0)
    /\ leaves' = leaves \cup {p}
    /\ left' = left \ {p}
    /\ UNCHANGED <<entries, stage, ino, nextIno>>

\* From one loop to the next.
NextStage ==
    /\ left = {}
    /\ \/ stage = "dirs"   /\ stage' = "files"  /\ left' = OfKind("file")
       \/ stage = "files"  /\ stage' = "links"  /\ left' = OfKind("link")
       \/ stage = "links"  /\ stage' = "inodes" /\ left' = (DOMAIN tree \cup leaves) \ {Root}
       \/ stage = "inodes" /\ stage' = "mounted" /\ UNCHANGED left
    /\ UNCHANGED <<entries, tree, leaves, ino, nextIno>>

\* nextStable, for a child whose parent is in the tree of inodes.
AddChild(p) ==
    /\ stage = "inodes" /\ p \in left /\ Parent(p) \notin left
    /\ nextIno' = nextIno + 1
    /\ ino' = [q \in DOMAIN ino \cup {p} |-> IF q = p THEN nextIno' ELSE ino[q]]
    /\ left' = left \ {p}
    /\ UNCHANGED <<entries, stage, tree, leaves>>

MountStep ==
    \/ NextStage
    \/ \E p \in left : AddDir(p) \/ AddLeaf(p) \/ AddChild(p)

MountSpec == MountInit /\ [][MountStep]_mountVars

-----------------------------------------------------------------------------
\* Whatever order the maps are visited in, the mounted tree is the index: its
\* files and links, its directories with their modes, and above them no more
\* than the missing parents, readable by all.  The exceptions are all there
\* are: the root never takes the mode of its entry, and mode 0 shows as 0555.
\* Every node has an inode of its own, also the root, whose number is fixed.
MountShowsIndex ==
    stage = "mounted" =>
        /\ leaves = Paths \ Dirs
        /\ DOMAIN tree = {Root} \cup Dirs \cup UNION {Above(p) : p \in Paths}
        /\ \A d \in DOMAIN tree :
              tree[d] = IF d \in Dirs \ {Root} /\ entries[d].mode # 0
                        THEN entries[d].mode ELSE ReadExec
        /\ DOMAIN ino = DOMAIN tree \cup leaves
        /\ \A p, q \in DOMAIN ino : ino[p] = ino[q] => p = q
=============================================================================
