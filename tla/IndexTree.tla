----------------------------- MODULE IndexTree -----------------------------
(***************************************************************************)
(* The entries of a loaded index, seen as a tree by browse and mount.  A    *)
(* path is the sequence of its names from the root of the file system.      *)
(***************************************************************************)
EXTENDS Naturals, Sequences

CONSTANT Indexes   \* the entries an index may have: path -> [kind, mode]

Root == <<>>

\* path.Dir; the root is its own parent.
Parent(p) == IF p = Root THEN Root ELSE SubSeq(p, 1, Len(p) - 1)

\* The directories above p, the root included.
Above(p) == {SubSeq(p, 1, i) : i \in 0 .. Len(p) - 1}

\* What a scan leaves: the root is a directory, and nothing lies below a file.
ASSUME TreeAssumption ==
    \A e \in Indexes : \A p \in DOMAIN e :
        /\ p \in Seq({p[i] : i \in DOMAIN p})
        /\ e[p].kind \in {"dir", "file", "link"}
        /\ p = Root => e[p].kind = "dir"
        /\ \A q \in Above(p) \cap DOMAIN e : e[q].kind = "dir"

VARIABLE entries   \* index.Entries; mode matters for directories only

Paths == DOMAIN entries
Dirs  == {p \in Paths : entries[p].kind = "dir"}
=============================================================================
