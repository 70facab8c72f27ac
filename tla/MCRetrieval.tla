---------------------------- MODULE MCRetrieval ----------------------------
(* Instances of Retrieval for TLC: two files that share a chunk and one that *)
(* does not, a symbolic link, and a directory inside another.                *)
EXTENDS Retrieval, TLC

CONSTANTS k1, k2, f1, f2, f3, s1, root, outer, inner

Shared  == (f1 :> k1) @@ (f2 :> k1) @@ (f3 :> k2)

\* One mode that forbids writing, one that forbids reading, one that does neither.
Attrs ==
    (f1 :> [mode |-> "ro", mtime |-> 1]) @@ (f2 :> [mode |-> "wo", mtime |-> 2])
        @@ (f3 :> [mode |-> "rw", mtime |-> 2])

Nested  == (root :> {}) @@ (outer :> {root}) @@ (inner :> {root, outer})
InOuter == [x \in File \cup Symlink |-> outer]

\* A directory that its owner cannot write to, inside one that he can.
ReadOnlyInner == (outer :> "rw") @@ (inner :> "ro")
=============================================================================
