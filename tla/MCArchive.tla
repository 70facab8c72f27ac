----------------------------- MODULE MCArchive -----------------------------
(* Instances of Archive for TLC. *)
EXTENDS ArchiveInv

CONSTANTS c1, c2, p1, p2

\* Contents of one size and different hashes: only the mtime tells them apart.
SameSize == [c \in Content |-> 1]
\* No two contents collide under the sampled hash.
OwnHash == [c \in Content |-> c]

OneRoot   == {Path}
RootEach  == {{p} : p \in Path}
=============================================================================
