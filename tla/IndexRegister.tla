--------------------------- MODULE IndexRegister ---------------------------
(***************************************************************************)
(* What the versioned index promises to backup and fsck: it behaves as one  *)
(* register.  A publication replaces its value in one step, and a load      *)
(* delivers the value of that moment.  Archive relies on this: its variable *)
(* latest is the register.                                                  *)
(***************************************************************************)
CONSTANTS Body,      \* the indexes that can be published
          Nothing    \* no index

VARIABLES value,     \* the published index
          loaded     \* what the last load delivered

Init == value \in Body \cup {Nothing} /\ loaded = Nothing

Publish(b) == value' = b /\ UNCHANGED loaded

Load == loaded' = value /\ UNCHANGED value

Next == Load \/ \E b \in Body : Publish(b)

Spec == Init /\ [][Next]_<<value, loaded>>
=============================================================================
