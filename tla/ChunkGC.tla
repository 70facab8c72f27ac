------------------------------ MODULE ChunkGC ------------------------------
(***************************************************************************)
(* Index.DeleteOutdatedChunks: delete the chunks whose mark has expired and *)
(* that have been stored for the minimum billing period.  Both a backup and *)
(* an fsck run it, each on the index it is about to publish.                *)
(***************************************************************************)
EXTENDS ArchiveState

\* Mutant: a mark that expires this very second counts as expired.
StartGcEarly(marks) ==
    /\ pc' = "gc"
    /\ gcTime' = now
    /\ gcTodo' = {k \in Marked(marks) : now >= marks[k]}

\* The clock is read once, and a mark is looked at when it lies before it.
StartGc(marks) ==
    /\ pc' = "gc"
    /\ gcTime' = now
    /\ gcTodo' = {k \in Marked(marks) : now > marks[k]}

\* lmt: the end of the billing period, 0 for an object that is not there.
BilledUntil(k) == IF k \in Stored THEN objects[k].modified + Billing ELSE 0

FixedMark(k) == IF BilledUntil(k) > local.marks[k] THEN BilledUntil(k) ELSE local.marks[k]

SetMark(k, t) == local' = [local EXCEPT !.marks = [@ EXCEPT ![k] = t]]

GcStep(k) ==
    /\ pc = "gc" /\ k \in gcTodo
    /\ gcTodo' = gcTodo \ {k}
    /\ UNCHANGED <<envVars, latest, pc, runVars, scanVars, remote, uploadVars,
                   gcTime, skipped>>

\* The HEAD fails: the error is collected and the loop goes on.
GcHeadFails(k) ==
    /\ GcStep(k)
    /\ failed' = TRUE
    /\ UNCHANGED <<local, objects>>

\* Still within the billing period: the mark is moved to its end.
GcKeep(k) ==
    /\ GcStep(k)
    /\ gcTime <= BilledUntil(k)
    /\ SetMark(k, FixedMark(k))
    /\ UNCHANGED <<objects, failed>>

\* Mutant: an object that is gone already is counted as an error.
GcDeleteNotFound(k) ==
    /\ GcStep(k)
    /\ gcTime > BilledUntil(k)
    /\ objects' = [objects EXCEPT ![k] = NoObject]
    /\ failed' = (failed \/ k \notin Stored)
    /\ SetMark(k, NoMark)

GcDelete(k) ==
    /\ GcStep(k)
    /\ gcTime > BilledUntil(k)
    /\ objects' = [objects EXCEPT ![k] = NoObject]
    /\ SetMark(k, NoMark)
    /\ UNCHANGED failed

\* The DELETE reports an error; the object may be gone all the same.
GcDeleteFails(k) ==
    /\ GcStep(k)
    /\ gcTime > BilledUntil(k)
    /\ \/ UNCHANGED objects
       \/ objects' = [objects EXCEPT ![k] = NoObject]
    /\ SetMark(k, FixedMark(k))
    /\ failed' = TRUE

\* What one marked chunk can undergo.
GcChunk(k) == GcHeadFails(k) \/ GcKeep(k) \/ GcDelete(k) \/ GcDeleteFails(k)
=============================================================================
