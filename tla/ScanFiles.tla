----------------------------- MODULE ScanFiles -----------------------------
(***************************************************************************)
(* COS.ScanFiles: the objects under a prefix, one page after another, while *)
(* others add and remove objects.  Object names are numbers in the order in *)
(* which the bucket lists them.                                             *)
(***************************************************************************)
EXTENDS Naturals, FiniteSets

CONSTANTS
    Name,      \* names under the prefix
    MaxKeys    \* objects in a page at most, 1000 in the code

ASSUME ScanAssumption == Name \subseteq Nat \ {0} /\ MaxKeys \in Nat \ {0}

VARIABLES
    bucket,      \* the objects there are
    scan,        \* "idle", "asking", "done" or "failed"
    marker,      \* opt.Marker: the last name of the last page, 0 at first
    seen,        \* names the callback was given
    throughout,  \* history: names that were there since the scan began
    ever         \* history: names that were there at some time of the scan

scanVars == <<bucket, scan, marker, seen, throughout, ever>>

ScanTypeOK ==
    /\ bucket \subseteq Name /\ seen \subseteq Name
    /\ throughout \subseteq Name /\ ever \subseteq Name
    /\ scan \in {"idle", "asking", "done", "failed"}
    /\ marker \in Name \cup {0}

ScanInit ==
    /\ bucket \in SUBSET Name
    /\ scan = "idle" /\ marker = 0
    /\ seen = {} /\ throughout = {} /\ ever = {}

Rest == {n \in bucket : n > marker}

\* What the bucket may answer: the next names, at least one if there is one.
Pages == {S \in SUBSET Rest : /\ \A n \in S, m \in Rest : m < n => m \in S
                              /\ Cardinality(S) <= MaxKeys
                              /\ S = {} => Rest = {}}

BeginScan ==
    /\ scan = "idle"
    /\ scan' = "asking" /\ marker' = 0 /\ seen' = {}
    /\ throughout' = bucket /\ ever' = bucket
    /\ UNCHANGED bucket

\* Mutant: the last page is not handed to the callback.
GetPageTruncatedFirst(page) ==
    /\ scan = "asking"
    /\ IF page = Rest
       THEN scan' = "done" /\ UNCHANGED <<marker, seen>>
       ELSE /\ \E n \in page : (\A m \in page : m <= n) /\ marker' = n
            /\ seen' = seen \cup page
            /\ UNCHANGED scan
    /\ UNCHANGED <<bucket, throughout, ever>>

\* Mutant: every request is sent without the marker.
GetPageUnmarked(page) ==
    /\ scan = "asking"
    /\ seen' = seen \cup page
    /\ IF page = Rest THEN scan' = "done" ELSE UNCHANGED scan
    /\ UNCHANGED <<bucket, marker, throughout, ever>>

\* Mutant: the marker is the first name of the next page, which is skipped.
GetPageSkipping(page) ==
    /\ scan = "asking"
    /\ seen' = seen \cup page
    /\ IF page = Rest
       THEN scan' = "done" /\ UNCHANGED marker
       ELSE /\ \E n \in Rest \ page : (\A m \in Rest \ page : n <= m) /\ marker' = n
            /\ UNCHANGED scan
    /\ UNCHANGED <<bucket, throughout, ever>>

GetPage(page) ==
    /\ scan = "asking"
    /\ seen' = seen \cup page
    /\ IF page = Rest
       THEN scan' = "done" /\ UNCHANGED marker
       ELSE /\ \E n \in page : (\A m \in page : m <= n) /\ marker' = n
            /\ UNCHANGED scan
    /\ UNCHANGED <<bucket, throughout, ever>>

\* What was collected so far is dropped by every caller.
GetFails ==
    /\ scan = "asking" /\ scan' = "failed"
    /\ UNCHANGED <<bucket, marker, seen, throughout, ever>>

ScanStep == (\E page \in Pages : GetPage(page)) \/ GetFails

\* Others at work on the same bucket.
ObjectAdded(n) ==
    /\ bucket' = bucket \cup {n}
    /\ ever' = IF scan = "asking" THEN ever \cup {n} ELSE ever
    /\ UNCHANGED <<scan, marker, seen, throughout>>

ObjectRemoved(n) ==
    /\ bucket' = bucket \ {n} /\ throughout' = throughout \ {n}
    /\ UNCHANGED <<scan, marker, seen, ever>>

ScanNext ==
    \/ BeginScan \/ ScanStep
    \/ \E n \in Name : ObjectAdded(n) \/ ObjectRemoved(n)

ScanSpec == ScanInit /\ [][ScanNext]_scanVars

-----------------------------------------------------------------------------
\* A scan that succeeds has met every object that was there all the time and
\* none that never was, however the pages fell between the changes: fsck drops
\* the entries of chunks it did not meet and marks those it did.
ScanExact == scan = "done" => throughout \subseteq seen /\ seen \subseteq ever
=============================================================================
