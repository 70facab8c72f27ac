---------------------------- MODULE VerifyProofs ----------------------------
(* Proofs about ScanFiles and Verify: for any names, pages of any size, and  *)
(* any number of changes of bucket and files.                                *)
EXTENDS Verify, TLAPS

\* What was there all the time, up to the marker, has been seen.
ScanInv ==
    /\ ScanTypeOK
    /\ seen \subseteq ever
    /\ scan = "asking" => bucket \subseteq ever
    /\ scan # "idle" => throughout \subseteq bucket
    /\ scan = "asking" => \A n \in throughout : n <= marker => n \in seen
    /\ scan = "done" => throughout \subseteq seen

LEMMA ScanInitInv == ScanInit => ScanInv
  BY DEF ScanInit, ScanInv, ScanTypeOK

LEMMA BeginScanInv == ScanInv /\ BeginScan => ScanInv'
  BY ScanAssumption DEF BeginScan, ScanInv, ScanTypeOK

LEMMA GetPageInv ==
  ASSUME ScanInv, NEW page \in Pages, GetPage(page)
  PROVE  ScanInv'
<1>1. /\ page \subseteq Rest /\ Rest \subseteq bucket
      /\ \A n \in page, m \in Rest : m < n => m \in page
  BY DEF Pages, Rest
<1>2. ScanTypeOK'
  BY <1>1 DEF GetPage, ScanInv, ScanTypeOK
<1>3. seen' \subseteq ever' /\ bucket' \subseteq ever' /\ throughout' \subseteq bucket'
  BY <1>1 DEF GetPage, ScanInv
<1>4. ASSUME NEW n \in throughout PROVE n <= marker \/ n \in Rest
  BY ScanAssumption DEF GetPage, ScanInv, ScanTypeOK, Rest
<1>5. CASE page = Rest
  <2>1. scan' = "done" /\ seen' = seen \cup page /\ UNCHANGED throughout
    BY <1>5 DEF GetPage
  <2>2. throughout \subseteq seen'
    BY <1>4, <1>5, <2>1 DEF GetPage, ScanInv
  <2> QED BY <1>2, <1>3, <2>1, <2>2 DEF ScanInv
<1>6. CASE page # Rest
  <2>1. PICK last \in page : (\A m \in page : m <= last) /\ marker' = last
    BY <1>6 DEF GetPage
  <2>2. scan' = "asking" /\ seen' = seen \cup page /\ UNCHANGED throughout
    BY <1>6 DEF GetPage
  <2>3. ASSUME NEW n \in throughout, n <= marker' PROVE n \in seen'
    <3>1. CASE n \in Rest
      BY <1>1, <2>1, <2>2, <2>3, <3>1, ScanAssumption DEF ScanInv, ScanTypeOK
    <3>2. CASE n \notin Rest
      BY <1>4, <2>2, <3>2 DEF GetPage, ScanInv
    <3> QED BY <3>1, <3>2
  <2> QED BY <1>2, <1>3, <2>2, <2>3 DEF ScanInv
<1> QED BY <1>5, <1>6

LEMMA ScanStepInv == ScanInv /\ ScanStep => ScanInv'
<1>1. ASSUME ScanInv, GetFails PROVE ScanInv'
  BY <1>1 DEF GetFails, ScanInv, ScanTypeOK
<1> QED BY <1>1, GetPageInv DEF ScanStep

LEMMA ObjectsInv ==
  ASSUME ScanInv, NEW n \in Name, ObjectAdded(n) \/ ObjectRemoved(n)
  PROVE  ScanInv'
<1>1. CASE ObjectAdded(n)
  BY <1>1 DEF ObjectAdded, ScanInv, ScanTypeOK
<1>2. CASE ObjectRemoved(n)
  BY <1>2 DEF ObjectRemoved, ScanInv, ScanTypeOK
<1> QED BY <1>1, <1>2

LEMMA ScanStutterInv == ScanInv /\ UNCHANGED scanVars => ScanInv'
  BY DEF scanVars, ScanInv, ScanTypeOK

\* The pages of ScanFiles account for the bucket as far as the marker, whatever
\* comes and goes between them.
THEOREM ScanInductive == ScanSpec => []ScanInv
<1>1. ScanInv /\ [ScanNext]_scanVars => ScanInv'
  BY BeginScanInv, ScanStepInv, ObjectsInv, ScanStutterInv DEF ScanNext
<1> QED BY <1>1, ScanInitInv, PTL DEF ScanSpec

\* A scan that succeeds has met every object that was there all the time, and
\* none that never was.
THEOREM ScanAlwaysExact == ScanSpec => []ScanExact
<1>1. ScanInv => ScanExact
  BY DEF ScanInv, ScanExact
<1> QED BY <1>1, ScanInductive, PTL

-----------------------------------------------------------------------------
\* The scan belongs to its stage of the action.
StageInv ==
    /\ verify \in {"ready", "load"} => scan = "idle"
    /\ verify = "list" => scan = "asking"
    /\ verify \in {"walk", "hash", "ok", "unmatched"} => scan = "done"
    /\ verify = "ready" => steady = {}
    /\ verify \in {"ready", "load", "list"} => uf = {}
    /\ verify \in {"load", "list"} => todo = Path
    /\ verify = "ok" => uf = {} /\ todo = {}

\* The file that is about to be hashed is a file, as its stat reported.
OpenedInv ==
    verify = "hash" =>
        /\ opened \in Path \X Entries
        /\ opened[2].kind = "file"
        /\ opened[1] \in steady => files[opened[1]] = opened[2]

Agrees(p) == files[p] # Absent => index[p] = files[p] /\ ChunkIn(files[p], ever)

\* A steady path has still to be visited, is being hashed, is reported or agrees.
WalkedInv ==
    verify \in {"walk", "hash", "ok"} =>
        \A p \in steady : \/ p \in todo \/ p \in uf
                          \/ verify = "hash" /\ p = opened[1]
                          \/ Agrees(p)

VerifyInv ==
    /\ ScanInv /\ VerifyTypeOK
    /\ StageInv /\ OpenedInv /\ WalkedInv /\ NoFalseAlarm

LEMMA VerifyInitInv == ScanInit /\ VerifyInit => VerifyInv
<1> SUFFICES ASSUME ScanInit, VerifyInit PROVE VerifyInv
  OBVIOUS
<1>1. ScanInv /\ scan = "idle"
  BY ScanInitInv DEF ScanInit
<1> QED BY <1>1
    DEF VerifyInit, VerifyInv, VerifyTypeOK, StageInv, OpenedInv, WalkedInv, NoFalseAlarm

\* The steps before the walk.
LEMMA PrepareInv ==
  ASSUME VerifyInv, BeginVerify \/ IndexLoaded \/ ListChunks \/ Broken
  PROVE  VerifyInv'
<1> USE DEF VerifyInv, VerifyTypeOK, StageInv, OpenedInv, WalkedInv, NoFalseAlarm
<1>1. CASE BeginVerify
  BY <1>1, ScanStutterInv DEF BeginVerify, scanVars
<1>2. CASE IndexLoaded
  <2>1. ScanInv' /\ scan' = "asking"
    BY <1>2, BeginScanInv DEF IndexLoaded, BeginScan
  <2> QED BY <1>2, <2>1 DEF IndexLoaded
<1>3. CASE ListChunks
  <2>1. ScanInv' /\ scan' \in {"asking", "done", "failed"}
    BY <1>3, ScanStepInv DEF ListChunks, ScanStep, GetPage, GetFails
  <2> QED BY <1>3, <2>1 DEF ListChunks
<1>4. CASE Broken
  <2>1. ScanInv' /\ scan' = scan /\ throughout' = throughout
    BY <1>4, ScanStutterInv DEF Broken, scanVars
  <2> QED BY <1>4, <2>1 DEF Broken, ChunkIn
<1> QED BY <1>1, <1>2, <1>3, <1>4

\* A path is visited that is not a file.
LEMMA VisitInv ==
  ASSUME VerifyInv, NEW p \in Path, NotMet(p) \/ VisitOther(p) \/ StatFile(p)
  PROVE  VerifyInv'
<1> USE DEF VerifyInv, VerifyTypeOK, StageInv, OpenedInv, WalkedInv, NoFalseAlarm, Agrees, ChunkIn
<1>0. /\ ScanInv' /\ scan' = scan /\ throughout' = throughout /\ ever' = ever
  BY ScanStutterInv DEF NotMet, VisitOther, StatFile, scanVars
<1>1. CASE NotMet(p)
  BY <1>0, <1>1 DEF NotMet
<1>2. CASE VisitOther(p)
  BY <1>0, <1>2 DEF VisitOther
<1>3. CASE StatFile(p)
  <2>1. files[p] \in Entries /\ opened' = <<p, files[p]>>
    BY <1>3 DEF StatFile
  <2> QED BY <1>0, <1>3, <2>1 DEF StatFile
<1> QED BY <1>1, <1>2, <1>3

\* The stat of a file and the key that its content hashed to.
LEMMA HashedInv == ASSUME VerifyInv, HashFile PROVE VerifyInv'
<1> USE DEF VerifyInv, VerifyTypeOK, StageInv, OpenedInv, WalkedInv, NoFalseAlarm, Agrees, ChunkIn
<1> DEFINE p == opened[1]
           f == opened[2]
<1>0. /\ ScanInv' /\ scan' = scan /\ throughout' = throughout /\ ever' = ever
      /\ throughout \subseteq seen /\ seen \subseteq ever
  BY ScanStutterInv DEF HashFile, scanVars, ScanInv
<1>1. PICK k \in KeyRead(p) :
        uf' = IF Matched(p, [f EXCEPT !.key = k]) THEN uf ELSE uf \cup {p}
  BY DEF HashFile
<1>2. /\ p \in Path /\ f \in Entries /\ f.kind = "file" /\ verify = "hash"
      /\ verify' = "walk" /\ opened' = Nowhere
      /\ UNCHANGED <<index, files, todo, steady>>
  BY DEF HashFile
<1>3. ASSUME p \in steady PROVE files[p] = f /\ [f EXCEPT !.key = k] = f
  <2>1. files[p] = f /\ k = f.key
    BY <1>1, <1>2, <1>3 DEF KeyRead
  <2>2. f \in [kind : {"file", "dir", "link"}, attr : Nat, key : Name \cup {0}]
    BY <1>2, VerifyAssumption
  <2> QED BY <2>1, <2>2
<1>4. ASSUME p \in steady, p \notin uf' PROVE Agrees(p)
  BY <1>0, <1>1, <1>2, <1>3, <1>4 DEF Matched
<1>5. ASSUME p \in steady, p \in uf'
      PROVE  \/ p \in uf
             \/ ~(index[p] = files[p] /\ ChunkIn(files[p], throughout))
  BY <1>0, <1>1, <1>2, <1>3, <1>5 DEF Matched
<1>6. uf' = uf \/ uf' = uf \cup {p}
  BY <1>1
<1>7. NoFalseAlarm'
  BY <1>0, <1>2, <1>5, <1>6
<1>8. WalkedInv'
  BY <1>0, <1>2, <1>4, <1>6
<1> QED BY <1>0, <1>2, <1>6, <1>7, <1>8

LEMMA HashFailsInv == ASSUME VerifyInv, HashFails PROVE VerifyInv'
<1> USE DEF VerifyInv, VerifyTypeOK, StageInv, OpenedInv, WalkedInv, NoFalseAlarm, Agrees, ChunkIn
<1>0. /\ ScanInv' /\ scan' = scan /\ throughout' = throughout /\ ever' = ever
  BY ScanStutterInv DEF HashFails, scanVars
<1>1. opened[1] \in Path
  BY DEF HashFails
<1> QED BY <1>0, <1>1 DEF HashFails

LEMMA WalkDoneInv == ASSUME VerifyInv, WalkDone PROVE VerifyInv'
<1> USE DEF VerifyInv, VerifyTypeOK, StageInv, OpenedInv, WalkedInv, NoFalseAlarm, Agrees, ChunkIn
<1>0. /\ ScanInv' /\ scan' = scan /\ throughout' = throughout /\ ever' = ever
  BY ScanStutterInv DEF WalkDone, scanVars
<1> QED BY <1>0 DEF WalkDone

\* What the user and other users of the bucket do.
LEMMA AroundInv ==
  ASSUME VerifyInv,
         BucketChanged \/ \E p \in Path, e \in Entries \cup {Absent} : FileChanged(p, e)
  PROVE  VerifyInv'
<1> USE DEF VerifyInv, VerifyTypeOK, StageInv, OpenedInv, WalkedInv, NoFalseAlarm, Agrees, ChunkIn
<1>1. CASE BucketChanged
  <2>1. PICK n \in Name : ObjectAdded(n) \/ ObjectRemoved(n)
    BY <1>1 DEF BucketChanged
  <2>2. /\ ScanInv' /\ scan' = scan
        /\ throughout' \subseteq throughout /\ ever \subseteq ever'
    BY <2>1, ObjectsInv DEF ObjectAdded, ObjectRemoved
  <2>3. UNCHANGED walkVars
    BY <1>1 DEF BucketChanged
  <2> QED BY <2>2, <2>3 DEF walkVars
<1>2. ASSUME NEW p \in Path, NEW e \in Entries \cup {Absent}, FileChanged(p, e)
      PROVE  VerifyInv'
  <2>1. /\ ScanInv' /\ scan' = scan /\ throughout' = throughout /\ ever' = ever
    BY <1>2, ScanStutterInv DEF FileChanged, scanVars
  <2>2. /\ steady' = steady \ {p} /\ \A q \in Path \ {p} : files'[q] = files[q]
        /\ files' \in [Path -> Entries \cup {Absent}]
        /\ UNCHANGED <<verify, index, todo, opened, uf>>
    BY <1>2 DEF FileChanged
  <2> QED BY <2>1, <2>2
<1> QED BY <1>1, <1>2

\* What verifyFiles has visited so far and did not report is in the index and in
\* the bucket, as far as it stayed unchanged.
THEOREM VerifyInductive == VerifySpec => []VerifyInv
<1>1. ASSUME VerifyInv, [VerifyNext]_<<scanVars, walkVars>> PROVE VerifyInv'
  <2>1. CASE VerifyStep
    BY <1>1, <2>1, PrepareInv, VisitInv, HashedInv, HashFailsInv, WalkDoneInv DEF VerifyStep
  <2>2. CASE UNCHANGED <<scanVars, walkVars>>
    <3>1. ScanInv' /\ UNCHANGED scanVars
      BY <1>1, <2>2, ScanStutterInv DEF VerifyInv
    <3> QED BY <1>1, <2>2, <3>1
        DEF VerifyInv, VerifyTypeOK, StageInv, OpenedInv, WalkedInv, NoFalseAlarm, Agrees,
            ChunkIn, scanVars, walkVars
  <2> QED BY <1>1, <2>1, <2>2, AroundInv DEF VerifyNext
<1> QED BY <1>1, VerifyInitInv, PTL DEF VerifySpec

\* A passed verification means that what did not change meanwhile is in the
\* index as it is, and its chunk was in the bucket.
THEOREM VerifiedAlwaysBacked == VerifySpec => []VerifiedMeansBacked
<1>1. VerifyInv => VerifiedMeansBacked
  BY DEF VerifyInv, StageInv, WalkedInv, Agrees, VerifiedMeansBacked
<1> QED BY <1>1, VerifyInductive, PTL

\* What agrees with the index and stays so is never reported.
THEOREM NeverFalseAlarm == VerifySpec => []NoFalseAlarm
<1>1. VerifyInv => NoFalseAlarm
  BY DEF VerifyInv
<1> QED BY <1>1, VerifyInductive, PTL
=============================================================================
