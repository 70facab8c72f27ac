----------------------------- MODULE MCInspect -----------------------------
(***************************************************************************)
(* Instances for TLC of the parts that share no state with one another: the *)
(* retry loop of an upload, verify with its paged scan, the sampled hash,   *)
(* the path codec, browse and mount.  A behaviour runs one of them.         *)
(***************************************************************************)
EXTENDS UploadFile, Verify, SampledHash, PathCodec, Browse, Mount, TLC, FiniteSetsExt

CONSTANTS p1, p2, word, esc, odd, colon, scheme, MaxChanges

VARIABLES
    tool,      \* the part that this behaviour runs
    changes    \* of files and bucket so far, at most MaxChanges

vars == <<tool, changes, uploadVars, scanVars, walkVars, hashVars, codecVars, cleans, page, mountVars>>

Retried == {-1, 0, 2}

\* Two files that differ in chunk and one that differs in mtime, a directory.
OfPath ==
    {[kind |-> "file", attr |-> 1, key |-> 1], [kind |-> "file", attr |-> 1, key |-> 2],
     [kind |-> "file", attr |-> 2, key |-> 1], [kind |-> "dir", attr |-> 1, key |-> 0]}

\* "E", the three bytes of the quote rune, and a byte of no rune.
Alphabet == {69, 226, 128, 155, 254}

Strings(n) == UNION {[1 .. k -> Alphabet] : k \in 1 .. n}

\* A surrogate: the bytes of a rune but for the range of the second.
Surrogate == <<237, 160, 128>>

\* Paths that one another's encoding could be mistaken for: FE and what quotes
\* it, the quote rune, what doubles it, and its bytes one by one.
Lookalikes ==
    {<<254>>, Quote, Quote \o <<70, 69>>, Quote \o <<69, 50>>, Quote \o Quote,
     Quote \o Quote \o <<70, 69>>, <<226>>, <<226, 128>>, <<128, 155>>, <<226, 254, 155>>,
     Surrogate, EncodePath(Surrogate)}

Keyed(S) == [s \in S |-> s]

ScannedMaps ==
    {Keyed({s}) : s \in Strings(5)} \cup {Keyed(S) : S \in kSubset(2, Lookalikes)}

\* Index files edited by hand: any valid text, also escapes encodePath never writes.
EditedMaps ==
    {Keyed({s}) : s \in {t \in Lookalikes : ValidString(t)}}
    \cup {Keyed(S) : S \in kSubset(2, {<<69>>, Quote \o <<52, 53>>, Quote \o <<102, 101>>,
                                       Quote \o <<70, 69>>, Quote, Quote \o <<69>>})}

\* "%41" reads like an escape of the word "A"; "%zz" like one that is not valid.
Unescaped ==
    (word :> word) @@ (esc :> word) @@ (odd :> Bad) @@ (colon :> colon) @@ (scheme :> scheme)

\* Up to three entries out of eight paths, or up to two out of six with a colon
\* in a name ("a:b", or "http:b"); nothing lies below a file.
SomeIndexes ==
    LET shapes == {<<>>, <<word>>, <<esc>>, <<odd>>, <<word, word>>, <<word, esc>>,
                   <<esc, word>>, <<word, word, word>>}
        colons == {<<>>, <<colon>>, <<scheme>>, <<word, colon>>, <<colon, word>>, <<word>>}
        marks  == {[kind |-> "dir", mode |-> 0], [kind |-> "dir", mode |-> 493],
                   [kind |-> "file", mode |-> 0], [kind |-> "link", mode |-> 0]}
        all    == UNION {[S -> marks] : S \in UNION {kSubset(n, shapes) : n \in 0 .. 3}
                                        \cup UNION {kSubset(n, colons) : n \in 1 .. 2}}
    IN {e \in all : \A p \in DOMAIN e : /\ p = Root => e[p].kind = "dir"
                                        /\ \A q \in Above(p) \cap DOMAIN e : e[q].kind = "dir"}

NoEntries == [p \in {} |-> Bad]

\* The index and the files agree on all paths but one, where they may differ.
DifferAtP1 == \A p \in Path \ {p1} : index[p] = files[p]

UploadOff == retries = 0 /\ call = "ready" /\ turn = 0 /\ answer = "none" /\ stored = FALSE

VerifyOff ==
    /\ bucket = {} /\ scan = "idle" /\ marker = 0 /\ seen = {} /\ throughout = {} /\ ever = {}
    /\ index = [p \in Path |-> Absent] /\ files = index
    /\ verify = "ready" /\ todo = {} /\ opened = Nowhere /\ uf = {} /\ steady = {}

HashOff ==
    size = 0 /\ length = 0 /\ still = TRUE /\ hash = "open" /\ read = {} /\ twice = {}

CodecOff == codec = "loaded" /\ memory = NoMap /\ disk = NoMap /\ saved = NoMap

BrowseOff == cleans = FALSE /\ page = Blank

MountOff ==
    /\ stage = "dirs" /\ left = {} /\ tree = NoEntries /\ leaves = {}
    /\ ino = NoEntries /\ nextIno = 1

TreeOff == entries = NoEntries

Init ==
    /\ changes = 0
    /\ \/ tool = "upload" /\ UploadInit /\ VerifyOff /\ HashOff /\ CodecOff /\ TreeOff /\ BrowseOff /\ MountOff
       \/ tool = "verify" /\ ScanInit /\ VerifyInit /\ DifferAtP1 /\ UploadOff /\ HashOff /\ CodecOff /\ TreeOff /\ BrowseOff /\ MountOff
       \/ tool = "hash" /\ HashInit /\ UploadOff /\ VerifyOff /\ CodecOff /\ TreeOff /\ BrowseOff /\ MountOff
       \/ tool = "codec" /\ CodecInit /\ UploadOff /\ VerifyOff /\ HashOff /\ TreeOff /\ BrowseOff /\ MountOff
       \/ tool = "browse" /\ BrowseInit /\ UploadOff /\ VerifyOff /\ HashOff /\ CodecOff /\ MountOff
       \/ tool = "mount" /\ MountInit /\ UploadOff /\ VerifyOff /\ HashOff /\ CodecOff /\ BrowseOff

uploads == uploadVars
verifies == <<scanVars, walkVars>>

\* What the program does by itself, and what happens around it.
Steps ==
    \/ /\ tool = "upload" /\ UploadStep
       /\ UNCHANGED <<verifies, hashVars, codecVars, browseVars, mountVars>>
    \/ /\ tool = "verify" /\ VerifyStep
       /\ UNCHANGED <<uploads, hashVars, codecVars, browseVars, mountVars>>
    \/ /\ tool = "hash" /\ HashStep
       /\ UNCHANGED <<uploads, verifies, codecVars, browseVars, mountVars>>
    \/ /\ tool = "codec" /\ CodecNext
       /\ UNCHANGED <<uploads, verifies, hashVars, browseVars, mountVars>>
    \/ /\ tool = "browse" /\ BrowseStep
       /\ UNCHANGED <<uploads, verifies, hashVars, codecVars, mountVars>>
    \/ /\ tool = "mount" /\ MountStep
       /\ UNCHANGED <<uploads, verifies, hashVars, codecVars, browseVars>>

Around ==
    /\ changes < MaxChanges /\ changes' = changes + 1
    /\ UNCHANGED <<tool, uploads, codecVars, browseVars, mountVars>>
    /\ \/ tool = "verify" /\ BucketChanged /\ UNCHANGED hashVars
       \/ /\ tool = "verify" /\ UNCHANGED hashVars
          /\ \E p \in Path, e \in Entries \cup {Absent} : FileChanged(p, e)
       \/ /\ tool = "hash" /\ UNCHANGED verifies
          /\ \E n \in Sizes : Resized(n)

OwnStep == Steps /\ UNCHANGED <<tool, changes>>

Next == OwnStep \/ Around

Spec == Init /\ [][Next]_vars

\* The process is scheduled and its requests are answered; no LIST has to fail.
FairSpec == Spec /\ WF_vars(OwnStep /\ scan' # "failed")
=============================================================================
