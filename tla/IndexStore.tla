----------------------------- MODULE IndexStore -----------------------------
(***************************************************************************)
(* LoadRemote and UploadRemote: the index is kept in the bucket as versions *)
(* named meta.json.<seconds>, of which the newest counts and the oldest are *)
(* trimmed, and next to it as a cached file in the working directory.  An   *)
(* operation is a sequence of requests; the process can be killed between   *)
(* any two of them, and a request can fail with or without its effect.      *)
(*                                                                          *)
(* A body stands for a serialised index and for its SHA-1 at once: equal    *)
(* hashes are taken to mean equal indexes.  The LIST also delivers a copy   *)
(* whose name only begins with that of the index, such as meta.json.bak: it *)
(* is sorted, used and trimmed as a version of time 0.                      *)
(***************************************************************************)
EXTENDS Integers, FiniteSets

CONSTANTS
    Body,      \* the indexes that can be published
    Nothing,   \* no index, no cached file, no hash
    Keep,      \* versions to retain, 30 in the code
    MaxTime    \* bound of the clock

ASSUME StoreAssumption ==
    /\ Nothing \notin Body
    /\ Keep \in Nat \ {0}
    /\ MaxTime \in Nat \ {0}

VARIABLES
    now,       \* the wall clock; assumed not to step back
    versions,  \* the bucket's versions: time in the name -> body
    cached,    \* meta.json in the working directory
    pc,        \* the next request of the running operation
    op,        \* "load" or "upload"
    mine,      \* upload: the new index; load: the cached file's hash
    newest,    \* name of the newest version in the LIST, NoVersion if there is none
    trim,      \* versions that getLatestIndex still wants to delete
    rh,        \* x-cos-meta-hash of the newest version
    loaded,    \* what the last load delivered
    stubborn   \* whether removals of old versions can fail on this bucket

vars == <<now, versions, cached, pc, op, mine, newest, trim, rh, loaded, stubborn>>

Names == DOMAIN versions

NoVersion == -1

NewestOf(S) == IF S = {} THEN NoVersion ELSE CHOOSE t \in S : \A u \in S : u <= t

TypeOK ==
    /\ now \in 1..MaxTime
    /\ Names \subseteq 0..now
    /\ versions \in [Names -> Body]
    /\ cached \in Body \cup {Nothing}
    /\ pc \in {"idle", "list", "trim", "head", "use", "put", "rename"}
    /\ op \in {"load", "upload"}
    /\ mine \in Body \cup {Nothing}
    /\ newest \in Names \cup {NoVersion}
    /\ trim \subseteq 0..now
    /\ rh \in Body \cup {Nothing}
    /\ loaded \in Body \cup {Nothing}
    /\ stubborn \in BOOLEAN

Init ==
    /\ now = 1
    /\ versions \in [{} -> Body] \cup [{0} -> Body]
    /\ cached = Nothing
    /\ pc = "idle" /\ op = "load"
    /\ mine = Nothing /\ newest = NoVersion /\ trim = {} /\ rh = Nothing
    /\ loaded = Nothing
    /\ stubborn \in BOOLEAN

Finish == pc' = "idle" /\ op' = "load" /\ mine' = Nothing /\ newest' = NoVersion
          /\ trim' = {} /\ rh' = Nothing

Put(vs, b) == [t \in DOMAIN vs \cup {now} |-> IF t = now THEN b ELSE vs[t]]

-----------------------------------------------------------------------------
BeginLoad ==
    /\ pc = "idle"
    /\ pc' = "list" /\ op' = "load" /\ mine' = cached
    /\ UNCHANGED <<now, versions, cached, newest, trim, rh, loaded>>

BeginUpload(b) ==
    /\ pc = "idle"
    /\ pc' = "list" /\ op' = "upload" /\ mine' = b
    /\ UNCHANGED <<now, versions, cached, newest, trim, rh, loaded>>

\* Mutant: the versions are sorted oldest first.
SurplusNewest(S) == {t \in S : Cardinality({u \in S : u < t}) >= Keep}

\* Mutant: one version too many survives each trim.
SurplusLate(S) == {t \in S : Cardinality({u \in S : u > t}) > Keep}

\* getLatestIndex: newest first by the time in the name; what comes after the
\* first Keep is to be deleted.
Surplus(S) == {t \in S : Cardinality({u \in S : u > t}) >= Keep}

ListVersions ==
    /\ pc = "list"
    /\ pc' = "trim"
    /\ newest' = NewestOf(Names)
    /\ trim' = Surplus(Names)
    /\ UNCHANGED <<now, versions, cached, op, mine, rh, loaded>>

\* A deletion that fails is logged only.
TrimVersion(t) ==
    /\ pc = "trim" /\ t \in trim
    /\ trim' = trim \ {t}
    /\ \/ versions' = [u \in Names \ {t} |-> versions[u]]
       \/ stubborn /\ UNCHANGED versions
    /\ UNCHANGED <<now, cached, pc, op, mine, newest, rh, loaded>>

TrimDone ==
    /\ pc = "trim" /\ trim = {} /\ newest # NoVersion
    /\ pc' = "head"
    /\ UNCHANGED <<now, versions, cached, op, mine, newest, trim, rh, loaded>>

\* ErrIndexNotFound: a load ends with it, an upload goes on.
NotFound ==
    /\ pc = "trim" /\ trim = {} /\ newest = NoVersion
    /\ \/ op = "load" /\ Finish /\ loaded' = Nothing
       \/ op = "upload" /\ pc' = "put" /\ UNCHANGED <<op, mine, newest, trim, rh, loaded>>
    /\ UNCHANGED <<now, versions, cached>>

HeadNewest ==
    /\ pc = "head"
    /\ rh' = versions[newest]
    /\ pc' = IF op = "load" THEN "use" ELSE "put"
    /\ UNCHANGED <<now, versions, cached, op, mine, newest, trim, loaded>>

\* Mutant: any cached file is used.
UseCachedUnchecked ==
    /\ pc = "use" /\ mine # Nothing
    /\ loaded' = cached
    /\ Finish /\ UNCHANGED <<now, versions, cached>>

\* The cached file has the remote hash: it is read instead of the object.
UseCached ==
    /\ pc = "use" /\ mine # Nothing /\ mine = rh
    /\ loaded' = cached
    /\ Finish /\ UNCHANGED <<now, versions, cached>>

Download ==
    /\ pc = "use" /\ ~(mine # Nothing /\ mine = rh)
    /\ loaded' = versions[newest]
    /\ Finish /\ UNCHANGED <<now, versions, cached>>

\* Mutant: the version is named after a rounded-up time.
PutVersionRounded ==
    /\ pc = "put" /\ mine # rh
    /\ versions' = [t \in Names \cup {now + 1} |-> IF t = now + 1 THEN mine ELSE versions[t]]
    /\ pc' = "rename"
    /\ UNCHANGED <<now, cached, op, mine, newest, trim, rh, loaded>>

\* A new version, named after the second in which the request is built.
PutVersion ==
    /\ pc = "put" /\ mine # rh
    /\ versions' = Put(versions, mine)
    /\ pc' = "rename"
    /\ UNCHANGED <<now, cached, op, mine, newest, trim, rh, loaded>>

\* The version is written but UploadRemote sees an error.
PutLost ==
    /\ pc = "put" /\ mine # rh
    /\ versions' = Put(versions, mine)
    /\ Finish /\ UNCHANGED <<now, cached, loaded>>

SameIndex ==
    /\ pc = "put" /\ mine = rh
    /\ pc' = "rename"
    /\ UNCHANGED <<now, versions, cached, op, mine, newest, trim, rh, loaded>>

\* The temporary file takes the place of the cached one.
RenameTmp ==
    /\ pc = "rename"
    /\ cached' = mine
    /\ Finish /\ UNCHANGED <<now, versions, loaded>>

\* Any request fails without effect, or the process is killed.
Fail ==
    /\ pc # "idle"
    /\ Finish /\ UNCHANGED <<now, versions, cached, loaded>>

-----------------------------------------------------------------------------
(* The environment, between two operations: the clock, a working directory  *)
(* that is lost, and an action run from another working directory.          *)

Tick ==
    /\ now < MaxTime
    /\ now' = now + 1
    /\ UNCHANGED <<versions, cached, pc, op, mine, newest, trim, rh, loaded>>

LoseCache ==
    /\ pc = "idle" /\ cached # Nothing
    /\ cached' = Nothing
    /\ UNCHANGED <<now, versions, pc, op, mine, newest, trim, rh, loaded>>

UploadElsewhere(b) ==
    /\ pc = "idle"
    /\ b # (IF Names = {} THEN Nothing ELSE versions[NewestOf(Names)])
    /\ versions' = Put([t \in Names \ Surplus(Names) |-> versions[t]], b)
    /\ UNCHANGED <<now, cached, pc, op, mine, newest, trim, rh, loaded>>

Operation ==
    \/ BeginLoad \/ ListVersions \/ TrimDone \/ NotFound \/ HeadNewest
    \/ UseCached \/ Download \/ PutVersion \/ PutLost \/ SameIndex \/ RenameTmp \/ Fail
    \/ \E b \in Body : BeginUpload(b)
    \/ \E t \in trim : TrimVersion(t)

Next ==
    /\ \/ Operation
       \/ Tick \/ LoseCache
       \/ \E b \in Body : UploadElsewhere(b)
    /\ UNCHANGED stubborn

Spec == Init /\ [][Next]_vars

-----------------------------------------------------------------------------
\* The register of the abstract specification is the newest version.
NewestBody == IF Names = {} THEN Nothing ELSE versions[NewestOf(Names)]

Register == INSTANCE IndexRegister WITH value <- NewestBody, loaded <- loaded

\* Through kills, failed trims and lost answers, a load never delivers an old
\* index, and trimming never changes which index counts (README.en.md:
\* x-cos-meta-hash decides whether the cached index can be reused).
ImplementsRegister == Register!Spec

\* A version disappears only when Keep newer ones exist (README.en.md: the
\* latest 30 versions are retained).
TrimOldest == \A t \in Names \ Names' : Cardinality({u \in Names : u > t}) >= Keep

RetainsLatest == [][TrimOldest]_vars

\* Where deletions do not fail, the bucket never holds more than one version
\* beyond the limit, however many operations are killed half-way.
VersionsBounded == ~stubborn => Cardinality(Names) <= Keep + 1
=============================================================================
