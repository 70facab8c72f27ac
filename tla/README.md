# A verification development for cos-archive

cos-archive keeps a deduplicated backup of local files in an object storage
bucket whose objects are slow and expensive to read. This directory holds TLA+
models of it, TLC configurations that check them on small instances, and TLAPS
proofs of their main theorems for every instance. `PROJECT.json` ties every
modelling definition to the lines it models and lists the runs, the mutants,
the hazards and the theorems.

## 1. The system

### Components

| Component | Source | State it keeps | Operations | Model |
| --- | --- | --- | --- | --- |
| Backup | `backup.go` | remote and local index, uploads in flight, deletion time | load, scan, plan, upload in parallel, mark, collect, publish | `Backup`, `Archive` |
| Scanner | `scanner.go` | the entries found so far | walk, stat, hash or reuse a hash | `Backup` |
| Chunk collection | `index.go` 271-313 | expired marks still to visit | HEAD and DELETE per expired mark | `ChunkGC` |
| Fsck | `fsck.go` | the loaded index | collect, LIST, drop and add records, publish | `Fsck`, `Archive` |
| Index store | `index.go` | versions in the bucket, cached `meta.json` | `LoadRemote`, `UploadRemote`, trimming | `IndexStore`, `IndexRegister` |
| Restore, download, link | `restore.go`, `download.go`, `link.go` | chunk files, restored tree | thaw requests, GETs with retries, directories, links, modes, times | `Retrieval` |
| Lock and dispatch | `main.go`, `config.go` 61-171 | lock file and its flock | validate, open, flock, write pid, run | `Lock` |
| Storage client | `cos.go` | the loop's counter, the marker | one request each; `UploadFile` retries, `ScanFiles` pages | `UploadFile`, `ScanFiles`; else outcomes |
| Chunk names, sampled hash | `chunk.go`, `types.go` | none | `chunkHash`, `chunkPath` | `SampledHash`; an abstract function in `Archive` |
| Verify | `verify.go` | the loaded index, the LIST, files reported | read-only comparison | `Verify` |
| Path codec | `pathcodec.go`, `types.go` | none | escape bytes that are not UTF-8 | `PathCodec` |
| Browse | `browse.go` | directory map built once | HTTP | `Browse` |
| Mount | `mount.go` | tree and inodes built once | FUSE | `Mount` |
| Logging, progress, errors | `logger.go`, `progress.go`, `errors.go` | none | output | not modelled |

### How they interact

An invocation takes the lock (except `browse` and `mount`) and runs one action.
Backup and fsck both load the index, work on a private copy of it against the
chunk objects, and publish the copy as a new version. They meet only in the
bucket: whatever one leaves behind when it is killed is what the next one
starts from. Download saves the index and the chunks in the target directory;
link, browse and mount read only that directory. Within a backup, an errgroup
runs `uploadPayload` for up to `Threads` chunks; the first error cancels the
uploads that have not begun. Nothing else in the program is concurrent, but
the user's files, the clock and the bucket change under it.

### What is hard, and what makes each component correct

* **Backup.** Files change between the walk, the hash and the upload; uploads
  fail, are repeated or lose their file; the process is killed between
  deleting chunks and publishing the index that no longer mentions them.
  Correct: a published index has its chunks, no index marks what it refers to,
  nothing is deleted that the published index needs or before its mark and its
  billing period are over, and no stored chunk is forgotten.
* **Fsck.** It collects, lists and repairs in one pass over a changing set of
  objects. Correct: what it publishes accounts for exactly the stored chunks.
* **Index store.** A version is a separate object, trimming is a sequence of
  deletions, the cached file is renamed last. Correct: the whole acts as one
  register, and trimming takes only versions with enough newer ones.
* **Restore, download, link.** Each is a long loop that is killed and repeated.
  Objects come and go meanwhile. Correct: success means complete, as far as the
  LIST went, and work that was done, and can be seen to be, is not done again.
* **Storage client.** `UploadFile` counts its repetitions; a LIST takes many
  pages while the bucket changes. Correct: nil means stored, a refusal is final,
  and a LIST misses nothing that was there all the time.
* **Verify.** Files and bucket change under a long walk. Correct: what passes is
  backed by the index and a chunk; what did not change is not reported.
* **Sampled hash.** Three windows are placed by an older size. Correct: they
  fit, and a hash that is returned is made of all of them.
* **Path codec.** File names are arbitrary bytes, and JSON is not. Correct:
  what is loaded is what was saved, whatever names look like escapes.
* **Browse, mount.** Entries may lack their parents, and maps are visited in
  random order; a name becomes a link and has to come back from it. Correct: every
  entry is shown, once, in its place, and opens when it is followed.
* **Lock.** The file that is locked depends on the configuration and, if that is
  relative, on the current directory. Correct: two actions that share state meet
  at one file; the pid in it is the runner's.

## 2. Modules

```
ArchiveState        clock, files, bucket, index, variables of the running action
  ChunkGC           DeleteOutdatedChunks
    Backup   Fsck   the two actions
      Archive       both, kills, publication; the properties
        ArchiveInv  the inductive invariants
          MCArchive     instances for TLC
          ArchiveProofs theorems
IndexRegister       a register: what Archive takes the index store to be
IndexStore          versions, trimming, cache; implements IndexRegister
                                        (MCIndexStore, IndexStoreProofs)
Retrieval           restore, download, link     (MCRetrieval, RetrievalProofs)
Lock                processes and lock files    (MCLock, LockProofs)
UploadFile          the retry loop of an upload              (ChunkProofs)
ScanFiles           a paged LIST
  Verify            verify, which runs one                   (VerifyProofs)
SampledHash         chunkHash on a changing file             (ChunkProofs)
PathCodec           paths to JSON and back                   (PathCodecProofs)
IndexTree           the index as a tree
  Browse            buildDirMap and browseHandler            (TreeProofs)
  Mount             buildMountTree and addDirChildren        (TreeProofs)
    MCInspect       one instance for the modules from UploadFile on
```

The modules compose by assumption and guarantee. `Archive` and `Retrieval` run
one action at a time because `Lock` shows that actions sharing a working
directory exclude each other; what other directories and machines do to the
bucket is an action of its own where a model covers it (`Vanish` and `Reappear` in
`Retrieval`, `ObjectAdded` and `ObjectRemoved` in `ScanFiles`). `Archive` has one variable `latest` for the index
because `IndexStore` shows that versions and cache behave as one register. Its
uploads are single steps with an outcome because `UploadFile` shows what nil and
an error mean, and fsck's LIST is one step because `ScanFiles` shows what pages
amount to while nobody else writes to the bucket.

### ArchiveState, ChunkGC, Backup, Fsck, Archive

`latest` is the newest index: for each path a size-and-hash key and an mtime,
and for each chunk a deletion mark or `NoMark`. `objects` maps each chunk name
to the content that was really uploaded under it and to its Last-Modified time;
the content need not match the name, which is how the model sees a file
rewritten between hash and upload. `fs` is the user's files. The phases of `pc`
are the stages of the code:

| `pc` | code | actions |
| --- | --- | --- |
| `load` | `LoadRemote` | `LoadForBackup`, `LoadForFsck`, `FsckWithoutIndex` |
| `scan` | `GenerateLocal` | `ScanFile`, `ScanError`, then `ReuseHash`, `HashFile`, `HashError`, then `PlanUpload` |
| `upload` | `uploadPayload` under the errgroup | `SkipStored`, `BeginPut`, `HeadFails`, `PutDone`, `PutRetried`, `PutVanished`, `PutFails`; `UploadDone` or `UploadFailed` |
| `gc` | `DeleteOutdatedChunks` | `GcHeadFails`, `GcKeep`, `GcDelete`, `GcDeleteFails`; `BackupGcDone`, `BackupGcFailed`, `FsckGcDone` |
| `list` | fsck's LIST and repair | `FsckReconcile` |
| `publish` | `UploadRemote` | `PublishIndex` |

`Abort` is a kill, or the failure of a request whose error the action returns
at once. `skipped` is a history variable: the chunks whose upload counted as
done because the local file was gone (`backup.go:40`).

Abstractions. Directories and symbolic links are left out: the index carries
them and nothing decides on them. The walk visits paths in any order. A
multipart upload takes effect at once, from what the file holds then. A HEAD that
is answered carries a Last-Modified that can be parsed (without one the code would
take the billing period to be over, `index.go:294`). Equal
hashes of serialised indexes mean equal indexes. The sampled SHA-1 is a
function of the content and may collide; the checked instances use one that
does not, the proofs any. The clock does not step back.

`Disturbances` names what the environment may do: write or remove files while
an action runs, change a file twice within a second, carry an old mtime to
another path by a rename, make readdir, stat or read fail.

### IndexStore and IndexRegister

One operation, a load or an upload, is `list`, `trim`, `head`, then `use` or
`put` and `rename`, as in `getLatestIndex`, `getRemoteHash`, `LoadRemote` and
`UploadRemote`. Every request can fail before or after its effect, and the
process can be killed between any two. An action with another working
directory on the same bucket is not covered by this one's lock; it appears as
one step between two operations, and two of them interleaved are not modelled.
The LIST takes every object whose name begins with the index name: `Init` may
hold one without a number, which sorts as time 0, counts when there is no other,
and is trimmed first. It is a copy of an index here; anything else under such a
name makes loads fail while it is the only one. `stubborn` says whether
deletions can fail on this bucket. The refinement mapping takes the
register's value to be the newest version: `INSTANCE IndexRegister WITH value
<- NewestBody`.

### Retrieval

`thaw` is what the bucket has: an object is archived, on its way, readable, or
gone. Others may delete it and store it again at any time (`Vanish`, `Reappear`).
A restore or download works through what its LIST showed (`listed`); `lost` is a
history variable, those of them deleted since. A thaw request is accepted, fails
and is counted, or meets a 404, which `classifyRestoreError` turns into success
(`RequestMissing`).

A chunk file is one inode: its content, its mode and its mtime are shared by the
restored names linked to it. The content is `named` when size and hash are those
of the name, `other` when it is the whole of an object that holds something else
(`Misnamed`, what run `straddle` leaves in the bucket), or `partial`. Download
visits chunks in any order, skips those that it can read and that match their
name (`Matches`), and tries each at most `MaxRetries` times; a failing GET can
leave nothing, a truncated file or the whole file, and after a GET that ends
nothing is compared. Link makes directories with `MkdirAll` (missing parents get the
same mode), then symbolic links, then hard links with chmod and chtimes, each
loop in the random order of a map; the permissions are those of an ordinary
user with umask 0. A kill, thawing and re-archiving can come between any two
steps (re-archiving not within a restore that has asked for the object: that
gives it three more days), the removal of `target/restore` between two actions.

### Lock

`Config` is the configuration file, the same for all invocations of a behaviour
and chosen freely at the start; the target may be overridden per invocation.
Directories are given by names, and `At` says which directory a name means for a
process that was started in another: an absolute one the same for all, a relative
one its own. Locks and work are compared by directory (`WorkingIn`, `TargetIn`).
`Valid` is `validateConfig`, `LockDir` is `getLockFilePath`, and the steps of
`createLockFile` are `OpenLockFile`, `TakeLock` or `Refused`, `Truncate`,
`WritePid`. Lock files are never removed; ending a process drops its flock.

### UploadFile and ScanFiles

`turn` is the loop's `i`, `retries` the configured `COS.Retries`, any integer.
Each turn ends in one of four answers: `Accepted`, `Unavailable` (the one error
of the service that is tried again), `Refused` (any other), and `Lost`, an error
that is no answer, after which the object may be there or not. `BeginUpload`
with a negative number of repetitions returns nil at once, as the code does.

A scan asks for pages after `marker` until one is not truncated. A page is any
run of the next names of at most `MaxKeys`, and between two pages others add and
remove objects, also the one the marker names. `throughout` and `ever` are
history: what was there all the time, and at some time.

### Verify

`verify` goes through `load`, `list`, `walk`; `hash` is the time between the
stat of a file and its hash. `steady` is history: the paths that have not
changed since the action began. A file that changed after its stat may hash to
anything, or fail. A path that came, went or moved while directories were read
may be met or missed (`NotMet`).

### SampledHash

`size` is what stat said, `length` what the file is long when it is read, and
`Resized` changes it between any two reads. `read` collects the offsets that
went into the hash, `twice` those that went in more than once. `CopySample` is
`io.CopyN`, which fails on a short read.

### PathCodec

Paths are sequences of bytes. `EncodeStep` and `DecodeStep` are what one turn of
each loop of the code writes and how far it goes on; `Written` is the loop, and
the only recursion. `RuneLen` is Go's UTF-8 decoder, with its lead bytes, the
restricted second bytes (no overlong forms, no surrogates, nothing above
U+10FFFF), and 0 for a byte that starts no rune. `Rewritten` takes a map to one
with other keys: when two keys become one, either value stays, as the order of a
Go map decides. A behaviour begins with a scan or with an index file edited by
hand, and loads and saves in turn; `SaveIndex` refuses a key that is not valid
UTF-8, as the JSON encoder does.

### IndexTree, Browse, Mount

A path is the sequence of its names; `entries` gives its kind and, for a
directory, its mode. `Browse` follows a user: `Type` asks for the page of a
path, with or without a slash at the end, `Follow` clicks an item of the page.
The server unescapes the address once, `browseHandler` once more, so `Answer`
applies `Unescape` to names that are already plain. A link is one segment, so its
way through `url.PathEscape`, html/template, the browser and the server's unescaping
is taken to bring back the names it was made of, except for those with a colon:
`PathEscape` leaves it, and html/template then replaces the link by `#ZgotmplZ`, or
lets it pass if it begins with a scheme (`FollowColon`). `cleans` says whether the
mux redirects `//`, as Go did by default before 1.22.

`Mount` makes directories in sorted order (`Above(p) \cap left = {}`), then files
and links in any order, each with the missing parents above it, then gives
numbers to the nodes, parents first. A step handles one entry.

### MCInspect

The modules above share nothing, so one instance holds them all and each
behaviour runs one of them, named by `tool`. `Around` is what happens beside the
program, at most `MaxChanges` times.

## 3. What the runs show

| Run | Instance | Properties |
| --- | --- | --- |
| `core` | 2 paths in 2 roots, 1 content, `Threads` 2, clock to 4; removals, old mtimes, scan errors | `TypeOK`, `IInv`, `MarksUnreferenced`, `PublishedRefsStored`, `OnlyExpiredDeleted`, `AccountsKept`, `FsckRepairs` |
| `quiet` | 2 paths, 2 contents of one size, `Threads` 2, clock to 3; files change only between actions | `ContentAddressed`, `BackupIsSnapshot` |
| `midrun` | 1 path, 2 contents of one size, clock to 3; files rewritten and removed under an action; fair | `UnchangedMeansSame`, `RunEnds`, `PublishesAfterTrouble` |
| `index` | 2 bodies, `Keep` 2, clock to 5; with and without an object of no number | `TypeOK`, `ImplementsRegister`, `RetainsLatest`, `VersionsBounded` |
| `retrieve` | 2 chunks, one of them misnamed, 3 files (two share one) with a mode each (read-only, write-only, both), a symbolic link, a directory in another, `MaxRetries` 2; fair | `TypeOK`, `RestoreComplete`, `DownloadComplete`, `NeverRefetched`, `TreeComplete`, `AttrsOfOneFile`, `ActionsEnd` |
| `lock` | 2 processes, 2 directories to start in, an absolute and a relative name, every configuration and override | `TypeOK`, `OneWriter`, `PidNamesRunner` |
| `inspect` | upload: -1, 0 or 2 repetitions; verify: 2 paths, 2 chunks, one per page, 2 changes; hash: samples of 2 bytes, sizes to 9, 2 changes; codec: strings of at most 5 bytes, pairs of lookalikes; browse and mount: indexes of at most 3 entries out of 8 paths, or 2 out of 6 with colons; fair | `NilMeansStored`, `GivesUpRightly`, `UploadReturns`; `ScanExact`, `VerifiedMeansBacked`, `NoFalseAlarm`, `VerifyEnds`; `SamplesApart`, `HashCovers`; `LoadedIsSaved`, `NeverRefused`; `ItemsOpen`, `AllListed`; `MountShowsIndex` |

Every property of these runs has a mutant in `PROJECT.json`: a definition in
the same module, marked `Mutant:`, that changes the code's behaviour as a
plausible bug would and that the property rejects.

### Where the code and its documentation part

Each of these runs ends in a violation of what `README.en.md` says.

| Run | Property | What happens |
| --- | --- | --- |
| `vanished` | `PublishedRefsReallyStored` | A file removed between hash and upload counts as uploaded, and the index is published with an entry that has no chunk. The next backup finds the key in the published index and does not upload it either; fsck drops the entry. |
| `straddle` | `ContentAddressed` | A file rewritten between hash and upload is stored under the name of its old content. |
| `longrun` | `OnlyExpiredDeleted` | `deleteTime` is taken before the uploads, the clock of the collection after them: a backup that takes more than seven days from the one to the other deletes what it has just marked, while the published index still needs it. The instance sets `MaxRun` above `Grace`. |
| `linkattrs` | `FileAttrsPreserved` | Files that share a chunk share an inode, and show the mode and mtime of whichever link visits last. |
| `single` | `SingleInstance` | A relative `WorkingDir` is accepted and means another directory wherever the program is started; without any, restore and link lock a file that depends on the target or the current directory. Either way two of them run at once. |

Two more, seen in the model and not made into runs: a directory made first as
a parent keeps the mode of its child (`MakeDirs`), and below a directory
without write permission link fails for an ordinary user (`MakeDirDenied`,
`LinkRefused`). A file changed twice within one second, around a backup and
with the same size, keeps its old hash for ever; `UnchangedMeansSame` is
therefore checked with at most one change in a second.

More divergences came up with the models of the inspecting actions, and are
stated as exceptions in the properties or noted in the hazards:

* a negative `COS.Retries`, which nothing rejects, makes `UploadFile` report
  success without sending anything (`cos.go:59`; `NilMeansStored` excludes it);
* errors that are no answer of the service are repeated too, where
  README.en.md:88 speaks of ServiceUnavailable;
* verify asks whether local files are in the index and their chunks in the
  bucket, by name; entries whose file is gone are not reported;
* browse has no page for a directory without entries (404); it unescapes twice,
  so that a name like `%41` opens another entry; an entry listed in the root by
  its full path has an address that begins with `//`, which the mux of Go 1.22
  and later no longer redirects (go.mod asks for a newer one); and the links of a
  page that was asked for without its final slash lead elsewhere. `ItemsOpen`
  names these and one more, a name with a colon, which has no link;
* a thaw request that meets a 404 counts as success (`restore.go:17`): a chunk
  that was deleted after the LIST and stored again is left archived by a restore
  that reports success. `RestoreComplete` is about the chunks that stayed;
* a chunk file that does not match its name although its GET ended, because the
  object is misnamed, or that its owner cannot read after link gave it its mode,
  is truncated and fetched again by every download (`download.go:41`);
  `NeverRefetched` is about the others. After a GET nothing is compared, so a
  misnamed object counts as downloaded;
* two downloads or links into one target, started in two directories under a
  relative `WorkingDir`, run together. `OneWriter` names this exception. Browse
  and mount read a target directory without any lock;
* mount shows mode 0 as 0555 and never gives the root the mode of its entry;
* an index name that begins with another index's name lists, uses and trims the
  other's versions (`index.go:208`).

### Bounds, and why they are enough

`Grace` 1, `Billing` 1 or 2, `Review` 2, `Forever` 3 keep the order of the
code's 7 days, 180 days, 3 years and 10 years where the code compares them.
`MaxTime` 4 lets a chunk be stored, marked, expire, outlive its billing period
and be deleted, with backups and fscks in between; fsck's mark (`now +
Forever`) is shortened by the next backup because it exceeds `now + Review`.
`MaxRun` 1 is the longest run for which the code is right (`MaxRun <= Grace`).
Two paths of one content are the least that share a chunk, and that let one
file lose it while the other keeps it; two contents of one size are the least
that only the mtime tells apart. `Keep` 2 with five seconds makes trimming and
its interruption happen. `MaxRetries` 2 is the least limit with a first and a
last failure; two chunks let one be whole while the other is not, or go while
the other stays. Two processes suffice for properties that speak of pairs.

In `inspect`, three turns have a first, a middle and a last one. Pages of one
name put a page boundary between any two; two changes can remove the name of the
marker and put another before it. Sizes 4 and 5 lie below the sampled ones, 6 is
the least, where the samples meet, 7 to 9 leave gaps of each remainder. Five
bytes hold a quote and an escape behind it. The pairs of lookalikes are those of
which one is what the encoding makes of the other, or part of it, and a
surrogate, whose bytes are runes in shape only. Three entries
hold a directory, one below it and a stranger, or a path whose parents are all
missing. Verify starts from an index and files that agree on all paths but one:
the others can be made to differ by a change. Where a theorem exists, the bound
does not matter.

### Fairness

`FairSpec` adds weak fairness on the steps an action takes by itself
(`RunStep`, `ActionStep`): the process is scheduled and every request is
answered, by success or by error. The code sets no timeout on its requests, so
an answer that never comes would block it, and that is the assumption. Nothing
is assumed of the user, the clock, kills, or the outcome of a request. `RunEnds`
and `ActionsEnd` then say that no action hangs or loops. That a backup is ever
published is not claimed: a HEAD or DELETE that keeps failing prevents it.
`PublishesAfterTrouble` has that as its premise instead: if from some time on no
request fails and nobody kills the process, and backups are run again and again,
then they publish again and again; what a killed deletion left behind does not
stand in the way.

In `inspect`, fairness is on the steps of the program too, and not on a LIST
that fails: no request is assumed to fail, nor to succeed.

## 4. What is proved

All theorems hold for every value of the constants that satisfies the named
assumptions (`FileAssumption`, `SentinelAssumption`, `TimeAssumption`,
`IndexAssumption`, `RetrievalAssumption`, `LockAssumption`, `StoreAssumption`,
`RetryAssumption`, `ScanAssumption`, `VerifyAssumption`, `SampleAssumption`,
`TreeAssumption`, `NameAssumption`, `CodecAssumption`), including colliding
hashes. `Disturbances` may be anything, and files change at any moment, except
where a theorem says otherwise. Every invariant and action property of the
passing runs is the statement of a theorem.

**ArchiveProofs.** `TypeCorrect`; `Inductive`; from it `MarksNeverReferenced`,
`PublishedRefsAlwaysStored`, `OnlyExpiredEverDeleted`, `AccountsAlwaysKept`, all
four under `MaxRun <= Grace`; and `FsckAlwaysRepairs` without it. None of the
properties is inductive alone: a chunk that the published index needs is safe
from the collection only because of what the private copy has kept. `IInv` adds

* `RemoteIsPublished`: a backup's `remote` is still the published index, as
  nobody else publishes;
* `LocalRefsStored`: during the upload, what the copy refers to is stored,
  skipped, or still in `tasks` or `puts`; after it, stored or skipped;
* `MarksInherited`: a mark in the copy is the published one, or lies at least
  `Grace` after the start of the run. With `Deadlines` (`now <= started +
  MaxRun`) the new ones cannot expire within the run, and this is the one place
  that needs `MaxRun <= Grace`;
* `GcTargets`: what the collection may delete is marked and expired in the
  published index, and referred to by neither index;
* `AccountsCarried`: what the published index accounts for, the copy does too.

The proof has one lemma per action (or group of like actions) and a step for
each conjunct that the action can disturb. `FsckAlwaysRepairs` rests on a small
invariant of its own: before fsck publishes, its copy accounts for exactly what
is stored.

Three more theorems say what a backup records of the files. Each holds only of
some environments, because the code promises no more, and has an inductive
invariant of its own in `ArchiveInv`; `SPECIFICATION Spec` with these as
`INVARIANTS` and the constants of `midrun` (the first two) or `quiet` (all
three) makes TLC check them.

* `UnchangedAlwaysMeansSame`, if no file changes twice within a second or takes
  an old mtime along: without that, size and mtime do not tell two contents
  apart. Files may be written and removed while the backup runs, and reading may
  fail. `DatedInv`: the published index, the loaded one and the one being built
  list no file with an mtime later than its own, and where the mtimes agree, the
  hash is that of the content. It holds although stat and hash straddle a write,
  since the write leaves a later mtime in the file than in the entry.
* `AlwaysContentAddressed`, if no file is written while an action runs (run
  `straddle` shows what happens otherwise). `AddressedInv`: the keys in the index
  being built, and in the uploads planned and begun, are those of what the
  files hold, or of a chunk that the published index refers to. The second
  case is needed: an mtime carried over by a rename makes the backup reuse a
  wrong hash, and what saves the objects is that such a chunk is never uploaded.
* `BackupIsAlwaysSnapshot`, if `Disturbances = {}`. `SnapshotInv` adds to
  `DatedInv` what the scan has done so far (`ScanProgress`), and that from its end
  to the publication the index being built lists exactly the files there are.

**RetrievalProofs.** `RetrievalInductive` (what each loop has done so far), and
from it `RestoreIsComplete`, `DownloadIsComplete`, `TreeIsComplete` and
`AttrsAreOfOneFile`, each by showing that only the last step of its action reports
success (`WhoEnds`); `MatchNeverRefetched` and `RetrievalTypeCorrect`. In a restore
a chunk of the LIST that is not `lost` was never gone, so that no 404 was its
answer (`Requested`).

**LockProofs.** `LockInductive`: a process past its flock holds the lock of its
own path, and that path is where the configuration puts it, seen from the
directory in which the process was started. From it
`LockTypeCorrect`, `WritersApart` and `PidAlwaysRunner`, for any number of processes.

**IndexStoreProofs.** `StoreInductive`: what trimming still has to delete is
older than `Keep` versions that it will not touch, and until the `put` the
version that was listed as the newest is still there and the newest. From it `StoreTypeCorrect`,
`AlwaysRetainsLatest`, `VersionsAlwaysBounded` (a trim leaves at most `Keep`
versions, counted with the library's theorems on cardinality), and
`StoreImplementsRegister`: the refinement, one lemma for each group of actions,
each of which either leaves the newest version as it is or is a step of the
register. `Extremes` (a finite set of integers has a greatest element) is proved
by the well-foundedness of strict inclusion.

**VerifyProofs.** `ScanInductive`: what was there throughout, up to the marker,
has been seen. `VerifyInductive` adds that whatever was visited, did not change
and is not reported agrees with the index. From them `ScanAlwaysExact`,
`VerifiedAlwaysBacked` and `NeverFalseAlarm`, for pages of any size and any
number of changes.

**ChunkProofs.** `NilAlwaysStored` and `AlwaysGivesUpRightly`, for any number of
repetitions; `SamplesAlwaysApart` and `HashAlwaysCovers`, for every length of
samples and every size: the arithmetic of the windows.

**TreeProofs.** `MountInductive`: the tree is that of the entries visited so
far, and inodes are numbered in order. From it `MountAlwaysShowsIndex`, for every
index. `AboveParent` is about prefixes of sequences. For browse,
`ItemsAlwaysOpen` (the page before the user lists something only if it is a page
of the map, and a link without a colon is that of its entry) and `AlwaysAllListed`: `Reachable` is the least set that contains the
root's page and the pages of what its pages list, and a path of any length is on
a page of it because each of its prefixes is.

**PathCodecProofs.** For paths of any bytes and any length: `DecodeInvertsEncode`
(decoding undoes encoding) and `EncodedIsValid` (what is encoded is valid UTF-8);
with them `CodecInductive`, `LoadedAlwaysIsSaved` and `NeverEverRefused`. The
argument goes backwards over the positions of the path: if decoding what was
encoded from every later position on gives the path from there on, so it does
from here on. `Backwards` is that induction, for a set of positions, by way of
the least number that is outside (`LeastNatural`). A recursive function means
something only if there is one that satisfies its equation: `WrittenExists`
shows it for every loop that goes on and stays within the string, and
`EncodeRuns` and `DecodeRuns` that these two do. At a position there are three
cases: a quoted byte is read as an escape and not as a doubled quote
(`DecodeEscape`), a doubled quote as a quote (`DecodeDoubled`), and a rune that was
copied is copied back, since none of its bytes begins a quote (`DecodeRune`). Two
paths then never become one key, so it does not matter in which order a Go map is
visited.

**Model-checked only.** `RunEnds`, `PublishesAfterTrouble`, `ActionsEnd`,
`UploadReturns`, `VerifyEnds`: liveness under fairness is beyond the prover.

## 5. Plan

Order: the bookkeeping of chunks first (a mistake there loses data), then the
index store it relies on, retrieval, the lock, and the parts that only read. All
of these are done.

The safety properties of all runs are proved. What is left: safety halves of the
liveness properties (a measure that each step of a run decreases), and the
composition of `Archive` with the guarantees of `UploadFile` and `ScanFiles`, which
is an argument in section 2 and not a theorem.

### Not modelled

* The HTTP server, the templates (but for the links of a directory's page) and the
  FUSE calls: they copy what the maps hold. So does the reading of a placeholder file. `loadBrowseIndex` picks a file.
* The text of a chunk name (`chunkPath`, `parseChunkKeyFromString`): an injection
  and its inverse. An object with any other name below the prefix parses to a
  key of zeros, or of the part that could be read; the models take all objects
  below the prefix to be chunks.
* Directories and symbolic links in `Archive`: the scan records them and no
  decision depends on them. `Retrieval`, `Verify`, `Browse` and `Mount` have them.
* Two working directories that write to the bucket at the same time: `Archive` and
  `IndexStore` have one writer at a time, `Retrieval` and `ScanFiles` only read
  while others write.
* The parsing of the configuration file, except for what `Lock` and `UploadFile`
  take from it.
* Logging, progress and error values.
