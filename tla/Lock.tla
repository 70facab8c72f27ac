-------------------------------- MODULE Lock --------------------------------
(***************************************************************************)
(* The lock that keeps actions apart.  Several invocations of the program,  *)
(* started in any directory, read one configuration file; each may take     *)
(* another target directory from its command line.  All but browse and      *)
(* mount open a lock file in a directory that depends on the configuration, *)
(* take a non-blocking flock on it, and write their pid into it.  The file  *)
(* is never removed; the kernel drops the lock of a process that ends.      *)
(*                                                                          *)
(* The directories of the configuration and of the command line are names:  *)
(* which directory a relative one means depends on where the process was    *)
(* started, and two names may mean one directory.                           *)
(***************************************************************************)
EXTENDS Naturals

CONSTANTS
    Process,   \* invocations, and their pids
    Dir,       \* directories
    Name,      \* names of directories, absolute and relative
    At,        \* Name -> (Dir -> the directory it means, seen from there)
    Unset,     \* an empty string in the configuration or on the command line
    Nobody     \* no process

Action == {"backup", "restore", "download", "link", "fsck", "verify", "browse", "mount"}

\* rest: the COS section, the file paths, the threads, the port and the mount
\* point are all there.
Config == [working : Name \cup {Unset}, target : Name \cup {Unset}, rest : BOOLEAN]

ASSUME LockAssumption ==
    /\ At \in [Name -> [Dir -> Dir]]
    /\ Unset \notin Name /\ Nobody \notin Process

VARIABLES
    config,    \* the configuration file
    pc,        \* Process -> step of runMain
    action,    \* Process -> action asked for
    target,    \* Process -> TargetDir after the override
    cwd,       \* Process -> directory in which it was started
    path,      \* Process -> directory of its lock file
    holder,    \* Dir -> process with the flock of Dir/pid.lock, or Nobody
    pid        \* Dir -> process whose pid the lock file holds, or Nobody if empty

lockVars == <<holder, pid>>
vars == <<config, pc, action, target, cwd, path, lockVars>>

\* Restore, link and browse can do without a working directory.
NeedsWorking == {"backup", "download", "fsck", "verify"}
NeedsTarget  == {"download", "link", "browse", "mount"}
NoLock       == {"browse", "mount"}

TypeOK ==
    /\ config \in Config
    /\ pc \in [Process -> {"out", "opened", "locked", "truncated", "running"}]
    /\ action \in [Process -> Action]
    /\ target \in [Process -> Name \cup {Unset}]
    /\ cwd \in [Process -> Dir]
    /\ path \in [Process -> Dir]
    /\ holder \in [Dir -> Process \cup {Nobody}]
    /\ pid \in [Dir -> Process \cup {Nobody}]

Init ==
    /\ config \in Config
    /\ pc = [p \in Process |-> "out"]
    /\ action = [p \in Process |-> "backup"]
    /\ target = [p \in Process |-> config.target]
    /\ path \in [Process -> Dir] /\ cwd = path
    /\ holder = [d \in Dir |-> Nobody]
    /\ pid = [d \in Dir |-> Nobody]

-----------------------------------------------------------------------------
\* Mutant: download trusts the target directory alone.
ValidTrusting(a, t) ==
    /\ a \in NeedsWorking \ {"download"} => config.working # Unset
    /\ a \in NeedsTarget => t # Unset
    /\ a # "link" => config.rest

\* validateConfig, after the override of the target.
Valid(a, t) ==
    /\ a \in NeedsWorking => config.working # Unset
    /\ a \in NeedsTarget => t # Unset
    /\ a # "link" => config.rest

\* Mutant: the target directory comes first.
LockDirOfTarget(t, here) ==
    IF t # Unset THEN At[t][here]
    ELSE IF config.working # Unset THEN At[config.working][here] ELSE here

\* Mutant: the current directory is forgotten.
LockDirConfigured(t, here) ==
    IF config.working # Unset THEN At[config.working][here] ELSE t

\* getLockFilePath, and what the path means for a process started here.
LockDir(t, here) ==
    IF config.working # Unset THEN At[config.working][here]
    ELSE IF t # Unset THEN At[t][here] ELSE here

Overridden(override) == IF override # Unset THEN override ELSE config.target

Enter(p, a, t, here) ==
    /\ pc[p] = "out" /\ Valid(a, t)
    /\ action' = [action EXCEPT ![p] = a]
    /\ target' = [target EXCEPT ![p] = t]
    /\ cwd' = [cwd EXCEPT ![p] = here]
    /\ UNCHANGED <<config, holder>>

\* Mutant: the file is opened with O_TRUNC.
OpenTruncating(p, a, t, here) ==
    /\ Enter(p, a, t, here) /\ a \notin NoLock
    /\ path' = [path EXCEPT ![p] = LockDir(t, here)]
    /\ pid' = [pid EXCEPT ![path'[p]] = Nobody]
    /\ pc' = [pc EXCEPT ![p] = "opened"]

\* The directory is made if need be, the file opened and not truncated.
OpenLockFile(p, a, t, here) ==
    /\ Enter(p, a, t, here) /\ a \notin NoLock
    /\ path' = [path EXCEPT ![p] = LockDir(t, here)]
    /\ pc' = [pc EXCEPT ![p] = "opened"]
    /\ UNCHANGED pid

RunUnlocked(p, a, t, here) ==
    /\ Enter(p, a, t, here) /\ a \in NoLock
    /\ pc' = [pc EXCEPT ![p] = "running"]
    /\ UNCHANGED <<path, pid>>

AtStep(p, step, next) ==
    /\ pc[p] = step /\ pc' = [pc EXCEPT ![p] = next]
    /\ UNCHANGED <<config, action, target, cwd, path>>

\* LOCK_EX without waiting.
TakeLock(p) ==
    /\ AtStep(p, "opened", "locked") /\ holder[path[p]] = Nobody
    /\ holder' = [holder EXCEPT ![path[p]] = p]
    /\ UNCHANGED pid

Refused(p) ==
    /\ AtStep(p, "opened", "out") /\ holder[path[p]] # Nobody
    /\ UNCHANGED lockVars

Truncate(p) ==
    /\ AtStep(p, "locked", "truncated")
    /\ pid' = [pid EXCEPT ![path[p]] = Nobody]
    /\ UNCHANGED holder

WritePid(p) ==
    /\ AtStep(p, "truncated", "running")
    /\ pid' = [pid EXCEPT ![path[p]] = p]
    /\ UNCHANGED holder

\* The action has ended, a step has failed, or the process was killed: its
\* descriptor is closed, and with it goes the lock.
Leave(p) ==
    /\ pc[p] # "out" /\ AtStep(p, pc[p], "out")
    /\ holder' = [d \in Dir |-> IF holder[d] = p THEN Nobody ELSE holder[d]]
    /\ UNCHANGED pid

Next ==
    \E p \in Process :
        \/ \E a \in Action, override \in Name \cup {Unset}, here \in Dir :
              \/ OpenLockFile(p, a, Overridden(override), here)
              \/ RunUnlocked(p, a, Overridden(override), here)
        \/ TakeLock(p) \/ Refused(p) \/ Truncate(p) \/ WritePid(p) \/ Leave(p)

Spec == Init /\ [][Next]_vars

-----------------------------------------------------------------------------
Running(p, A) == pc[p] = "running" /\ action[p] \in A

\* The directories that a running action works in.
WorkingIn(p) == At[config.working][cwd[p]]
TargetIn(p)  == At[target[p]][cwd[p]]

\* Two actions that use the cached index of one working directory never run
\* together, nor do two that write the chunk store and the tree below one target
\* directory, download and link, whatever the order in which they open, lock and
\* are killed; with one exception: a working directory is configured, and with a
\* name that means another directory where the other process was started, so that
\* the two lock different files.  backup.go, fsck.go, verify.go, download.go and
\* link.go rely on it: none of them coordinates with another in any other way.
\* Nothing is said of browse and mount, which read what download saved and linked
\* without a lock.
OneWriter ==
    \A p, q \in Process :
        p # q =>
          /\ Running(p, NeedsWorking) /\ Running(q, NeedsWorking) => WorkingIn(p) # WorkingIn(q)
          /\ /\ Running(p, {"download", "link"}) /\ Running(q, {"download", "link"})
             /\ TargetIn(p) = TargetIn(q)
             => config.working # Unset /\ WorkingIn(p) # WorkingIn(q)

\* The pid in a lock file is that of the process that runs under it: a process
\* that is refused, or killed while it starts, does not overwrite it.
PidNamesRunner ==
    \A p \in Process : Running(p, Action \ NoLock) => pid[path[p]] = p

\* README.en.md:192: "A single-instance lock prevents multiple non-browse/
\* non-mount actions from running concurrently."
SingleInstance ==
    \A p, q \in Process :
        p # q => ~(Running(p, Action \ NoLock) /\ Running(q, Action \ NoLock))
=============================================================================
