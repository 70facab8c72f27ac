----------------------------- MODULE LockProofs -----------------------------
(* Proofs about Lock: the lock keeps the actions apart that need it, and the *)
(* pid in a lock file is that of the process that runs under it.             *)
EXTENDS Lock, TLAPS

Locked(p) == pc[p] \in {"locked", "truncated"} \/ Running(p, Action \ NoLock)

\* A process between its flock and its end has the lock of its own file.
HolderKept == \A p \in Process : Locked(p) => holder[path[p]] = p

\* Only processes on their way with a lock file have a step open.
StepsLocked ==
    \A p \in Process : pc[p] \in {"opened", "locked", "truncated"} => action[p] \notin NoLock

\* The lock file of a process is where the configuration puts it.
PathFollows ==
    \A p \in Process :
        pc[p] # "out" /\ action[p] \notin NoLock =>
          /\ action[p] \in NeedsWorking => config.working # Unset
          /\ action[p] \in NeedsTarget => target[p] # Unset
          /\ config.working # Unset => path[p] = WorkingIn(p)
          /\ config.working = Unset /\ target[p] # Unset => path[p] = TargetIn(p)

LockInv == TypeOK /\ HolderKept /\ StepsLocked /\ PathFollows /\ PidNamesRunner

-----------------------------------------------------------------------------
LEMMA InitInv == Init => LockInv
  BY LockAssumption
  DEF Init, LockInv, TypeOK, HolderKept, Locked, Running, StepsLocked, PathFollows,
      PidNamesRunner, Action, Config

\* Starting with a lock file.  LockAssumption tells a directory from Unset.
LEMMA OpenInv ==
  ASSUME LockInv, NEW p \in Process, NEW a \in Action, NEW override \in Name \cup {Unset},
         NEW here \in Dir, OpenLockFile(p, a, Overridden(override), here)
  PROVE  LockInv'
<1> DEFINE t == Overridden(override)
<1>1. TypeOK
  BY DEF LockInv
<1>2. /\ pc[p] = "out" /\ Valid(a, t) /\ a \notin NoLock
      /\ action' = [action EXCEPT ![p] = a] /\ target' = [target EXCEPT ![p] = t]
      /\ cwd' = [cwd EXCEPT ![p] = here]
      /\ path' = [path EXCEPT ![p] = LockDir(t, here)] /\ pc' = [pc EXCEPT ![p] = "opened"]
      /\ UNCHANGED <<config, holder, pid>>
  BY DEF OpenLockFile, Enter
<1>3. config.working \in Name \cup {Unset} /\ t \in Name \cup {Unset}
  BY <1>1 DEF TypeOK, Config, Overridden
<1> HIDE DEF t
<1>4. LockDir(t, here) \in Dir
  BY <1>3, LockAssumption DEF LockDir
<1>5. TypeOK'
  BY <1>1, <1>2, <1>3, <1>4 DEF TypeOK
<1>6. HolderKept'
  BY <1>1, <1>2 DEF LockInv, HolderKept, Locked, Running, TypeOK
<1>7. StepsLocked'
  BY <1>1, <1>2 DEF LockInv, StepsLocked, TypeOK
<1>8. PathFollows'
  BY <1>1, <1>2, <1>3 DEF LockInv, PathFollows, WorkingIn, TargetIn, Valid, LockDir, TypeOK
<1>9. PidNamesRunner'
  BY <1>1, <1>2 DEF LockInv, PidNamesRunner, Running, TypeOK
<1> QED BY <1>5, <1>6, <1>7, <1>8, <1>9 DEF LockInv

\* Browse and mount hold no lock and claim none.
LEMMA UnlockedInv ==
  ASSUME LockInv, NEW p \in Process, NEW a \in Action, NEW override \in Name \cup {Unset},
         NEW here \in Dir, RunUnlocked(p, a, Overridden(override), here)
  PROVE  LockInv'
<1> DEFINE t == Overridden(override)
<1>1. TypeOK
  BY DEF LockInv
<1>2. /\ pc[p] = "out" /\ a \in NoLock
      /\ action' = [action EXCEPT ![p] = a] /\ target' = [target EXCEPT ![p] = t]
      /\ cwd' = [cwd EXCEPT ![p] = here]
      /\ pc' = [pc EXCEPT ![p] = "running"] /\ UNCHANGED <<config, holder, path, pid>>
  BY DEF RunUnlocked, Enter
<1>3. t \in Name \cup {Unset}
  BY <1>1 DEF TypeOK, Config, Overridden
<1> HIDE DEF t
<1>4. TypeOK'
  BY <1>1, <1>2, <1>3 DEF TypeOK
<1>5. HolderKept'
  BY <1>1, <1>2 DEF LockInv, HolderKept, Locked, Running, TypeOK
<1>6. StepsLocked'
  BY <1>1, <1>2 DEF LockInv, StepsLocked, TypeOK
<1>7. PathFollows'
  BY <1>1, <1>2 DEF LockInv, PathFollows, WorkingIn, TargetIn, TypeOK
<1>8. PidNamesRunner'
  BY <1>1, <1>2 DEF LockInv, PidNamesRunner, Running, TypeOK
<1> QED BY <1>4, <1>5, <1>6, <1>7, <1>8 DEF LockInv

\* The steps on an open lock file.
LEMMA StepInv ==
  ASSUME LockInv, NEW p \in Process,
         TakeLock(p) \/ Refused(p) \/ Truncate(p) \/ WritePid(p) \/ Leave(p)
  PROVE  LockInv'
<1>1. TypeOK
  BY DEF LockInv
<1>2. UNCHANGED <<config, action, target, cwd, path>>
  BY DEF TakeLock, Refused, Truncate, WritePid, Leave, AtStep
<1>3. TypeOK'
  BY <1>1 DEF TypeOK, TakeLock, Refused, Truncate, WritePid, Leave, AtStep, lockVars
<1>4. HolderKept'
  <2> SUFFICES ASSUME NEW q \in Process, Locked(q)' PROVE holder'[path[q]] = q
    BY <1>2 DEF HolderKept
  <2>1. CASE TakeLock(p)
    BY <2>1, <1>1, <1>2, LockAssumption
    DEF TakeLock, AtStep, LockInv, TypeOK, HolderKept, Locked, Running
  <2>2. CASE Refused(p) \/ Truncate(p) \/ WritePid(p)
    BY <2>2, <1>1, <1>2
    DEF Refused, Truncate, WritePid, AtStep, lockVars, LockInv, TypeOK, HolderKept, Locked,
        Running
  <2>3. CASE Leave(p)
    BY <2>3, <1>1, <1>2
    DEF Leave, AtStep, LockInv, TypeOK, HolderKept, Locked, Running
  <2> QED BY <2>1, <2>2, <2>3
<1>5. StepsLocked'
  BY <1>1, <1>2
  DEF LockInv, TypeOK, StepsLocked, TakeLock, Refused, Truncate, WritePid, Leave, AtStep
<1>6. PathFollows'
  BY <1>1, <1>2
  DEF LockInv, TypeOK, PathFollows, WorkingIn, TargetIn, TakeLock, Refused, Truncate, WritePid, Leave, AtStep
<1>7. PidNamesRunner'
  <2> SUFFICES ASSUME NEW q \in Process, Running(q, Action \ NoLock)'
               PROVE  pid'[path[q]] = q
    BY <1>2 DEF PidNamesRunner
  <2>1. CASE Truncate(p)
    <3>1. q # p /\ Locked(q)
      BY <2>1, <1>1, <1>2 DEF Truncate, AtStep, Running, Locked, TypeOK
    <3>2. path[q] # path[p]
      BY <2>1, <3>1 DEF Truncate, AtStep, LockInv, HolderKept, Locked
    <3> QED BY <2>1, <3>1, <3>2, <1>1
            DEF Truncate, AtStep, LockInv, TypeOK, PidNamesRunner, Running
  <2>2. CASE WritePid(p)
    <3>1. CASE q = p
      BY <3>1, <2>2, <1>1 DEF WritePid, TypeOK
    <3>2. CASE q # p
      <4>1. Running(q, Action \ NoLock)
        BY <3>2, <2>2, <1>1, <1>2 DEF WritePid, AtStep, Running, TypeOK
      <4>2. path[q] # path[p]
        BY <2>2, <3>2, <4>1 DEF WritePid, AtStep, LockInv, HolderKept, Locked
      <4> QED BY <2>2, <4>1, <4>2, <1>1
              DEF WritePid, LockInv, TypeOK, PidNamesRunner
    <3> QED BY <3>1, <3>2
  <2>3. CASE TakeLock(p) \/ Refused(p) \/ Leave(p)
    BY <2>3, <1>1, <1>2
    DEF TakeLock, Refused, Leave, AtStep, lockVars, LockInv, TypeOK, PidNamesRunner, Running
  <2> QED BY <2>1, <2>2, <2>3
<1> QED BY <1>3, <1>4, <1>5, <1>6, <1>7 DEF LockInv

LEMMA StutterInv == LockInv /\ UNCHANGED vars => LockInv'
  BY DEF LockInv, TypeOK, HolderKept, Locked, Running, StepsLocked, PathFollows,
         WorkingIn, TargetIn, PidNamesRunner, vars, lockVars

\* The invariant holds throughout: it is what createLockFile maintains with any
\* number of processes and directories.
THEOREM LockInductive == Spec => []LockInv
<1>1. LockInv /\ [Next]_vars => LockInv'
  <2> SUFFICES ASSUME LockInv, [Next]_vars PROVE LockInv'
    OBVIOUS
  <2>1. CASE UNCHANGED vars
    BY <2>1, StutterInv
  <2>2. CASE Next
    BY <2>2, OpenInv, UnlockedInv, StepInv DEF Next
  <2> QED BY <2>1, <2>2
<1> QED BY <1>1, InitInv, PTL DEF Spec

\* Under one lock file runs one process.
LEMMA OnePerFile ==
  ASSUME LockInv, NEW p \in Process, NEW q \in Process, p # q,
         Running(p, Action \ NoLock), Running(q, Action \ NoLock)
  PROVE  path[p] # path[q]
  BY DEF LockInv, HolderKept, Locked

\* The variables of the lock and of the processes keep their types.
THEOREM LockTypeCorrect == Spec => []TypeOK
<1>1. LockInv => TypeOK
  BY DEF LockInv
<1> QED BY <1>1, LockInductive, PTL

\* Actions in one working directory never run together, nor do two that write
\* one target directory, unless the configured working directory is relative and
\* means another directory for each of them.
THEOREM WritersApart == Spec => []OneWriter
<1>1. LockInv => OneWriter
  <2> SUFFICES ASSUME LockInv, NEW p \in Process, NEW q \in Process, p # q
               PROVE  /\ /\ Running(p, NeedsWorking) /\ Running(q, NeedsWorking)
                         => WorkingIn(p) # WorkingIn(q)
                      /\ /\ Running(p, {"download", "link"}) /\ Running(q, {"download", "link"})
                         /\ TargetIn(p) = TargetIn(q)
                         => config.working # Unset /\ WorkingIn(p) # WorkingIn(q)
    BY DEF OneWriter
  <2>1. NeedsWorking \subseteq Action \ NoLock /\ {"download", "link"} \subseteq Action \ NoLock
    BY DEF NeedsWorking, Action, NoLock
  <2>2. ASSUME Running(p, NeedsWorking), Running(q, NeedsWorking)
        PROVE  WorkingIn(p) # WorkingIn(q)
    <3>1. path[p] = WorkingIn(p) /\ path[q] = WorkingIn(q)
      BY <2>1, <2>2 DEF LockInv, PathFollows, Running
    <3> QED BY <2>1, <2>2, <3>1, OnePerFile DEF Running
  <2>3. ASSUME Running(p, {"download", "link"}), Running(q, {"download", "link"}),
               TargetIn(p) = TargetIn(q)
        PROVE  config.working # Unset /\ WorkingIn(p) # WorkingIn(q)
    <3>1. path[p] # path[q]
      BY <2>1, <2>3, OnePerFile DEF Running
    <3>2. CASE config.working = Unset
      BY <2>1, <2>3, <3>1, <3>2 DEF LockInv, PathFollows, Running, NeedsTarget
    <3>3. CASE config.working # Unset
      BY <2>1, <2>3, <3>1, <3>3 DEF LockInv, PathFollows, Running
    <3> QED BY <3>2, <3>3
  <2> QED BY <2>2, <2>3
<1> QED BY <1>1, LockInductive, PTL

\* The pid in a lock file is that of the process that runs under it.
THEOREM PidAlwaysRunner == Spec => []PidNamesRunner
<1>1. LockInv => PidNamesRunner
  BY DEF LockInv
<1> QED BY <1>1, LockInductive, PTL
=============================================================================
