-------------------------- MODULE IndexStoreProofs --------------------------
(* Proofs about IndexStore: retention, and that the versions and the cached  *)
(* file behave as one register.                                              *)
EXTENDS IndexStore, FiniteSetTheorems, WellFoundedInduction, TLAPS

-----------------------------------------------------------------------------
\* A finite set of integers that is not empty has a greatest and a least
\* element: a smallest subset without one would lose it to a smaller one.
LEMMA Extremes ==
  ASSUME NEW S \in SUBSET Int, IsFiniteSet(S), S # {}
  PROVE  /\ \E m \in S : \A u \in S : u <= m
         /\ \E m \in S : \A u \in S : m <= u
<1> DEFINE Has(X) == /\ \E m \in X : \A u \in X : u <= m
                     /\ \E m \in X : \A u \in X : m <= u
           bad == {X \in SUBSET S : X # {} /\ ~Has(X)}
<1>1. ASSUME bad # {} PROVE FALSE
  <2>1. bad \subseteq FiniteSubsetsOf(S)
    BY FS_FiniteSubsetsOfFinite
  <2>2. PICK X \in bad : \A Y \in bad : <<Y, X>> \notin StrictSubsetOrdering(S)
    <3> HIDE DEF bad
    <3> QED BY <1>1, <2>1, FS_StrictSubsetOrderingWellFounded, WFMin
  <2>3. PICK x \in X : TRUE
    OBVIOUS
  <2>4. <<X \ {x}, X>> \in StrictSubsetOrdering(S)
    BY <2>3 DEF StrictSubsetOrdering
  <2>5. X \ {x} \notin bad
    BY <2>2, <2>4
  <2>6. CASE X = {x}
    BY <2>6
  <2>7. CASE X # {x}
    <3>1. Has(X \ {x})
      BY <2>5, <2>7
    <3>2. PICK h \in X \ {x}, l \in X \ {x} : \A u \in X \ {x} : u <= h /\ l <= u
      BY <3>1
    <3>3. \E m \in X : \A u \in X : u <= m
      <4>1. CASE x <= h
        BY <3>2, <4>1
      <4>2. CASE h <= x
        BY <3>2, <4>2
      <4> QED BY <4>1, <4>2
    <3>4. \E m \in X : \A u \in X : m <= u
      <4>1. CASE l <= x
        BY <3>2, <4>1
      <4>2. CASE x <= l
        BY <3>2, <4>2
      <4> QED BY <4>1, <4>2
    <3> QED BY <3>3, <3>4
  <2> QED BY <2>6, <2>7
<1> QED BY <1>1

LEMMA NewestIsGreatest ==
  ASSUME NEW S \in SUBSET Int, IsFiniteSet(S), S # {}
  PROVE  NewestOf(S) \in S /\ \A u \in S : u <= NewestOf(S)
<1>1. \E m \in S : \A u \in S : u <= m
  BY Extremes
<1> QED BY <1>1 DEF NewestOf

LEMMA GreatestIsNewest ==
  ASSUME NEW S \in SUBSET Int, NEW m \in S, \A u \in S : u <= m
  PROVE  NewestOf(S) = m
<1>1. NewestOf(S) \in S /\ \A u \in S : u <= NewestOf(S)
  BY DEF NewestOf
<1>2. NewestOf(S) \in Int /\ m \in Int
  BY <1>1
<1>3. NewestOf(S) <= m /\ m <= NewestOf(S)
  BY <1>1
<1> QED BY <1>2, <1>3

\* All that is to be deleted is older than Keep versions that are not.
LEMMA SurplusSparesNewer ==
  ASSUME NEW S \in SUBSET Int, IsFiniteSet(S), NEW t \in Surplus(S)
  PROVE  Cardinality({u \in S \ Surplus(S) : u > t}) >= Keep
<1>1. /\ Surplus(S) \in SUBSET Int /\ IsFiniteSet(Surplus(S)) /\ Surplus(S) # {}
      /\ Surplus(S) \in SUBSET S
  <2>1. Surplus(S) \in SUBSET S
    BY DEF Surplus
  <2> QED BY <2>1, FS_Subset
<1>2. PICK m \in Surplus(S) : \A u \in Surplus(S) : u <= m
  BY <1>1, Extremes
<1>3. {u \in S : u > m} \subseteq {u \in S \ Surplus(S) : u > t}
  <2>1. t <= m /\ t \in Int /\ m \in Int
    BY <1>1, <1>2
  <2>2. ASSUME NEW u \in S, u > m PROVE u \notin Surplus(S) /\ u > t
    BY <1>1, <1>2, <2>1, <2>2
  <2> QED BY <2>2
<1>4. /\ Cardinality({u \in S : u > m}) >= Keep
      /\ IsFiniteSet({u \in S : u > m}) /\ IsFiniteSet({u \in S \ Surplus(S) : u > t})
  <2>1. {u \in S : u > m} \in SUBSET S /\ {u \in S \ Surplus(S) : u > t} \in SUBSET S
    OBVIOUS
  <2>2. Cardinality({u \in S : u > m}) >= Keep
    BY <1>2 DEF Surplus
  <2> QED BY <2>1, <2>2, FS_Subset
<1>5. /\ Cardinality({u \in S : u > m}) \in Nat
      /\ Cardinality({u \in S \ Surplus(S) : u > t}) \in Nat
      /\ Cardinality({u \in S : u > m}) <= Cardinality({u \in S \ Surplus(S) : u > t})
  BY <1>3, <1>4, FS_Subset, FS_CardinalityType
<1> QED BY <1>4, <1>5, StoreAssumption

\* What is not to be deleted is no more than Keep.
LEMMA SurplusLeavesKeep ==
  ASSUME NEW S \in SUBSET Int, IsFiniteSet(S)
  PROVE  Cardinality(S \ Surplus(S)) <= Keep
<1> DEFINE R == S \ Surplus(S)
<1>1. R \in SUBSET Int /\ IsFiniteSet(R) /\ Cardinality(R) \in Nat
  BY FS_Subset, FS_CardinalityType
<1>2. CASE R = {}
  BY <1>2, FS_EmptySet, StoreAssumption
<1>3. CASE R # {}
  <2>1. PICK m \in R : \A u \in R : m <= u
    <3> HIDE DEF R
    <3> QED BY <1>1, <1>3, Extremes
  <2>2. /\ R \ {m} \subseteq {u \in S : u > m}
        /\ IsFiniteSet({u \in S : u > m}) /\ Cardinality({u \in S : u > m}) \in Nat
    BY <1>1, <2>1, FS_Subset, FS_CardinalityType
  <2>3. Cardinality(R \ {m}) <= Cardinality({u \in S : u > m})
    BY <2>2, FS_Subset
  <2>4. Cardinality(R \ {m}) = Cardinality(R) - 1
    BY <1>1, <2>1, FS_RemoveElement
  <2>5. ~(Cardinality({u \in S : u > m}) >= Keep)
    BY <2>1 DEF Surplus
  <2> QED BY <1>1, <2>2, <2>3, <2>4, <2>5, StoreAssumption
<1> QED BY <1>2, <1>3

-----------------------------------------------------------------------------
\* What a request in the middle of an operation can rely on.
OperationInv ==
    /\ pc = "idle" => newest = NoVersion /\ mine = Nothing /\ rh = Nothing
    /\ pc # "trim" => trim = {}
    /\ pc \in {"trim", "head", "use", "put"} => newest = NewestOf(Names)
    /\ pc \in {"head", "use"} => newest # NoVersion
    /\ pc = "use" => op = "load" /\ rh = versions[newest]
    /\ pc \in {"put", "rename"} => op = "upload"
    /\ pc # "idle" /\ op = "load" => mine = cached
    /\ pc # "idle" /\ op = "upload" => mine \in Body

\* A version that is to be deleted has Keep newer ones that are not.
TrimInv == \A t \in trim : Cardinality({u \in Names \ trim : u > t}) >= Keep

StoreInv == TypeOK /\ OperationInv /\ TrimInv

LEMMA NamesFinite ==
  ASSUME TypeOK
  PROVE  /\ Names \in SUBSET Int /\ IsFiniteSet(Names)
         /\ now \in Nat /\ 0 \in 0..now /\ now \in 0..now
<1>1. now \in Nat /\ Names \in SUBSET (0..now)
  BY StoreAssumption DEF TypeOK
<1>2. IsFiniteSet(0..now)
  BY <1>1, FS_Interval
<1>3. IsFiniteSet(Names)
  BY <1>1, <1>2, FS_Subset
<1> QED BY <1>1, <1>3

LEMMA StoreInitInv == Init => StoreInv
<1> SUFFICES ASSUME Init PROVE StoreInv
  OBVIOUS
<1>1. Names \in {{}, {0}} /\ versions \in [Names -> Body]
  BY DEF Init, Names
<1>2. TypeOK
  <2>1. stubborn \in BOOLEAN
    BY Zenon DEF Init
  <2>2. now \in 1..MaxTime /\ Names \subseteq 0..now
    BY <1>1, StoreAssumption DEF Init
  <2> QED BY <1>1, <2>1, <2>2 DEF Init, TypeOK
<1> QED BY <1>2 DEF Init, StoreInv, OperationInv, TrimInv

\* Where nothing is left to delete, TrimInv says nothing.
LEMMA NoTrim == trim = {} => TrimInv
  BY DEF TrimInv

\* A version named after the current second becomes the newest.
LEMMA PutIsNewest ==
  ASSUME TypeOK, NEW b \in Body, versions' = Put(versions, b), now' = now
  PROVE  /\ Names' = Names \cup {now} /\ versions' \in [Names' -> Body]
         /\ NewestBody' = b
<1>1. Names' = Names \cup {now} /\ versions'[now] = b
  BY DEF Put, Names
<1>2. versions' \in [Names' -> Body]
  BY <1>1 DEF Put, TypeOK, Names
<1>3. Names' \in SUBSET Int /\ now \in Names' /\ \A u \in Names' : u <= now
  BY <1>1, NamesFinite DEF TypeOK
<1>4. NewestOf(Names') = now
  BY <1>3, GreatestIsNewest
<1> QED BY <1>1, <1>2, <1>3, <1>4 DEF NewestBody

\* A deletion leaves the newest version alone.
LEMMA TrimSparesNewest ==
  ASSUME StoreInv, NEW t \in trim, TrimVersion(t)
  PROVE  /\ Names # {} /\ NewestOf(Names) # t /\ NewestOf(Names') = NewestOf(Names)
         /\ NewestOf(Names) \in Names' /\ NewestBody' = NewestBody
         /\ Names' = Names \ {t} \/ Names' = Names
         /\ \A u \in Names' : versions'[u] = versions[u]
         /\ versions' \in [Names' -> Body]
<1>1. /\ Names' = Names \ {t} \/ Names' = Names
      /\ \A u \in Names' : versions'[u] = versions[u]
      /\ versions' \in [Names' -> Body]
  BY DEF TrimVersion, Names, StoreInv, TypeOK
<1>2. {u \in Names \ trim : u > t} # {}
  BY FS_EmptySet, StoreAssumption DEF StoreInv, TrimInv
<1>3. Names # {} /\ NewestOf(Names) \in Names /\ \A u \in Names : u <= NewestOf(Names)
  BY <1>2, NamesFinite, NewestIsGreatest DEF StoreInv
<1>4. NewestOf(Names) # t
  <2>1. PICK u \in Names : u > t
    BY <1>2
  <2>2. t \in Int /\ u \in Int
    BY NamesFinite DEF StoreInv, TypeOK
  <2> QED BY <1>3, <2>1, <2>2
<1>5. Names' \in SUBSET Int /\ NewestOf(Names) \in Names'
      /\ \A u \in Names' : u <= NewestOf(Names)
  BY <1>1, <1>3, <1>4, NamesFinite DEF StoreInv
<1>6. NewestOf(Names') = NewestOf(Names)
  BY <1>5, GreatestIsNewest
<1> QED BY <1>1, <1>3, <1>4, <1>5, <1>6 DEF NewestBody

-----------------------------------------------------------------------------
\* The invariant survives each step.  First, those that write no version and
\* delete none.
LEMMA QuietInv ==
  ASSUME StoreInv, UNCHANGED stubborn,
         \/ BeginLoad \/ TrimDone \/ NotFound \/ HeadNewest \/ UseCached \/ Download
         \/ SameIndex \/ RenameTmp \/ Fail \/ Tick \/ LoseCache
         \/ \E b \in Body : BeginUpload(b)
  PROVE  StoreInv'
<1> USE DEF StoreInv, TypeOK, OperationInv
<1>0. versions' = versions /\ Names' = Names /\ trim' \in {trim, {}} /\ now \in Nat
  BY NamesFinite, Zenon
  DEF BeginLoad, TrimDone, NotFound, HeadNewest, UseCached, Download, SameIndex, RenameTmp,
      Fail, Tick, LoseCache, BeginUpload, Names, Finish
<1>1. TrimInv'
  BY <1>0 DEF TrimInv
<1>2. CASE BeginLoad
  BY <1>0, <1>1, <1>2 DEF BeginLoad
<1>3. ASSUME NEW b \in Body, BeginUpload(b) PROVE StoreInv'
  BY <1>0, <1>1, <1>3 DEF BeginUpload
<1>4. CASE TrimDone
  BY <1>0, <1>1, <1>4 DEF TrimDone
<1>5. CASE NotFound
  BY <1>0, <1>1, <1>5, StoreAssumption DEF NotFound, Finish
<1>6. CASE HeadNewest
  <2>1. versions[newest] \in Body
    BY <1>6 DEF HeadNewest
  <2> QED BY <1>0, <1>1, <1>6, <2>1 DEF HeadNewest
<1>7. CASE UseCached
  BY <1>0, <1>1, <1>7 DEF UseCached, Finish
<1>8. CASE Download
  <2>1. versions[newest] \in Body
    BY <1>8 DEF Download
  <2> QED BY <1>0, <1>1, <1>8, <2>1 DEF Download, Finish
<1>9. CASE SameIndex
  BY <1>0, <1>1, <1>9 DEF SameIndex
<1>10. CASE RenameTmp
  BY <1>0, <1>1, <1>10 DEF RenameTmp, Finish
<1>11. CASE Fail
  BY <1>0, <1>1, <1>11 DEF Fail, Finish
<1>12. CASE Tick
  <2>1. now' \in 1..MaxTime /\ 0..now \subseteq 0..now'
    BY <1>0, <1>12, StoreAssumption DEF Tick
  <2> QED BY <1>0, <1>1, <1>12, <2>1 DEF Tick
<1>13. CASE LoseCache
  BY <1>0, <1>1, <1>13 DEF LoseCache
<1> QED BY <1>2, <1>3, <1>4, <1>5, <1>6, <1>7, <1>8, <1>9, <1>10, <1>11, <1>12, <1>13

LEMMA ListInv == ASSUME StoreInv, UNCHANGED stubborn, ListVersions PROVE StoreInv'
<1>1. /\ Names' = Names /\ trim' = Surplus(Names) /\ newest' = NewestOf(Names)
      /\ pc' = "trim" /\ UNCHANGED <<now, versions, cached, op, mine, rh, loaded, stubborn>>
  BY DEF ListVersions, Names
<1>2. Names \in SUBSET Int /\ IsFiniteSet(Names)
  BY NamesFinite DEF StoreInv
<1>3. NewestOf(Names) \in Names \cup {NoVersion}
  BY <1>2, NewestIsGreatest DEF NewestOf
<1>4. Surplus(Names) \subseteq 0..now
  BY DEF Surplus, StoreInv, TypeOK
<1>5. TypeOK' /\ OperationInv'
  BY <1>1, <1>3, <1>4 DEF ListVersions, StoreInv, TypeOK, OperationInv
<1>6. TrimInv'
  BY <1>1, <1>2, SurplusSparesNewer DEF TrimInv
<1> QED BY <1>5, <1>6 DEF StoreInv

LEMMA TrimStepInv ==
  ASSUME StoreInv, UNCHANGED stubborn, NEW t \in trim, TrimVersion(t)
  PROVE  StoreInv'
<1>1. /\ pc = "trim" /\ trim' = trim \ {t}
      /\ UNCHANGED <<now, cached, pc, op, mine, newest, rh, loaded, stubborn>>
  BY DEF TrimVersion
<1>2. /\ NewestOf(Names') = NewestOf(Names) /\ NewestOf(Names) \in Names'
      /\ Names' = Names \ {t} \/ Names' = Names
      /\ versions' \in [Names' -> Body]
  BY TrimSparesNewest
<1>3. TypeOK' /\ OperationInv'
  BY <1>1, <1>2 DEF StoreInv, TypeOK, OperationInv
<1>4. TrimInv'
  <2> SUFFICES ASSUME NEW v \in trim'
               PROVE  Cardinality({u \in Names' \ trim' : u > v}) >= Keep
    BY DEF TrimInv
  <2> DEFINE before == {u \in Names \ trim : u > v}
             after  == {u \in Names' \ trim' : u > v}
  <2>1. before \in SUBSET after /\ after \in SUBSET Names
    BY <1>1, <1>2
  <2>2. Cardinality(before) >= Keep
    BY <1>1 DEF StoreInv, TrimInv
  <2>3. /\ IsFiniteSet(after) /\ IsFiniteSet(before)
        /\ Cardinality(before) \in Nat /\ Cardinality(after) \in Nat
    <3> HIDE DEF before, after
    <3> QED BY <2>1, NamesFinite, FS_Subset, FS_CardinalityType DEF StoreInv
  <2>4. Cardinality(before) <= Cardinality(after)
    <3> HIDE DEF before, after
    <3> QED BY <2>1, <2>3, FS_Subset
  <2> QED BY <2>2, <2>3, <2>4, StoreAssumption
<1> QED BY <1>3, <1>4 DEF StoreInv

LEMMA PutInv ==
  ASSUME StoreInv, UNCHANGED stubborn, PutVersion \/ PutLost
  PROVE  StoreInv'
<1>1. /\ pc = "put" /\ mine \in Body /\ trim = {} /\ op = "upload"
      /\ versions' = Put(versions, mine) /\ now' = now
  BY DEF PutVersion, PutLost, StoreInv, OperationInv
<1>2. Names' = Names \cup {now} /\ versions' \in [Names' -> Body]
  BY <1>1, PutIsNewest DEF StoreInv
<1>3. trim' = {} /\ TrimInv'
  BY <1>1 DEF PutVersion, PutLost, Finish, TrimInv
<1>4. now \in 0..now
  BY NamesFinite DEF StoreInv
<1> QED BY <1>1, <1>2, <1>3, <1>4
    DEF PutVersion, PutLost, Finish, StoreInv, TypeOK, OperationInv

LEMMA ElsewhereInv ==
  ASSUME StoreInv, UNCHANGED stubborn, NEW b \in Body, UploadElsewhere(b)
  PROVE  /\ StoreInv' /\ NewestBody' = b
         /\ Names' = (Names \ Surplus(Names)) \cup {now}
<1> DEFINE vs == [t \in Names \ Surplus(Names) |-> versions[t]]
<1>1. /\ pc = "idle" /\ trim = {} /\ versions' = Put(vs, b)
      /\ UNCHANGED <<now, cached, pc, op, mine, newest, trim, rh, loaded>>
  BY DEF UploadElsewhere, StoreInv, OperationInv
<1>2. Names' = (Names \ Surplus(Names)) \cup {now} /\ versions'[now] = b
  BY <1>1 DEF Put, Names
<1>3. versions' \in [Names' -> Body]
  BY <1>1, <1>2 DEF Put, StoreInv, TypeOK
<1>4. now \in 0..now /\ Names \in SUBSET Int
  BY NamesFinite DEF StoreInv
<1>5. TypeOK' /\ OperationInv' /\ TrimInv'
  BY <1>1, <1>2, <1>3, <1>4 DEF StoreInv, TypeOK, OperationInv, TrimInv
<1>6. NewestOf(Names') = now
  BY <1>2, <1>4, GreatestIsNewest DEF StoreInv, TypeOK
<1> QED BY <1>2, <1>5, <1>6 DEF StoreInv, NewestBody

LEMMA StoreNextInv == ASSUME StoreInv, [Next]_vars PROVE StoreInv'
<1>1. CASE Next
  BY <1>1, QuietInv, ListInv, TrimStepInv, PutInv, ElsewhereInv DEF Next, Operation
<1>2. CASE UNCHANGED vars
  BY <1>2 DEF vars, StoreInv, TypeOK, OperationInv, TrimInv, Names
<1> QED BY <1>1, <1>2

\* Between any two requests of a load or an upload, and whatever was killed
\* before, the versions and what trimming still has to delete fit together.
THEOREM StoreInductive == Spec => []StoreInv
  BY StoreInitInv, StoreNextInv, PTL DEF Spec

\* The variables of the store keep their types.
THEOREM StoreTypeCorrect == Spec => []TypeOK
<1>1. StoreInv => TypeOK
  BY DEF StoreInv
<1> QED BY <1>1, StoreInductive, PTL

-----------------------------------------------------------------------------
\* Who writes versions, and who deletes them.
LEMMA OthersKeepVersions ==
  ASSUME Next
  PROVE  \/ versions' = versions
         \/ \E t \in trim : TrimVersion(t)
         \/ PutVersion \/ PutLost
         \/ \E b \in Body : UploadElsewhere(b)
  BY Zenon DEF Next, Operation, BeginLoad, ListVersions, TrimDone, NotFound, HeadNewest, UseCached,
         Download, SameIndex, RenameTmp, Fail, Tick, LoseCache, BeginUpload

\* A version that a step deletes has Keep newer ones.
LEMMA StepTrimsOldest == ASSUME StoreInv, [Next]_vars PROVE TrimOldest
<1>1. CASE versions' = versions
  BY <1>1 DEF TrimOldest, Names
<1>2. ASSUME NEW t \in trim, TrimVersion(t) PROVE TrimOldest
  <2>1. Names \ Names' \subseteq {t}
    BY <1>2, TrimSparesNewest
  <2> DEFINE kept == {u \in Names \ trim : u > t}
             newer == {u \in Names : u > t}
  <2>2. kept \in SUBSET newer /\ newer \in SUBSET Names
    OBVIOUS
  <2>3. Cardinality(kept) >= Keep
    BY DEF StoreInv, TrimInv
  <2>4. IsFiniteSet(newer) /\ Cardinality(kept) \in Nat /\ Cardinality(newer) \in Nat
        /\ Cardinality(kept) <= Cardinality(newer)
    <3> HIDE DEF kept, newer
    <3> QED BY <2>2, NamesFinite, FS_Subset, FS_CardinalityType DEF StoreInv
  <2>5. Cardinality(newer) >= Keep
    BY <2>3, <2>4, StoreAssumption
  <2> QED BY <2>1, <2>5 DEF TrimOldest
<1>3. ASSUME PutVersion \/ PutLost PROVE TrimOldest
  <2>1. Names' = Names \cup {now}
    BY <1>3 DEF PutVersion, PutLost, Put, Names
  <2> QED BY <2>1 DEF TrimOldest
<1>4. ASSUME NEW b \in Body, UploadElsewhere(b) PROVE TrimOldest
  <2>1. Names' = (Names \ Surplus(Names)) \cup {now}
    BY <1>4 DEF UploadElsewhere, Put, Names
  <2> QED BY <2>1 DEF TrimOldest, Surplus
<1> QED BY <1>1, <1>2, <1>3, <1>4, OthersKeepVersions DEF vars

\* A version disappears only when Keep newer ones exist, whatever is killed or
\* fails half-way.
THEOREM AlwaysRetainsLatest == Spec => RetainsLatest
<1>1. StoreInv /\ [Next]_vars => [TrimOldest]_vars
  BY StepTrimsOldest
<1> QED BY <1>1, StoreInductive, PTL DEF Spec, RetainsLatest

-----------------------------------------------------------------------------
\* Where deletions do not fail, an operation that has trimmed leaves Keep
\* versions, and writes one.
BoundInv ==
    ~stubborn =>
        /\ Cardinality(Names) <= Keep + 1
        /\ pc \in {"trim", "head", "use", "put"} => Cardinality(Names \ trim) <= Keep

LEMMA CardinalityOfNames ==
  ASSUME TypeOK
  PROVE  /\ Cardinality(Names) \in Nat /\ Cardinality(Names \ trim) \in Nat
         /\ Cardinality(Names \ Surplus(Names)) \in Nat
         /\ IsFiniteSet(Names) /\ IsFiniteSet(Names \ Surplus(Names))
  BY NamesFinite, FS_Difference, FS_CardinalityType

LEMMA OneMore ==
  ASSUME NEW S, NEW t, IsFiniteSet(S), Cardinality(S) <= Keep
  PROVE  Cardinality(S \cup {t}) <= Keep + 1
<1>1. Cardinality(S \cup {t}) \in {Cardinality(S), Cardinality(S) + 1}
  BY FS_AddElement
<1>2. Cardinality(S) \in Nat
  BY FS_CardinalityType
<1> QED BY <1>1, <1>2, StoreAssumption

LEMMA BoundInitInv == Init => BoundInv
<1> SUFFICES ASSUME Init PROVE BoundInv
  OBVIOUS
<1>1. Names \in {{}, {0}}
  BY DEF Init, Names
<1>2. Cardinality(Names) \in {0, 1}
  BY <1>1, FS_EmptySet, FS_Singleton
<1> QED BY <1>2, StoreAssumption DEF Init, BoundInv

LEMMA BoundNextInv == ASSUME StoreInv, BoundInv, [Next]_vars PROVE BoundInv'
<1> SUFFICES ASSUME ~stubborn', ~stubborn PROVE BoundInv'
  BY DEF BoundInv, Next, vars
<1>0. /\ Cardinality(Names) <= Keep + 1 /\ Cardinality(Names) \in Nat
      /\ Cardinality(Names \ Surplus(Names)) \in Nat
      /\ pc \in {"trim", "head", "use", "put"} => Cardinality(Names \ trim) <= Keep
      /\ Names \in SUBSET Int /\ IsFiniteSet(Names)
  BY CardinalityOfNames, NamesFinite DEF BoundInv, StoreInv
<1>1. CASE versions' = versions
  <2>1. Names' = Names
    BY <1>1 DEF Names
  <2>2. CASE ListVersions
    BY <1>0, <2>1, <2>2, SurplusLeavesKeep DEF ListVersions, BoundInv
  <2>3. CASE ~ListVersions /\ ~(\E t \in trim : TrimVersion(t))
    <3>1. pc' \in {"trim", "head", "use", "put"}
          => pc \in {"trim", "head", "use", "put"} /\ trim' = trim
      BY <2>3, Zenon
      DEF Next, Operation, BeginLoad, TrimDone, NotFound, HeadNewest, UseCached,
          Download, PutVersion, PutLost, SameIndex, RenameTmp, Fail, Tick, LoseCache,
          BeginUpload, UploadElsewhere, Finish, vars
    <3> QED BY <1>0, <2>1, <3>1 DEF BoundInv
  <2>4. CASE \E t \in trim : TrimVersion(t)
    <3>1. PICK t \in trim : TrimVersion(t)
      BY <2>4
    <3>2. versions' = [u \in Names \ {t} |-> versions[u]] /\ trim' = trim \ {t}
      BY <3>1 DEF TrimVersion
    <3>3. t \notin Names
      BY <2>1, <3>2 DEF Names
    <3>4. Names' \ trim' = Names \ trim
      BY <2>1, <3>2, <3>3
    <3> QED BY <1>0, <2>1, <3>1, <3>4 DEF TrimVersion, BoundInv
  <2> QED BY <2>2, <2>3, <2>4
<1>2. ASSUME NEW t \in trim, TrimVersion(t) PROVE BoundInv'
  <2>1. pc = "trim" /\ pc' = "trim" /\ trim' = trim \ {t} /\ Names' = Names \ {t}
    BY <1>2 DEF TrimVersion, Names
  <2>2. Names' \ trim' = Names \ trim
    BY <2>1
  <2>3. Cardinality(Names \ {t}) <= Cardinality(Names) /\ Cardinality(Names \ {t}) \in Nat
    BY <1>0, FS_Subset, FS_CardinalityType
  <2> QED BY <1>0, <2>1, <2>2, <2>3, StoreAssumption DEF BoundInv
<1>3. ASSUME PutVersion \/ PutLost PROVE BoundInv'
  <2>1. /\ pc = "put" /\ trim = {} /\ pc' \in {"rename", "idle"}
        /\ Names' = Names \cup {now}
    BY <1>3 DEF PutVersion, PutLost, Put, Names, Finish, StoreInv, OperationInv
  <2>2. Names \ trim = Names
    BY <2>1
  <2>3. Cardinality(Names \cup {now}) <= Cardinality(Names) + 1
    BY <1>0, FS_AddElement
  <2>4. Cardinality(Names \cup {now}) \in Nat
    BY <1>0, FS_AddElement, FS_CardinalityType
  <2> QED BY <1>0, <2>1, <2>2, <2>3, <2>4, StoreAssumption DEF BoundInv
<1>4. ASSUME NEW b \in Body, UploadElsewhere(b) PROVE BoundInv'
  <2>1. pc' = "idle" /\ Names' = (Names \ Surplus(Names)) \cup {now}
    BY <1>4, ElsewhereInv DEF UploadElsewhere, Put, Names
  <2>2. /\ Cardinality(Names \ Surplus(Names)) <= Keep
        /\ IsFiniteSet(Names \ Surplus(Names))
    BY <1>0, SurplusLeavesKeep, FS_Difference
  <2>3. Cardinality(Names') <= Keep + 1
    BY <2>1, <2>2, OneMore
  <2> QED BY <2>1, <2>3 DEF BoundInv
<1> QED BY <1>1, <1>2, <1>3, <1>4, OthersKeepVersions DEF vars

\* Where deletions do not fail, there is never more than one version too many.
THEOREM VersionsAlwaysBounded == Spec => []VersionsBounded
<1>1. BoundInv => VersionsBounded
  BY DEF BoundInv, VersionsBounded
<1>2. StoreInv /\ BoundInv /\ [Next]_vars => BoundInv'
  BY BoundNextInv
<1> QED BY <1>1, <1>2, StoreInductive, BoundInitInv, PTL DEF Spec

-----------------------------------------------------------------------------
\* Each step of the store is a step of the register, or none.
LEMMA StepSimulates ==
  ASSUME StoreInv, [Next]_vars
  PROVE  [Register!Next]_<<NewestBody, loaded>>
<1> USE DEF Register!Next, Register!Load, Register!Publish
<1>1. CASE versions' = versions
  <2>1. NewestBody' = NewestBody
    BY <1>1 DEF NewestBody, Names
  <2>2. CASE NotFound
    <3>1. newest = NoVersion /\ newest = NewestOf(Names)
      BY <2>2 DEF NotFound, StoreInv, OperationInv
    <3>2. Names = {}
      <4>1. NoVersion \notin Names
        BY StoreAssumption DEF StoreInv, TypeOK, NoVersion
      <4> QED BY <3>1, <4>1, NamesFinite, NewestIsGreatest DEF StoreInv
    <3> QED BY <2>1, <2>2, <3>2 DEF NotFound, NewestBody
  <2>3. CASE UseCached \/ Download
    <3>1. /\ newest = NewestOf(Names) /\ newest \in Names
          /\ rh = versions[newest] /\ mine = cached
      BY <2>3 DEF UseCached, Download, StoreInv, TypeOK, OperationInv
    <3> QED BY <2>1, <2>3, <3>1 DEF UseCached, Download, NewestBody
  <2>4. CASE ~NotFound /\ ~UseCached /\ ~Download
    <3>1. loaded' = loaded
      BY <2>4, Zenon
      DEF Next, Operation, BeginLoad, ListVersions, TrimVersion, TrimDone, HeadNewest,
          PutVersion, PutLost, SameIndex, RenameTmp, Fail, Tick, LoseCache,
          BeginUpload, UploadElsewhere, vars
    <3> QED BY <2>1, <3>1
  <2> QED BY <2>2, <2>3, <2>4
<1>2. ASSUME NEW t \in trim, TrimVersion(t)
      PROVE  NewestBody' = NewestBody /\ loaded' = loaded
  BY <1>2, TrimSparesNewest DEF TrimVersion
<1>3. ASSUME PutVersion \/ PutLost PROVE Register!Next
  <2>1. /\ mine \in Body /\ versions' = Put(versions, mine)
        /\ now' = now /\ loaded' = loaded
    BY <1>3 DEF PutVersion, PutLost, StoreInv, OperationInv
  <2> QED BY <2>1, PutIsNewest DEF StoreInv
<1>4. ASSUME NEW b \in Body, UploadElsewhere(b) PROVE Register!Next
  <2>1. loaded' = loaded /\ stubborn' = stubborn
    BY <1>4 DEF UploadElsewhere, Next, vars
  <2> QED BY <1>4, <2>1, ElsewhereInv
<1> QED BY <1>1, <1>2, <1>3, <1>4, OthersKeepVersions DEF vars

\* Versions, trimming and cached file together behave as one register: a load
\* delivers the index that was published last.
THEOREM StoreImplementsRegister == Spec => ImplementsRegister
<1>1. Init => Register!Init
  <2> SUFFICES ASSUME Init PROVE Register!Init
    OBVIOUS
  <2>1. Names \in {{}, {0}} /\ versions \in [Names -> Body]
    BY DEF Init, Names
  <2>2. NewestOf({0}) = 0
    BY GreatestIsNewest
  <2>3. NewestBody \in Body \cup {Nothing}
    BY <2>1, <2>2 DEF NewestBody
  <2> QED BY <2>3 DEF Init, Register!Init
<1>2. StoreInv /\ [Next]_vars => [Register!Next]_<<NewestBody, loaded>>
  BY StepSimulates
<1> QED BY <1>1, <1>2, StoreInductive, PTL DEF Spec, ImplementsRegister, Register!Spec
=============================================================================
