---------------------------- MODULE TreeProofs -----------------------------
(* Proofs about Mount and Browse, for every index that a scan may leave. *)
EXTENDS Mount, Browse, SequenceTheorems, WellFoundedInduction, TLAPS

\* The directories above a path are those above its parent, and the parent.
LEMMA AboveParent ==
  ASSUME NEW S, NEW p \in Seq(S), p # Root
  PROVE  /\ Above(p) = Above(Parent(p)) \cup {Parent(p)}
         /\ p \notin Above(p)
<1> DEFINE n == Len(p) - 1
<1>1. Len(p) \in Nat /\ Len(p) >= 1 /\ n \in Nat
  BY EmptySeq DEF Root
<1>2. Parent(p) = SubSeq(p, 1, n) /\ Parent(p) \in Seq(S) /\ Len(Parent(p)) = n
  <2>1. Parent(p) = SubSeq(p, 1, n)
    BY DEF Parent
  <2>2. \A i \in 1..n : p[i] \in S
    BY <1>1
  <2>3. /\ SubSeq(p, 1, n) \in Seq(S)
        /\ Len(SubSeq(p, 1, n)) = IF 1 <= n THEN n - 1 + 1 ELSE 0
    <3> HIDE DEF n
    <3> QED BY <1>1, <2>2, SubSeqProperties
  <2> HIDE DEF n
  <2>4. (IF 1 <= n THEN n - 1 + 1 ELSE 0) = n
    BY <1>1
  <2> QED BY <2>1, <2>3, <2>4, Zenon
<1>3. ASSUME NEW i \in 0..n - 1 PROVE SubSeq(Parent(p), 1, i) = SubSeq(p, 1, i)
  <2>1. CASE i = 0
    BY <1>1, <1>2, <2>1, SubSeqEmpty
  <2>2. CASE i # 0
    <3>1. i \in 1..n - 1 + 1 /\ 1 \in 1..n - 1 + 1 /\ 1 \in 1..Len(p) /\ n \in 1..Len(p)
      BY <1>1, <2>2
    <3>2. SubSeq(SubSeq(p, 1, n), 1, i) = SubSeq(p, 1 + 1 - 1, 1 + i - 1)
      BY <3>1, SubSeqOfSubSeq
    <3>3. 1 + 1 - 1 = 1 /\ 1 + i - 1 = i
      BY <1>1
    <3> QED BY <1>2, <3>2, <3>3
  <2> QED BY <2>1, <2>2
<1>4. ASSUME NEW i \in 0..n PROVE Len(SubSeq(p, 1, i)) = i
  <2>1. \A j \in 1..i : p[j] \in S
    BY <1>1
  <2> QED BY <1>1, <2>1, SubSeqProperties
<1>5. Above(p) = {SubSeq(p, 1, i) : i \in 0..n - 1} \cup {SubSeq(p, 1, n)}
  BY <1>1 DEF Above
<1>6. Above(Parent(p)) = {SubSeq(p, 1, i) : i \in 0..n - 1}
  BY <1>1, <1>2, <1>3 DEF Above
<1>7. p \notin Above(p)
  BY <1>1, <1>4 DEF Above
<1> QED BY <1>2, <1>5, <1>6, <1>7

-----------------------------------------------------------------------------
\* The entries that are in the tree so far.
Added ==
    CASE stage = "dirs"  -> OfKind("dir") \ left
      [] stage = "files" -> OfKind("dir") \cup (OfKind("file") \ left)
      [] stage = "links" -> OfKind("dir") \cup OfKind("file") \cup (OfKind("link") \ left)
      [] OTHER -> Paths

Due == CASE stage = "dirs" -> OfKind("dir") [] stage = "files" -> OfKind("file")
         [] stage = "links" -> OfKind("link") [] OTHER -> DOMAIN tree \cup leaves

\* The tree is that of the entries added so far.
TreeInv ==
    /\ entries \in Indexes
    /\ stage \in {"dirs", "files", "links", "inodes", "mounted"}
    /\ left \subseteq Due
    /\ leaves = Added \ Dirs
    /\ DOMAIN tree = {Root} \cup (Added \cap Dirs) \cup UNION {Above(p) : p \in Added}
    /\ \A d \in DOMAIN tree :
          tree[d] = IF d \in (Added \cap Dirs) \ {Root} /\ entries[d].mode # 0
                    THEN entries[d].mode ELSE ReadExec

\* Numbers are given in order, from the root's on.
InodeInv ==
    /\ stage \in {"dirs", "files", "links"} => DOMAIN ino = {Root}
    /\ stage \in {"inodes", "mounted"} =>
          DOMAIN ino = (DOMAIN tree \cup leaves) \ left /\ Root \notin left
    /\ stage = "mounted" => left = {}
    /\ nextIno \in Nat
    /\ \A p \in DOMAIN ino : ino[p] \in Nat /\ ino[p] <= nextIno
    /\ \A p, q \in DOMAIN ino : ino[p] = ino[q] => p = q

MountInv == TreeInv /\ InodeInv

LEMMA Kinds ==
  ASSUME entries \in Indexes
  PROVE  /\ Dirs = OfKind("dir") /\ Paths = OfKind("dir") \cup OfKind("file") \cup OfKind("link")
         /\ OfKind("dir") \cap OfKind("file") = {} /\ OfKind("dir") \cap OfKind("link") = {}
         /\ OfKind("file") \cap OfKind("link") = {}
         /\ Root \notin OfKind("file") \cup OfKind("link")
  BY TreeAssumption DEF Dirs, Paths, OfKind

LEMMA MountInitInv == MountInit => MountInv
  BY Kinds DEF MountInit, MountInv, TreeInv, InodeInv, Added, Due, Above

LEMMA AddDirInv == ASSUME MountInv, NEW p \in left, AddDir(p) PROVE MountInv'
<1>1. /\ stage = "dirs" /\ left' = left \ {p} /\ tree' = EnsureDir(tree, p, entries[p].mode)
      /\ UNCHANGED <<entries, stage, leaves, ino, nextIno>>
  BY DEF AddDir
<1>2. entries \in Indexes /\ p \in Dirs /\ left \subseteq Dirs /\ Dirs = OfKind("dir")
  BY <1>1, Kinds DEF MountInv, TreeInv, Due
<1>3. Dirs' = Dirs /\ OfKind("dir")' = OfKind("dir")
  BY <1>1 DEF Dirs, OfKind, Paths
<1>4. Added = Dirs \ left /\ Added' = Added \cup {p} /\ p \notin Added
  BY <1>1, <1>2, <1>3 DEF Added
<1>5. /\ DOMAIN tree' = DOMAIN tree \cup Above(p) \cup {p}
      /\ \A d \in DOMAIN tree' :
            tree'[d] = IF d = p /\ p # Root /\ entries[p].mode # 0 THEN entries[p].mode
                       ELSE IF d \in DOMAIN tree THEN tree[d] ELSE ReadExec
  BY <1>1 DEF EnsureDir
<1>6. DOMAIN tree' = {Root} \cup (Added' \cap Dirs') \cup UNION {Above(q) : q \in Added'}
  BY <1>2, <1>3, <1>4, <1>5 DEF MountInv, TreeInv
<1>7. ASSUME NEW d \in DOMAIN tree'
      PROVE  tree'[d] = IF d \in (Added' \cap Dirs') \ {Root} /\ entries'[d].mode # 0
                        THEN entries'[d].mode ELSE ReadExec
  <2>1. CASE d = p
    BY <1>1, <1>2, <1>3, <1>4, <1>5, <2>1 DEF MountInv, TreeInv
  <2>2. CASE d # p /\ d \in DOMAIN tree
    BY <1>1, <1>3, <1>4, <1>5, <2>2 DEF MountInv, TreeInv
  <2>3. CASE d # p /\ d \notin DOMAIN tree
    <3>1. d \notin Added' \cap Dirs'
      BY <1>3, <1>4, <2>3 DEF MountInv, TreeInv
    <3> QED BY <1>5, <2>3, <3>1
  <2> QED BY <2>1, <2>2, <2>3
<1>8. TreeInv'
  BY <1>1, <1>2, <1>3, <1>4, <1>6, <1>7 DEF MountInv, TreeInv, Due
<1> QED BY <1>1, <1>8 DEF MountInv, InodeInv

LEMMA AddLeafInv == ASSUME MountInv, NEW p \in left, AddLeaf(p) PROVE MountInv'
<1>1. /\ stage \in {"files", "links"} /\ left' = left \ {p} /\ leaves' = leaves \cup {p}
      /\ tree' = EnsureDir(tree, Parent(p), 0) /\ UNCHANGED <<entries, stage, ino, nextIno>>
  BY DEF AddLeaf
<1>2. entries \in Indexes /\ p \in Paths /\ p \notin Dirs /\ p # Root
  BY <1>1, Kinds DEF MountInv, TreeInv, Due
<1>3. /\ Dirs' = Dirs /\ Paths' = Paths
      /\ \A k \in {"dir", "file", "link"} : OfKind(k)' = OfKind(k)
  BY <1>1 DEF Dirs, OfKind, Paths
<1>4. Added' = Added \cup {p}
  BY <1>1, <1>2, <1>3, Kinds DEF Added, MountInv, TreeInv, Due
<1>5. Above(p) = Above(Parent(p)) \cup {Parent(p)}
  BY <1>2, AboveParent, TreeAssumption DEF Paths
<1>6. /\ DOMAIN tree' = DOMAIN tree \cup Above(p)
      /\ \A d \in DOMAIN tree' : tree'[d] = IF d \in DOMAIN tree THEN tree[d] ELSE ReadExec
  <2>1. /\ DOMAIN tree' = DOMAIN tree \cup Above(Parent(p)) \cup {Parent(p)}
        /\ \A d \in DOMAIN tree' : tree'[d] = IF d \in DOMAIN tree THEN tree[d] ELSE ReadExec
    BY <1>1 DEF EnsureDir
  <2> QED BY <1>5, <2>1
<1>7. DOMAIN tree' = {Root} \cup (Added' \cap Dirs') \cup UNION {Above(q) : q \in Added'}
  BY <1>2, <1>3, <1>4, <1>6 DEF MountInv, TreeInv
<1>8. Added' \cap Dirs' = Added \cap Dirs
  BY <1>2, <1>3, <1>4
<1>9. \A d \in DOMAIN tree' :
         tree'[d] = IF d \in (Added' \cap Dirs') \ {Root} /\ entries'[d].mode # 0
                    THEN entries'[d].mode ELSE ReadExec
  BY <1>1, <1>6, <1>8 DEF MountInv, TreeInv
<1>10. left' \subseteq Due'
  BY <1>1, <1>3 DEF MountInv, TreeInv, Due
<1>11. TreeInv'
  BY <1>1, <1>2, <1>3, <1>4, <1>7, <1>9, <1>10 DEF MountInv, TreeInv
<1> QED BY <1>1, <1>11 DEF MountInv, InodeInv

LEMMA NextStageInv == ASSUME MountInv, NextStage PROVE MountInv'
<1>1. left = {} /\ UNCHANGED <<entries, tree, leaves, ino, nextIno>>
  BY DEF NextStage
<1>2. /\ Dirs' = Dirs /\ Paths' = Paths /\ entries \in Indexes
      /\ \A k \in {"dir", "file", "link"} : OfKind(k)' = OfKind(k)
  BY <1>1 DEF Dirs, OfKind, Paths, MountInv, TreeInv
<1>3. Added' = Added /\ left' \subseteq Due'
  BY <1>1, <1>2, Kinds DEF NextStage, Added, Due
<1>4. stage' \in {"files", "links", "inodes", "mounted"}
  BY DEF NextStage
<1>5. TreeInv'
  BY <1>1, <1>2, <1>3, <1>4 DEF MountInv, TreeInv
<1>6. Root \in DOMAIN tree /\ Root \notin leaves
  <2>1. leaves \subseteq OfKind("file") \cup OfKind("link")
    BY <1>2, Kinds DEF MountInv, TreeInv, Added
  <2> QED BY <1>2, <2>1, Kinds DEF MountInv, TreeInv
<1>7. InodeInv'
  BY <1>1, <1>6 DEF NextStage, MountInv, InodeInv
<1> QED BY <1>5, <1>7 DEF MountInv

LEMMA AddChildInv == ASSUME MountInv, NEW p \in left, AddChild(p) PROVE MountInv'
<1>1. /\ stage = "inodes" /\ left' = left \ {p} /\ nextIno' = nextIno + 1
      /\ ino' = [q \in DOMAIN ino \cup {p} |-> IF q = p THEN nextIno' ELSE ino[q]]
      /\ UNCHANGED <<entries, stage, tree, leaves>>
  BY DEF AddChild
<1>2. Dirs' = Dirs /\ Paths' = Paths /\ Added' = Added
  BY <1>1 DEF Dirs, Paths, Added
<1>3. TreeInv'
  BY <1>1, <1>2 DEF MountInv, TreeInv, Due
<1>4. /\ p \in DOMAIN tree \cup leaves /\ p \notin DOMAIN ino /\ p # Root
      /\ DOMAIN ino = (DOMAIN tree \cup leaves) \ left /\ nextIno \in Nat
  BY <1>1 DEF MountInv, TreeInv, InodeInv, Due
<1>5. DOMAIN ino' = (DOMAIN tree' \cup leaves') \ left' /\ Root \notin left'
  BY <1>1, <1>4 DEF MountInv, InodeInv
<1>6. \A q \in DOMAIN ino' : ino'[q] \in Nat /\ ino'[q] <= nextIno'
  BY <1>1, <1>4 DEF MountInv, InodeInv
<1>7. ASSUME NEW q \in DOMAIN ino', NEW r \in DOMAIN ino', ino'[q] = ino'[r] PROVE q = r
  <2>1. \A v \in DOMAIN ino : ino'[v] = ino[v] /\ ino[v] \in Nat /\ ino[v] <= nextIno
    BY <1>1, <1>4 DEF MountInv, InodeInv
  <2>2. ino'[p] = nextIno + 1
    BY <1>1
  <2>3. CASE q \in DOMAIN ino /\ r \in DOMAIN ino
    BY <1>7, <2>1, <2>3 DEF MountInv, InodeInv
  <2>4. ASSUME NEW v \in DOMAIN ino PROVE ino'[v] # nextIno + 1
    BY <1>4, <2>1
  <2> QED BY <1>1, <1>7, <2>2, <2>3, <2>4
<1>8. InodeInv'
  BY <1>1, <1>4, <1>5, <1>6, <1>7 DEF InodeInv
<1> QED BY <1>3, <1>8 DEF MountInv

\* After every step of buildMountTree and addDirChildren the tree is that of the
\* entries visited so far, and its inodes are numbered in order.
THEOREM MountInductive == MountSpec => []MountInv
<1>1. ASSUME MountInv, [MountStep]_mountVars PROVE MountInv'
  <2>1. CASE MountStep
    BY <1>1, <2>1, NextStageInv, AddDirInv, AddLeafInv, AddChildInv DEF MountStep
  <2>2. CASE UNCHANGED mountVars
    BY <1>1, <2>2
    DEF mountVars, MountInv, TreeInv, InodeInv, Added, Due, Dirs, Paths, OfKind
  <2> QED BY <1>1, <2>1, <2>2
<1> QED BY <1>1, MountInitInv, PTL DEF MountSpec

\* What is mounted is the tree of the index, in whatever order it was built, and
\* its nodes have inodes of their own.
THEOREM MountAlwaysShowsIndex == MountSpec => []MountShowsIndex
<1>1. MountInv => MountShowsIndex
  <2> SUFFICES ASSUME MountInv, stage = "mounted" PROVE MountShowsIndex
    BY DEF MountShowsIndex
  <2>1. Added = Paths
    BY DEF Added
  <2>2. Added \cap Dirs = Dirs
    BY <2>1 DEF Dirs
  <2> QED BY <2>1, <2>2 DEF MountInv, TreeInv, InodeInv, MountShowsIndex
<1> QED BY <1>1, MountInductive, PTL

-----------------------------------------------------------------------------
(* Browse. *)

\* A page lists only entries, and an entry only once.
LEMMA Listing ==
  ASSUME entries \in Indexes
  PROVE  /\ \A p \in Paths : ListedIn(p) \in DOMAIN DirMap /\ p \in DirMap[ListedIn(p)]
         /\ \A d \in DOMAIN DirMap : DirMap[d] \subseteq Paths
                                     /\ \A p \in DirMap[d] : ListedIn(p) = d
         /\ DOMAIN DirMap \subseteq {Root} \cup Dirs
BY DEF DirMap, ListedIn, ByName

\* The names of an entry, and how its parent's and its base name make it.
LEMMA BaseName ==
  ASSUME entries \in Indexes, NEW p \in Paths, p # Root
  PROVE  /\ Append(Parent(p), p[Len(p)]) = p
         /\ Len(p) \in Nat /\ Len(Parent(p)) = Len(p) - 1
         /\ DOMAIN Parent(p) \subseteq DOMAIN p
         /\ \A i \in DOMAIN Parent(p) : Parent(p)[i] = p[i]
<1> DEFINE S == {p[i] : i \in DOMAIN p}
           n == Len(p) - 1
<1>1. p \in Seq(S)
  BY TreeAssumption DEF Paths
<1> HIDE DEF S
<1>2. Len(p) \in Nat /\ Len(p) >= 1 /\ n \in Nat /\ DOMAIN p = 1 .. Len(p)
  BY <1>1, EmptySeq DEF Root
<1>3. Parent(p) = SubSeq(p, 1, n)
  BY DEF Parent
<1>4. \A i \in 1 .. n : p[i] \in S
  BY <1>1, <1>2
<1>5. /\ SubSeq(p, 1, n) \in Seq(S)
      /\ Len(SubSeq(p, 1, n)) = IF 1 <= n THEN n - 1 + 1 ELSE 0
      /\ \A i \in 1 .. n - 1 + 1 : SubSeq(p, 1, n)[i] = p[1 + i - 1]
  <2> HIDE DEF n
  <2> QED BY <1>2, <1>4, SubSeqProperties
<1>6. Parent(p) \in Seq(S) /\ Len(Parent(p)) = n /\ \A i \in 1 .. n : Parent(p)[i] = p[i]
  BY <1>2, <1>3, <1>5
<1>7. Append(Parent(p), p[Len(p)]) = p
  <2>1. p[Len(p)] \in S
    BY <1>1, <1>2
  <2>2. /\ Append(Parent(p), p[Len(p)]) \in Seq(S)
        /\ Len(Append(Parent(p), p[Len(p)])) = Len(p)
        /\ \A i \in 1 .. Len(p) : Append(Parent(p), p[Len(p)])[i] = p[i]
    <3> DEFINE s == Parent(p)
               e == p[Len(p)]
    <3>1. s \in Seq(S) /\ e \in S /\ Len(s) = Len(p) - 1 /\ \A i \in 1 .. Len(s) : s[i] = p[i]
      BY <1>6, <2>1
    <3> HIDE DEF s
    <3>2. /\ Append(s, e) \in Seq(S) /\ Len(Append(s, e)) = Len(s) + 1
          /\ \A i \in 1 .. Len(s) : Append(s, e)[i] = s[i]
          /\ Append(s, e)[Len(s) + 1] = e
      BY <3>1, AppendProperties
    <3>3. Len(s) + 1 = Len(p)
      BY <1>2, <3>1
    <3>4. \A i \in 1 .. Len(p) : Append(s, e)[i] = p[i]
      BY <1>2, <3>1, <3>2, <3>3
    <3> QED BY <3>2, <3>3, <3>4 DEF s
  <2> QED BY <1>1, <2>2, SeqEqual
<1> QED BY <1>2, <1>6, <1>7

\* Names that are no escapes are unescaped to themselves.
LEMMA PlainNames ==
  ASSUME entries \in Indexes, NEW p \in Paths, Plain(p)
  PROVE  [i \in DOMAIN p |-> Unescape[p[i]]] = p /\ ~ \E i \in DOMAIN p : p[i] = Bad
<1>1. p \in Seq({p[i] : i \in DOMAIN p})
  BY TreeAssumption DEF Paths
<1>2. p = [i \in DOMAIN p |-> p[i]]
  BY <1>1, LenProperties
<1>3. [i \in DOMAIN p |-> Unescape[p[i]]] = p
  BY <1>2 DEF Plain
<1>4. ~ \E i \in DOMAIN p : p[i] = Bad
  BY NameAssumption DEF Paths
<1> QED BY <1>3, <1>4

\* What an entry's own address shows is the entry, unless it is a directory
\* without entries.
LEMMA OwnKind ==
  ASSUME entries \in Indexes, NEW p \in Paths, p \in Dirs => p \in DOMAIN DirMap
  PROVE  KindAt(p) = entries[p].kind
<1>1. p \in DOMAIN DirMap => entries[p].kind = "dir"
  BY Listing, TreeAssumption DEF Dirs, Paths
<1> QED BY <1>1 DEF KindAt, Dirs

\* The page before the user lists something only if it is one of the map's.
PageInv ==
  /\ entries \in Indexes
  /\ page.kind = "dir" => page.path \in DOMAIN DirMap

LEMMA DirAnswer ==
  ASSUME NEW names, NEW d, Answer(names, d).kind = "dir"
  PROVE  Answer(names, d).path \in DOMAIN DirMap
<1> DEFINE u == [i \in DOMAIN names |-> Unescape[names[i]]]
<1>1. Answer(names, d) \in {[kind |-> "bad", path |-> names], [kind |-> "missing", path |-> names],
                            [kind |-> KindAt(u), path |-> u]}
  BY DEF Answer
<1> HIDE DEF u
<1>2. KindAt(u) = "dir" => u \in DOMAIN DirMap
  BY DEF KindAt, Dirs
<1> QED BY <1>1, <1>2

LEMMA FollowOpens == ASSUME PageInv, NEW p \in Paths, Follow(p) PROVE ItemsOpen'
<1> DEFINE names == IF ByName(p) THEN Append(page.base, p[Len(p)]) ELSE p
           a == Answer(names, ~ByName(p))
<1>1. /\ page.kind = "dir" /\ p \in DirMap[page.path] /\ UNCHANGED <<entries, cleans>>
      /\ page' = [kind |-> a.kind, path |-> a.path, base |-> names, item |-> p,
                  straight |-> page.base = page.path]
  BY DEF Follow
<1>2. SUFFICES ASSUME Plain(p), page.base = page.path, p \in Dirs => p \in DOMAIN DirMap,
                      ByName(p) \/ cleans
               PROVE  a.path = p /\ a.kind = entries[p].kind
  BY <1>1 DEF ItemsOpen, Plain, Dirs, Paths, DirMap, ListedIn, ByName
<1>3. names = p
  <2>1. CASE ByName(p)
    <3>1. p # Root /\ ListedIn(p) = Parent(p)
      BY <2>1 DEF ByName, ListedIn
    <3>2. ListedIn(p) = page.path
      BY <1>1, Listing DEF PageInv
    <3> QED BY <1>2, <2>1, <3>1, <3>2, BaseName DEF PageInv
  <2>2. CASE ~ByName(p)
    BY <2>2
  <2> QED BY <2>1, <2>2
<1> HIDE DEF names
<1>4. a = [kind |-> KindAt(p), path |-> p]
  <2> DEFINE u == [i \in DOMAIN names |-> Unescape[names[i]]]
  <2>1. u = p /\ ~ \E i \in DOMAIN u : u[i] = Bad
    BY <1>2, <1>3, PlainNames DEF PageInv
  <2> HIDE DEF u
  <2>2. a = [kind |-> KindAt(u), path |-> u]
    BY <1>2, <2>1 DEF Answer, u
  <2> QED BY <2>1, <2>2
<1> HIDE DEF a
<1> QED BY <1>2, <1>4, OwnKind DEF PageInv

LEMMA BrowseInv == BrowseSpec => []PageInv
<1>1. BrowseInit => PageInv
  BY DEF BrowseInit, Blank, PageInv
<1>2. PageInv /\ [BrowseStep]_browseVars => PageInv'
  <2> SUFFICES ASSUME PageInv, [BrowseStep]_browseVars PROVE PageInv'
    OBVIOUS
  <2>1. UNCHANGED entries /\ DirMap' = DirMap
    BY DEF BrowseStep, Type, Follow, FollowColon, browseVars, DirMap, ListedIn, ByName, Dirs, Paths
  <2>2. ASSUME NEW names, NEW d, page'.kind = Answer(names, d).kind,
               page'.path = Answer(names, d).path
        PROVE  PageInv'
    BY <2>1, <2>2, DirAnswer DEF PageInv
  <2>3. ASSUME NEW p, NEW slash, Type(p, slash) PROVE PageInv'
    BY <2>2, <2>3 DEF Type
  <2>4. ASSUME NEW p, Follow(p) PROVE PageInv'
    BY <2>2, <2>4 DEF Follow
  <2>5. ASSUME NEW p, FollowColon(p) PROVE PageInv'
    <3>1. page'.path = page.path /\ page'.kind \in {page.kind, "away"}
      BY <2>5 DEF FollowColon
    <3> QED BY <2>1, <3>1 DEF PageInv
  <2>6. CASE UNCHANGED browseVars
    BY <2>1, <2>6 DEF browseVars, PageInv
  <2> QED BY <2>3, <2>4, <2>5, <2>6 DEF BrowseStep
<1> QED BY <1>1, <1>2, PTL DEF BrowseSpec

\* Whatever page the user came from, an item followed from a page that was asked
\* for by its own address opens the page of that entry, with the exceptions that
\* ItemsOpen names; its link comes back as the names it was made of, if none of
\* them has a colon.
THEOREM ItemsAlwaysOpen == BrowseSpec => []ItemsOpen
<1>1. BrowseInit => ItemsOpen
  BY DEF BrowseInit, Blank, ItemsOpen
<1>2. PageInv /\ ItemsOpen /\ [BrowseStep]_browseVars => ItemsOpen'
  <2> SUFFICES ASSUME PageInv, ItemsOpen, [BrowseStep]_browseVars PROVE ItemsOpen'
    OBVIOUS
  <2>1. ASSUME NEW p, NEW slash, Type(p, slash) PROVE ItemsOpen'
    BY <2>1 DEF Type, ItemsOpen
  <2>2. ASSUME NEW p \in Paths, Follow(p) PROVE ItemsOpen'
    BY <2>2, FollowOpens
  <2>3. ASSUME NEW p \in Paths, FollowColon(p) PROVE ItemsOpen'
    <3>1. HasColon(p)' /\ page'.item = p
      BY <2>3 DEF FollowColon, HasColon, Link, ByName, Dirs, Paths
    <3> QED BY <3>1 DEF ItemsOpen
  <2>4. CASE UNCHANGED browseVars
    BY <2>4
    DEF browseVars, ItemsOpen, Plain, HasColon, Link, Dirs, Paths, DirMap, ListedIn, ByName
  <2> QED BY <2>1, <2>2, <2>3, <2>4 DEF BrowseStep
<1> QED BY <1>1, <1>2, BrowseInv, PTL DEF BrowseSpec

\* A page without an escape among its names is to be had from /: of those that
\* are not, one with the shortest path would be listed on a page that is.
LEMMA PagesReachable ==
  ASSUME entries \in Indexes, NEW d \in DOMAIN DirMap, Plain(d)
  PROVE  d \in Reachable
<1> DEFINE pages == DOMAIN DirMap
           closed(S) == /\ {Root} \cap pages \subseteq S
                        /\ \A e \in S : \A p \in DirMap[e] \cap pages : Plain(p) => p \in S
<1>1. SUFFICES ASSUME NEW S \in SUBSET pages, closed(S), d \notin S PROVE FALSE
  BY DEF Reachable
<1> DEFINE lost == {e \in pages : Plain(e) /\ e \notin S}
           lens == {Len(e) : e \in lost}
<1>2. ASSUME NEW e \in lost PROVE e # Root /\ e \in Paths /\ Len(e) \in Nat
  <2>1. e # Root
    BY <1>1
  <2>2. e \in Paths
    BY <2>1, Listing DEF Dirs
  <2> QED BY <2>1, <2>2, BaseName
<1>3. PICK n \in lens : \A m \in lens : <<m, n>> \notin OpToRel(<, Nat)
  <2>1. lens \subseteq Nat /\ Len(d) \in lens
    BY <1>1, <1>2
  <2> HIDE DEF lens
  <2> QED BY <2>1, NatLessThanWellFounded, WFMin
<1>4. PICK e \in lost : Len(e) = n
  OBVIOUS
<1>5. e \in pages /\ Plain(e) /\ e \notin S /\ e # Root /\ e \in Paths
  BY <1>2
<1>6. ListedIn(e) \in pages /\ e \in DirMap[ListedIn(e)]
  BY <1>5, Listing
<1>7. ListedIn(e) \in S
  <2>1. CASE ListedIn(e) = Root
    BY <1>1, <1>6, <2>1
  <2>2. CASE ListedIn(e) # Root
    <3>1. ListedIn(e) = Parent(e)
      BY <2>2 DEF ListedIn
    <3>2. Plain(Parent(e)) /\ Len(Parent(e)) = Len(e) - 1 /\ Len(e) \in Nat
      BY <1>5, BaseName DEF Plain
    <3>3. ASSUME Parent(e) \in lost PROVE FALSE
      <4>1. Len(Parent(e)) \in lens /\ Len(Parent(e)) \in Nat
        BY <1>2, <3>3
      <4>2. <<Len(Parent(e)), n>> \in OpToRel(<, Nat)
        BY <1>4, <3>2, <4>1 DEF OpToRel
      <4> QED BY <1>3, <4>1, <4>2
    <3> QED BY <1>6, <3>1, <3>2, <3>3
  <2> QED BY <2>1, <2>2
<1> QED BY <1>1, <1>5, <1>6, <1>7

\* However the paths that were backed up lie to one another, every entry is
\* listed on a page that is to be had from /, unless a directory above it has a
\* name like an escape.
THEOREM AlwaysAllListed == BrowseSpec => []AllListed
<1>1. PageInv => AllListed
  BY Listing, PagesReachable DEF PageInv, AllListed
<1> QED BY <1>1, BrowseInv, PTL
=============================================================================
