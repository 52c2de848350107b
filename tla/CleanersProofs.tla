--------------------------- MODULE CleanersProofs ---------------------------
(***************************************************************************)
(* The inductive invariants of the cleaners, for any finite tree of paths: *)
(* that they are thorough when left to themselves, that they spare what    *)
(* they are to spare, and that they free what they report. Each goes       *)
(* through all the rules: what they list shrinks with the tree, is clear   *)
(* of what is guarded, and has a size. ReclaimingProofs concludes.         *)
(***************************************************************************)
EXTENDS Cleaners, DataLemmas, FiniteSetTheorems, SequenceTheorems, TLAPS

(* Targets that are listed now and were listed before, with at least the   *)
(* same paths: a cleaner's rules list less for a tree with less in it.     *)
AreTargets(list) ==
  /\ IsList(list)
  /\ \A t \in Elems(list) : t = [category |-> t.category, paths |-> t.paths, size |-> t.size]

Below(now, old) ==
  /\ AreTargets(now) /\ AreTargets(old)
  /\ \A t \in Elems(now) :
       \E u \in Elems(old) : u.category = t.category /\ t.paths \subseteq u.paths

(* A list of targets is below itself.                                      *)
LEMMA BelowItself ==
  ASSUME NEW list, AreTargets(list)
  PROVE  Below(list, list)
  BY DEF Below

LEMMA EmptyIsList == IsList(<<>>) /\ Elems(<<>>) = {}
  BY DEF IsList, Elems

(* A target of fewer paths, or none, is below one of more.                 *)
LEMMA BelowTarget ==
  ASSUME NEW c, NEW S, NEW T, S \subseteq T
  PROVE  Below(Target(c, S), Target(c, T))
  <1> DEFINE R(U) == [category |-> c, paths |-> U, size |-> Unsized]
  <1>1. ASSUME NEW U
        PROVE  /\ AreTargets(Target(c, U))
               /\ Elems(Target(c, U)) = IF U = {} THEN {} ELSE {R(U)}
    <2>1. CASE U = {}
      <3>1. Target(c, U) = <<>>
        BY <2>1, Zenon DEF Target
      <3> QED
        BY <2>1, <3>1, EmptyIsList DEF AreTargets
    <2>2. CASE U # {}
      <3>1. Target(c, U) = <<R(U)>>
        BY <2>2, Zenon DEF Target
      <3>2. IsList(<<R(U)>>) /\ Elems(<<R(U)>>) = {R(U)}
        BY DEF IsList, Elems
      <3> QED
        BY <2>2, <3>1, <3>2 DEF AreTargets
    <2> QED
      BY <2>1, <2>2
  <1>2. CASE S = {}
    BY <1>1, <1>2 DEF Below
  <1>3. CASE S # {}
    <2>1. Elems(Target(c, S)) = {R(S)} /\ Elems(Target(c, T)) = {R(T)}
      BY <1>1, <1>3
    <2>2. R(T).category = R(S).category /\ R(S).paths \subseteq R(T).paths
      OBVIOUS
    <2> HIDE DEF R
    <2>3. AreTargets(Target(c, S)) /\ AreTargets(Target(c, T))
      BY <1>1
    <2> QED
      BY <2>1, <2>2, <2>3 DEF Below
  <1> QED
    BY <1>2, <1>3

(* Being below is kept by joining lists...                                 *)
LEMMA BelowJoined ==
  ASSUME NEW a, NEW b, NEW c, NEW d, Below(a, b), Below(c, d)
  PROVE  Below(a \o c, b \o d)
  <1>1. IsList(a) /\ IsList(b) /\ IsList(c) /\ IsList(d)
    BY DEF Below, AreTargets
  <1>2. IsList(a \o c) /\ IsList(b \o d)
    BY <1>1, ListsJoined
  <1>3. Elems(a \o c) = Elems(a) \cup Elems(c) /\ Elems(b \o d) = Elems(b) \cup Elems(d)
    BY <1>1, ListsJoined
  <1> QED
    BY <1>2, <1>3 DEF Below, AreTargets

(* Each of the lists is below one of the others. *)
LEMMA BelowFlattened ==
  ASSUME NEW f, NEW g, IsList(f), IsList(g),
         \A y \in Elems(g) : AreTargets(y),
         \A x \in Elems(f) : \E y \in Elems(g) : Below(x, y)
  PROVE  Below(FlattenSeq(f), FlattenSeq(g))
  <1>1. \A x \in Elems(f) : AreTargets(x)
    BY DEF Below
  <1>2. ASSUME NEW h, IsList(h), \A x \in Elems(h) : AreTargets(x)
        PROVE  AreTargets(FlattenSeq(h)) /\ Elems(FlattenSeq(h)) = UNION {Elems(x) : x \in Elems(h)}
    <2>1. \A i \in DOMAIN h : IsList(h[i])
      BY <1>2 DEF AreTargets, Elems
    <2>2. IsList(FlattenSeq(h)) /\ Elems(FlattenSeq(h)) = UNION {Elems(h[i]) : i \in DOMAIN h}
      BY <1>2, <2>1, Flattened
    <2>3. UNION {Elems(h[i]) : i \in DOMAIN h} = UNION {Elems(x) : x \in Elems(h)}
      BY DEF Elems
    <2> QED
      BY <1>2, <2>2, <2>3 DEF AreTargets
  <1>3. /\ AreTargets(FlattenSeq(f)) /\ Elems(FlattenSeq(f)) = UNION {Elems(x) : x \in Elems(f)}
        /\ AreTargets(FlattenSeq(g)) /\ Elems(FlattenSeq(g)) = UNION {Elems(x) : x \in Elems(g)}
    BY <1>1, <1>2
  <1>4. ASSUME NEW t \in Elems(FlattenSeq(f))
        PROVE  \E u \in Elems(FlattenSeq(g)) : u.category = t.category /\ t.paths \subseteq u.paths
    <2>1. PICK x \in Elems(f) : t \in Elems(x)
      BY <1>3
    <2>2. PICK y \in Elems(g) : Below(x, y)
      BY <2>1
    <2> QED
      BY <1>3, <2>1, <2>2 DEF Below
  <1> QED
    BY <1>3, <1>4 DEF Below

(* ... and by flattening, index by index.                                  *)
LEMMA BelowEach ==
  ASSUME NEW n \in Nat, NEW f, NEW g,
         f = [i \in 1..n |-> f[i]], g = [i \in 1..n |-> g[i]],
         \A i \in 1..n : Below(f[i], g[i])
  PROVE  Below(FlattenSeq(f), FlattenSeq(g))
  <1>1. DOMAIN f = 1..n /\ DOMAIN g = 1..n
    OBVIOUS
  <1>2. IsList(f) /\ IsList(g)
    BY <1>1, ListByIndex
  <1>3. \A y \in Elems(g) : AreTargets(y)
    BY <1>1 DEF Elems, Below
  <1>4. \A x \in Elems(f) : \E y \in Elems(g) : Below(x, y)
    BY <1>1 DEF Elems
  <1> QED
    BY <1>2, <1>3, <1>4, BelowFlattened

(* The same for lists written out, as the rules are.                      *)
LEMMA BelowThree ==
  ASSUME NEW a1, NEW a2, NEW a3, NEW b1, NEW b2, NEW b3, Below(a1, b1),
         Below(a2, b2), Below(a3, b3)
  PROVE  Below(FlattenSeq(<<a1, a2, a3>>),
               FlattenSeq(<<b1, b2, b3>>))
  <1> DEFINE f == <<a1, a2, a3>>
             g == <<b1, b2, b3>>
  <1>1. /\ 3 \in Nat
        /\ f = [i \in 1..3 |-> f[i]] /\ g = [i \in 1..3 |-> g[i]]
        /\ \A i \in 1..3 : Below(f[i], g[i])
    OBVIOUS
  <1>2. Below(FlattenSeq(f), FlattenSeq(g))
    <2> HIDE DEF f, g
    <2> QED
      BY <1>1, BelowEach, Zenon
  <1> QED
    BY <1>2

LEMMA BelowFour ==
  ASSUME NEW a1, NEW a2, NEW a3, NEW a4, NEW b1, NEW b2, NEW b3, NEW b4,
         Below(a1, b1), Below(a2, b2), Below(a3, b3), Below(a4, b4)
  PROVE  Below(FlattenSeq(<<a1, a2, a3, a4>>),
               FlattenSeq(<<b1, b2, b3, b4>>))
  <1> DEFINE f == <<a1, a2, a3, a4>>
             g == <<b1, b2, b3, b4>>
  <1>1. /\ 4 \in Nat
        /\ f = [i \in 1..4 |-> f[i]] /\ g = [i \in 1..4 |-> g[i]]
        /\ \A i \in 1..4 : Below(f[i], g[i])
    OBVIOUS
  <1>2. Below(FlattenSeq(f), FlattenSeq(g))
    <2> HIDE DEF f, g
    <2> QED
      BY <1>1, BelowEach, Zenon
  <1> QED
    BY <1>2

LEMMA BelowFive ==
  ASSUME NEW a1, NEW a2, NEW a3, NEW a4, NEW a5, NEW b1, NEW b2, NEW b3,
         NEW b4, NEW b5, Below(a1, b1), Below(a2, b2), Below(a3, b3),
         Below(a4, b4), Below(a5, b5)
  PROVE  Below(FlattenSeq(<<a1, a2, a3, a4, a5>>),
               FlattenSeq(<<b1, b2, b3, b4, b5>>))
  <1> DEFINE f == <<a1, a2, a3, a4, a5>>
             g == <<b1, b2, b3, b4, b5>>
  <1>1. /\ 5 \in Nat
        /\ f = [i \in 1..5 |-> f[i]] /\ g = [i \in 1..5 |-> g[i]]
        /\ \A i \in 1..5 : Below(f[i], g[i])
    OBVIOUS
  <1>2. Below(FlattenSeq(f), FlattenSeq(g))
    <2> HIDE DEF f, g
    <2> QED
      BY <1>1, BelowEach, Zenon
  <1> QED
    BY <1>2

LEMMA BelowSeven ==
  ASSUME NEW a1, NEW a2, NEW a3, NEW a4, NEW a5, NEW a6, NEW a7, NEW b1,
         NEW b2, NEW b3, NEW b4, NEW b5, NEW b6, NEW b7, Below(a1, b1),
         Below(a2, b2), Below(a3, b3), Below(a4, b4), Below(a5, b5),
         Below(a6, b6), Below(a7, b7)
  PROVE  Below(FlattenSeq(<<
                 a1, a2, a3, a4, a5, a6, a7>>), FlattenSeq(<<
                 b1, b2, b3, b4, b5, b6, b7>>))
  <1> DEFINE f == <<a1, a2, a3, a4, a5, a6, a7>>
             g == <<b1, b2, b3, b4, b5, b6, b7>>
  <1>1. /\ 7 \in Nat
        /\ f = [i \in 1..7 |-> f[i]] /\ g = [i \in 1..7 |-> g[i]]
        /\ \A i \in 1..7 : Below(f[i], g[i])
    OBVIOUS
  <1>2. Below(FlattenSeq(f), FlattenSeq(g))
    <2> HIDE DEF f, g
    <2> QED
      BY <1>1, BelowEach, Zenon
  <1> QED
    BY <1>2

LEMMA BelowEleven ==
  ASSUME NEW a1, NEW a2, NEW a3, NEW a4, NEW a5, NEW a6, NEW a7, NEW a8,
         NEW a9, NEW a10, NEW a11, NEW b1, NEW b2, NEW b3, NEW b4, NEW b5,
         NEW b6, NEW b7, NEW b8, NEW b9, NEW b10, NEW b11, Below(a1, b1),
         Below(a2, b2), Below(a3, b3), Below(a4, b4), Below(a5, b5),
         Below(a6, b6), Below(a7, b7), Below(a8, b8), Below(a9, b9),
         Below(a10, b10), Below(a11, b11)
  PROVE  Below(FlattenSeq(<<
                 a1, a2, a3, a4, a5, a6, a7, a8, a9, a10, a11>>), FlattenSeq(<<
                 b1, b2, b3, b4, b5, b6, b7, b8, b9, b10, b11>>))
  <1> DEFINE f == <<a1, a2, a3, a4, a5, a6, a7, a8, a9, a10, a11>>
             g == <<b1, b2, b3, b4, b5, b6, b7, b8, b9, b10, b11>>
  <1>1. /\ 11 \in Nat
        /\ f = [i \in 1..11 |-> f[i]] /\ g = [i \in 1..11 |-> g[i]]
        /\ \A i \in 1..11 : Below(f[i], g[i])
    OBVIOUS
  <1>2. Below(FlattenSeq(f), FlattenSeq(g))
    <2> HIDE DEF f, g
    <2> QED
      BY <1>1, BelowEach, Zenon
  <1> QED
    BY <1>2

(* Files only go. *)
TreeShrinks ==
  /\ DOMAIN tree' \subseteq DOMAIN tree
  /\ \A p \in DOMAIN tree' : tree'[p] = tree[p]

(* What the helpers of CleanTree list shrinks with the tree.               *)
LEMMA SystemHelpers ==
  ASSUME TreeShrinks
  PROVE  /\ \A p : SystemRules!IsDir(p)' => SystemRules!IsDir(p)
         /\ \A p : SystemRules!IsFile(p)' => SystemRules!IsFile(p)
         /\ \A p : SystemRules!Exists(p)' => SystemRules!Exists(p)
         /\ \A d : SystemRules!Children(d)' \subseteq SystemRules!Children(d)
         /\ \A d : SystemRules!FilesIn(d)' \subseteq SystemRules!FilesIn(d)
         /\ \A d : SystemRules!FilesBelow(d)' \subseteq SystemRules!FilesBelow(d)
  <1>1. \A p, kinds : SystemRules!Is(p, kinds)' => SystemRules!Is(p, kinds)
    BY DEF TreeShrinks, SystemRules!Is
  <1>2. \A p : SystemRules!IsFile(p)' => SystemRules!IsFile(p)
    BY <1>1, Zenon DEF SystemRules!IsFile
  <1>3. \A p : SystemRules!IsDir(p)' => SystemRules!IsDir(p)
    BY <1>1, Zenon DEF SystemRules!IsDir
  <1>4. \A p : SystemRules!Exists(p)' => SystemRules!Exists(p)
    BY Zenon DEF SystemRules!Exists, TreeShrinks
  <1>5. \A d : SystemRules!Children(d)' \subseteq SystemRules!Children(d)
    BY Zenon DEF SystemRules!Children, TreeShrinks
  <1>6. \A d : SystemRules!FilesIn(d)' \subseteq SystemRules!FilesIn(d)
    BY <1>2, <1>5, Zenon DEF SystemRules!FilesIn
  <1>7. \A d : SystemRules!FilesBelow(d)' \subseteq SystemRules!FilesBelow(d)
    BY Zenon DEF SystemRules!FilesBelow, SystemRules!Inside, TreeShrinks
  <1> QED
    BY <1>2, <1>3, <1>4, <1>5, <1>6, <1>7

(* The instance has copies of the helpers of lists: they are the same.    *)
LEMMA SystemOps ==
  /\ \A c, S : SystemRules!Target(c, S) = Target(c, S)
  /\ \A s : SystemRules!FlattenSeq(s) = FlattenSeq(s)
  <1>1. \A c, S : SystemRules!Target(c, S) = Target(c, S)
    BY Zenon DEF SystemRules!Target, Target, SystemRules!Unsized, Unsized
  <1>2. \A s : SystemRules!FlattenSeq(s) = FlattenSeq(s)
    BY Zenon DEF SystemRules!FlattenSeq, FlattenSeq
  <1> QED
    BY <1>1, <1>2

(* A list of names as the rules write it out.                             *)
Counted(names) == Len(names) \in Nat /\ DOMAIN names = 1..Len(names)

(* So is each way of the rules to make targets.                           *)
LEMMA SystemCombinators ==
  ASSUME TreeShrinks
  PROVE  /\ \A c, p : Below(SystemRules!IfExists(c, p)', SystemRules!IfExists(c, p))
         /\ \A c, P : Below(SystemRules!Dirs(c, P)', SystemRules!Dirs(c, P))
         /\ \A c, base, names : Counted(names) =>
              Below(SystemRules!EachThatExists(c, base, names)',
                    SystemRules!EachThatExists(c, base, names))
         /\ \A c, paths : Counted(paths) =>
              Below(SystemRules!EachDir(c, paths)', SystemRules!EachDir(c, paths))
  <1>1. ASSUME NEW c, NEW p PROVE Below(SystemRules!IfExists(c, p)', SystemRules!IfExists(c, p))
    <2> DEFINE S == {q \in {p} : SystemRules!Exists(q)}
    <2>1. S' \subseteq S
      BY SystemHelpers
    <2>2. SystemRules!IfExists(c, p) = Target(c, S) /\ SystemRules!IfExists(c, p)' = Target(c, S')
      BY SystemOps, Zenon DEF SystemRules!IfExists
    <2> HIDE DEF S
    <2> QED
      BY <2>1, <2>2, BelowTarget, Zenon
  <1>2. ASSUME NEW c, NEW P PROVE Below(SystemRules!Dirs(c, P)', SystemRules!Dirs(c, P))
    <2> DEFINE S == {p \in P : SystemRules!IsDir(p)}
    <2>1. S' \subseteq S
      BY SystemHelpers
    <2>2. SystemRules!Dirs(c, P) = Target(c, S) /\ SystemRules!Dirs(c, P)' = Target(c, S')
      BY SystemOps, Zenon DEF SystemRules!Dirs
    <2> HIDE DEF S
    <2> QED
      BY <2>1, <2>2, BelowTarget, Zenon
  <1>3. ASSUME NEW c, NEW base, NEW names, Counted(names)
        PROVE  Below(SystemRules!EachThatExists(c, base, names)',
                    SystemRules!EachThatExists(c, base, names))
    <2> DEFINE f == [i \in DOMAIN names |-> SystemRules!IfExists(c, base \o names[i])]
    <2>1. PICK n \in Nat : DOMAIN names = 1..n
      BY <1>3 DEF Counted
    <2>2. f = [i \in 1..n |-> f[i]] /\ f' = [i \in 1..n |-> f'[i]]
      BY <2>1, Zenon
    <2>3. \A i \in 1..n : Below(f'[i], f[i])
      BY <1>1, <2>1, Zenon
    <2>4. /\ SystemRules!EachThatExists(c, base, names) = FlattenSeq(f)
          /\ SystemRules!EachThatExists(c, base, names)' = FlattenSeq(f')
      BY SystemOps, Zenon DEF SystemRules!EachThatExists
    <2> HIDE DEF f
    <2> QED
      BY <2>2, <2>3, <2>4, BelowEach, Zenon
  <1>4. ASSUME NEW c, NEW paths, Counted(paths)
        PROVE  Below(SystemRules!EachDir(c, paths)', SystemRules!EachDir(c, paths))
    <2> DEFINE f == [i \in DOMAIN paths |-> SystemRules!Dirs(c, {paths[i]})]
    <2>1. PICK n \in Nat : DOMAIN paths = 1..n
      BY <1>4 DEF Counted
    <2>2. f = [i \in 1..n |-> f[i]] /\ f' = [i \in 1..n |-> f'[i]]
      BY <2>1, Zenon
    <2>3. \A i \in 1..n : Below(f'[i], f[i])
      BY <1>2, <2>1, Zenon
    <2>4. /\ SystemRules!EachDir(c, paths) = FlattenSeq(f)
          /\ SystemRules!EachDir(c, paths)' = FlattenSeq(f')
      BY SystemOps, Zenon DEF SystemRules!EachDir
    <2> HIDE DEF f
    <2> QED
      BY <2>2, <2>3, <2>4, BelowEach, Zenon
  <1> QED
    BY <1>1, <1>2, <1>3, <1>4

LEMMA CountedTuples ==
  /\ \A a1 : Counted(<<a1>>)
  /\ \A a1, a2 : Counted(<<a1, a2>>)
  /\ \A a1, a2, a3 : Counted(<<a1, a2, a3>>)
  /\ \A a1, a2, a3, a4 : Counted(<<a1, a2, a3, a4>>)
  /\ \A a1, a2, a3, a4, a5 : Counted(<<a1, a2, a3, a4, a5>>)
  /\ \A a1, a2, a3, a4, a5, a6 : Counted(<<a1, a2, a3, a4, a5, a6>>)
  /\ \A a1, a2, a3, a4, a5, a6, a7 :
       Counted(<<a1, a2, a3, a4, a5, a6, a7>>)
  /\ \A a1, a2, a3, a4, a5, a6, a7, a8, a9 :
       Counted(<<a1, a2, a3, a4, a5, a6, a7, a8, a9>>)
  /\ \A a1, a2, a3, a4, a5, a6, a7, a8, a9, a10, a11, a12, a13, a14 :
       Counted(<<a1, a2, a3, a4, a5, a6, a7, a8, a9, a10, a11, a12, a13, a14>>)
  BY DEF Counted

(* All rules of the system cleaner, discover function by discover function. *)
LEMMA SystemRulesShrink ==
  ASSUME TreeShrinks
  PROVE  Below(SystemRules!Discovered', SystemRules!Discovered)
  <1>1. Below(SystemRules!PackageCaches', SystemRules!PackageCaches)
    BY SystemOps, SystemCombinators, CountedTuples, SystemHelpers, BelowTarget, BelowSeven, SMTT(60)
       DEF SystemRules!PackageCaches
  <1>2. Below(SystemRules!SystemLogs', SystemRules!SystemLogs)
    <2> DEFINE f == [i \in DOMAIN SystemRules!LogDirs |-> SystemRules!Target("SystemLogs",
          {p \in SystemRules!FilesBelow(SystemRules!VarLog \o <<SystemRules!LogDirs[i]>>) : SystemRules!IsRotatedLog(p)})]
    <2>1. DOMAIN SystemRules!LogDirs = 1..10
      BY DEF SystemRules!LogDirs
    <2>2. f = [i \in 1..10 |-> f[i]] /\ f' = [i \in 1..10 |-> f'[i]]
      BY <2>1, Zenon
    <2>3. \A i \in 1..10 : Below(f'[i], f[i])
      BY <2>1, SystemHelpers, SystemOps, BelowTarget
    <2>4. 10 \in Nat
      OBVIOUS
    <2>5. Below(FlattenSeq(f'), FlattenSeq(f))
      <3> HIDE DEF f
      <3> QED
        BY <2>2, <2>3, <2>4, BelowEach, Zenon
    <2> QED
      BY <2>5, SystemOps, SystemCombinators, CountedTuples, SystemHelpers, BelowTarget, BelowFour, SMTT(60)
         DEF SystemRules!SystemLogs
  <1>3. Below(SystemRules!OldKernels', SystemRules!OldKernels)
    BY SystemOps, SystemCombinators, CountedTuples, SystemHelpers, BelowTarget, BelowThree, SMTT(60)
       DEF SystemRules!OldKernels
  <1>4. Below(SystemRules!ThumbnailCache', SystemRules!ThumbnailCache)
    BY SystemOps, SystemCombinators, CountedTuples, SystemHelpers, BelowTarget, BelowJoined, SMTT(60)
       DEF SystemRules!ThumbnailCache
  <1>5. Below(SystemRules!ShaderCache', SystemRules!ShaderCache)
    BY SystemCombinators, CountedTuples, BelowJoined, SMTT(60) DEF SystemRules!ShaderCache
  <1>6. Below(SystemRules!LanguageCaches', SystemRules!LanguageCaches)
    BY SystemOps, SystemCombinators, CountedTuples, BelowFour, SMTT(60) DEF SystemRules!LanguageCaches
  <1>7. Below(SystemRules!ContainerCaches', SystemRules!ContainerCaches)
    <2> DEFINE docker == <<"var", "lib", "docker">>
               L == {d \o <<"l">> : d \in {e \in {docker \o <<"overlay2">>} : SystemRules!IsDir(e)}}
    <2>1. L' \subseteq L
      BY SystemHelpers
    <2>2. Below(SystemRules!Target("ContainerCache", L'), SystemRules!Target("ContainerCache", L))
      <3> HIDE DEF L
      <3> QED
        BY <2>1, SystemOps, BelowTarget
    <2> QED
      BY <2>2, SystemOps, SystemCombinators, CountedTuples, BelowThree, SMTT(60)
         DEF SystemRules!ContainerCaches
  <1>8. Below(SystemRules!SnapFlatpak', SystemRules!SnapFlatpak)
    <2>1. \A app : SystemRules!OldRevisions(app)' \subseteq SystemRules!OldRevisions(app)
      BY SystemHelpers, Zenon DEF SystemRules!OldRevisions, SystemRules!Revisions
    <2> DEFINE R == UNION {SystemRules!OldRevisions(app) : app \in SystemRules!Children(<<"snap">>)}
               C == {p \in {app \o <<"common", ".cache">> :
                              app \in SystemRules!Children(Home \o <<"snap">>)} : SystemRules!IsDir(p)}
    <2>2. R' \subseteq R /\ C' \subseteq C
      BY <2>1, SystemHelpers
    <2>3. /\ Below(SystemRules!Target("SnapFlatpak", R'), SystemRules!Target("SnapFlatpak", R))
          /\ Below(SystemRules!Target("SnapFlatpak", C'), SystemRules!Target("SnapFlatpak", C))
      <3> HIDE DEF R, C
      <3> QED
        BY <2>2, SystemOps, BelowTarget
    <2> QED
      BY <2>3, SystemOps, SystemCombinators, CountedTuples, BelowThree, SMTT(60)
         DEF SystemRules!SnapFlatpak, SystemRules!Dirs
  <1>9. Below(SystemRules!TempFiles', SystemRules!TempFiles)
    <2>1. \A d : {p \in SystemRules!Children(d) : tree[p].mine}'
                  \subseteq {p \in SystemRules!Children(d) : tree[p].mine}
      BY SystemHelpers DEF TreeShrinks, SystemRules!Children
    <2>2. \A d : {p \in SystemRules!Children(d) : tree[p].old}'
                  \subseteq {p \in SystemRules!Children(d) : tree[p].old}
      BY SystemHelpers DEF TreeShrinks, SystemRules!Children
    <2> QED
      BY <2>1, <2>2, SystemOps, SystemCombinators, CountedTuples, BelowTarget, BelowFive, SMTT(60)
         DEF SystemRules!TempFiles
  <1>10. Below(SystemRules!CoreDumps', SystemRules!CoreDumps)
    BY SystemOps, SystemCombinators, CountedTuples, SystemHelpers, BelowTarget, BelowFour, SMTT(60)
       DEF SystemRules!CoreDumps
  <1>11. Below(SystemRules!RecentDocuments', SystemRules!RecentDocuments)
    BY SystemOps, SystemCombinators, CountedTuples, SystemHelpers, BelowTarget, BelowFour, SMTT(60)
       DEF SystemRules!RecentDocuments
  <1> QED
    BY <1>1, <1>2, <1>3, <1>4, <1>5, <1>6, <1>7, <1>8, <1>9, <1>10, <1>11, BelowEleven, SystemOps, SMTT(60)
       DEF SystemRules!Discovered

LEMMA BrowserHelpers ==
  ASSUME TreeShrinks
  PROVE  /\ \A p : BrowserRules!IsDir(p)' => BrowserRules!IsDir(p)
         /\ \A p : BrowserRules!IsFile(p)' => BrowserRules!IsFile(p)
         /\ \A p : BrowserRules!Exists(p)' => BrowserRules!Exists(p)
         /\ \A d : BrowserRules!Children(d)' \subseteq BrowserRules!Children(d)
         /\ \A d : BrowserRules!FilesIn(d)' \subseteq BrowserRules!FilesIn(d)
         /\ \A d : BrowserRules!FilesBelow(d)' \subseteq BrowserRules!FilesBelow(d)
  <1>1. \A p, kinds : BrowserRules!Is(p, kinds)' => BrowserRules!Is(p, kinds)
    BY DEF TreeShrinks, BrowserRules!Is
  <1>2. \A p : BrowserRules!IsFile(p)' => BrowserRules!IsFile(p)
    BY <1>1, Zenon DEF BrowserRules!IsFile
  <1>3. \A p : BrowserRules!IsDir(p)' => BrowserRules!IsDir(p)
    BY <1>1, Zenon DEF BrowserRules!IsDir
  <1>4. \A p : BrowserRules!Exists(p)' => BrowserRules!Exists(p)
    BY Zenon DEF BrowserRules!Exists, TreeShrinks
  <1>5. \A d : BrowserRules!Children(d)' \subseteq BrowserRules!Children(d)
    BY Zenon DEF BrowserRules!Children, TreeShrinks
  <1>6. \A d : BrowserRules!FilesIn(d)' \subseteq BrowserRules!FilesIn(d)
    BY <1>2, <1>5, Zenon DEF BrowserRules!FilesIn
  <1>7. \A d : BrowserRules!FilesBelow(d)' \subseteq BrowserRules!FilesBelow(d)
    BY Zenon DEF BrowserRules!FilesBelow, BrowserRules!Inside, TreeShrinks
  <1> QED
    BY <1>2, <1>3, <1>4, <1>5, <1>6, <1>7

LEMMA BrowserOps ==
  /\ \A c, S : BrowserRules!Target(c, S) = Target(c, S)
  /\ \A s : BrowserRules!FlattenSeq(s) = FlattenSeq(s)
  <1>1. \A c, S : BrowserRules!Target(c, S) = Target(c, S)
    BY Zenon DEF BrowserRules!Target, Target, BrowserRules!Unsized, Unsized
  <1>2. \A s : BrowserRules!FlattenSeq(s) = FlattenSeq(s)
    BY Zenon DEF BrowserRules!FlattenSeq, FlattenSeq
  <1> QED
    BY <1>1, <1>2

LEMMA BrowserCombinators ==
  ASSUME TreeShrinks
  PROVE  /\ \A c, p : Below(BrowserRules!IfExists(c, p)', BrowserRules!IfExists(c, p))
         /\ \A c, base, names : Counted(names) =>
              Below(BrowserRules!EachThatExists(c, base, names)',
                    BrowserRules!EachThatExists(c, base, names))
  <1>1. ASSUME NEW c, NEW p PROVE Below(BrowserRules!IfExists(c, p)', BrowserRules!IfExists(c, p))
    <2> DEFINE S == {q \in {p} : BrowserRules!Exists(q)}
    <2>1. S' \subseteq S
      BY BrowserHelpers
    <2>2. BrowserRules!IfExists(c, p) = Target(c, S) /\ BrowserRules!IfExists(c, p)' = Target(c, S')
      BY BrowserOps, Zenon DEF BrowserRules!IfExists
    <2> HIDE DEF S
    <2> QED
      BY <2>1, <2>2, BelowTarget, Zenon
  <1>3. ASSUME NEW c, NEW base, NEW names, Counted(names)
        PROVE  Below(BrowserRules!EachThatExists(c, base, names)',
                    BrowserRules!EachThatExists(c, base, names))
    <2> DEFINE f == [i \in DOMAIN names |-> BrowserRules!IfExists(c, base \o names[i])]
    <2>1. PICK n \in Nat : DOMAIN names = 1..n
      BY <1>3 DEF Counted
    <2>2. f = [i \in 1..n |-> f[i]] /\ f' = [i \in 1..n |-> f'[i]]
      BY <2>1, Zenon
    <2>3. \A i \in 1..n : Below(f'[i], f[i])
      BY <1>1, <2>1, Zenon
    <2>4. /\ BrowserRules!EachThatExists(c, base, names) = FlattenSeq(f)
          /\ BrowserRules!EachThatExists(c, base, names)' = FlattenSeq(f')
      BY BrowserOps, Zenon DEF BrowserRules!EachThatExists
    <2> HIDE DEF f
    <2> QED
      BY <2>2, <2>3, <2>4, BelowEach, Zenon
  <1> QED
    BY <1>1, <1>3

(* A finite set as a list: the profiles of a browser.                     *)
LEMMA SetListed ==
  ASSUME NEW S, IsFiniteSet(S)
  PROVE  \E n \in Nat : SetToSeq(S) \in [1..n -> S] /\ Elems(SetToSeq(S)) = S
  <1> DEFINE n == Cardinality(S)
  <1>1. n \in Nat /\ \E f \in Bijection(1..n, S) : TRUE
    BY FS_CardinalityType DEF ExistsBijection
  <1>2. \E f \in [1..n -> S] : IsInjective(f)
    BY <1>1 DEF Bijection, Injection
  <1> DEFINE f == SetToSeq(S)
  <1>3. f \in [1..n -> S] /\ IsInjective(f)
    BY <1>2, Zenon DEF SetToSeq
  <1>4. IsFiniteSet(1..n) /\ Cardinality(1..n) = n
    BY <1>1, FS_Interval
  <1>5. f \in Surjection(1..n, S)
    <2>1. f \in Injection(1..n, S)
      BY <1>3, Zenon DEF Injection
    <2> HIDE DEF f
    <2> QED
      BY <1>4, <2>1, FS_Injection
  <1>6. Elems(f) = S
    <2> HIDE DEF f, n
    <2> QED
      BY <1>3, <1>5 DEF Elems, Surjection
  <1> QED
    BY <1>1, <1>3, <1>6

LEMMA BrowserListed ==
  \A S : BrowserRules!SetToSeq(S) = SetToSeq(S)
  <1>1. \A S : BrowserRules!Cardinality(S) = Cardinality(S)
    BY Zenon DEF BrowserRules!Cardinality, Cardinality
  <1>2. \A f : BrowserRules!IsInjective(f) = IsInjective(f)
    BY Zenon DEF BrowserRules!IsInjective, IsInjective
  <1> QED
    BY <1>1, <1>2, Zenon DEF BrowserRules!SetToSeq, SetToSeq

LEMMA ChildrenFinite ==
  ASSUME IsFiniteSet(DOMAIN tree), NEW d
  PROVE  IsFiniteSet(BrowserRules!Children(d))
  <1>1. BrowserRules!Children(d) \subseteq DOMAIN tree
    BY Zenon DEF BrowserRules!Children
  <1> QED
    BY <1>1, FS_Subset

(* The lists of a smaller set of profiles are below those of the greater. *)
LEMMA BelowOfSets ==
  ASSUME NEW S, NEW T, IsFiniteSet(S), IsFiniteSet(T), S \subseteq T, NEW a, NEW b,
         \A x \in S : Below(a[x], b[x]), \A x \in T : AreTargets(b[x])
  PROVE  Below(FlattenSeq([i \in DOMAIN SetToSeq(S) |-> a[SetToSeq(S)[i]]]),
               FlattenSeq([i \in DOMAIN SetToSeq(T) |-> b[SetToSeq(T)[i]]]))
  <1> DEFINE s == SetToSeq(S)  t == SetToSeq(T)
             f == [i \in DOMAIN s |-> a[s[i]]]
             g == [i \in DOMAIN t |-> b[t[i]]]
  <1>1. PICK m \in Nat : s \in [1..m -> S] /\ Elems(s) = S
    BY SetListed
  <1>2. PICK n \in Nat : t \in [1..n -> T] /\ Elems(t) = T
    BY SetListed
  <1> HIDE DEF s, t
  <1>3. IsList(f) /\ Elems(f) = {a[x] : x \in S}
    <2>1. f = [i \in 1..m |-> f[i]] /\ DOMAIN f = 1..m
      BY <1>1
    <2>2. Elems(f) = {a[x] : x \in S}
      BY <1>1 DEF Elems
    <2> HIDE DEF f
    <2> QED
      BY <2>1, <2>2, ListByIndex
  <1>4. IsList(g) /\ Elems(g) = {b[x] : x \in T}
    <2>1. g = [i \in 1..n |-> g[i]] /\ DOMAIN g = 1..n
      BY <1>2
    <2>2. Elems(g) = {b[x] : x \in T}
      BY <1>2 DEF Elems
    <2> HIDE DEF g
    <2> QED
      BY <2>1, <2>2, ListByIndex
  <1>5. \A y \in Elems(g) : AreTargets(y)
    BY <1>4
  <1>6. \A x \in Elems(f) : \E y \in Elems(g) : Below(x, y)
    BY <1>3, <1>4
  <1>7. Below(FlattenSeq(f), FlattenSeq(g))
    <2> HIDE DEF f, g
    <2> QED
      BY <1>3, <1>4, <1>5, <1>6, BelowFlattened
  <1> QED
    BY <1>7 DEF s, t

(* A profile's lists, for a smaller tree.                                  *)
LEMMA FirefoxShrinks ==
  ASSUME TreeShrinks, NEW p, NEW root
  PROVE  Below(FlattenSeq(BrowserRules!Firefox(p, root)'), FlattenSeq(BrowserRules!Firefox(p, root)))
  <1> DEFINE f == BrowserRules!Firefox(p, root)
  <1>1. /\ Below(f'[1], f[1]) /\ Below(f'[2], f[2]) /\ Below(f'[3], f[3])
        /\ Below(f'[4], f[4]) /\ Below(f'[5], f[5]) /\ Below(f'[6], f[6])
    BY BrowserCombinators, CountedTuples, Zenon DEF BrowserRules!Firefox
  <1>2. /\ Below(f'[7], f[7]) /\ Below(f'[8], f[8]) /\ Below(f'[9], f[9])
        /\ Below(f'[10], f[10]) /\ Below(f'[11], f[11]) /\ Below(f'[12], f[12])
    BY BrowserCombinators, CountedTuples, Zenon DEF BrowserRules!Firefox
  <1>3. /\ Below(f'[13], f[13]) /\ Below(f'[14], f[14]) /\ Below(f'[15], f[15])
        /\ Below(f'[16], f[16])
    BY BrowserCombinators, CountedTuples, Zenon DEF BrowserRules!Firefox
  <1>4. 16 \in Nat /\ f = [i \in 1..16 |-> f[i]] /\ f' = [i \in 1..16 |-> f'[i]]
    BY DEF BrowserRules!Firefox
  <1>5. Below(FlattenSeq(f'), FlattenSeq(f))
    <2> HIDE DEF f
    <2>1. \A i \in 1..16 : Below(f'[i], f[i])
      BY <1>1, <1>2, <1>3
    <2> QED
      BY <1>4, <2>1, BelowEach, Zenon
  <1> QED
    BY <1>5

LEMMA ChromiumShrinks ==
  ASSUME TreeShrinks, NEW p, NEW base
  PROVE  Below(FlattenSeq(BrowserRules!Chromium(p, base)'), FlattenSeq(BrowserRules!Chromium(p, base)))
  <1> DEFINE f == BrowserRules!Chromium(p, base)
  <1>1. /\ Below(f'[1], f[1]) /\ Below(f'[2], f[2]) /\ Below(f'[3], f[3])
        /\ Below(f'[4], f[4]) /\ Below(f'[5], f[5]) /\ Below(f'[6], f[6])
    BY BrowserCombinators, CountedTuples, Zenon DEF BrowserRules!Chromium
  <1>2. /\ Below(f'[7], f[7]) /\ Below(f'[8], f[8]) /\ Below(f'[9], f[9])
        /\ Below(f'[10], f[10]) /\ Below(f'[11], f[11]) /\ Below(f'[12], f[12])
    BY BrowserCombinators, CountedTuples, Zenon DEF BrowserRules!Chromium
  <1>3. /\ Below(f'[13], f[13]) /\ Below(f'[14], f[14]) /\ Below(f'[15], f[15])
        /\ Below(f'[16], f[16]) /\ Below(f'[17], f[17]) /\ Below(f'[18], f[18])
    BY BrowserCombinators, CountedTuples, Zenon DEF BrowserRules!Chromium
  <1>4. 18 \in Nat /\ f = [i \in 1..18 |-> f[i]] /\ f' = [i \in 1..18 |-> f'[i]]
    BY DEF BrowserRules!Chromium
  <1>5. Below(FlattenSeq(f'), FlattenSeq(f))
    <2> HIDE DEF f
    <2>1. \A i \in 1..18 : Below(f'[i], f[i])
      BY <1>1, <1>2, <1>3
    <2> QED
      BY <1>4, <2>1, BelowEach, Zenon
  <1> QED
    BY <1>5

(* All rules of the browser cleaner.                                      *)
LEMMA BrowserRulesShrink ==
  ASSUME TreeShrinks, IsFiniteSet(DOMAIN tree)
  PROVE  Below(BrowserRules!Discovered', BrowserRules!Discovered)
  <1>1. \A d : IsFiniteSet(BrowserRules!Children(d)) /\ IsFiniteSet(BrowserRules!Children(d)')
    <2>1. \A d : IsFiniteSet(BrowserRules!Children(d))
      BY ChildrenFinite
    <2>2. \A d : BrowserRules!Children(d)' \subseteq BrowserRules!Children(d)
      BY BrowserHelpers
    <2> QED
      BY <2>1, <2>2, FS_Subset
  <1>2. Below(BrowserRules!FirefoxTargets', BrowserRules!FirefoxTargets)
    <2> DEFINE root == Home \o <<".mozilla", "firefox">>
               S == {p \in BrowserRules!Children(root) : BrowserRules!IsDir(p)}
               a == [p \in S |-> FlattenSeq(BrowserRules!Firefox(p, root))]
    <2>1. S' \subseteq S
      BY BrowserHelpers
    <2>2. IsFiniteSet(S) /\ IsFiniteSet(S')
      BY <1>1, FS_Subset
    <2>3. \A p \in S' : Below(a'[p], a[p])
      BY <2>1, FirefoxShrinks
    <2>4. \A p \in S : AreTargets(a[p])
      BY FirefoxShrinks DEF Below
    <2>5. /\ BrowserRules!FirefoxTargets = FlattenSeq([i \in DOMAIN SetToSeq(S) |-> a[SetToSeq(S)[i]]])
          /\ BrowserRules!FirefoxTargets' = FlattenSeq([i \in DOMAIN SetToSeq(S') |-> a'[SetToSeq(S')[i]]])
      <3>1. \A i \in DOMAIN SetToSeq(S) : SetToSeq(S)[i] \in S
        BY <2>2, SetListed DEF Elems
      <3>2. \A i \in DOMAIN SetToSeq(S') : SetToSeq(S')[i] \in S'
        BY <2>2, SetListed DEF Elems
      <3> QED
        BY <3>1, <3>2, BrowserListed, BrowserOps DEF BrowserRules!FirefoxTargets
    <2> HIDE DEF S, a
    <2> QED
      BY <2>1, <2>2, <2>3, <2>4, <2>5, BelowOfSets

  <1>3. ASSUME NEW config
        PROVE  Below(BrowserRules!ChromiumTargets(config)', BrowserRules!ChromiumTargets(config))
    <2> DEFINE base == Home \o <<".config">> \o config
               S == {p \in BrowserRules!Children(base) :
                       BrowserRules!IsDir(p) /\ BrowserRules!Has(p, "profile")}
               a == [p \in S |-> FlattenSeq(BrowserRules!Chromium(p, base))]
    <2>1. S' \subseteq S
      BY BrowserHelpers
    <2>2. IsFiniteSet(S) /\ IsFiniteSet(S')
      BY <1>1, FS_Subset
    <2>3. \A p \in S' : Below(a'[p], a[p])
      BY <2>1, ChromiumShrinks
    <2>4. \A p \in S : AreTargets(a[p])
      BY ChromiumShrinks DEF Below
    <2>5. /\ BrowserRules!ChromiumTargets(config)
               = FlattenSeq([i \in DOMAIN SetToSeq(S) |-> a[SetToSeq(S)[i]]])
          /\ BrowserRules!ChromiumTargets(config)'
               = FlattenSeq([i \in DOMAIN SetToSeq(S') |-> a'[SetToSeq(S')[i]]])
      <3>1. \A i \in DOMAIN SetToSeq(S) : SetToSeq(S)[i] \in S
        BY <2>2, SetListed DEF Elems
      <3>2. \A i \in DOMAIN SetToSeq(S') : SetToSeq(S')[i] \in S'
        BY <2>2, SetListed DEF Elems
      <3> QED
        BY <3>1, <3>2, BrowserListed, BrowserOps DEF BrowserRules!ChromiumTargets
    <2> HIDE DEF S, a
    <2> QED
      BY <2>1, <2>2, <2>3, <2>4, <2>5, BelowOfSets
  <1>4. Below(BrowserRules!OwnTemps', BrowserRules!OwnTemps)
    <2> DEFINE S == {p \in BrowserRules!Children(<<"tmp">>) : tree[p].mine}
               T(p) == [category |-> "SystemTemp", paths |-> {p}, size |-> BrowserRules!PathSize(p)]
               s == SetToSeq(S)
               f == [i \in DOMAIN s |-> T(s[i])]
    <2>1. S' \subseteq S
      BY BrowserHelpers DEF TreeShrinks, BrowserRules!Children
    <2>2. IsFiniteSet(S) /\ IsFiniteSet(S')
      BY <1>1, FS_Subset
    <2>3. BrowserRules!OwnTemps = f /\ BrowserRules!OwnTemps' = f'
      BY BrowserListed, Zenon DEF BrowserRules!OwnTemps
    <2>4. PICK n \in Nat : s \in [1..n -> S] /\ Elems(s) = S
      BY <2>2, SetListed
    <2>5. PICK m \in Nat : s' \in [1..m -> S'] /\ Elems(s') = S'
      <3> DEFINE R == S'
      <3>1. IsFiniteSet(R)
        BY <2>2
      <3> HIDE DEF R
      <3>2. \E m \in Nat : SetToSeq(R) \in [1..m -> R] /\ Elems(SetToSeq(R)) = R
        BY <3>1, SetListed
      <3> QED
        BY <3>2 DEF R
    <2> HIDE DEF s, S
    <2>6. IsList(f) /\ Elems(f) = {T(p) : p \in S}
      <3>1. f = [i \in 1..n |-> f[i]] /\ DOMAIN f = 1..n
        BY <2>4
      <3>2. Elems(f) = {T(p) : p \in S}
        BY <2>4 DEF Elems
      <3> HIDE DEF f
      <3> QED
        BY <3>1, <3>2, ListByIndex
    <2>7. IsList(f') /\ Elems(f') = {T(p)' : p \in S'}
      <3>1. f' = [i \in 1..m |-> f'[i]] /\ DOMAIN f' = 1..m
        BY <2>5
      <3>2. Elems(f') = {T(p)' : p \in S'}
        BY <2>5 DEF Elems
      <3> HIDE DEF f
      <3> QED
        BY <3>1, <3>2, ListByIndex
    <2>8. Below(f', f)
      <3>1. ASSUME NEW t \in Elems(f')
            PROVE  \E u \in Elems(f) : u.category = t.category /\ t.paths \subseteq u.paths
        <4>1. PICK p \in S' : t = T(p)'
          BY <2>7
        <4>2. T(p) \in Elems(f) /\ T(p).category = t.category /\ t.paths \subseteq T(p).paths
          BY <2>1, <2>6, <4>1
        <4> QED
          BY <4>2
      <3>2. AreTargets(f) /\ AreTargets(f')
        <4> HIDE DEF f
        <4> QED
          BY <2>6, <2>7 DEF AreTargets
      <3> HIDE DEF f
      <3> QED
        BY <3>1, <3>2 DEF Below
    <2> QED
      BY <2>3, <2>8
  <1>5. Below(BrowserRules!SystemTemps', BrowserRules!SystemTemps)
    BY <1>4, BrowserOps, BrowserCombinators, CountedTuples, BelowFour, SMTT(60)
       DEF BrowserRules!SystemTemps
  <1>6. Below(BrowserRules!Discovered', BrowserRules!Discovered)
    <2> DEFINE f == [i \in DOMAIN BrowserRules!Configs |->
                       BrowserRules!ChromiumTargets(BrowserRules!Configs[i])]
    <2>1. 6 \in Nat /\ DOMAIN BrowserRules!Configs = 1..6
      BY DEF BrowserRules!Configs
    <2>2. f = [i \in 1..6 |-> f[i]] /\ f' = [i \in 1..6 |-> f'[i]]
      BY <2>1, Zenon
    <2>3. \A i \in 1..6 : Below(f'[i], f[i])
      BY <1>3, <2>1
    <2>4. Below(FlattenSeq(f'), FlattenSeq(f))
      <3> HIDE DEF f
      <3> QED
        BY <2>1, <2>2, <2>3, BelowEach, Zenon
    <2>5. /\ BrowserRules!Discovered
               = BrowserRules!FirefoxTargets \o FlattenSeq(f) \o BrowserRules!SystemTemps
          /\ BrowserRules!Discovered'
               = BrowserRules!FirefoxTargets' \o FlattenSeq(f') \o BrowserRules!SystemTemps'
      BY BrowserOps, Zenon DEF BrowserRules!Discovered
    <2> HIDE DEF f
    <2> QED
      BY <1>2, <1>5, <2>4, <2>5, BelowJoined
  <1> QED
    BY <1>6

(* secure_delete failed there, or somewhere below. *)
Missed(p, refused) == p \in refused \/ \E q \in refused : IsPrefix(p, q)

(* What is there of what is listed for the chosen categories was refused,  *)
(* in whole or in part, or is still to be visited.                         *)
Remaining(list, categories, there, refused, todo) ==
  \A t \in Elems(list) : t.category \in categories =>
    \A p \in t.paths \cap there : Missed(p, refused) \/ \E i \in DOMAIN todo : p \in todo[i]

(* It stays so when less is listed, and when more is refused.              *)
LEMMA RemainingLater ==
  ASSUME NEW now, NEW old, Below(now, old), NEW cats, NEW todo, NEW there, NEW thereNow,
         thereNow \subseteq there, NEW refused, NEW refusedNow, refused \subseteq refusedNow,
         Remaining(old, cats, there, refused, todo)
  PROVE  Remaining(now, cats, thereNow, refusedNow, todo)
  <1> SUFFICES ASSUME NEW t \in Elems(now), t.category \in cats, NEW p \in t.paths \cap thereNow
               PROVE  Missed(p, refusedNow) \/ \E i \in DOMAIN todo : p \in todo[i]
    BY DEF Remaining
  <1>1. PICK u \in Elems(old) : u.category = t.category /\ t.paths \subseteq u.paths
    BY DEF Below
  <1>2. Missed(p, refused) \/ \E i \in DOMAIN todo : p \in todo[i]
    BY <1>1 DEF Remaining
  <1>3. Missed(p, refused) => Missed(p, refusedNow)
    BY DEF Missed
  <1> QED
    BY <1>2, <1>3

(* A path that is not there any more, or was missed, may be taken off.     *)
LEMMA RemainingVisited ==
  ASSUME NEW list, NEW cats, NEW there, NEW refused, NEW todo, IsList(todo), todo # <<>>,
         NEW p, p \notin there \/ Missed(p, refused),
         Remaining(list, cats, there, refused, todo),
         NEW rest, rest = IF Head(todo) = {p} THEN Tail(todo) ELSE [todo EXCEPT ![1] = @ \ {p}]
  PROVE  Remaining(list, cats, there, refused, rest) /\ IsList(rest)
  <1> DEFINE E == Elems(todo)
  <1>1. todo \in Seq(E)
    BY DEF IsList
  <1> HIDE DEF E
  <1>2. PICK n \in Nat \ {0} : /\ DOMAIN todo = 1..n /\ Len(todo) = n
                               /\ todo = [i \in 1..n |-> todo[i]]
    <2>1. Len(todo) \in Nat /\ DOMAIN todo = 1..Len(todo) /\ todo = [i \in 1..Len(todo) |-> todo[i]]
      BY <1>1
    <2>2. Len(todo) # 0
      BY <1>1
    <2> QED
      BY <2>1, <2>2
  <1>3. Head(todo) = todo[1]
    BY <1>1, <1>2
  <1>4. /\ Tail(todo) \in Seq(E) /\ DOMAIN Tail(todo) = 1..(n - 1)
        /\ \A i \in 1..(n - 1) : Tail(todo)[i] = todo[i + 1]
    <2>1. /\ Tail(todo) \in Seq(E) /\ Len(Tail(todo)) = n - 1
          /\ \A i \in 1..Len(Tail(todo)) : Tail(todo)[i] = todo[i + 1]
      BY <1>1, <1>2, HeadTailProperties
    <2>2. DOMAIN Tail(todo) = 1..Len(Tail(todo))
      BY <2>1
    <2> QED
      BY <2>1, <2>2
  <1>5. IsList(rest) /\ \A q : q # p /\ (\E i \in DOMAIN todo : q \in todo[i])
                                => \E i \in DOMAIN rest : q \in rest[i]
    <2>1. CASE Head(todo) = {p}
      <3>1. rest = Tail(todo) /\ todo[1] = {p}
        BY <1>3, <2>1
      <3>2. DOMAIN rest = 1..(n - 1) /\ \A i \in 1..(n - 1) : rest[i] = todo[i + 1]
        BY <1>4, <3>1
      <3>3. IsList(rest)
        BY <1>4, <3>1, ListOf
      <3>4. ASSUME NEW q, q # p, NEW i \in 1..n, q \in todo[i] PROVE \E j \in DOMAIN rest : q \in rest[j]
        <4>1. i # 1
          BY <3>1, <3>4
        <4>2. i - 1 \in 1..(n - 1) /\ (i - 1) + 1 = i
          BY <4>1
        <4>3. q \in rest[i - 1]
          BY <3>2, <3>4, <4>2
        <4> QED
          BY <3>2, <4>2, <4>3
      <3> QED
        BY <1>2, <3>3, <3>4
    <2>2. CASE Head(todo) # {p}
      <3>1. rest = [todo EXCEPT ![1] = todo[1] \ {p}]
        BY <2>2
      <3>2. DOMAIN rest = 1..n /\ rest = [i \in 1..n |-> rest[i]]
        BY <1>2, <3>1
      <3>3. IsList(rest)
        BY <3>2, ListByIndex
      <3>4. \A q, i : q # p /\ i \in 1..n /\ q \in todo[i] => q \in rest[i]
        BY <1>2, <3>1
      <3> QED
        BY <1>2, <3>2, <3>3, <3>4
    <2> QED
      BY <2>1, <2>2
  <1> QED
    BY <1>5 DEF Remaining

(* When the cleaning begins, everything of a chosen category is to be      *)
(* visited.                                                                *)
LEMMA RemainingAtFirst ==
  ASSUME NEW list, NEW targets, Below(list, targets), NEW cats, NEW there, NEW refused, NEW todo,
         todo = FlattenSeq([i \in DOMAIN targets |->
                  IF targets[i].category \in cats THEN <<targets[i].paths>> ELSE <<>>])
  PROVE  Remaining(list, cats, there, refused, todo) /\ IsList(todo)
  <1> DEFINE f == [i \in DOMAIN targets |->
                     IF targets[i].category \in cats THEN <<targets[i].paths>> ELSE <<>>]
  <1>1. PICK n \in Nat : DOMAIN targets = 1..n
    BY ListDomain DEF Below, AreTargets
  <1>2. IsList(f)
    <2>1. f = [i \in 1..n |-> f[i]] /\ DOMAIN f = 1..n
      BY <1>1
    <2> HIDE DEF f
    <2> QED
      BY <2>1, ListByIndex
  <1>3. \A i \in DOMAIN f : IsList(f[i])
    <2>1. \A i \in DOMAIN f : f[i] = <<targets[i].paths>> \/ f[i] = <<>>
      OBVIOUS
    <2>2. \A x : IsList(<<x>>)
      BY DEF IsList, Elems
    <2> HIDE DEF f
    <2> QED
      BY <2>1, <2>2, EmptyIsList
  <1>4. IsList(todo) /\ Elems(todo) = UNION {Elems(f[i]) : i \in DOMAIN f}
    <2>1. todo = FlattenSeq(f)
      OBVIOUS
    <2> HIDE DEF f
    <2> QED
      BY <1>2, <1>3, <2>1, Flattened
  <1>5. ASSUME NEW u \in Elems(targets), u.category \in cats PROVE u.paths \in Elems(todo)
    <2>1. PICK i \in DOMAIN targets : u = targets[i]
      BY DEF Elems
    <2>2. f[i] = <<u.paths>> /\ i \in DOMAIN f
      BY <1>5, <2>1
    <2>3. u.paths \in Elems(f[i])
      <3>1. \A x : x \in Elems(<<x>>)
        BY DEF Elems
      <3> QED
        BY <2>2, <3>1
    <2> HIDE DEF f
    <2> QED
      BY <1>4, <2>2, <2>3
  <1>6. ASSUME NEW t \in Elems(list), t.category \in cats, NEW p \in t.paths
        PROVE  \E i \in DOMAIN todo : p \in todo[i]
    <2>1. PICK u \in Elems(targets) : u.category = t.category /\ t.paths \subseteq u.paths
      BY DEF Below
    <2>2. u.paths \in Elems(todo) /\ p \in u.paths
      BY <1>5, <1>6, <2>1
    <2> QED
      BY <2>2 DEF Elems
  <1> QED
    BY <1>4, <1>6 DEF Remaining

(* What is listed now was listed when the run began, and what was listed   *)
(* then is still to be visited, missed, or gone.                           *)
SystemInv ==
  /\ systemPhase \in {"idle", "found", "cleaning", "done"}
  /\ systemPhase = "found" => Below(SystemRules!Discovered, systemTargets)
  /\ systemPhase = "cleaning" =>
       /\ IsList(systemTodo)
       /\ Remaining(SystemRules!Discovered, systemRequest.categories, DOMAIN tree, systemRefused, systemTodo)
  /\ systemPhase = "done" /\ ~systemRequest.dry =>
       Remaining(SystemRules!Discovered, systemRequest.categories, DOMAIN tree, systemRefused, <<>>)
  /\ systemWalk # System!NoWalk => systemPhase = "cleaning" /\ systemTodo # <<>>

(* The tree is as it was, or one path is gone.                             *)
LEMMA SystemTakes ==
  ASSUME System!Next
  PROVE  UNCHANGED tree \/ \E p \in DOMAIN tree : System!Take(p)
  <1>1. ASSUME System!Walk PROVE UNCHANGED tree \/ \E p \in DOMAIN tree : System!Take(p)
    BY <1>1, Zenon DEF System!Walk, System!WalkErases, System!WalkRemoves, System!WalkFails, System!WalkIsLost
  <1>2. ASSUME NEW p, System!Visit(p) PROVE UNCHANGED tree \/ \E q \in DOMAIN tree : System!Take(q)
    BY <1>2, Zenon DEF System!Visit, System!Erase, System!EraseFails, System!Fails, System!Skip, System!Enter, System!Is
  <1> QED
    BY <1>1, <1>2, Zenon DEF System!Next, System!Discover, System!Scan, System!Finish

LEMMA SystemTaken ==
  ASSUME NEW p, System!Take(p)
  PROVE  TreeShrinks /\ p \notin DOMAIN tree'
  BY Zenon DEF System!Take, TreeShrinks

LEMMA SystemShrinks ==
  ASSUME System!Next \/ UNCHANGED cleanerVars
  PROVE  TreeShrinks
  <1>1. CASE \E p : System!Take(p)
    BY <1>1, SystemTaken
  <1>2. CASE UNCHANGED tree
    BY <1>2 DEF TreeShrinks
  <1> QED
    BY <1>1, <1>2, SystemTakes, Zenon DEF cleanerVars

(* What others erase, or put up with, takes nothing from what is said.     *)
LEMMA SystemListsLess ==
  ASSUME TreeShrinks, NEW cats, NEW refused, refused \subseteq systemRefused', NEW todo,
         Remaining(SystemRules!Discovered, cats, DOMAIN tree, refused, todo)
  PROVE  Remaining(SystemRules!Discovered', cats, DOMAIN tree', systemRefused', todo)
  <1>1. Below(SystemRules!Discovered', SystemRules!Discovered)
    BY SystemRulesShrink
  <1>2. DOMAIN tree' \subseteq DOMAIN tree
    BY DEF TreeShrinks
  <1> QED
    BY <1>1, <1>2, RemainingLater

LEMMA SystemRests ==
  ASSUME SystemInv, TreeShrinks, UNCHANGED systemVars
  PROVE  SystemInv'
  <1>1. Below(SystemRules!Discovered', SystemRules!Discovered)
    BY SystemRulesShrink
  <1>2. ASSUME systemPhase = "found" PROVE Below(SystemRules!Discovered', systemTargets)
    BY <1>1, <1>2 DEF SystemInv, Below
  <1>3. ASSUME NEW todo, Remaining(SystemRules!Discovered, systemRequest.categories, DOMAIN tree,
                                   systemRefused, todo)
        PROVE  Remaining(SystemRules!Discovered', systemRequest.categories, DOMAIN tree',
                         systemRefused', todo)
    BY <1>3, SystemListsLess DEF systemVars
  <1> QED
    BY <1>2, <1>3, Zenon DEF SystemInv, systemVars

(* A path is taken off the list rightly. *)
LEMMA SystemCrossesOff ==
  ASSUME SystemInv, TreeShrinks, NEW p, p \notin DOMAIN tree' \/ Missed(p, systemRefused'),
         systemPhase = "cleaning", systemPhase' = "cleaning", systemTodo # <<>>,
         systemTodo' = System!Visited(p), systemRequest' = systemRequest, systemWalk' = System!NoWalk,
         systemRefused \subseteq systemRefused'
  PROVE  SystemInv'
  <1>1. IsList(systemTodo) /\ Remaining(SystemRules!Discovered, systemRequest.categories, DOMAIN tree,
                                       systemRefused, systemTodo)
    BY DEF SystemInv
  <1>2. Remaining(SystemRules!Discovered', systemRequest.categories, DOMAIN tree', systemRefused', systemTodo)
    BY <1>1, SystemListsLess
  <1>3. /\ Remaining(SystemRules!Discovered', systemRequest.categories, DOMAIN tree', systemRefused', systemTodo')
        /\ IsList(systemTodo')
    <2> DEFINE rest == systemTodo'
    <2>1. rest = IF Head(systemTodo) = {p} THEN Tail(systemTodo) ELSE [systemTodo EXCEPT ![1] = @ \ {p}]
      BY Zenon DEF System!Visited
    <2> HIDE DEF rest
    <2>2. /\ Remaining(SystemRules!Discovered', systemRequest.categories, DOMAIN tree', systemRefused', rest)
          /\ IsList(rest)
      BY <1>1, <1>2, <2>1, RemainingVisited
    <2> QED
      BY <2>2 DEF rest
  <1> QED
    BY <1>3 DEF SystemInv, System!NoWalk

(* Nothing is taken off.                                                   *)
LEMMA SystemGoesOn ==
  ASSUME SystemInv, TreeShrinks, systemPhase = "cleaning", systemTodo # <<>>,
         UNCHANGED <<systemPhase, systemTodo, systemRequest>>, systemRefused \subseteq systemRefused'
  PROVE  SystemInv'
  <1>1. IsList(systemTodo) /\ Remaining(SystemRules!Discovered, systemRequest.categories, DOMAIN tree,
                                       systemRefused, systemTodo)
    BY DEF SystemInv
  <1>2. Remaining(SystemRules!Discovered', systemRequest.categories, DOMAIN tree', systemRefused', systemTodo)
    BY <1>1, SystemListsLess
  <1> QED
    BY <1>1, <1>2 DEF SystemInv

LEMMA SystemVisits ==
  ASSUME SystemInv, NEW p, System!Visit(p)
  PROVE  SystemInv'
  <1>1. /\ systemPhase = "cleaning" /\ systemPhase' = "cleaning" /\ systemTodo # <<>>
        /\ systemRequest' = systemRequest /\ systemRefused \subseteq systemRefused' /\ systemWalk = System!NoWalk
    BY Zenon DEF System!Visit, System!Erase, System!EraseFails, System!Fails, System!Skip, System!Enter, System!Pending
  <1>2. TreeShrinks
    BY SystemTaken, Zenon DEF System!Visit, System!Erase, System!EraseFails, System!Fails, System!Skip, System!Enter, TreeShrinks
  <1>3. CASE System!Erase(p) \/ System!EraseFails(p) \/ System!Skip(p)
    <2>1. systemTodo' = System!Visited(p) /\ systemWalk' = System!NoWalk
      BY <1>1, <1>3, Zenon DEF System!Erase, System!EraseFails, System!Fails, System!Skip
    <2>2. p \notin DOMAIN tree' \/ p \in systemRefused'
      <3>1. CASE System!Erase(p)
        BY <3>1, SystemTaken, Zenon DEF System!Erase
      <3>2. CASE System!EraseFails(p)
        BY <3>2, Zenon DEF System!EraseFails, System!Fails
      <3>3. CASE System!Skip(p)
        BY <3>3, Zenon DEF System!Skip, System!Exists
      <3> QED
        BY <1>3, <3>1, <3>2, <3>3
    <2> QED
      BY <1>1, <1>2, <2>1, <2>2, SystemCrossesOff DEF Missed
  <1>4. CASE System!Enter(p)
    <2>1. UNCHANGED systemTodo
      BY <1>4, Zenon DEF System!Enter
    <2> QED
      BY <1>1, <1>2, <2>1, SystemGoesOn
  <1> QED
    BY <1>3, <1>4, Zenon DEF System!Visit

LEMMA SystemWalks ==
  ASSUME SystemInv, System!Walk
  PROVE  SystemInv'
  <1>1. /\ systemWalk # System!NoWalk /\ systemPhase' = systemPhase /\ systemRequest' = systemRequest
        /\ systemRefused \subseteq systemRefused'
    BY Zenon DEF System!Walk, System!WalkErases, System!WalkRemoves, System!WalkFails, System!WalkIsLost, System!InWalk
  <1>2. systemPhase = "cleaning" /\ systemTodo # <<>>
    BY <1>1 DEF SystemInv
  <1>3. TreeShrinks
    BY SystemTaken, Zenon DEF System!Walk, System!WalkErases, System!WalkRemoves, System!WalkFails, System!WalkIsLost,
       TreeShrinks
  <1>4. ASSUME System!Stops, systemWalk \notin DOMAIN tree' \/ Missed(systemWalk, systemRefused')
        PROVE  SystemInv'
    <2>1. systemTodo' = System!Visited(systemWalk) /\ systemWalk' = System!NoWalk
      BY <1>4 DEF System!Stops
    <2> QED
      BY <1>1, <1>2, <1>3, <1>4, <2>1, SystemCrossesOff
  <1>5. ASSUME NEW q, System!WalkErases(q) PROVE SystemInv'
    <2>1. UNCHANGED systemTodo
      BY <1>5, Zenon DEF System!WalkErases
    <2> QED
      BY <1>1, <1>2, <1>3, <2>1, SystemGoesOn
  <1>6. ASSUME NEW q, System!WalkRemoves(q) PROVE SystemInv'
    <2>1. CASE q = systemWalk
      <3>1. System!Stops /\ q \notin DOMAIN tree'
        BY <1>6, <2>1, SystemTaken, Zenon DEF System!WalkRemoves
      <3> QED
        BY <1>4, <2>1, <3>1
    <2>2. CASE q # systemWalk
      <3>1. UNCHANGED systemTodo
        BY <1>6, <2>2, Zenon DEF System!WalkRemoves
      <3> QED
        BY <1>1, <1>2, <1>3, <3>1, SystemGoesOn
    <2> QED
      BY <2>1, <2>2
  <1>7. ASSUME NEW q, System!WalkFails(q) PROVE SystemInv'
    <2>1. System!Stops /\ q \in systemRefused' /\ System!IsPrefix(systemWalk, q)
      BY <1>7, Zenon DEF System!WalkFails, System!InWalk
    <2>2. IsPrefix(systemWalk, q)
      BY <2>1, Zenon DEF System!IsPrefix, IsPrefix
    <2> QED
      BY <1>4, <2>1, <2>2 DEF Missed
  <1>8. CASE System!WalkIsLost
    <2>1. System!Stops /\ systemWalk \notin DOMAIN tree'
      BY <1>8, Zenon DEF System!WalkIsLost, System!Exists
    <2> QED
      BY <1>4, <2>1
  <1> QED
    BY <1>5, <1>6, <1>7, <1>8, Zenon DEF System!Walk

(* Every step of the run keeps it.                                         *)
LEMMA SystemRuns ==
  ASSUME SystemInv, System!Next
  PROVE  SystemInv'
  <1>1. ASSUME NEW req, System!Discover(req) PROVE SystemInv'
    <2>1. /\ tree' = tree /\ systemPhase' = "found" /\ systemTargets' = SystemRules!Discovered
          /\ systemPhase = "idle" /\ systemWalk' = systemWalk
      BY <1>1, Zenon DEF System!Discover
    <2>2. Below(SystemRules!Discovered', SystemRules!Discovered)
      BY <2>1, SystemRulesShrink DEF TreeShrinks
    <2> QED
      BY <2>1, <2>2 DEF SystemInv, System!NoWalk
  <1>2. CASE System!Scan
    <2>1. /\ systemPhase = "found" /\ tree' = tree /\ systemRequest' = systemRequest /\ systemWalk' = systemWalk
          /\ IF systemRequest.dry THEN systemPhase' = "done"
                                  ELSE systemPhase' = "cleaning" /\ systemTodo' = System!ToVisit
      BY <1>2, Zenon DEF System!Scan
    <2>2. Below(SystemRules!Discovered', systemTargets)
      <3>1. Below(SystemRules!Discovered', SystemRules!Discovered)
        BY <2>1, SystemRulesShrink DEF TreeShrinks
      <3> QED
        BY <2>1, <3>1 DEF SystemInv, Below
    <2>3. System!ToVisit = FlattenSeq([i \in DOMAIN systemTargets |->
            IF systemTargets[i].category \in systemRequest.categories
            THEN <<systemTargets[i].paths>> ELSE <<>>])
      <3>1. \A s : System!FlattenSeq(s) = FlattenSeq(s)
        BY Zenon DEF System!FlattenSeq, FlattenSeq
      <3> QED
        BY <3>1, Zenon DEF System!ToVisit
    <2>4. /\ Remaining(SystemRules!Discovered', systemRequest.categories, DOMAIN tree', systemRefused',
                       System!ToVisit)
          /\ IsList(System!ToVisit)
      BY <2>2, <2>3, RemainingAtFirst
    <2>5. systemWalk' = System!NoWalk
      BY <2>1 DEF SystemInv
    <2> QED
      BY <2>1, <2>4, <2>5, Zenon DEF SystemInv, System!NoWalk
  <1>3. CASE System!Finish
    <2>1. /\ systemPhase = "cleaning" /\ systemPhase' = "done" /\ systemTodo = <<>>
          /\ UNCHANGED <<tree, systemRequest, systemRefused, systemWalk>>
      BY <1>3, Zenon DEF System!Finish
    <2>2. Remaining(SystemRules!Discovered, systemRequest.categories, DOMAIN tree, systemRefused, <<>>)
      BY <2>1 DEF SystemInv
    <2>3. Remaining(SystemRules!Discovered', systemRequest.categories, DOMAIN tree', systemRefused', <<>>)
      BY <2>1, <2>2, SystemListsLess DEF TreeShrinks
    <2>4. systemWalk' = System!NoWalk
      BY <2>1 DEF SystemInv
    <2> QED
      BY <2>1, <2>3, <2>4, Zenon DEF SystemInv, System!NoWalk
  <1> QED
    BY <1>1, <1>2, <1>3, SystemVisits, SystemWalks, Zenon DEF System!Next

LEMMA SystemIsThorough ==
  ASSUME SystemInv, \A p \in DOMAIN tree : IsList(p)
  PROVE  System!Thorough
  <1> SUFFICES ASSUME systemPhase = "done", ~systemRequest.dry,
                      NEW i \in DOMAIN SystemRules!Discovered,
                      SystemRules!Discovered[i].category \in systemRequest.categories,
                      NEW p \in SystemRules!Discovered[i].paths, System!Exists(p)
               PROVE  \E q \in systemRefused : System!IsPrefix(p, q)
    BY DEF System!Thorough
  <1>1. Remaining(SystemRules!Discovered, systemRequest.categories, DOMAIN tree, systemRefused, <<>>)
    BY DEF SystemInv
  <1>2. p \in DOMAIN tree
    BY DEF System!Exists
  <1>3. SystemRules!Discovered[i] \in Elems(SystemRules!Discovered)
    BY DEF Elems
  <1>4. Missed(p, systemRefused)
    BY <1>1, <1>2, <1>3 DEF Remaining
  <1>5. IsPrefix(p, p)
    BY <1>2, ListIsPrefix
  <1>6. \A q : System!IsPrefix(p, q) = IsPrefix(p, q)
    BY Zenon DEF System!IsPrefix, IsPrefix
  <1> QED
    BY <1>4, <1>5, <1>6 DEF Missed

-----------------------------------------------------------------------------
(* The same of the browser cleaner. *)
(* What is listed now was listed when the run began, and what was listed   *)
(* then is still to be visited, missed, or gone.                           *)
BrowserInv ==
  /\ browserPhase \in {"idle", "found", "cleaning", "done"}
  /\ browserPhase = "found" => Below(BrowserRules!Discovered, browserTargets)
  /\ browserPhase = "cleaning" =>
       /\ IsList(browserTodo)
       /\ Remaining(BrowserRules!Discovered, browserRequest.categories, DOMAIN tree, browserRefused, browserTodo)
  /\ browserPhase = "done" /\ ~browserRequest.dry =>
       Remaining(BrowserRules!Discovered, browserRequest.categories, DOMAIN tree, browserRefused, <<>>)
  /\ browserWalk # Browser!NoWalk => browserPhase = "cleaning" /\ browserTodo # <<>>

(* The tree is as it was, or one path is gone.                             *)
LEMMA BrowserTakes ==
  ASSUME Browser!Next
  PROVE  UNCHANGED tree \/ \E p \in DOMAIN tree : Browser!Take(p)
  <1>1. ASSUME Browser!Walk PROVE UNCHANGED tree \/ \E p \in DOMAIN tree : Browser!Take(p)
    BY <1>1, Zenon DEF Browser!Walk, Browser!WalkErases, Browser!WalkRemoves, Browser!WalkFails, Browser!WalkIsLost
  <1>2. ASSUME NEW p, Browser!Visit(p) PROVE UNCHANGED tree \/ \E q \in DOMAIN tree : Browser!Take(q)
    BY <1>2, Zenon DEF Browser!Visit, Browser!Erase, Browser!EraseFails, Browser!Fails, Browser!Skip, Browser!Enter, Browser!Is
  <1> QED
    BY <1>1, <1>2, Zenon DEF Browser!Next, Browser!Discover, Browser!Scan, Browser!Finish

LEMMA BrowserTaken ==
  ASSUME NEW p, Browser!Take(p)
  PROVE  TreeShrinks /\ p \notin DOMAIN tree'
  BY Zenon DEF Browser!Take, TreeShrinks

LEMMA BrowserShrinks ==
  ASSUME Browser!Next \/ UNCHANGED cleanerVars
  PROVE  TreeShrinks
  <1>1. CASE \E p : Browser!Take(p)
    BY <1>1, BrowserTaken
  <1>2. CASE UNCHANGED tree
    BY <1>2 DEF TreeShrinks
  <1> QED
    BY <1>1, <1>2, BrowserTakes, Zenon DEF cleanerVars

(* What others erase, or put up with, takes nothing from what is said.     *)
LEMMA BrowserListsLess ==
  ASSUME IsFiniteSet(DOMAIN tree), TreeShrinks, NEW cats, NEW refused, refused \subseteq browserRefused', NEW todo,
         Remaining(BrowserRules!Discovered, cats, DOMAIN tree, refused, todo)
  PROVE  Remaining(BrowserRules!Discovered', cats, DOMAIN tree', browserRefused', todo)
  <1>1. Below(BrowserRules!Discovered', BrowserRules!Discovered)
    BY BrowserRulesShrink
  <1>2. DOMAIN tree' \subseteq DOMAIN tree
    BY DEF TreeShrinks
  <1> QED
    BY <1>1, <1>2, RemainingLater

LEMMA BrowserRests ==
  ASSUME BrowserInv, IsFiniteSet(DOMAIN tree), TreeShrinks, UNCHANGED browserVars
  PROVE  BrowserInv'
  <1>1. Below(BrowserRules!Discovered', BrowserRules!Discovered)
    BY BrowserRulesShrink
  <1>2. ASSUME browserPhase = "found" PROVE Below(BrowserRules!Discovered', browserTargets)
    BY <1>1, <1>2 DEF BrowserInv, Below
  <1>3. ASSUME NEW todo, Remaining(BrowserRules!Discovered, browserRequest.categories, DOMAIN tree,
                                   browserRefused, todo)
        PROVE  Remaining(BrowserRules!Discovered', browserRequest.categories, DOMAIN tree',
                         browserRefused', todo)
    BY <1>3, BrowserListsLess DEF browserVars
  <1> QED
    BY <1>2, <1>3, Zenon DEF BrowserInv, browserVars

(* A path is taken off the list rightly. *)
LEMMA BrowserCrossesOff ==
  ASSUME BrowserInv, IsFiniteSet(DOMAIN tree), TreeShrinks, NEW p, p \notin DOMAIN tree' \/ Missed(p, browserRefused'),
         browserPhase = "cleaning", browserPhase' = "cleaning", browserTodo # <<>>,
         browserTodo' = Browser!Visited(p), browserRequest' = browserRequest, browserWalk' = Browser!NoWalk,
         browserRefused \subseteq browserRefused'
  PROVE  BrowserInv'
  <1>1. IsList(browserTodo) /\ Remaining(BrowserRules!Discovered, browserRequest.categories, DOMAIN tree,
                                       browserRefused, browserTodo)
    BY DEF BrowserInv
  <1>2. Remaining(BrowserRules!Discovered', browserRequest.categories, DOMAIN tree', browserRefused', browserTodo)
    BY <1>1, BrowserListsLess
  <1>3. /\ Remaining(BrowserRules!Discovered', browserRequest.categories, DOMAIN tree', browserRefused', browserTodo')
        /\ IsList(browserTodo')
    <2> DEFINE rest == browserTodo'
    <2>1. rest = IF Head(browserTodo) = {p} THEN Tail(browserTodo) ELSE [browserTodo EXCEPT ![1] = @ \ {p}]
      BY Zenon DEF Browser!Visited
    <2> HIDE DEF rest
    <2>2. /\ Remaining(BrowserRules!Discovered', browserRequest.categories, DOMAIN tree', browserRefused', rest)
          /\ IsList(rest)
      BY <1>1, <1>2, <2>1, RemainingVisited
    <2> QED
      BY <2>2 DEF rest
  <1> QED
    BY <1>3 DEF BrowserInv, Browser!NoWalk

(* Nothing is taken off.                                                   *)
LEMMA BrowserGoesOn ==
  ASSUME BrowserInv, IsFiniteSet(DOMAIN tree), TreeShrinks, browserPhase = "cleaning", browserTodo # <<>>,
         UNCHANGED <<browserPhase, browserTodo, browserRequest>>, browserRefused \subseteq browserRefused'
  PROVE  BrowserInv'
  <1>1. IsList(browserTodo) /\ Remaining(BrowserRules!Discovered, browserRequest.categories, DOMAIN tree,
                                       browserRefused, browserTodo)
    BY DEF BrowserInv
  <1>2. Remaining(BrowserRules!Discovered', browserRequest.categories, DOMAIN tree', browserRefused', browserTodo)
    BY <1>1, BrowserListsLess
  <1> QED
    BY <1>1, <1>2 DEF BrowserInv

LEMMA BrowserVisits ==
  ASSUME BrowserInv, IsFiniteSet(DOMAIN tree), NEW p, Browser!Visit(p)
  PROVE  BrowserInv'
  <1>1. /\ browserPhase = "cleaning" /\ browserPhase' = "cleaning" /\ browserTodo # <<>>
        /\ browserRequest' = browserRequest /\ browserRefused \subseteq browserRefused' /\ browserWalk = Browser!NoWalk
    BY Zenon DEF Browser!Visit, Browser!Erase, Browser!EraseFails, Browser!Fails, Browser!Skip, Browser!Enter, Browser!Pending
  <1>2. TreeShrinks
    BY BrowserTaken, Zenon DEF Browser!Visit, Browser!Erase, Browser!EraseFails, Browser!Fails, Browser!Skip, Browser!Enter, TreeShrinks
  <1>3. CASE Browser!Erase(p) \/ Browser!EraseFails(p) \/ Browser!Skip(p)
    <2>1. browserTodo' = Browser!Visited(p) /\ browserWalk' = Browser!NoWalk
      BY <1>1, <1>3, Zenon DEF Browser!Erase, Browser!EraseFails, Browser!Fails, Browser!Skip
    <2>2. p \notin DOMAIN tree' \/ p \in browserRefused'
      <3>1. CASE Browser!Erase(p)
        BY <3>1, BrowserTaken, Zenon DEF Browser!Erase
      <3>2. CASE Browser!EraseFails(p)
        BY <3>2, Zenon DEF Browser!EraseFails, Browser!Fails
      <3>3. CASE Browser!Skip(p)
        BY <3>3, Zenon DEF Browser!Skip, Browser!Exists
      <3> QED
        BY <1>3, <3>1, <3>2, <3>3
    <2> QED
      BY <1>1, <1>2, <2>1, <2>2, BrowserCrossesOff DEF Missed
  <1>4. CASE Browser!Enter(p)
    <2>1. UNCHANGED browserTodo
      BY <1>4, Zenon DEF Browser!Enter
    <2> QED
      BY <1>1, <1>2, <2>1, BrowserGoesOn
  <1> QED
    BY <1>3, <1>4, Zenon DEF Browser!Visit

LEMMA BrowserWalks ==
  ASSUME BrowserInv, IsFiniteSet(DOMAIN tree), Browser!Walk
  PROVE  BrowserInv'
  <1>1. /\ browserWalk # Browser!NoWalk /\ browserPhase' = browserPhase /\ browserRequest' = browserRequest
        /\ browserRefused \subseteq browserRefused'
    BY Zenon DEF Browser!Walk, Browser!WalkErases, Browser!WalkRemoves, Browser!WalkFails, Browser!WalkIsLost, Browser!InWalk
  <1>2. browserPhase = "cleaning" /\ browserTodo # <<>>
    BY <1>1 DEF BrowserInv
  <1>3. TreeShrinks
    BY BrowserTaken, Zenon DEF Browser!Walk, Browser!WalkErases, Browser!WalkRemoves, Browser!WalkFails, Browser!WalkIsLost,
       TreeShrinks
  <1>4. ASSUME Browser!Stops, browserWalk \notin DOMAIN tree' \/ Missed(browserWalk, browserRefused')
        PROVE  BrowserInv'
    <2>1. browserTodo' = Browser!Visited(browserWalk) /\ browserWalk' = Browser!NoWalk
      BY <1>4 DEF Browser!Stops
    <2> QED
      BY <1>1, <1>2, <1>3, <1>4, <2>1, BrowserCrossesOff
  <1>5. ASSUME NEW q, Browser!WalkErases(q) PROVE BrowserInv'
    <2>1. UNCHANGED browserTodo
      BY <1>5, Zenon DEF Browser!WalkErases
    <2> QED
      BY <1>1, <1>2, <1>3, <2>1, BrowserGoesOn
  <1>6. ASSUME NEW q, Browser!WalkRemoves(q) PROVE BrowserInv'
    <2>1. CASE q = browserWalk
      <3>1. Browser!Stops /\ q \notin DOMAIN tree'
        BY <1>6, <2>1, BrowserTaken, Zenon DEF Browser!WalkRemoves
      <3> QED
        BY <1>4, <2>1, <3>1
    <2>2. CASE q # browserWalk
      <3>1. UNCHANGED browserTodo
        BY <1>6, <2>2, Zenon DEF Browser!WalkRemoves
      <3> QED
        BY <1>1, <1>2, <1>3, <3>1, BrowserGoesOn
    <2> QED
      BY <2>1, <2>2
  <1>7. ASSUME NEW q, Browser!WalkFails(q) PROVE BrowserInv'
    <2>1. Browser!Stops /\ q \in browserRefused' /\ Browser!IsPrefix(browserWalk, q)
      BY <1>7, Zenon DEF Browser!WalkFails, Browser!InWalk
    <2>2. IsPrefix(browserWalk, q)
      BY <2>1, Zenon DEF Browser!IsPrefix, IsPrefix
    <2> QED
      BY <1>4, <2>1, <2>2 DEF Missed
  <1>8. CASE Browser!WalkIsLost
    <2>1. Browser!Stops /\ browserWalk \notin DOMAIN tree'
      BY <1>8, Zenon DEF Browser!WalkIsLost, Browser!Exists
    <2> QED
      BY <1>4, <2>1
  <1> QED
    BY <1>5, <1>6, <1>7, <1>8, Zenon DEF Browser!Walk

(* Every step of the run keeps it.                                         *)
LEMMA BrowserRuns ==
  ASSUME BrowserInv, IsFiniteSet(DOMAIN tree), Browser!Next
  PROVE  BrowserInv'
  <1>1. ASSUME NEW req, Browser!Discover(req) PROVE BrowserInv'
    <2>1. /\ tree' = tree /\ browserPhase' = "found" /\ browserTargets' = BrowserRules!Discovered
          /\ browserPhase = "idle" /\ browserWalk' = browserWalk
      BY <1>1, Zenon DEF Browser!Discover
    <2>2. Below(BrowserRules!Discovered', BrowserRules!Discovered)
      BY <2>1, BrowserRulesShrink DEF TreeShrinks
    <2> QED
      BY <2>1, <2>2 DEF BrowserInv, Browser!NoWalk
  <1>2. CASE Browser!Scan
    <2>1. /\ browserPhase = "found" /\ tree' = tree /\ browserRequest' = browserRequest /\ browserWalk' = browserWalk
          /\ IF browserRequest.dry THEN browserPhase' = "done"
                                  ELSE browserPhase' = "cleaning" /\ browserTodo' = Browser!ToVisit
      BY <1>2, Zenon DEF Browser!Scan
    <2>2. Below(BrowserRules!Discovered', browserTargets)
      <3>1. Below(BrowserRules!Discovered', BrowserRules!Discovered)
        BY <2>1, BrowserRulesShrink DEF TreeShrinks
      <3> QED
        BY <2>1, <3>1 DEF BrowserInv, Below
    <2>3. Browser!ToVisit = FlattenSeq([i \in DOMAIN browserTargets |->
            IF browserTargets[i].category \in browserRequest.categories
            THEN <<browserTargets[i].paths>> ELSE <<>>])
      <3>1. \A s : Browser!FlattenSeq(s) = FlattenSeq(s)
        BY Zenon DEF Browser!FlattenSeq, FlattenSeq
      <3> QED
        BY <3>1, Zenon DEF Browser!ToVisit
    <2>4. /\ Remaining(BrowserRules!Discovered', browserRequest.categories, DOMAIN tree', browserRefused',
                       Browser!ToVisit)
          /\ IsList(Browser!ToVisit)
      BY <2>2, <2>3, RemainingAtFirst
    <2>5. browserWalk' = Browser!NoWalk
      BY <2>1 DEF BrowserInv
    <2> QED
      BY <2>1, <2>4, <2>5, Zenon DEF BrowserInv, Browser!NoWalk
  <1>3. CASE Browser!Finish
    <2>1. /\ browserPhase = "cleaning" /\ browserPhase' = "done" /\ browserTodo = <<>>
          /\ UNCHANGED <<tree, browserRequest, browserRefused, browserWalk>>
      BY <1>3, Zenon DEF Browser!Finish
    <2>2. Remaining(BrowserRules!Discovered, browserRequest.categories, DOMAIN tree, browserRefused, <<>>)
      BY <2>1 DEF BrowserInv
    <2>3. Remaining(BrowserRules!Discovered', browserRequest.categories, DOMAIN tree', browserRefused', <<>>)
      BY <2>1, <2>2, BrowserListsLess DEF TreeShrinks
    <2>4. browserWalk' = Browser!NoWalk
      BY <2>1 DEF BrowserInv
    <2> QED
      BY <2>1, <2>3, <2>4, Zenon DEF BrowserInv, Browser!NoWalk
  <1> QED
    BY <1>1, <1>2, <1>3, BrowserVisits, BrowserWalks, Zenon DEF Browser!Next

LEMMA BrowserIsThorough ==
  ASSUME BrowserInv, \A p \in DOMAIN tree : IsList(p)
  PROVE  Browser!Thorough
  <1> SUFFICES ASSUME browserPhase = "done", ~browserRequest.dry,
                      NEW i \in DOMAIN BrowserRules!Discovered,
                      BrowserRules!Discovered[i].category \in browserRequest.categories,
                      NEW p \in BrowserRules!Discovered[i].paths, Browser!Exists(p)
               PROVE  \E q \in browserRefused : Browser!IsPrefix(p, q)
    BY DEF Browser!Thorough
  <1>1. Remaining(BrowserRules!Discovered, browserRequest.categories, DOMAIN tree, browserRefused, <<>>)
    BY DEF BrowserInv
  <1>2. p \in DOMAIN tree
    BY DEF Browser!Exists
  <1>3. BrowserRules!Discovered[i] \in Elems(BrowserRules!Discovered)
    BY DEF Elems
  <1>4. Missed(p, browserRefused)
    BY <1>1, <1>2, <1>3 DEF Remaining
  <1>5. IsPrefix(p, p)
    BY <1>2, ListIsPrefix
  <1>6. \A q : Browser!IsPrefix(p, q) = IsPrefix(p, q)
    BY Zenon DEF Browser!IsPrefix, IsPrefix
  <1> QED
    BY <1>4, <1>5, <1>6 DEF Missed

(* Until another program touches the tree.                                 *)
CleanInv ==
  meddled = {} => /\ IsFiniteSet(DOMAIN tree) /\ \A p \in DOMAIN tree : IsList(p)
                  /\ SystemInv /\ BrowserInv

(* A tree the cleaners may find.                                           *)
Findable(layout) ==
  /\ IsFiniteSet(DOMAIN layout) /\ DOMAIN layout \subseteq Seq(STRING)
  /\ \A p \in DOMAIN layout : layout[p] \in Node
  /\ \A p, q \in DOMAIN layout : IsStrictPrefix(p, q) => layout[p].kind = "dir"

LEMMA FirstClean ==
  ASSUME NEW layout, InitWith(layout), Findable(layout)
  PROVE  CleanInv
  <1>1. /\ tree = layout /\ systemPhase = "idle" /\ browserPhase = "idle"
        /\ systemWalk = System!NoWalk /\ browserWalk = Browser!NoWalk
    BY Zenon DEF InitWith, System!Init, Browser!Init
  <1>2. \A p \in Seq(STRING) : IsList(p)
    BY ListOf
  <1> QED
    BY <1>1, <1>2 DEF Findable, CleanInv, SystemInv, BrowserInv

LEMMA StepClean ==
  ASSUME CleanInv, Next \/ UNCHANGED cleanerVars
  PROVE  CleanInv'
  <1> SUFFICES ASSUME meddled' = {} 
               PROVE  /\ IsFiniteSet(DOMAIN tree') /\ \A p \in DOMAIN tree' : IsList(p)
                      /\ SystemInv' /\ BrowserInv'
    BY DEF CleanInv
  <1>1. ~Meddle
    BY DEF Meddle
  <1>2. meddled = {}
    BY <1>1, Zenon DEF Next, SystemClean, BrowserClean, cleanerVars
  <1>3. /\ IsFiniteSet(DOMAIN tree) /\ \A p \in DOMAIN tree : IsList(p)
        /\ SystemInv /\ BrowserInv
    BY <1>2 DEF CleanInv
  <1>4. TreeShrinks
    BY <1>1, SystemShrinks, BrowserShrinks, Zenon DEF Next, SystemClean, BrowserClean
  <1>5. IsFiniteSet(DOMAIN tree') /\ \A p \in DOMAIN tree' : IsList(p)
    BY <1>3, <1>4, FS_Subset DEF TreeShrinks
  <1>6. SystemInv'
    <2>1. System!Next \/ UNCHANGED systemVars
      BY <1>1, Zenon DEF Next, SystemClean, BrowserClean, cleanerVars
    <2> QED
      BY <1>3, <1>4, <2>1, SystemRuns, SystemRests
  <1>7. BrowserInv'
    <2>1. Browser!Next \/ UNCHANGED browserVars
      BY <1>1, Zenon DEF Next, SystemClean, BrowserClean, cleanerVars
    <2> QED
      BY <1>3, <1>4, <2>1, BrowserRuns, BrowserRests
  <1> QED
    BY <1>5, <1>6, <1>7

-----------------------------------------------------------------------------
(***************************************************************************)
(* What the rules spare.                                                   *)
(***************************************************************************)
(* A path is a sequence of names.                                          *)
TreeOfPaths == \A p \in DOMAIN tree : IsList(p)

(* What is protected, and with it all it lies in: to erase a directory is  *)
(* to erase what is in it.                                                 *)
Standing == {p \in DOMAIN tree : Protected(p, tree[p])}

Above(q) == {SubSeq(q, 1, k) : k \in 0..Len(q)}

Kept == UNION {Above(q) : q \in Standing}

(* q is p, or lies below it. *)
StartsWith(q, p) == Len(p) <= Len(q) /\ \A i \in 1..Len(p) : q[i] = p[i]

LEMMA StrictlyBelow ==
  ASSUME NEW d, IsList(d), NEW q, IsList(q), IsStrictPrefix(d, q)
  PROVE  StartsWith(q, d) /\ Len(d) < Len(q)
  <1> DEFINE D == Elems(d)  P == Elems(q)
  <1>1. d \in Seq(D) /\ q \in Seq(P)
    BY DEF IsList
  <1> HIDE DEF D, P
  <1>2. PICK m \in Nat, n \in Nat : m = Len(d) /\ n = Len(q)
    BY <1>1
  <1>3. m <= n /\ SubSeq(d, 1, m) = SubSeq(q, 1, m) /\ d # q
    BY <1>2 DEF IsStrictPrefix, IsPrefix
  <1>4. \A i \in 1..m : q[i] = d[i]
    <2>1. \A i \in 1..m : SubSeq(d, 1, m)[i] = d[i] /\ SubSeq(q, 1, m)[i] = q[i]
      BY <1>1, <1>2, <1>3
    <2> QED
      BY <1>3, <2>1
  <1>5. m < n
    <2>1. ASSUME m = n PROVE d = q
      <3>1. d = [i \in 1..m |-> d[i]] /\ q = [i \in 1..m |-> q[i]]
        BY <1>2, <2>1, ListDomain
      <3> QED
        BY <1>4, <3>1
    <2> QED
      BY <1>3, <2>1
  <1> QED
    BY <1>2, <1>3, <1>4, <1>5 DEF StartsWith

LEMMA DirectlyBelow ==
  ASSUME NEW q, IsList(q), q # <<>>, NEW d, IsList(d), Front(q) = d
  PROVE  StartsWith(q, d) /\ Len(q) = Len(d) + 1
  <1> DEFINE P == Elems(q)
  <1>1. q \in Seq(P)
    BY DEF IsList
  <1> HIDE DEF P
  <1>2. PICK k \in Nat : Len(q) = k + 1 /\ Len(q) - 1 = k
    <2>1. PICK n \in Nat : n = Len(q) /\ n # 0
      BY <1>1
    <2>2. n - 1 \in Nat /\ n = (n - 1) + 1
      BY <2>1
    <2> QED
      BY <2>1, <2>2
  <1> DEFINE r == SubSeq(q, 1, k)
  <1>3. Len(r) = k /\ \A i \in 1..k : r[i] = q[i]
    BY <1>1, <1>2
  <1>4. d = r
    BY <1>2, Zenon DEF Front
  <1> HIDE DEF r
  <1> QED
    BY <1>2, <1>3, <1>4 DEF StartsWith

LEMMA IsBelow ==
  ASSUME NEW p, IsList(p), NEW q, IsList(q), p \in Above(q)
  PROVE  StartsWith(q, p)
  <1> DEFINE Q == Elems(q)
  <1>1. q \in Seq(Q)
    BY DEF IsList
  <1> HIDE DEF Q
  <1>2. PICK k \in 0..Len(q) : p = SubSeq(q, 1, k)
    BY DEF Above
  <1>3. Len(q) \in Nat /\ k \in Nat /\ k <= Len(q)
    BY <1>1
  <1> DEFINE s == SubSeq(q, 1, k)
  <1>4. Len(s) = k /\ \A i \in 1..k : s[i] = q[i]
    BY <1>1, <1>3
  <1>5. p = s
    BY <1>2
  <1> HIDE DEF s
  <1> QED
    BY <1>3, <1>4, <1>5 DEF StartsWith

(* Nothing protected is p, or lies below it. *)
Clear(p) == IsList(p) /\ \A q \in Standing : ~StartsWith(q, p)

LEMMA ClearIsNotKept ==
  ASSUME TreeOfPaths, NEW p, Clear(p)
  PROVE  p \notin Kept
  <1> SUFFICES ASSUME NEW q \in Standing, p \in Above(q) PROVE FALSE
    BY DEF Kept
  <1>1. IsList(q)
    BY DEF Standing, TreeOfPaths
  <1> QED
    BY <1>1, IsBelow DEF Clear

(* How a protected path begins. *)
LEMMA StandingBegins ==
  ASSUME TreeOfPaths, NEW q \in Standing
  PROVE  /\ IsList(q) /\ Len(q) \in Nat /\ Len(q) >= 2
         /\ \/ q[1] \in {"boot", "lib", "usr"} /\ OfKernelInUse(q)
            \/ q[1] = "var" /\ q[2] = "log" /\ LogInUse(q) /\ Len(q) >= 3
            \/ /\ OwnDocument(q) /\ StartsWith(q, Home) /\ Len(q) > Len(Home)
            \/ q[1] = "tmp" /\ ~tree[q].mine /\ ~Has(q, "core") /\ Len(q) = 2
            \/ q[1] = "var" /\ q[2] = "tmp" /\ ~tree[q].old /\ Len(q) = 3
  <1>1. IsList(q) /\ Len(q) \in Nat /\ Protected(q, tree[q])
    BY ListDomain DEF TreeOfPaths, Standing
  <1>2. CASE OfKernelInUse(q)
    <2>1. PICK d \in {<<"boot">>, <<"lib", "modules">>, <<"usr", "src">>} : IsStrictPrefix(d, q)
      BY <1>2 DEF OfKernelInUse
    <2>2. IsList(d) /\ Len(d) \in {1, 2} /\ d[1] \in {"boot", "lib", "usr"}
      BY DEF IsList, Elems
    <2>3. StartsWith(q, d) /\ Len(d) < Len(q)
      BY <1>1, <2>1, <2>2, StrictlyBelow
    <2> QED
      BY <1>1, <1>2, <2>2, <2>3 DEF StartsWith
  <1>3. CASE LogInUse(q)
    <2> DEFINE d == <<"var", "log">>
    <2>1. IsStrictPrefix(d, q)
      BY <1>3 DEF LogInUse
    <2>2. IsList(d) /\ Len(d) = 2 /\ d[1] = "var" /\ d[2] = "log"
      BY DEF IsList, Elems
    <2> HIDE DEF d
    <2>3. StartsWith(q, d) /\ Len(d) < Len(q)
      BY <1>1, <2>1, <2>2, StrictlyBelow
    <2> QED
      BY <1>1, <1>3, <2>2, <2>3 DEF StartsWith
  <1>4. CASE OwnDocument(q)
    <2>1. IsList(Home) /\ Len(Home) \in Nat /\ Len(Home) >= 1
      BY PathsAssumption, ListOf
    <2>2. StartsWith(q, Home) /\ Len(Home) < Len(q)
      BY <1>1, <1>4, <2>1, StrictlyBelow DEF OwnDocument
    <2> QED
      BY <1>1, <1>4, <2>1, <2>2
  <1>5. ASSUME q = <<>>, Front(q) = <<"tmp">> \/ Front(q) = <<"var", "tmp">> PROVE FALSE
    <2>1. Front(q) = SubSeq(<<>>, 1, 0 - 1)
      BY <1>5 DEF Front
    <2>2. Len(SubSeq(<<>>, 1, 0 - 1)) = 0
      OBVIOUS
    <2>3. Len(<<"tmp">>) # 0 /\ Len(<<"var", "tmp">>) # 0
      OBVIOUS
    <2> QED
      BY <1>5, <2>1, <2>2, <2>3
  <1>6. CASE Front(q) = <<"tmp">> /\ ~tree[q].mine /\ ~Has(q, "core")
    <2> DEFINE d == <<"tmp">>
    <2>1. IsList(d) /\ Len(d) = 1 /\ d[1] = "tmp"
      BY DEF IsList, Elems
    <2>2. q # <<>> /\ Front(q) = d
      BY <1>5, <1>6
    <2> HIDE DEF d
    <2>3. StartsWith(q, d) /\ Len(q) = Len(d) + 1
      BY <1>1, <2>1, <2>2, DirectlyBelow
    <2> QED
      BY <1>1, <1>6, <2>1, <2>3 DEF StartsWith
  <1>7. CASE Front(q) = <<"var", "tmp">> /\ ~tree[q].old
    <2> DEFINE d == <<"var", "tmp">>
    <2>1. IsList(d) /\ Len(d) = 2 /\ d[1] = "var" /\ d[2] = "tmp"
      BY DEF IsList, Elems
    <2>2. q # <<>> /\ Front(q) = d
      BY <1>5, <1>7
    <2> HIDE DEF d
    <2>3. StartsWith(q, d) /\ Len(q) = Len(d) + 1
      BY <1>1, <2>1, <2>2, DirectlyBelow
    <2> QED
      BY <1>1, <1>7, <2>1, <2>3 DEF StartsWith
  <1> QED
    BY <1>1, <1>2, <1>3, <1>4, <1>6, <1>7 DEF Protected

(* Where nothing is protected: far from /boot, /lib, /usr, /tmp, /var/tmp, *)
(* /var/log and the home directory, or in a part of it that is swept.      *)
Elsewhere(p) ==
  /\ IsList(p) /\ Len(p) >= 1
  /\ \/ /\ p[1] \notin {"boot", "lib", "tmp", "usr", Home[1]}
        /\ p[1] = "var" => Len(p) >= 2 /\ p[2] \notin {"log", "tmp"}
     \/ StartsWith(p, Home) /\ Len(p) > Len(Home) /\ p[Len(Home) + 1] \in Sweepable

LEMMA ElsewhereIsClear ==
  ASSUME TreeOfPaths, NEW p, Elsewhere(p)
  PROVE  Clear(p)
  <1> SUFFICES ASSUME NEW q \in Standing, StartsWith(q, p) PROVE FALSE
    BY DEF Clear, Elsewhere
  <1>1. Len(p) \in Nat /\ Len(p) >= 1 /\ Len(Home) \in Nat /\ Len(Home) >= 1
    BY ListDomain, PathsAssumption DEF Elsewhere
  <1>2. q[1] = p[1] /\ (Len(p) >= 2 => q[2] = p[2]) /\ Len(q) \in Nat
    BY <1>1, StandingBegins DEF StartsWith
  <1>3. Home[1] \notin {"boot", "lib", "tmp", "usr", "var"}
    BY PathsAssumption
  <1>4. ASSUME StartsWith(p, Home) PROVE p[1] = Home[1]
    BY <1>1, <1>4 DEF StartsWith
  <1>5. ASSUME OwnDocument(q), StartsWith(q, Home) PROVE FALSE
    <2>1. q[1] = Home[1]
      BY <1>1, <1>5 DEF StartsWith
    <2>2. q[Len(Home) + 1] \notin Sweepable
      BY <1>5, Zenon DEF OwnDocument
    <2>3. ASSUME Len(p) > Len(Home) PROVE q[Len(Home) + 1] = p[Len(Home) + 1]
      BY <1>1, <2>3 DEF StartsWith
    <2> QED
      BY <1>2, <1>3, <2>1, <2>2, <2>3 DEF Elsewhere
  <1> QED
    BY <1>2, <1>3, <1>4, <1>5, StandingBegins DEF Elsewhere

(* It is so of whatever is below such a directory. *)
LEMMA ElsewhereGoesOn ==
  ASSUME NEW d, Elsewhere(d), NEW p, IsList(p), StartsWith(p, d)
  PROVE  Elsewhere(p)
  <1>1. /\ Len(d) \in Nat /\ Len(d) >= 1 /\ Len(p) \in Nat /\ Len(d) <= Len(p)
        /\ Len(Home) \in Nat /\ Len(Home) >= 1
    BY ListDomain, PathsAssumption DEF Elsewhere, StartsWith
  <1>2. \A i \in 1..Len(d) : p[i] = d[i]
    BY DEF StartsWith
  <1>3. p[1] = d[1] /\ (Len(d) >= 2 => p[2] = d[2])
    BY <1>1, <1>2
  <1>4. CASE /\ d[1] \notin {"boot", "lib", "tmp", "usr", Home[1]}
             /\ d[1] = "var" => Len(d) >= 2 /\ d[2] \notin {"log", "tmp"}
    BY <1>1, <1>3, <1>4 DEF Elsewhere
  <1>5. CASE StartsWith(d, Home) /\ Len(d) > Len(Home) /\ d[Len(Home) + 1] \in Sweepable
    <2>1. StartsWith(p, Home)
      BY <1>1, <1>2, <1>5 DEF StartsWith
    <2>2. p[Len(Home) + 1] = d[Len(Home) + 1]
      BY <1>1, <1>2, <1>5
    <2> QED
      BY <1>1, <1>5, <2>1, <2>2 DEF Elsewhere
  <1> QED
    BY <1>4, <1>5 DEF Elsewhere

LEMMA JoinedStarts ==
  ASSUME NEW d, IsList(d), NEW x, IsList(x)
  PROVE  /\ IsList(d \o x) /\ StartsWith(d \o x, d) /\ Len(d \o x) = Len(d) + Len(x)
         /\ Len(x) >= 1 => (d \o x)[Len(d) + 1] = x[1]
  <1> DEFINE D == Elems(d)  X == Elems(x)
  <1>1. d \in Seq(D) /\ x \in Seq(X)
    BY DEF IsList
  <1> HIDE DEF D, X
  <1>2. IsList(d \o x)
    BY ListsJoined
  <1>3. d \in Seq(D \cup X) /\ x \in Seq(D \cup X)
    BY <1>1
  <1>4. Len(d \o x) = Len(d) + Len(x) /\ \A i \in 1..Len(d) : (d \o x)[i] = d[i]
    BY <1>3
  <1>5. Len(d) \in Nat /\ Len(x) \in Nat
    BY <1>1
  <1>6. ASSUME Len(x) >= 1 PROVE (d \o x)[Len(d) + 1] = x[1]
    BY <1>3, <1>5, <1>6
  <1> QED
    BY <1>2, <1>4, <1>5, <1>6 DEF StartsWith

LEMMA ElsewhereBelow ==
  ASSUME NEW d, Elsewhere(d), NEW x, IsList(x)
  PROVE  Elsewhere(d \o x)
  <1>1. IsList(d \o x) /\ StartsWith(d \o x, d)
    BY JoinedStarts DEF Elsewhere
  <1> QED
    BY <1>1, ElsewhereGoesOn

(* What the rules name in the home directory is swept. *)
Swept(x) == IsList(x) /\ Len(x) >= 1 /\ x[1] \in Sweepable

LEMMA SweptIsElsewhere ==
  ASSUME NEW x, Swept(x)
  PROVE  Elsewhere(Home \o x)
  <1>1. IsList(Home) /\ Len(Home) \in Nat /\ Len(Home) >= 1 /\ Len(x) \in Nat
    BY PathsAssumption, ListOf, ListDomain DEF Swept
  <1>2. /\ IsList(Home \o x) /\ StartsWith(Home \o x, Home)
        /\ Len(Home \o x) = Len(Home) + Len(x) /\ (Home \o x)[Len(Home) + 1] = x[1]
    BY <1>1, JoinedStarts DEF Swept
  <1> QED
    BY <1>1, <1>2 DEF Elsewhere, Swept

(* Paths and names written out. *)
LEMMA TuplesAreLists ==
  /\ \A a : IsList(<<a>>)
  /\ \A a, b : IsList(<<a, b>>)
  /\ \A a, b, c : IsList(<<a, b, c>>)
  /\ \A a, b, c, d : IsList(<<a, b, c, d>>)
  /\ \A a, b, c, d, e : IsList(<<a, b, c, d, e>>)
  BY DEF IsList, Elems

LEMMA TuplesElsewhere ==
  /\ Elsewhere(<<"snap">>)
  /\ \A b : b \notin {"log", "tmp"} => Elsewhere(<<"var", b>>)
  /\ \A b, c : b \notin {"log", "tmp"} => Elsewhere(<<"var", b, c>>)
  /\ \A b, c, d : b \notin {"log", "tmp"} => Elsewhere(<<"var", b, c, d>>)
  BY TuplesAreLists, PathsAssumption DEF Elsewhere

LEMMA TuplesSwept ==
  \A a \in Sweepable :
    /\ Swept(<<a>>)
    /\ \A b : Swept(<<a, b>>)
    /\ \A b, c : Swept(<<a, b, c>>)
    /\ \A b, c, d : Swept(<<a, b, c, d>>)
    /\ \A b, c, d, e : Swept(<<a, b, c, d, e>>)
  <1> SUFFICES ASSUME NEW a \in Sweepable, NEW b, NEW c, NEW d, NEW e
               PROVE  /\ Swept(<<a>>) /\ Swept(<<a, b>>) /\ Swept(<<a, b, c>>)
                      /\ Swept(<<a, b, c, d>>) /\ Swept(<<a, b, c, d, e>>)
    OBVIOUS
  <1>1. /\ IsList(<<a>>) /\ IsList(<<a, b>>) /\ IsList(<<a, b, c>>) /\ IsList(<<a, b, c, d>>)
        /\ IsList(<<a, b, c, d, e>>)
    BY TuplesAreLists, Zenon
  <1> QED
    BY <1>1 DEF Swept

(* A list of targets none of which is in H. *)
Spares(list, H) == AreTargets(list) /\ \A t \in Elems(list) : t.paths \cap H = {}

(* A target of other paths spares H, and so do lists of such targets.      *)
LEMMA SparesTarget ==
  ASSUME NEW c, NEW S, NEW H, S \cap H = {}
  PROVE  Spares(Target(c, S), H)
  <1>1. AreTargets(Target(c, S))
    BY BelowTarget DEF Below
  <1>2. CASE S = {}
    <2>1. Target(c, S) = <<>>
      BY <1>2, Zenon DEF Target
    <2> QED
      BY <1>1, <2>1, EmptyIsList DEF Spares
  <1>3. CASE S # {}
    <2> DEFINE r == [category |-> c, paths |-> S, size |-> Unsized]
    <2>1. Target(c, S) = <<r>>
      BY <1>3, Zenon DEF Target
    <2>2. r.paths = S
      OBVIOUS
    <2> HIDE DEF r
    <2>3. Elems(<<r>>) = {r}
      BY DEF Elems
    <2> QED
      BY <1>1, <2>1, <2>2, <2>3 DEF Spares
  <1> QED
    BY <1>2, <1>3

LEMMA SparesJoined ==
  ASSUME NEW H, NEW a, NEW b, Spares(a, H), Spares(b, H)
  PROVE  Spares(a \o b, H)
  <1>1. IsList(a \o b) /\ Elems(a \o b) = Elems(a) \cup Elems(b)
    BY ListsJoined DEF Spares, AreTargets
  <1> QED
    BY <1>1 DEF Spares, AreTargets

LEMMA SparesEach ==
  ASSUME NEW H, NEW n \in Nat, NEW f, f = [i \in 1..n |-> f[i]], \A i \in 1..n : Spares(f[i], H)
  PROVE  Spares(FlattenSeq(f), H)
  <1>1. DOMAIN f = 1..n
    OBVIOUS
  <1>2. IsList(f)
    BY <1>1, ListByIndex
  <1>3. \A i \in DOMAIN f : IsList(f[i])
    BY <1>1 DEF Spares, AreTargets
  <1>4. IsList(FlattenSeq(f)) /\ Elems(FlattenSeq(f)) = UNION {Elems(f[i]) : i \in DOMAIN f}
    BY <1>2, <1>3, Flattened
  <1> QED
    BY <1>1, <1>4 DEF Spares, AreTargets

LEMMA SparesThree ==
  ASSUME NEW H, NEW a1, NEW a2, NEW a3, Spares(a1, H), Spares(a2, H),
         Spares(a3, H)
  PROVE  Spares(FlattenSeq(<<a1, a2, a3>>), H)
  <1> DEFINE f == <<a1, a2, a3>>
  <1>1. 3 \in Nat /\ f = [i \in 1..3 |-> f[i]] /\ \A i \in 1..3 : Spares(f[i], H)
    OBVIOUS
  <1>2. Spares(FlattenSeq(f), H)
    <2> HIDE DEF f
    <2> QED
      BY <1>1, SparesEach, Zenon
  <1> QED
    BY <1>2

LEMMA SparesFour ==
  ASSUME NEW H, NEW a1, NEW a2, NEW a3, NEW a4, Spares(a1, H), Spares(a2, H),
         Spares(a3, H), Spares(a4, H)
  PROVE  Spares(FlattenSeq(<<a1, a2, a3, a4>>), H)
  <1> DEFINE f == <<a1, a2, a3, a4>>
  <1>1. 4 \in Nat /\ f = [i \in 1..4 |-> f[i]] /\ \A i \in 1..4 : Spares(f[i], H)
    OBVIOUS
  <1>2. Spares(FlattenSeq(f), H)
    <2> HIDE DEF f
    <2> QED
      BY <1>1, SparesEach, Zenon
  <1> QED
    BY <1>2

LEMMA SparesFive ==
  ASSUME NEW H, NEW a1, NEW a2, NEW a3, NEW a4, NEW a5, Spares(a1, H),
         Spares(a2, H), Spares(a3, H), Spares(a4, H), Spares(a5, H)
  PROVE  Spares(FlattenSeq(<<a1, a2, a3, a4, a5>>), H)
  <1> DEFINE f == <<a1, a2, a3, a4, a5>>
  <1>1. 5 \in Nat /\ f = [i \in 1..5 |-> f[i]] /\ \A i \in 1..5 : Spares(f[i], H)
    OBVIOUS
  <1>2. Spares(FlattenSeq(f), H)
    <2> HIDE DEF f
    <2> QED
      BY <1>1, SparesEach, Zenon
  <1> QED
    BY <1>2

LEMMA SparesSeven ==
  ASSUME NEW H, NEW a1, NEW a2, NEW a3, NEW a4, NEW a5, NEW a6, NEW a7,
         Spares(a1, H), Spares(a2, H), Spares(a3, H), Spares(a4, H),
         Spares(a5, H), Spares(a6, H), Spares(a7, H)
  PROVE  Spares(FlattenSeq(<<a1, a2, a3, a4, a5, a6, a7>>), H)
  <1> DEFINE f == <<a1, a2, a3, a4, a5, a6, a7>>
  <1>1. 7 \in Nat /\ f = [i \in 1..7 |-> f[i]] /\ \A i \in 1..7 : Spares(f[i], H)
    OBVIOUS
  <1>2. Spares(FlattenSeq(f), H)
    <2> HIDE DEF f
    <2> QED
      BY <1>1, SparesEach, Zenon
  <1> QED
    BY <1>2

LEMMA SparesEleven ==
  ASSUME NEW H, NEW a1, NEW a2, NEW a3, NEW a4, NEW a5, NEW a6, NEW a7,
         NEW a8, NEW a9, NEW a10, NEW a11, Spares(a1, H), Spares(a2, H),
         Spares(a3, H), Spares(a4, H), Spares(a5, H), Spares(a6, H),
         Spares(a7, H), Spares(a8, H), Spares(a9, H), Spares(a10, H),
         Spares(a11, H)
  PROVE  Spares(FlattenSeq(<<a1, a2, a3, a4, a5, a6, a7, a8, a9, a10, a11>>), H)
  <1> DEFINE f == <<a1, a2, a3, a4, a5, a6, a7, a8, a9, a10, a11>>
  <1>1. 11 \in Nat /\ f = [i \in 1..11 |-> f[i]] /\ \A i \in 1..11 : Spares(f[i], H)
    OBVIOUS
  <1>2. Spares(FlattenSeq(f), H)
    <2> HIDE DEF f
    <2> QED
      BY <1>1, SparesEach, Zenon
  <1> QED
    BY <1>2

(* A list of paths relative to a directory, as the rules write it out.     *)
Named(names) == Counted(names) /\ \A i \in DOMAIN names : IsList(names[i])

LEMMA NamedTuples ==
  /\ \A a1 : IsList(a1) => Named(<<a1>>)
  /\ \A a1, a2 : IsList(a1) /\ IsList(a2) => Named(<<a1, a2>>)
  /\ \A a1, a2, a3 : IsList(a1) /\ IsList(a2) /\ IsList(a3) => Named(<<a1, a2, a3>>)
  /\ \A a1, a2, a3, a4 : IsList(a1) /\ IsList(a2) /\ IsList(a3) /\ IsList(a4) => Named(<<a1, a2, a3, a4>>)
  /\ \A a1, a2, a3, a4, a5 :
        IsList(a1) /\ IsList(a2) /\ IsList(a3) /\ IsList(a4) /\ IsList(a5)
        => Named(<<a1, a2, a3, a4, a5>>)
  /\ \A a1, a2, a3, a4, a5, a6 :
        IsList(a1) /\ IsList(a2) /\ IsList(a3) /\ IsList(a4) /\ IsList(a5) /\ IsList(a6)
        => Named(<<a1, a2, a3, a4, a5, a6>>)
  /\ \A a1, a2, a3, a4, a5, a6, a7 :
        IsList(a1) /\ IsList(a2) /\ IsList(a3) /\ IsList(a4) /\ IsList(a5) /\
        IsList(a6) /\ IsList(a7)
        => Named(<<a1, a2, a3, a4, a5, a6, a7>>)
  /\ \A a1, a2, a3, a4, a5, a6, a7, a8, a9, a10, a11, a12, a13, a14 :
        IsList(a1) /\ IsList(a2) /\ IsList(a3) /\ IsList(a4) /\ IsList(a5) /\
        IsList(a6) /\ IsList(a7) /\ IsList(a8) /\ IsList(a9) /\ IsList(a10) /\
        IsList(a11) /\ IsList(a12) /\ IsList(a13) /\ IsList(a14)
        => Named(<<a1, a2, a3, a4, a5, a6, a7, a8, a9, a10, a11, a12, a13, a14>>)
  BY DEF Named, Counted

(* Such a list, below a directory elsewhere, or of what is swept.          *)
Reaches(base, names) == Counted(names) /\ \A i \in DOMAIN names : Clear(base \o names[i])

LEMMA ReachesBelow ==
  ASSUME TreeOfPaths, NEW base, Elsewhere(base), NEW names, Named(names)
  PROVE  Reaches(base, names)
  BY ElsewhereBelow, ElsewhereIsClear DEF Named, Reaches

LEMMA ReachesSwept ==
  ASSUME TreeOfPaths
  PROVE
  /\ \A a1 : Swept(a1) => Reaches(Home, <<a1>>)
  /\ \A a1, a2 : Swept(a1) /\ Swept(a2) => Reaches(Home, <<a1, a2>>)
  /\ \A a1, a2, a3, a4, a5, a6, a7 :
       Swept(a1) /\ Swept(a2) /\ Swept(a3) /\ Swept(a4) /\ Swept(a5) /\ Swept(a6) /\ Swept(a7)
       => Reaches(Home, <<a1, a2, a3, a4, a5, a6, a7>>)
  <1>1. \A x : Swept(x) => Clear(Home \o x)
    BY SweptIsElsewhere, ElsewhereIsClear
  <1> QED
    BY <1>1 DEF Reaches, Counted

(* A list of paths that are all elsewhere.                                 *)
Far(paths) == Counted(paths) /\ \A i \in DOMAIN paths : Elsewhere(paths[i])

LEMMA FarTuples ==
  /\ \A a1 : Elsewhere(a1) => Far(<<a1>>)
  /\ \A a1, a2 : Elsewhere(a1) /\ Elsewhere(a2) => Far(<<a1, a2>>)
  /\ \A a1, a2, a3 : Elsewhere(a1) /\ Elsewhere(a2) /\ Elsewhere(a3) => Far(<<a1, a2, a3>>)
  /\ \A a1, a2, a3, a4, a5, a6, a7, a8, a9 :
       /\ Elsewhere(a1) /\ Elsewhere(a2) /\ Elsewhere(a3) /\ Elsewhere(a4) /\ Elsewhere(a5)
       /\ Elsewhere(a6) /\ Elsewhere(a7) /\ Elsewhere(a8) /\ Elsewhere(a9)
       => Far(<<a1, a2, a3, a4, a5, a6, a7, a8, a9>>)
  BY DEF Far, Counted

(* What the rules find below a directory elsewhere is elsewhere.           *)
LEMMA SystemFar ==
  ASSUME TreeOfPaths, NEW d, Elsewhere(d)
  PROVE  /\ \A p \in SystemRules!Children(d) : Elsewhere(p)
         /\ \A p \in SystemRules!FilesIn(d) : Elsewhere(p)
         /\ \A p \in SystemRules!FilesBelow(d) : Elsewhere(p)
  <1>1. \A p : SystemRules!IsStrictPrefix(d, p) = IsStrictPrefix(d, p)
    BY Zenon DEF SystemRules!IsStrictPrefix, SystemRules!IsPrefix, IsStrictPrefix, IsPrefix
  <1>2. \A p : SystemRules!Front(p) = Front(p)
    BY Zenon DEF SystemRules!Front, Front
  <1>3. \A p \in SystemRules!Children(d) : Elsewhere(p)
    <2> SUFFICES ASSUME NEW p \in SystemRules!Children(d) PROVE Elsewhere(p)
      OBVIOUS
    <2>1. p \in DOMAIN tree /\ p # <<>> /\ Front(p) = d
      BY <1>2, Zenon DEF SystemRules!Children
    <2>2. IsList(p) /\ StartsWith(p, d)
      BY <2>1, DirectlyBelow DEF TreeOfPaths, Elsewhere
    <2> QED
      BY <2>2, ElsewhereGoesOn
  <1>4. \A p \in SystemRules!FilesIn(d) : Elsewhere(p)
    BY <1>3, Zenon DEF SystemRules!FilesIn
  <1>5. \A p \in SystemRules!FilesBelow(d) : Elsewhere(p)
    <2> SUFFICES ASSUME NEW p \in SystemRules!FilesBelow(d) PROVE Elsewhere(p)
      OBVIOUS
    <2>1. p \in DOMAIN tree /\ IsStrictPrefix(d, p)
      BY <1>1, Zenon DEF SystemRules!FilesBelow, SystemRules!Inside
    <2>2. IsList(p) /\ StartsWith(p, d)
      BY <2>1, StrictlyBelow DEF TreeOfPaths, Elsewhere
    <2> QED
      BY <2>2, ElsewhereGoesOn
  <1> QED
    BY <1>3, <1>4, <1>5

(* In /boot, /tmp and other directories the rules look at what is directly *)
(* there.                                                                  *)
LEMMA SystemFronts ==
  ASSUME TreeOfPaths, NEW d, IsList(d)
  PROVE  \A p \in SystemRules!Children(d) :
           p \in DOMAIN tree /\ IsList(p) /\ StartsWith(p, d) /\ Len(p) = Len(d) + 1 /\ Last(p) = p[Len(d) + 1]
  <1>1. \A p : SystemRules!Front(p) = Front(p)
    BY Zenon DEF SystemRules!Front, Front
  <1> SUFFICES ASSUME NEW p \in SystemRules!Children(d)
               PROVE  p \in DOMAIN tree /\ IsList(p) /\ StartsWith(p, d) /\ Len(p) = Len(d) + 1 /\ Last(p) = p[Len(d) + 1]
    OBVIOUS
  <1>2. p \in DOMAIN tree /\ p # <<>> /\ Front(p) = d
    BY <1>1, Zenon DEF SystemRules!Children
  <1>3. IsList(p) /\ StartsWith(p, d) /\ Len(p) = Len(d) + 1
    BY <1>2, DirectlyBelow DEF TreeOfPaths
  <1> QED
    BY <1>2, <1>3, Zenon DEF Last


LEMMA FarTarget ==
  ASSUME TreeOfPaths, NEW c, NEW S, \A p \in S : Elsewhere(p)
  PROVE  Spares(Target(c, S), Kept)
  <1>1. S \cap Kept = {}
    BY ElsewhereIsClear, ClearIsNotKept
  <1> QED
    BY <1>1, SparesTarget

LEMMA ClearTarget ==
  ASSUME TreeOfPaths, NEW c, NEW S, \A p \in S : Clear(p)
  PROVE  Spares(Target(c, S), Kept)
  <1>1. S \cap Kept = {}
    BY ClearIsNotKept
  <1> QED
    BY <1>1, SparesTarget

(* Targets picked from what is elsewhere...                                *)
LEMMA SystemParts ==
  ASSUME TreeOfPaths, NEW c, NEW d, Elsewhere(d), NEW S,
         \/ S \subseteq SystemRules!Children(d) \/ S \subseteq SystemRules!FilesIn(d)
         \/ S \subseteq SystemRules!FilesBelow(d)
  PROVE  Spares(SystemRules!Target(c, S), Kept)
  <1>1. \A p \in S : Elsewhere(p)
    BY SystemFar
  <1> QED
    BY <1>1, SystemOps, FarTarget

(* ... and targets named there spare what stands.                          *)
LEMMA SystemSpares ==
  ASSUME TreeOfPaths
  PROVE
  /\ \A c, p : Clear(p) => Spares(SystemRules!IfExists(c, p), Kept)
  /\ \A c, P : (\A p \in P : Elsewhere(p)) => Spares(SystemRules!Dirs(c, P), Kept)
  /\ \A c, base, names : Reaches(base, names) =>
       Spares(SystemRules!EachThatExists(c, base, names), Kept)
  /\ \A c, paths : Far(paths) =>
       Spares(SystemRules!EachDir(c, paths), Kept)
  <1>1. ASSUME NEW c, NEW p, Clear(p) PROVE Spares(SystemRules!IfExists(c, p), Kept)
    <2> DEFINE S == {q \in {p} : SystemRules!Exists(q)}
    <2>1. SystemRules!IfExists(c, p) = Target(c, S)
      BY SystemOps, Zenon DEF SystemRules!IfExists
    <2>2. \A q \in S : Clear(q)
      BY <1>1
    <2> HIDE DEF S
    <2> QED
      BY <2>1, <2>2, ClearTarget
  <1>2. ASSUME NEW c, NEW P, \A p \in P : Elsewhere(p)
        PROVE  Spares(SystemRules!Dirs(c, P), Kept)
    <2> DEFINE S == {p \in P : SystemRules!IsDir(p)}
    <2>1. SystemRules!Dirs(c, P) = Target(c, S)
      BY SystemOps, Zenon DEF SystemRules!Dirs
    <2>2. \A q \in S : Elsewhere(q)
      BY <1>2
    <2> HIDE DEF S
    <2> QED
      BY <2>1, <2>2, FarTarget
  <1>3. ASSUME NEW c, NEW base, NEW names, Reaches(base, names)
        PROVE  Spares(SystemRules!EachThatExists(c, base, names), Kept)
    <2> DEFINE f == [i \in DOMAIN names |-> SystemRules!IfExists(c, base \o names[i])]
    <2>1. PICK n \in Nat : DOMAIN names = 1..n
      BY <1>3 DEF Reaches, Counted
    <2>2. f = [i \in 1..n |-> f[i]]
      BY <2>1, Zenon
    <2>3. \A i \in 1..n : Spares(f[i], Kept)
      <3>1. \A i \in 1..n : Clear(base \o names[i])
        BY <1>3, <2>1 DEF Reaches
      <3> QED
        BY <1>1, <2>1, <3>1, Zenon
    <2>4. SystemRules!EachThatExists(c, base, names) = FlattenSeq(f)
      BY SystemOps, Zenon DEF SystemRules!EachThatExists
    <2> HIDE DEF f
    <2> QED
      BY <2>2, <2>3, <2>4, SparesEach, Zenon
  <1>4. ASSUME NEW c, NEW paths, Far(paths)
        PROVE  Spares(SystemRules!EachDir(c, paths), Kept)
    <2> DEFINE f == [i \in DOMAIN paths |-> SystemRules!Dirs(c, {paths[i]})]
    <2>1. PICK n \in Nat : DOMAIN paths = 1..n
      BY <1>4 DEF Far, Counted
    <2>2. f = [i \in 1..n |-> f[i]]
      BY <2>1, Zenon
    <2>3. \A i \in 1..n : Spares(f[i], Kept)
      <3>1. \A i \in 1..n : \A p \in {paths[i]} : Elsewhere(p)
        BY <1>4, <2>1 DEF Far
      <3> QED
        BY <1>2, <2>1, <3>1, Zenon
    <2>4. SystemRules!EachDir(c, paths) = FlattenSeq(f)
      BY SystemOps, Zenon DEF SystemRules!EachDir
    <2> HIDE DEF f
    <2> QED
      BY <2>2, <2>3, <2>4, SparesEach, Zenon
  <1> QED
    BY <1>1, <1>2, <1>3, <1>4

(* The copies of the questions about names are the same. *)
LEMMA SystemHas == \A p, piece : SystemRules!Has(p, piece) = Has(p, piece)
  BY Zenon DEF SystemRules!Has, Has, SystemRules!Last, Last

LEMMA HasByName ==
  ASSUME NEW p, NEW x, Last(p) = x
  PROVE  \A piece : Has(p, piece) = Has(<<x>>, piece)
  <1>1. Last(<<x>>) = x
    BY DEF Last
  <1> QED
    BY <1>1, Zenon DEF Has

LEMMA StartsSame ==
  ASSUME NEW p, IsList(p), NEW q, IsList(q), StartsWith(q, p), Len(p) = Len(q)
  PROVE  p = q
  <1>1. p = [i \in 1..Len(p) |-> p[i]] /\ q = [i \in 1..Len(p) |-> q[i]]
    BY ListDomain
  <1> QED
    BY <1>1 DEF StartsWith

(* What is protected below /var/log is a log in use, and so on.            *)
LEMMA StandingBelow ==
  ASSUME TreeOfPaths, NEW p, IsList(p), Len(p) >= 2, NEW q \in Standing, StartsWith(q, p)
  PROVE  /\ p[1] \in {"boot", "lib", "usr"} => OfKernelInUse(q)
         /\ p[1] = "var" /\ p[2] = "log" => LogInUse(q)
         /\ p[1] = "tmp" => ~tree[q].mine /\ ~Has(q, "core") /\ Len(q) = 2
         /\ p[1] = "var" /\ p[2] = "tmp" => ~tree[q].old /\ Len(q) = 3
         /\ p[1] = Home[1] => OwnDocument(q)
  <1>1. Len(p) \in Nat /\ Len(Home) \in Nat /\ Len(Home) >= 1
    BY ListDomain, PathsAssumption
  <1>2. q[1] = p[1] /\ q[2] = p[2]
    BY <1>1 DEF StartsWith
  <1>3. Home[1] \notin {"boot", "lib", "tmp", "usr", "var"}
    BY PathsAssumption
  <1>4. StartsWith(q, Home) => q[1] = Home[1]
    BY <1>1 DEF StartsWith
  <1> QED
    BY <1>2, <1>3, <1>4, StandingBegins

(* A rotated log, below /var/log.                                          *)
LEMMA OldLogIsClear ==
  ASSUME TreeOfPaths, NEW p, IsList(p), StartsWith(p, <<"var", "log">>), Len(p) >= 3,
         \/ SystemRules!IsRotatedLog(p)
         \/ Has(p, ".journal") /\ Has(p, "@")
         \/ p[3] \in {"btmp.1", "wtmp.1", "dmesg.0", "dmesg.1.gz"}
  PROVE  Clear(p)
  <1> SUFFICES ASSUME NEW q \in Standing, StartsWith(q, p) PROVE FALSE
    BY DEF Clear
  <1>1. Len(p) \in Nat /\ p[1] = "var" /\ p[2] = "log" /\ Len(q) \in Nat
    BY ListDomain, StandingBegins DEF StartsWith
  <1>2. LogInUse(q)
    BY <1>1, StandingBelow
  <1>3. Len(p) \in 3..Len(q) /\ q[3] = p[3] /\ q[Len(p)] = Last(p)
    BY <1>1 DEF StartsWith, Last
  <1> DEFINE x == q[Len(p)]
  <1>4. \A piece : Has(p, piece) = Has(<<x>>, piece)
    BY <1>3, HasByName
  <1>5. SystemRules!IsRotatedLog(p) => SystemRules!IsRotatedLog(<<x>>)
    BY <1>4, SystemHas, Zenon DEF SystemRules!IsRotatedLog
  <1>6. ~SystemRules!IsRotatedLog(<<x>>) /\ ~(Has(<<x>>, ".journal") /\ Has(<<x>>, "@"))
    BY <1>2, <1>3, Zenon DEF LogInUse
  <1>7. q[3] \notin {"btmp.1", "wtmp.1", "dmesg.0", "dmesg.1.gz"}
    BY <1>2, Zenon DEF LogInUse
  <1> HIDE DEF x
  <1> QED
    BY <1>3, <1>4, <1>5, <1>6, <1>7

(* Another version than the running one, where kernels are kept.           *)
LEMMA OldKernelIsClear ==
  ASSUME TreeOfPaths, NEW d \in {<<"boot">>, <<"lib", "modules">>, <<"usr", "src">>},
         NEW p \in SystemRules!Children(d), SystemRules!OtherVersion(p)
  PROVE  Clear(p)
  <1>1. IsList(d) /\ Len(d) \in {1, 2}
    BY TuplesAreLists
  <1>2. /\ p \in DOMAIN tree /\ IsList(p) /\ StartsWith(p, d) /\ Len(p) = Len(d) + 1
        /\ Last(p) = p[Len(d) + 1]
    BY <1>1, SystemFronts
  <1>3. Running # Unknown /\ ~Has(p, Running)
    BY SystemHas, Zenon DEF SystemRules!OtherVersion
  <1> SUFFICES ASSUME NEW q \in Standing, StartsWith(q, p) PROVE FALSE
    BY <1>2 DEF Clear
  <1>4. p[1] = d[1] /\ q[1] = d[1] /\ q[Len(d) + 1] = Last(p) /\ Len(p) >= 2
    BY <1>1, <1>2 DEF StartsWith
  <1>5. d[1] \in {"boot", "lib", "usr"}
    OBVIOUS
  <1>6. OfKernelInUse(q) /\ IsList(q)
    BY <1>2, <1>4, <1>5, StandingBelow, StandingBegins
  <1>7. PICK e \in {<<"boot">>, <<"lib", "modules">>, <<"usr", "src">>} :
          IsStrictPrefix(e, q) /\ Has(<<q[Len(e) + 1]>>, Running)
    BY <1>3, <1>6 DEF OfKernelInUse
  <1>8. IsList(e) /\ Len(e) \in {1, 2}
    BY TuplesAreLists
  <1>9. StartsWith(q, e)
    BY <1>6, <1>7, <1>8, StrictlyBelow
  <1>10. e[1] = d[1]
    BY <1>4, <1>8, <1>9 DEF StartsWith
  <1>11. e = d
    BY <1>10
  <1> QED
    BY <1>3, <1>4, <1>7, <1>11, HasByName, Zenon

LEMMA TempsBegin ==
  /\ \A p : StartsWith(p, <<"tmp">>) /\ Len(p) = Len(<<"tmp">>) + 1 => Len(p) = 2 /\ p[1] = "tmp"
  /\ \A p : StartsWith(p, <<"var", "tmp">>) /\ Len(p) = Len(<<"var", "tmp">>) + 1 =>
         Len(p) = 3 /\ p[1] = "var" /\ p[2] = "tmp"
  BY DEF StartsWith

(* What is not another user's in /tmp, nor young in /var/tmp. *)
LEMMA TempIsClear ==
  ASSUME TreeOfPaths, NEW p \in DOMAIN tree, IsList(p), Len(p) = 2, p[1] = "tmp",
         tree[p].mine \/ Has(p, "core")
  PROVE  Clear(p)
  <1> SUFFICES ASSUME NEW q \in Standing, StartsWith(q, p) PROVE FALSE
    BY DEF Clear
  <1>1. ~tree[q].mine /\ ~Has(q, "core") /\ Len(q) = 2 /\ IsList(q)
    BY StandingBelow, StandingBegins
  <1>2. q = p
    BY <1>1, StartsSame
  <1> QED
    BY <1>1, <1>2

LEMMA OldTempIsClear ==
  ASSUME TreeOfPaths, NEW p \in DOMAIN tree, IsList(p), Len(p) = 3, p[1] = "var", p[2] = "tmp",
         tree[p].old
  PROVE  Clear(p)
  <1> SUFFICES ASSUME NEW q \in Standing, StartsWith(q, p) PROVE FALSE
    BY DEF Clear
  <1>1. ~tree[q].old /\ Len(q) = 3 /\ IsList(q)
    BY StandingBelow, StandingBegins
  <1>2. q = p
    BY <1>1, StartsSame
  <1> QED
    BY <1>1, <1>2

(* A core dump in the home directory.                                      *)
LEMMA HomeCoreIsClear ==
  ASSUME TreeOfPaths, NEW p, IsList(p), StartsWith(p, Home), Len(p) = Len(Home) + 1,
         Last(p) = p[Len(Home) + 1], Has(p, "core")
  PROVE  Clear(p)
  <1> SUFFICES ASSUME NEW q \in Standing, StartsWith(q, p) PROVE FALSE
    BY DEF Clear
  <1>1. Len(Home) \in Nat /\ Len(Home) >= 1
    BY PathsAssumption
  <1>2. p[1] = Home[1] /\ Len(p) >= 2 /\ q[Len(Home) + 1] = Last(p)
    BY <1>1 DEF StartsWith
  <1>3. OwnDocument(q)
    BY <1>2, StandingBelow
  <1> DEFINE x == q[Len(Home) + 1]
  <1>4. ~Has(<<x>>, "core")
    BY <1>3, Zenon DEF OwnDocument
  <1> QED
    BY <1>2, <1>4, HasByName, Zenon

(* No rule of the system cleaner lists anything with something protected   *)
(* in it: each looks elsewhere, or asks what the protection asks.          *)
LEMMA SystemRulesSpare ==
  ASSUME TreeOfPaths
  PROVE  Spares(SystemRules!Discovered, Kept)
  <1>1. /\ Elsewhere(SystemRules!Cache) /\ Elsewhere(SystemRules!Share)
        /\ Elsewhere(SystemRules!State)
    <2>1. {".cache", ".local"} \subseteq Sweepable
      BY DEF Sweepable
    <2> QED
      BY <2>1, SweptIsElsewhere, TuplesSwept DEF SystemRules!Cache, SystemRules!Share, SystemRules!State
  <1>2. \A p, piece : SystemRules!Has(p, piece) = Has(p, piece)
    BY SystemHas
  <1>3. Spares(SystemRules!PackageCaches, Kept)
    <2> DEFINE apt == <<"var", "cache", "apt">>
    <2>1. /\ Elsewhere(apt \o <<"archives">>) /\ Elsewhere(apt \o <<"archives", "partial">>)
          /\ Elsewhere(apt \o <<"pkgcache.bin">>) /\ Elsewhere(apt \o <<"srcpkgcache.bin">>)
          /\ Elsewhere(<<"var", "cache", "dnf">>) /\ Elsewhere(<<"var", "cache", "pacman", "pkg">>)
          /\ Elsewhere(<<"var", "cache", "zypp", "packages">>)
      BY ElsewhereBelow, TuplesAreLists, TuplesElsewhere
    <2> QED
      BY <2>1, SystemOps, SystemSpares, SystemParts, ElsewhereIsClear, SparesSeven, SMTT(60)
         DEF SystemRules!PackageCaches
  <1>4. Spares(SystemRules!SystemLogs, Kept)
    <2> DEFINE V == SystemRules!VarLog
               F == {p \in SystemRules!FilesIn(V) : SystemRules!IsRotatedLog(p)}
               B(x) == {p \in SystemRules!FilesBelow(V \o <<x>>) : SystemRules!IsRotatedLog(p)}
               J == {p \in SystemRules!FilesBelow(V \o <<"journal">>) :
                       SystemRules!Has(p, ".journal") /\ SystemRules!Has(p, "@")}
               N == << <<"btmp.1">>, <<"wtmp.1">>, <<"dmesg.0">>, <<"dmesg.1.gz">> >>
               f == [i \in DOMAIN SystemRules!LogDirs |->
                       SystemRules!Target("SystemLogs", B(SystemRules!LogDirs[i]))]
    <2>1. 10 \in Nat /\ DOMAIN SystemRules!LogDirs = 1..10
      BY DEF SystemRules!LogDirs
    <2>2. f = [i \in 1..10 |-> f[i]]
      BY <2>1, Zenon
    <2>3. V = <<"var", "log">> /\ IsList(V) /\ Len(V) = 2
      BY TuplesAreLists DEF SystemRules!VarLog
    <2>4. \A p : SystemRules!IsFile(p) => p \in DOMAIN tree
      BY DEF SystemRules!IsFile, SystemRules!Is
    <2>5. \A p \in F : Clear(p)
      <3>1. \A p \in F : SystemRules!IsRotatedLog(p) /\ p \in SystemRules!Children(V)
        BY Zenon DEF SystemRules!FilesIn
      <3>2. \A p \in F : IsList(p) /\ StartsWith(p, V) /\ Len(p) >= 3
        BY <2>3, <3>1, SystemFronts
      <3> QED
        BY <2>3, <3>1, <3>2, OldLogIsClear
    <2>6. ASSUME NEW x, NEW p \in SystemRules!FilesBelow(V \o <<x>>)
          PROVE  IsList(p) /\ StartsWith(p, V) /\ Len(p) >= 3
      <3> DEFINE d == V \o <<x>>
      <3>1. IsList(d) /\ StartsWith(d, V) /\ Len(d) = 3
        <4>1. IsList(<<x>>) /\ Len(<<x>>) = 1
          BY TuplesAreLists
        <4> QED
          BY <2>3, <4>1, JoinedStarts
      <3>2. p \in DOMAIN tree /\ IsStrictPrefix(d, p)
        <4>1. SystemRules!IsStrictPrefix(d, p) = IsStrictPrefix(d, p)
          BY Zenon DEF SystemRules!IsStrictPrefix, SystemRules!IsPrefix, IsStrictPrefix, IsPrefix
        <4> QED
          BY <2>6, <4>1, Zenon DEF SystemRules!FilesBelow, SystemRules!Inside
      <3> HIDE DEF d
      <3>3. IsList(p) /\ StartsWith(p, d) /\ Len(d) < Len(p) /\ Len(p) \in Nat
        BY <3>1, <3>2, StrictlyBelow, ListDomain DEF TreeOfPaths
      <3> QED
        BY <2>3, <3>1, <3>3 DEF StartsWith
    <2>7. \A x : \A p \in B(x) : Clear(p)
      BY <2>3, <2>6, OldLogIsClear
    <2>8. \A p \in J : Clear(p)
      BY <1>2, <2>3, <2>6, OldLogIsClear
    <2>9. Reaches(V, N)
      <3>1. \A x \in {"btmp.1", "wtmp.1", "dmesg.0", "dmesg.1.gz"} : Clear(V \o <<x>>)
        <4> SUFFICES ASSUME NEW x \in {"btmp.1", "wtmp.1", "dmesg.0", "dmesg.1.gz"}
                     PROVE  Clear(V \o <<x>>)
          OBVIOUS
        <4> DEFINE d == V \o <<x>>
        <4>1. IsList(<<x>>) /\ Len(<<x>>) = 1 /\ <<x>>[1] = x
          BY TuplesAreLists
        <4>2. IsList(d) /\ StartsWith(d, V) /\ Len(d) = 3 /\ d[3] = x
          BY <2>3, <4>1, JoinedStarts
        <4> HIDE DEF d
        <4>3. Clear(d)
          BY <2>3, <4>2, OldLogIsClear
        <4> QED
          BY <4>3 DEF d
      <3> QED
        BY <3>1 DEF Reaches, Counted
    <2>10. \A i \in 1..10 : Spares(f[i], Kept)
      <3>1. \A x : Spares(SystemRules!Target("SystemLogs", B(x)), Kept)
        <4> HIDE DEF B
        <4> QED
          BY <2>7, SystemOps, ClearTarget
      <3> QED
        BY <2>1, <3>1
    <2>11. Spares(FlattenSeq(f), Kept)
      <3> HIDE DEF f
      <3> QED
        BY <2>1, <2>2, <2>10, SparesEach, Zenon
    <2>12. SystemRules!SystemLogs = FlattenSeq(<<
             SystemRules!Target("SystemLogs", F), FlattenSeq(f),
             SystemRules!Target("SystemLogs", J), SystemRules!EachThatExists("SystemLogs", V, N)>>)
      BY SystemOps, Zenon DEF SystemRules!SystemLogs
    <2> HIDE DEF V, F, B, J, N, f
    <2>13. /\ Spares(SystemRules!Target("SystemLogs", F), Kept)
           /\ Spares(SystemRules!Target("SystemLogs", J), Kept)
           /\ Spares(SystemRules!EachThatExists("SystemLogs", V, N), Kept)
      BY <2>5, <2>8, <2>9, SystemOps, ClearTarget, SystemSpares
    <2> QED
      BY <2>11, <2>12, <2>13, SparesFour
  <1>5. Spares(SystemRules!OldKernels, Kept)
    <2> DEFINE A == {p \in SystemRules!Children(<<"boot">>) :
                       SystemRules!IsKernel(p) /\ SystemRules!OtherVersion(p)}
               B == {p \in SystemRules!Children(<<"lib", "modules">>) :
                       SystemRules!IsDir(p) /\ SystemRules!OtherVersion(p)}
               C == {p \in SystemRules!Children(<<"usr", "src">>) :
                       SystemRules!Has(p, "linux-headers-") /\ SystemRules!OtherVersion(p)}
    <2>1. \A p \in A \cup B \cup C : Clear(p)
      <3>1. \A p \in A : Clear(p)
        BY OldKernelIsClear
      <3>2. \A p \in B : Clear(p)
        BY OldKernelIsClear
      <3>3. \A p \in C : Clear(p)
        BY OldKernelIsClear
      <3> QED
        BY <3>1, <3>2, <3>3, Zenon
    <2>2. SystemRules!OldKernels = FlattenSeq(<<
            SystemRules!Target("OldKernels", A), SystemRules!Target("OldKernels", B),
            SystemRules!Target("OldKernels", C)>>)
      BY SystemOps, Zenon DEF SystemRules!OldKernels
    <2> HIDE DEF A, B, C
    <2> QED
      BY <2>1, <2>2, SystemOps, ClearTarget, SparesThree
  <1>14. /\ ".thumbnails" \in Sweepable /\ ".nv" \in Sweepable /\ ".npm" \in Sweepable
         /\ ".yarn" \in Sweepable /\ ".cargo" \in Sweepable /\ "go" \in Sweepable
         /\ ".m2" \in Sweepable /\ ".gradle" \in Sweepable /\ ".gem" \in Sweepable
         /\ ".nuget" \in Sweepable /\ "snap" \in Sweepable
    BY DEF Sweepable
  <1>15. \A x \in Sweepable :
           /\ Elsewhere(Home \o <<x>>) /\ \A y : Elsewhere(Home \o <<x, y>>)
           /\ \A y, z : Elsewhere(Home \o <<x, y, z>>)
           /\ \A y, z, u, v : Elsewhere(Home \o <<x, y, z, u, v>>)
    BY SweptIsElsewhere, TuplesSwept
  <1>6. Spares(SystemRules!ThumbnailCache, Kept)
    <2>1. /\ Elsewhere(SystemRules!Cache \o <<"thumbnails">>) /\ Elsewhere(Home \o <<".thumbnails">>)
      BY <1>1, <1>14, <1>15, ElsewhereBelow, TuplesAreLists
    <2> DEFINE d == SystemRules!Cache \o <<"thumbnails">>
               S == {p \in SystemRules!Children(d) : SystemRules!IsDir(p)}
               O == {Home \o <<".thumbnails">>}
    <2>2. SystemRules!ThumbnailCache
            = SystemRules!Target("ThumbnailCache", S) \o SystemRules!Dirs("ThumbnailCache", O)
      BY Zenon DEF SystemRules!ThumbnailCache
    <2>3. Elsewhere(d) /\ S \subseteq SystemRules!Children(d) /\ \A p \in O : Elsewhere(p)
      BY <2>1
    <2> HIDE DEF d, S, O
    <2>4. /\ Spares(SystemRules!Target("ThumbnailCache", S), Kept)
          /\ Spares(SystemRules!Dirs("ThumbnailCache", O), Kept)
      BY <2>3, SystemParts, SystemSpares
    <2> QED
      BY <2>2, <2>4, SparesJoined
  <1>7. Spares(SystemRules!ShaderCache, Kept)
    <2>1. Far(<<Home \o <<".nv">>, SystemRules!Cache \o <<"fontconfig">>>>)
      BY <1>1, <1>14, <1>15, ElsewhereBelow, TuplesAreLists, FarTuples
    <2>2. Named(<< <<"mesa_shader_cache">>, <<"mesa_shader_cache_db">>, <<"nvidia">>,
                   <<"radv_builtin_shaders64">> >>)
      BY TuplesAreLists, NamedTuples
    <2> QED
      BY <1>1, <2>1, <2>2, ReachesBelow, SystemSpares, SparesJoined, SMTT(60) DEF SystemRules!ShaderCache
  <1>8. Spares(SystemRules!LanguageCaches, Kept)
    <2>1. \A x : Elsewhere(SystemRules!Cache \o <<x>>)
      BY <1>1, ElsewhereBelow, TuplesAreLists
    <2>9. /\ Elsewhere(Home \o <<".npm">>) /\ Elsewhere(Home \o <<".yarn", "cache">>)
          /\ Elsewhere(Home \o <<".cargo", "registry", "cache">>)
          /\ Elsewhere(Home \o <<"go", "pkg", "mod", "cache", "download">>)
          /\ Elsewhere(Home \o <<".m2", "repository">>) /\ Elsewhere(Home \o <<".gradle", "caches">>)
          /\ Elsewhere(Home \o <<".gem">>) /\ Elsewhere(Home \o <<".nuget", "packages">>)
      BY <1>14, <1>15
    <2> DEFINE A == <<SystemRules!Cache \o <<"pip">>>>
               N == {SystemRules!Cache \o <<"npm">>, Home \o <<".npm">>}
               Y == {SystemRules!Cache \o <<"yarn">>, Home \o <<".yarn", "cache">>}
               B == <<
                 SystemRules!Cache \o <<"pnpm">>, Home \o <<".cargo", "registry", "cache">>,
                 SystemRules!Cache \o <<"go-build">>,
                 Home \o <<"go", "pkg", "mod", "cache", "download">>,
                 Home \o <<".m2", "repository">>, Home \o <<".gradle", "caches">>,
                 SystemRules!Cache \o <<"composer">>, Home \o <<".gem">>,
                 Home \o <<".nuget", "packages">>>>
    <2>2. SystemRules!LanguageCaches = FlattenSeq(<<
            SystemRules!EachDir("LanguageCache", A), SystemRules!Dirs("LanguageCache", N),
            SystemRules!Dirs("LanguageCache", Y), SystemRules!EachDir("LanguageCache", B)>>)
      BY SystemOps, Zenon DEF SystemRules!LanguageCaches
    <2>3. Far(A) /\ \A p \in N \cup Y : Elsewhere(p)
      BY <2>1, <2>9, FarTuples
    <2>4. Far(B)
      BY <2>1, <2>9, FarTuples, Zenon
    <2> HIDE DEF A, N, Y, B
    <2> QED
      BY <2>2, <2>3, <2>4, SystemSpares, SparesFour
  <1>9. Spares(SystemRules!ContainerCaches, Kept)
    <2> DEFINE docker == <<"var", "lib", "docker">>
               L == {d \o <<"l">> : d \in {e \in {docker \o <<"overlay2">>} : SystemRules!IsDir(e)}}
    <2>1. \A x, y : /\ Elsewhere(docker \o <<x>>) /\ Elsewhere((docker \o <<x>>) \o <<y>>)
                    /\ Elsewhere(SystemRules!Share \o <<x, y>>)
      BY <1>1, ElsewhereBelow, TuplesAreLists, TuplesElsewhere
    <2>2. Spares(SystemRules!Target("ContainerCache", L), Kept)
      <3>1. \A p \in L : Elsewhere(p)
        BY <2>1
      <3> HIDE DEF L
      <3> QED
        BY <3>1, SystemOps, FarTarget
    <2> DEFINE A == <<docker \o <<"buildkit">>>>
               B == <<docker \o <<"volumes">>, docker \o <<"tmp">>,
                      SystemRules!Share \o <<"containers", "cache">>>>
    <2>3. SystemRules!ContainerCaches = FlattenSeq(<<
            SystemRules!EachDir("ContainerCache", A), SystemRules!Target("ContainerCache", L),
            SystemRules!EachDir("ContainerCache", B)>>)
      BY SystemOps, Zenon DEF SystemRules!ContainerCaches
    <2>4. Far(A) /\ Far(B)
      BY <2>1, FarTuples
    <2> HIDE DEF A, B, L
    <2> QED
      BY <2>2, <2>3, <2>4, SystemSpares, SparesThree
  <1>10. Spares(SystemRules!SnapFlatpak, Kept)
    <2> DEFINE R == UNION {SystemRules!OldRevisions(app) : app \in SystemRules!Children(<<"snap">>)}
               C == {app \o <<"common", ".cache">> : app \in SystemRules!Children(Home \o <<"snap">>)}
    <2>1. Elsewhere(<<"snap">>) /\ Elsewhere(Home \o <<"snap">>)
      BY <1>14, <1>15, TuplesElsewhere
    <2>2. \A p \in R : Elsewhere(p)
      BY <2>1, SystemFar DEF SystemRules!OldRevisions, SystemRules!Revisions
    <2>3. \A p \in C : Elsewhere(p)
      BY <2>1, SystemFar, ElsewhereBelow, TuplesAreLists
    <2>4. /\ Spares(SystemRules!Target("SnapFlatpak", R), Kept)
          /\ Spares(SystemRules!Dirs("SnapFlatpak", C), Kept)
      <3> HIDE DEF R, C
      <3> QED
        BY <2>2, <2>3, SystemOps, SystemSpares, FarTarget
    <2>5. Far(<<<<"var", "lib", "flatpak", "runtime">>,
                SystemRules!Share \o <<"flatpak", "repo", "tmp">>>>)
      BY <1>1, ElsewhereBelow, TuplesAreLists, TuplesElsewhere, FarTuples
    <2> QED
      BY <2>4, <2>5, SystemOps, SystemSpares, SparesThree, SMTT(60) DEF SystemRules!SnapFlatpak
  <1>11. Spares(SystemRules!TempFiles, Kept)
    <2> DEFINE T == {p \in SystemRules!Children(<<"tmp">>) : tree[p].mine}
               V == {p \in SystemRules!Children(<<"var", "tmp">>) : tree[p].old}
    <2>1. IsList(<<"tmp">>) /\ IsList(<<"var", "tmp">>)
      BY TuplesAreLists
    <2>2. \A p \in T : Clear(p)
      <3>1. \A p \in T : /\ p \in DOMAIN tree /\ IsList(p) /\ Len(p) = 2 /\ p[1] = "tmp"
                         /\ tree[p].mine
        BY <2>1, SystemFronts, TempsBegin, Zenon
      <3> QED
        BY <3>1, TempIsClear
    <2>3. \A p \in V : Clear(p)
      <3>1. \A p \in V : /\ p \in DOMAIN tree /\ IsList(p) /\ Len(p) = 3 /\ p[1] = "var" /\ p[2] = "tmp"
                         /\ tree[p].old
        BY <2>1, SystemFronts, TempsBegin, Zenon
      <3> QED
        BY <3>1, OldTempIsClear
    <2>4. /\ Spares(SystemRules!Target("TempFiles", T), Kept)
          /\ Spares(SystemRules!Target("TempFiles", V), Kept)
      <3> HIDE DEF T, V
      <3> QED
        BY <2>2, <2>3, SystemOps, ClearTarget
    <2>5. /\ Elsewhere(SystemRules!Share \o <<"Trash">>)
          /\ Elsewhere(SystemRules!State \o <<"swap">>) /\ Elsewhere(SystemRules!State \o <<"undo">>)
      BY <1>1, ElsewhereBelow, TuplesAreLists
    <2> DEFINE A == <<SystemRules!Share \o <<"Trash">>>>
               N == {SystemRules!State \o <<"swap">>, SystemRules!State \o <<"undo">>}
               X == << <<".xsession-errors">>, <<".xsession-errors.old">> >>
    <2>6. SystemRules!TempFiles = FlattenSeq(<<
            SystemRules!Target("TempFiles", T), SystemRules!Target("TempFiles", V),
            SystemRules!EachDir("TempFiles", A), SystemRules!Dirs("TempFiles", N),
            SystemRules!EachThatExists("TempFiles", Home, X)>>)
      BY SystemOps, Zenon DEF SystemRules!TempFiles
    <2>7. Far(A) /\ \A p \in N : Elsewhere(p)
      BY <2>5, FarTuples
    <2>8. Reaches(Home, X)
      <3>1. {".xsession-errors", ".xsession-errors.old"} \subseteq Sweepable
        BY DEF Sweepable
      <3> QED
        BY <3>1, TuplesSwept, ReachesSwept
    <2> HIDE DEF A, N, X, T, V
    <2> QED
      BY <2>4, <2>6, <2>7, <2>8, SystemSpares, SparesFive
  <1>12. Spares(SystemRules!CoreDumps, Kept)
    <2> DEFINE C == {p \in SystemRules!FilesIn(Home) \cup SystemRules!FilesIn(<<"tmp">>) :
                       SystemRules!Has(p, "core")}
    <2>1. \A p \in C : Clear(p)
      <3>1. IsList(<<"tmp">>) /\ IsList(Home)
        BY TuplesAreLists, PathsAssumption, ListOf
      <3>2. \A p \in SystemRules!FilesIn(<<"tmp">>) : p \in DOMAIN tree /\ IsList(p) /\ Len(p) = 2 /\ p[1] = "tmp"
        BY <3>1, SystemFronts, TempsBegin, Zenon DEF SystemRules!FilesIn
      <3>3. \A p \in SystemRules!FilesIn(Home) : /\ IsList(p) /\ StartsWith(p, Home) /\ Len(p) = Len(Home) + 1
                                                 /\ Last(p) = p[Len(Home) + 1]
        BY <3>1, SystemFronts DEF SystemRules!FilesIn
      <3>4. \A p \in SystemRules!FilesIn(Home) : Has(p, "core") => Clear(p)
        BY <3>3, HomeCoreIsClear
      <3>5. \A p \in SystemRules!FilesIn(<<"tmp">>) : Has(p, "core") => Clear(p)
        BY <3>2, TempIsClear
      <3> QED
        BY <1>2, <3>4, <3>5
    <2>2. Spares(SystemRules!Target("CoreDumps", C), Kept)
      <3> HIDE DEF C
      <3> QED
        BY <2>1, SystemOps, ClearTarget
    <2>3. /\ Elsewhere(<<"var", "lib", "systemd", "coredump">>) /\ Elsewhere(<<"var", "crash">>)
          /\ Far(<<<<"var", "spool", "abrt">>>>)
      BY TuplesElsewhere, FarTuples
    <2> QED
      BY <2>2, <2>3, SystemOps, SystemSpares, SystemParts, SparesFour, SMTT(60)
         DEF SystemRules!CoreDumps
  <1>13. Spares(SystemRules!RecentDocuments, Kept)
    <2> DEFINE A == << <<"recently-used.xbel">> >>
               B == << <<"recently-used.xbel.bak">> >>
               H == << <<".bash_history">>, <<".zsh_history">>, <<".python_history">>, <<".lesshst">>,
                       <<".viminfo">>, <<".local", "state", "nvim", "shada", "main.shada">>,
                       <<".wget-hsts">> >>
               F == SystemRules!FilesIn(SystemRules!Share \o <<"RecentDocuments">>)
    <2>1. Elsewhere(SystemRules!Share \o <<"RecentDocuments">>) /\ Named(A) /\ Named(B)
      BY <1>1, ElsewhereBelow, TuplesAreLists, NamedTuples
    <2>2. Reaches(Home, H)
      <3>1. /\ ".bash_history" \in Sweepable /\ ".zsh_history" \in Sweepable
            /\ ".python_history" \in Sweepable /\ ".lesshst" \in Sweepable
            /\ ".viminfo" \in Sweepable /\ ".local" \in Sweepable /\ ".wget-hsts" \in Sweepable
        BY DEF Sweepable
      <3> QED
        BY <3>1, TuplesSwept, ReachesSwept, Zenon
    <2>3. Spares(SystemRules!Target("RecentDocuments", F), Kept)
      BY <2>1, SystemParts
    <2>4. SystemRules!RecentDocuments = FlattenSeq(<<
            SystemRules!EachThatExists("RecentDocuments", SystemRules!Share, A),
            SystemRules!Target("RecentDocuments", F),
            SystemRules!EachThatExists("RecentDocuments", SystemRules!Share, B),
            SystemRules!EachThatExists("RecentDocuments", Home, H)>>)
      BY SystemOps, Zenon DEF SystemRules!RecentDocuments
    <2> HIDE DEF A, B, H, F
    <2> QED
      BY <1>1, <2>1, <2>2, <2>3, <2>4, ReachesBelow, SystemSpares, SparesFour
  <1> QED
    BY <1>3, <1>4, <1>5, <1>6, <1>7, <1>8, <1>9, <1>10, <1>11, <1>12, <1>13, SparesEleven,
       SystemOps, SMTT(60) DEF SystemRules!Discovered

(* The same of the browser cleaner. *)
LEMMA BrowserFar ==
  ASSUME TreeOfPaths, NEW d, Elsewhere(d)
  PROVE  /\ \A p \in BrowserRules!Children(d) : Elsewhere(p)
         /\ \A p \in BrowserRules!FilesIn(d) : Elsewhere(p)
         /\ \A p \in BrowserRules!FilesBelow(d) : Elsewhere(p)
  <1>1. \A p : BrowserRules!IsStrictPrefix(d, p) = IsStrictPrefix(d, p)
    BY Zenon DEF BrowserRules!IsStrictPrefix, BrowserRules!IsPrefix, IsStrictPrefix, IsPrefix
  <1>2. \A p : BrowserRules!Front(p) = Front(p)
    BY Zenon DEF BrowserRules!Front, Front
  <1>3. \A p \in BrowserRules!Children(d) : Elsewhere(p)
    <2> SUFFICES ASSUME NEW p \in BrowserRules!Children(d) PROVE Elsewhere(p)
      OBVIOUS
    <2>1. p \in DOMAIN tree /\ p # <<>> /\ Front(p) = d
      BY <1>2, Zenon DEF BrowserRules!Children
    <2>2. IsList(p) /\ StartsWith(p, d)
      BY <2>1, DirectlyBelow DEF TreeOfPaths, Elsewhere
    <2> QED
      BY <2>2, ElsewhereGoesOn
  <1>4. \A p \in BrowserRules!FilesIn(d) : Elsewhere(p)
    BY <1>3, Zenon DEF BrowserRules!FilesIn
  <1>5. \A p \in BrowserRules!FilesBelow(d) : Elsewhere(p)
    <2> SUFFICES ASSUME NEW p \in BrowserRules!FilesBelow(d) PROVE Elsewhere(p)
      OBVIOUS
    <2>1. p \in DOMAIN tree /\ IsStrictPrefix(d, p)
      BY <1>1, Zenon DEF BrowserRules!FilesBelow, BrowserRules!Inside
    <2>2. IsList(p) /\ StartsWith(p, d)
      BY <2>1, StrictlyBelow DEF TreeOfPaths, Elsewhere
    <2> QED
      BY <2>2, ElsewhereGoesOn
  <1> QED
    BY <1>3, <1>4, <1>5

LEMMA BrowserFronts ==
  ASSUME TreeOfPaths, NEW d, IsList(d)
  PROVE  \A p \in BrowserRules!Children(d) :
           p \in DOMAIN tree /\ IsList(p) /\ StartsWith(p, d) /\ Len(p) = Len(d) + 1 /\ Last(p) = p[Len(d) + 1]
  <1>1. \A p : BrowserRules!Front(p) = Front(p)
    BY Zenon DEF BrowserRules!Front, Front
  <1> SUFFICES ASSUME NEW p \in BrowserRules!Children(d)
               PROVE  p \in DOMAIN tree /\ IsList(p) /\ StartsWith(p, d) /\ Len(p) = Len(d) + 1 /\ Last(p) = p[Len(d) + 1]
    OBVIOUS
  <1>2. p \in DOMAIN tree /\ p # <<>> /\ Front(p) = d
    BY <1>1, Zenon DEF BrowserRules!Children
  <1>3. IsList(p) /\ StartsWith(p, d) /\ Len(p) = Len(d) + 1
    BY <1>2, DirectlyBelow DEF TreeOfPaths
  <1> QED
    BY <1>2, <1>3, Zenon DEF Last

LEMMA BrowserSpares ==
  ASSUME TreeOfPaths
  PROVE
  /\ \A c, p : Clear(p) => Spares(BrowserRules!IfExists(c, p), Kept)
  /\ \A c, base, names : Reaches(base, names) =>
       Spares(BrowserRules!EachThatExists(c, base, names), Kept)
  <1>1. ASSUME NEW c, NEW p, Clear(p) PROVE Spares(BrowserRules!IfExists(c, p), Kept)
    <2> DEFINE S == {q \in {p} : BrowserRules!Exists(q)}
    <2>1. BrowserRules!IfExists(c, p) = Target(c, S)
      BY BrowserOps, Zenon DEF BrowserRules!IfExists
    <2>2. \A q \in S : Clear(q)
      BY <1>1
    <2> HIDE DEF S
    <2> QED
      BY <2>1, <2>2, ClearTarget
  <1>3. ASSUME NEW c, NEW base, NEW names, Reaches(base, names)
        PROVE  Spares(BrowserRules!EachThatExists(c, base, names), Kept)
    <2> DEFINE f == [i \in DOMAIN names |-> BrowserRules!IfExists(c, base \o names[i])]
    <2>1. PICK n \in Nat : DOMAIN names = 1..n
      BY <1>3 DEF Reaches, Counted
    <2>2. f = [i \in 1..n |-> f[i]]
      BY <2>1, Zenon
    <2>3. \A i \in 1..n : Spares(f[i], Kept)
      <3>1. \A i \in 1..n : Clear(base \o names[i])
        BY <1>3, <2>1 DEF Reaches
      <3> QED
        BY <1>1, <2>1, <3>1, Zenon
    <2>4. BrowserRules!EachThatExists(c, base, names) = FlattenSeq(f)
      BY BrowserOps, Zenon DEF BrowserRules!EachThatExists
    <2> HIDE DEF f
    <2> QED
      BY <2>2, <2>3, <2>4, SparesEach, Zenon
  <1> QED
    BY <1>1, <1>3

LEMMA SparesOfSet ==
  ASSUME NEW S, IsFiniteSet(S), NEW a, NEW H, \A x \in S : Spares(a[x], H)
  PROVE  Spares(FlattenSeq([i \in DOMAIN SetToSeq(S) |-> a[SetToSeq(S)[i]]]), H)
  <1> DEFINE s == SetToSeq(S)
             f == [i \in DOMAIN s |-> a[s[i]]]
  <1>1. PICK n \in Nat : s \in [1..n -> S]
    BY SetListed
  <1> HIDE DEF s
  <1>2. f = [i \in 1..n |-> f[i]] /\ \A i \in 1..n : Spares(f[i], H)
    BY <1>1
  <1>3. Spares(FlattenSeq(f), H)
    <2> HIDE DEF f
    <2> QED
      BY <1>2, SparesEach, Zenon
  <1> QED
    BY <1>3 DEF s

(* The ways the browser cleaner's rules name what lies in a directory.     *)
LEMMA BrowserLists ==
  ASSUME TreeOfPaths, NEW c, NEW base, Elsewhere(base)
  PROVE  /\ \A a1 : IsList(a1) => Spares(BrowserRules!EachThatExists(c, base, <<a1>>), Kept)
         /\ \A a1, a2 : IsList(a1) /\ IsList(a2) =>
              Spares(BrowserRules!EachThatExists(c, base, <<a1, a2>>), Kept)
         /\ \A a1, a2, a3 : IsList(a1) /\ IsList(a2) /\ IsList(a3) =>
              Spares(BrowserRules!EachThatExists(c, base, <<a1, a2, a3>>), Kept)
         /\ \A a1, a2, a3, a4 : IsList(a1) /\ IsList(a2) /\ IsList(a3) /\ IsList(a4) =>
              Spares(BrowserRules!EachThatExists(c, base, <<a1, a2, a3, a4>>), Kept)
         /\ \A a1, a2, a3, a4, a5 :
              IsList(a1) /\ IsList(a2) /\ IsList(a3) /\ IsList(a4) /\ IsList(a5) =>
              Spares(BrowserRules!EachThatExists(c, base, <<a1, a2, a3, a4, a5>>), Kept)
         /\ \A a1, a2, a3, a4, a5, a6 :
              IsList(a1) /\ IsList(a2) /\ IsList(a3) /\ IsList(a4) /\ IsList(a5) /\ IsList(a6) =>
              Spares(BrowserRules!EachThatExists(c, base, <<a1, a2, a3, a4, a5, a6>>), Kept)
  BY NamedTuples, ReachesBelow, BrowserSpares

(* The lists of a profile spare what is kept.                              *)
LEMMA FirefoxSpares ==
  ASSUME TreeOfPaths, NEW p, Elsewhere(p), NEW root, Elsewhere(root)
  PROVE  Spares(FlattenSeq(BrowserRules!Firefox(p, root)), Kept)
  <1> DEFINE f == BrowserRules!Firefox(p, root)
  <1>1. /\ Spares(f[1], Kept) /\ Spares(f[2], Kept) /\ Spares(f[3], Kept)
        /\ Spares(f[4], Kept) /\ Spares(f[5], Kept) /\ Spares(f[6], Kept)
    BY BrowserLists, TuplesAreLists, Zenon DEF BrowserRules!Firefox
  <1>2. /\ Spares(f[7], Kept) /\ Spares(f[8], Kept) /\ Spares(f[9], Kept)
        /\ Spares(f[10], Kept) /\ Spares(f[11], Kept) /\ Spares(f[12], Kept)
    BY BrowserLists, TuplesAreLists, Zenon DEF BrowserRules!Firefox
  <1>3. /\ Spares(f[13], Kept) /\ Spares(f[14], Kept) /\ Spares(f[15], Kept)
        /\ Spares(f[16], Kept)
    BY BrowserLists, TuplesAreLists, Zenon DEF BrowserRules!Firefox
  <1>4. 16 \in Nat /\ f = [i \in 1..16 |-> f[i]]
    BY DEF BrowserRules!Firefox
  <1>5. Spares(FlattenSeq(f), Kept)
    <2> HIDE DEF f
    <2>1. \A i \in 1..16 : Spares(f[i], Kept)
      BY <1>1, <1>2, <1>3
    <2> QED
      BY <1>4, <2>1, SparesEach, Zenon
  <1> QED
    BY <1>5

LEMMA ChromiumSpares ==
  ASSUME TreeOfPaths, NEW p, Elsewhere(p), NEW base, Elsewhere(base)
  PROVE  Spares(FlattenSeq(BrowserRules!Chromium(p, base)), Kept)
  <1> DEFINE f == BrowserRules!Chromium(p, base)
  <1>1. /\ Spares(f[1], Kept) /\ Spares(f[2], Kept) /\ Spares(f[3], Kept)
        /\ Spares(f[4], Kept) /\ Spares(f[5], Kept) /\ Spares(f[6], Kept)
    BY BrowserLists, TuplesAreLists, Zenon DEF BrowserRules!Chromium
  <1>2. /\ Spares(f[7], Kept) /\ Spares(f[8], Kept) /\ Spares(f[9], Kept)
        /\ Spares(f[10], Kept) /\ Spares(f[11], Kept) /\ Spares(f[12], Kept)
    BY BrowserLists, TuplesAreLists, Zenon DEF BrowserRules!Chromium
  <1>3. /\ Spares(f[13], Kept) /\ Spares(f[14], Kept) /\ Spares(f[15], Kept)
        /\ Spares(f[16], Kept) /\ Spares(f[17], Kept) /\ Spares(f[18], Kept)
    BY BrowserLists, TuplesAreLists, Zenon DEF BrowserRules!Chromium
  <1>4. 18 \in Nat /\ f = [i \in 1..18 |-> f[i]]
    BY DEF BrowserRules!Chromium
  <1>5. Spares(FlattenSeq(f), Kept)
    <2> HIDE DEF f
    <2>1. \A i \in 1..18 : Spares(f[i], Kept)
      BY <1>1, <1>2, <1>3
    <2> QED
      BY <1>4, <2>1, SparesEach, Zenon
  <1> QED
    BY <1>5

(* No rule of the browser cleaner lists anything with something protected  *)
(* in it.                                                                  *)
LEMMA BrowserRulesSpare ==
  ASSUME TreeOfPaths, IsFiniteSet(DOMAIN tree)
  PROVE  Spares(BrowserRules!Discovered, Kept)
  <1>1. \A d : IsFiniteSet(BrowserRules!Children(d))
    BY ChildrenFinite
  <1>2. Spares(BrowserRules!FirefoxTargets, Kept)
    <2> DEFINE root == Home \o <<".mozilla", "firefox">>
               S == {p \in BrowserRules!Children(root) : BrowserRules!IsDir(p)}
               a == [p \in S |-> FlattenSeq(BrowserRules!Firefox(p, root))]
    <2>1. IsFiniteSet(S)
      BY <1>1, FS_Subset
    <2>2. Elsewhere(root)
      BY SweptIsElsewhere, TuplesSwept DEF Sweepable
    <2>3. \A p \in S : Elsewhere(p)
      BY <2>2, BrowserFar
    <2>4. \A p \in S : Spares(a[p], Kept)
      BY <2>2, <2>3, FirefoxSpares
    <2>5. BrowserRules!FirefoxTargets = FlattenSeq([i \in DOMAIN SetToSeq(S) |-> a[SetToSeq(S)[i]]])
      <3>1. \A i \in DOMAIN SetToSeq(S) : SetToSeq(S)[i] \in S
        BY <2>1, SetListed DEF Elems
      <3> QED
        BY <3>1, BrowserListed, BrowserOps DEF BrowserRules!FirefoxTargets
    <2> HIDE DEF S, a
    <2> QED
      BY <2>1, <2>4, <2>5, SparesOfSet
  <1>3. ASSUME NEW config, IsList(config)
        PROVE  Spares(BrowserRules!ChromiumTargets(config), Kept)
    <2> DEFINE base == Home \o <<".config">> \o config
               S == {p \in BrowserRules!Children(base) :
                       BrowserRules!IsDir(p) /\ BrowserRules!Has(p, "profile")}
               a == [p \in S |-> FlattenSeq(BrowserRules!Chromium(p, base))]
    <2>1. IsFiniteSet(S)
      BY <1>1, FS_Subset
    <2>2. Elsewhere(base)
      <3>1. Elsewhere(Home \o <<".config">>)
        BY SweptIsElsewhere, TuplesSwept DEF Sweepable
      <3> QED
        BY <1>3, <3>1, ElsewhereBelow
    <2>3. \A p \in S : Elsewhere(p)
      BY <2>2, BrowserFar
    <2>4. \A p \in S : Spares(a[p], Kept)
      BY <2>2, <2>3, ChromiumSpares
    <2>5. BrowserRules!ChromiumTargets(config)
            = FlattenSeq([i \in DOMAIN SetToSeq(S) |-> a[SetToSeq(S)[i]]])
      <3>1. \A i \in DOMAIN SetToSeq(S) : SetToSeq(S)[i] \in S
        BY <2>1, SetListed DEF Elems
      <3> QED
        BY <3>1, BrowserListed, BrowserOps DEF BrowserRules!ChromiumTargets
    <2> HIDE DEF S, a
    <2> QED
      BY <2>1, <2>4, <2>5, SparesOfSet
  <1>4. Spares(BrowserRules!OwnTemps, Kept)
    <2> DEFINE S == {p \in BrowserRules!Children(<<"tmp">>) : tree[p].mine}
               T(p) == [category |-> "SystemTemp", paths |-> {p}, size |-> BrowserRules!PathSize(p)]
               s == SetToSeq(S)
               f == [i \in DOMAIN s |-> T(s[i])]
    <2>1. S \cap Kept = {}
      <3>1. IsList(<<"tmp">>)
        BY TuplesAreLists
      <3>2. \A p \in S : p \in DOMAIN tree /\ IsList(p) /\ Len(p) = 2 /\ p[1] = "tmp" /\ tree[p].mine
        BY <3>1, BrowserFronts, TempsBegin, Zenon
      <3> QED
        BY <3>2, TempIsClear, ClearIsNotKept
    <2>2. BrowserRules!OwnTemps = f
      BY BrowserListed, Zenon DEF BrowserRules!OwnTemps
    <2>3. PICK n \in Nat : s \in [1..n -> S]
      <3>1. IsFiniteSet(S)
        BY <1>1, FS_Subset
      <3> QED
        BY <3>1, SetListed
    <2> HIDE DEF s, S
    <2>4. IsList(f) /\ \A t \in Elems(f) : \E p \in S : t = T(p)
      <3>1. f = [i \in 1..n |-> f[i]] /\ DOMAIN f = 1..n
        BY <2>3
      <3>2. \A t \in Elems(f) : \E p \in S : t = T(p)
        BY <2>3 DEF Elems
      <3> HIDE DEF f
      <3> QED
        BY <3>1, <3>2, ListByIndex
    <2>5. \A p \in S : T(p).paths \cap Kept = {} /\ T(p) = [category |-> T(p).category,
              paths |-> T(p).paths, size |-> T(p).size]
      BY <2>1
    <2>6. Spares(f, Kept)
      <3>1. AreTargets(f)
        <4> HIDE DEF f
        <4> QED
          BY <2>4 DEF AreTargets
      <3>2. \A t \in Elems(f) : t.paths \cap Kept = {}
        <4> HIDE DEF f, T
        <4> QED
          BY <2>4, <2>5
      <3> HIDE DEF f
      <3> QED
        BY <3>1, <3>2 DEF Spares
    <2> QED
      BY <2>2, <2>6
  <1>5. Spares(BrowserRules!SystemTemps, Kept)
    <2>1. Elsewhere(Home \o <<".cache">>)
      BY SweptIsElsewhere, TuplesSwept DEF Sweepable
    <2> DEFINE N == << <<"thumbnails">>, <<"fontconfig">>, <<"mesa_shader_cache">>, <<"mozilla">>,
                 <<"google-chrome">>, <<"chromium">>, <<"BraveSoftware">>, <<"vivaldi">>,
                 <<"microsoft-edge">>, <<"opera">>, <<"gstreamer-1.0">>, <<"pip">>, <<"yarn">>,
                 <<"node">> >>
               T == << <<".local", "share", "Trash">> >>
               R == << <<".local", "share", "recently-used.xbel">>, <<".local", "share", "recent">> >>
    <2>2. BrowserRules!SystemTemps = FlattenSeq(<<
            BrowserRules!OwnTemps,
            BrowserRules!EachThatExists("Cache", Home \o <<".cache">>, N),
            BrowserRules!EachThatExists("SystemTemp", Home, T),
            BrowserRules!EachThatExists("History", Home, R)>>)
      BY BrowserOps, Zenon DEF BrowserRules!SystemTemps
    <2>3. Reaches(Home, T) /\ Reaches(Home, R)
      <3>1. ".local" \in Sweepable
        BY DEF Sweepable
      <3> QED
        BY <3>1, TuplesSwept, ReachesSwept
    <2>4. Named(N)
      BY TuplesAreLists, NamedTuples, Zenon
    <2> HIDE DEF N, T, R
    <2> QED
      BY <1>4, <2>1, <2>2, <2>3, <2>4, ReachesBelow, BrowserSpares, SparesFour
  <1>6. Spares(BrowserRules!Discovered, Kept)
    <2> DEFINE f == [i \in DOMAIN BrowserRules!Configs |->
                       BrowserRules!ChromiumTargets(BrowserRules!Configs[i])]
    <2>1. 6 \in Nat /\ DOMAIN BrowserRules!Configs = 1..6
      BY DEF BrowserRules!Configs
    <2>2. f = [i \in 1..6 |-> f[i]]
      BY <2>1, Zenon
    <2>3. \A i \in 1..6 : IsList(BrowserRules!Configs[i])
      <3>1. Named(BrowserRules!Configs)
        BY TuplesAreLists, NamedTuples DEF BrowserRules!Configs
      <3> QED
        BY <2>1, <3>1 DEF Named
    <2>4. \A i \in 1..6 : Spares(f[i], Kept)
      BY <1>3, <2>1, <2>3
    <2>5. Spares(FlattenSeq(f), Kept)
      <3> HIDE DEF f
      <3> QED
        BY <2>1, <2>2, <2>4, SparesEach, Zenon
    <2>6. BrowserRules!Discovered
            = BrowserRules!FirefoxTargets \o FlattenSeq(f) \o BrowserRules!SystemTemps
      BY BrowserOps, Zenon DEF BrowserRules!Discovered
    <2> HIDE DEF f
    <2> QED
      BY <1>2, <1>5, <2>5, <2>6, SparesJoined
  <1> QED
    BY <1>6

(* What a cleaner must leave alone, and what that lies in, until another   *)
(* program has touched it.                                                 *)
Spared == UNION {Above(q) : q \in Standing \ meddled}

(* Discovery lists nothing that is to be spared.                           *)
LEMMA DiscoveredSpares ==
  ASSUME TreeOfPaths, IsFiniteSet(DOMAIN tree)
  PROVE  Spares(SystemRules!Discovered, Spared) /\ Spares(BrowserRules!Discovered, Spared)
  <1>1. Spares(SystemRules!Discovered, Kept) /\ Spares(BrowserRules!Discovered, Kept)
    BY SystemRulesSpare, BrowserRulesSpare
  <1>2. Spared \subseteq Kept
    BY DEF Spared, Kept
  <1> QED
    BY <1>1, <1>2 DEF Spares

(* Nothing in H is to be visited. *)
ClearOf(todo, H) == IsList(todo) /\ \A i \in DOMAIN todo : todo[i] \cap H = {}

(* What is to be visited was listed, target by target. *)
LEMMA VisitSpares ==
  ASSUME NEW targets, NEW H, Spares(targets, H), NEW cats, NEW todo,
         todo = FlattenSeq([i \in DOMAIN targets |->
                  IF targets[i].category \in cats THEN <<targets[i].paths>> ELSE <<>>])
  PROVE  ClearOf(todo, H)
  <1> DEFINE f == [i \in DOMAIN targets |->
                     IF targets[i].category \in cats THEN <<targets[i].paths>> ELSE <<>>]
  <1>1. PICK n \in Nat : DOMAIN targets = 1..n
    BY ListDomain DEF Spares, AreTargets
  <1>2. IsList(f)
    <2>1. f = [i \in 1..n |-> f[i]] /\ DOMAIN f = 1..n
      BY <1>1
    <2> HIDE DEF f
    <2> QED
      BY <2>1, ListByIndex
  <1>3. \A i \in DOMAIN f : IsList(f[i]) /\ \A S \in Elems(f[i]) : S \cap H = {}
    <2>1. \A i \in DOMAIN f : i \in DOMAIN targets /\ (f[i] = <<targets[i].paths>> \/ f[i] = <<>>)
      OBVIOUS
    <2>2. \A x : IsList(<<x>>) /\ Elems(<<x>>) = {x}
      BY DEF IsList, Elems
    <2>3. \A i \in DOMAIN targets : targets[i].paths \cap H = {}
      BY DEF Spares, Elems
    <2> HIDE DEF f
    <2> QED
      BY <2>1, <2>2, <2>3, EmptyIsList
  <1>4. IsList(todo) /\ Elems(todo) = UNION {Elems(f[i]) : i \in DOMAIN f}
    <2>1. todo = FlattenSeq(f)
      OBVIOUS
    <2> HIDE DEF f
    <2> QED
      BY <1>2, <1>3, <2>1, Flattened
  <1>5. \A S \in Elems(todo) : S \cap H = {}
    <2> HIDE DEF f
    <2> QED
      BY <1>3, <1>4
  <1> QED
    BY <1>4, <1>5 DEF Elems, ClearOf

(* What is left to visit was there before. *)
LEMMA VisitedSpares ==
  ASSUME NEW todo, todo # <<>>, NEW H, ClearOf(todo, H), NEW p, NEW rest,
         rest = IF Head(todo) = {p} THEN Tail(todo) ELSE [todo EXCEPT ![1] = @ \ {p}]
  PROVE  ClearOf(rest, H) /\ Head(todo) \cap H = {}
  <1> USE DEF ClearOf
  <1> DEFINE E == Elems(todo)
  <1>1. todo \in Seq(E)
    BY DEF IsList
  <1> HIDE DEF E
  <1>2. PICK n \in Nat \ {0} : /\ DOMAIN todo = 1..n /\ Len(todo) = n
                               /\ todo = [i \in 1..n |-> todo[i]]
    <2>1. Len(todo) \in Nat /\ DOMAIN todo = 1..Len(todo) /\ todo = [i \in 1..Len(todo) |-> todo[i]]
      BY <1>1
    <2>2. Len(todo) # 0
      BY <1>1
    <2> QED
      BY <2>1, <2>2
  <1>3. Head(todo) = todo[1] /\ 1 \in DOMAIN todo
    BY <1>1, <1>2
  <1>4. CASE Head(todo) = {p}
    <2>1. /\ Tail(todo) \in Seq(E) /\ Len(Tail(todo)) = n - 1
          /\ \A i \in 1..Len(Tail(todo)) : Tail(todo)[i] = todo[i + 1]
      BY <1>1, <1>2, HeadTailProperties
    <2>2. DOMAIN Tail(todo) = 1..Len(Tail(todo))
      BY <2>1
    <2>3. rest = Tail(todo)
      BY <1>4
    <2>4. DOMAIN rest = 1..(n - 1) /\ \A i \in 1..(n - 1) : rest[i] = todo[i + 1] /\ i + 1 \in 1..n
      BY <2>1, <2>2, <2>3
    <2>5. IsList(rest)
      BY <2>1, <2>3, ListOf
    <2> QED
      BY <1>2, <1>3, <2>4, <2>5
  <1>5. CASE Head(todo) # {p}
    <2>1. rest = [todo EXCEPT ![1] = todo[1] \ {p}]
      BY <1>5
    <2>2. /\ DOMAIN rest = 1..n /\ rest = [i \in 1..n |-> rest[i]]
          /\ \A i \in 1..n : rest[i] \subseteq todo[i]
      BY <1>2, <2>1
    <2>3. IsList(rest)
      BY <2>2, ListByIndex
    <2> QED
      BY <1>2, <1>3, <2>2, <2>3
  <1> QED
    BY <1>4, <1>5

(* Files and directories go, or other programs touch them.                 *)
TreeChanges ==
  /\ meddled \subseteq meddled'
  /\ \A p \in DOMAIN tree' \ meddled' : p \in DOMAIN tree /\ tree'[p] = tree[p]

(* Whether it is protected does not change with the tree. *)
LEMMA ProtectionStays == \A p, n : Protected(p, n)' = Protected(p, n)
  <1>1. \A p : OfKernelInUse(p)' = OfKernelInUse(p)
    BY DEF OfKernelInUse, Has, IsStrictPrefix, IsPrefix
  <1>2. \A p : LogInUse(p)' = LogInUse(p)
    BY DEF LogInUse, Has, IsStrictPrefix, IsPrefix, SystemRules!IsRotatedLog, SystemRules!Has, SystemRules!Last
  <1>3. \A p : OwnDocument(p)' = OwnDocument(p)
    BY DEF OwnDocument, Has, IsStrictPrefix, IsPrefix, Sweepable
  <1> QED
    BY <1>1, <1>2, <1>3 DEF Protected, Front, Has

(* Nothing comes to be spared but what others have put there.              *)
LEMMA SparedShrinks ==
  ASSUME TreeChanges
  PROVE  Spared' \subseteq Spared
  <1>1. Standing' \ meddled' \subseteq Standing \ meddled
    BY ProtectionStays DEF TreeChanges, Standing
  <1>2. \A q : Above(q)' = Above(q)
    BY DEF Above
  <1> QED
    BY <1>1, <1>2 DEF Spared

(* What is in the tree and no prefix of it is spared, may go.              *)
LEMMA UnsparedMayGo ==
  ASSUME TreeOfPaths, NEW d, IsList(d), d \notin Spared, NEW q \in DOMAIN tree, IsPrefix(d, q)
  PROVE  q \in meddled \/ ~Protected(q, tree[q])
  <1> SUFFICES ASSUME q \in Standing \ meddled PROVE FALSE
    BY DEF Standing
  <1> DEFINE D == Elems(d)  Q == Elems(q)
  <1>1. d \in Seq(D) /\ q \in Seq(Q)
    BY DEF IsList, TreeOfPaths
  <1> HIDE DEF D, Q
  <1>2. Len(d) \in 0..Len(q) /\ SubSeq(d, 1, Len(d)) = SubSeq(q, 1, Len(d))
    BY <1>1 DEF IsPrefix
  <1>3. SubSeq(d, 1, Len(d)) = d
    BY <1>1
  <1>4. d \in Above(q)
    BY <1>2, <1>3 DEF Above
  <1> QED
    BY <1>4 DEF Spared

(* What was erased was not protected, and nothing is listed, to be visited *)
(* or being walked through that is to be spared, or has it in it.          *)
SystemSafe ==
  /\ systemPhase = "found" => Spares(systemTargets, Spared)
  /\ systemPhase = "cleaning" => ClearOf(systemTodo, Spared)
  /\ systemWalk # System!NoWalk =>
       /\ systemPhase = "cleaning" /\ systemTodo # <<>>
       /\ IsList(systemWalk) /\ systemWalk \notin Spared
  /\ \A e \in systemErased \cup systemEntered : e[1] \in meddled \/ ~Protected(e[1], e[2])

(* Whatever else happens to the tree, a run at rest stays safe.            *)
LEMMA SystemSafeRests ==
  ASSUME SystemSafe, TreeChanges, UNCHANGED systemVars
  PROVE  SystemSafe'
  <1>1. Spared' \subseteq Spared /\ meddled \subseteq meddled'
    BY SparedShrinks DEF TreeChanges
  <1>2. UNCHANGED <<systemPhase, systemTargets, systemTodo, systemWalk, systemErased, systemEntered>>
    BY DEF systemVars
  <1>3. Spares(systemTargets, Spared) => Spares(systemTargets, Spared')
    BY <1>1 DEF Spares
  <1>4. ClearOf(systemTodo, Spared) => ClearOf(systemTodo, Spared')
    BY <1>1 DEF ClearOf
  <1>5. \A e \in systemErased' \cup systemEntered' : e[1] \in meddled' \/ ~Protected(e[1], e[2])'
    BY <1>1, <1>2, ProtectionStays, Zenon DEF SystemSafe
  <1> QED
    BY <1>1, <1>2, <1>3, <1>4, <1>5, Zenon DEF SystemSafe, System!NoWalk

(* The same when a path of what it visits is done with.                    *)
LEMMA SystemSafeGoesOn ==
  ASSUME SystemSafe, TreeChanges, systemPhase = "cleaning", systemPhase' = "cleaning",
         systemTodo # <<>>, NEW p, systemTodo' = System!Visited(p), systemWalk' = System!NoWalk,
         \A e \in systemErased' \cup systemEntered' : e[1] \in meddled' \/ ~Protected(e[1], e[2])
  PROVE  SystemSafe'
  <1>1. Spared' \subseteq Spared
    BY SparedShrinks
  <1> DEFINE rest == systemTodo'
  <1>2. rest = IF Head(systemTodo) = {p} THEN Tail(systemTodo)
                                         ELSE [systemTodo EXCEPT ![1] = @ \ {p}]
    BY Zenon DEF System!Visited
  <1>3. ClearOf(rest, Spared)
    <2>1. ClearOf(systemTodo, Spared)
      BY Zenon DEF SystemSafe
    <2> HIDE DEF rest
    <2> QED
      BY <1>2, <2>1, VisitedSpares
  <1>4. ClearOf(systemTodo', Spared')
    BY <1>1, <1>3 DEF ClearOf
  <1>5. \A e \in systemErased' \cup systemEntered' : e[1] \in meddled' \/ ~Protected(e[1], e[2])'
    BY ProtectionStays, Zenon
  <1> QED
    BY <1>4, <1>5 DEF SystemSafe, System!NoWalk

(* What it may visit has nothing in it that is to be spared.               *)
LEMMA SystemSafePending ==
  ASSUME SystemSafe, NEW p, System!Pending(p)
  PROVE  p \notin Spared
  <1>1. systemPhase = "cleaning" /\ systemTodo # <<>> /\ p \in Head(systemTodo)
    BY Zenon DEF System!Pending
  <1>2. ClearOf(systemTodo, Spared)
    BY <1>1 DEF SystemSafe
  <1>3. Head(systemTodo) \cap Spared = {}
    <2> DEFINE rest == IF Head(systemTodo) = {p} THEN Tail(systemTodo)
                                                 ELSE [systemTodo EXCEPT ![1] = @ \ {p}]
    <2>1. \E r : r = rest
      OBVIOUS
    <2> QED
      BY <1>1, <1>2, <2>1, VisitedSpares
  <1> QED
    BY <1>1, <1>3

LEMMA SystemSafeVisits ==
  ASSUME SystemSafe, NEW p, System!Visit(p), TreeChanges, UNCHANGED meddled, TreeOfPaths
  PROVE  SystemSafe'
  <1>1. /\ systemPhase = "cleaning" /\ systemPhase' = "cleaning" /\ systemTodo # <<>>
        /\ System!Pending(p) /\ systemWalk = System!NoWalk
    BY Zenon DEF System!Visit, System!Erase, System!EraseFails, System!Fails, System!Skip, System!Enter,
       System!Pending
  <1>2. p \notin Spared
    BY <1>1, SystemSafePending
  <1>3. p \in DOMAIN tree => p \in meddled \/ ~Protected(p, tree[p])
    <2>1. p \in DOMAIN tree => IsList(p)
      BY DEF TreeOfPaths
    <2> QED
      BY <1>2, <2>1, ListIsPrefix, UnsparedMayGo
  <1>4. \A e \in systemErased \cup systemEntered : e[1] \in meddled' \/ ~Protected(e[1], e[2])
    BY DEF SystemSafe
  <1> DEFINE e0 == <<p, tree[p]>>
  <1>5. e0[1] = p /\ e0[2] = tree[p]
    OBVIOUS
  <1> HIDE DEF e0
  <1>6. CASE System!Erase(p) \/ System!EraseFails(p) \/ System!Skip(p)
    <2>1. systemTodo' = System!Visited(p) /\ systemWalk' = System!NoWalk
      BY <1>1, <1>6, Zenon DEF System!Erase, System!EraseFails, System!Fails, System!Skip
    <2>2. \/ UNCHANGED <<systemErased, systemEntered>>
          \/ p \in DOMAIN tree /\ systemErased' = systemErased \cup {e0} /\ UNCHANGED systemEntered
      <3>1. CASE System!Erase(p)
        BY <3>1, Zenon DEF System!Erase, System!Take, System!Is, e0
      <3>2. CASE System!EraseFails(p) \/ System!Skip(p)
        BY <3>2, Zenon DEF System!EraseFails, System!Fails, System!Skip
      <3> QED
        BY <1>6, <3>1, <3>2
    <2>3. \A e \in systemErased' \cup systemEntered' : e[1] \in meddled' \/ ~Protected(e[1], e[2])
      BY <1>3, <1>4, <1>5, <2>2
    <2> QED
      BY <1>1, <2>1, <2>3, SystemSafeGoesOn
  <1>7. CASE System!Enter(p)
    <2>1. /\ p \in DOMAIN tree /\ systemWalk' = p /\ systemEntered' = systemEntered \cup {e0}
          /\ UNCHANGED <<systemPhase, systemTodo, systemErased>>
      BY <1>7, Zenon DEF System!Enter, System!IsDir, System!Is, e0
    <2>2. \A e \in systemErased' \cup systemEntered' : e[1] \in meddled' \/ ~Protected(e[1], e[2])'
      BY <1>3, <1>4, <1>5, <2>1, ProtectionStays
    <2>3. Spared' \subseteq Spared
      BY SparedShrinks
    <2>4. ClearOf(systemTodo', Spared')
      BY <1>1, <2>1, <2>3 DEF SystemSafe, ClearOf
    <2>5. IsList(p)
      BY <2>1 DEF TreeOfPaths
    <2> QED
      BY <1>1, <1>2, <2>1, <2>2, <2>3, <2>4, <2>5 DEF SystemSafe
  <1> QED
    BY <1>6, <1>7, Zenon DEF System!Visit

LEMMA SystemSafeWalks ==
  ASSUME SystemSafe, System!Walk, TreeChanges, UNCHANGED meddled, TreeOfPaths
  PROVE  SystemSafe'
  <1>1. systemWalk # System!NoWalk /\ systemPhase' = systemPhase /\ UNCHANGED systemEntered
    BY Zenon DEF System!Walk, System!WalkErases, System!WalkRemoves, System!WalkFails, System!WalkIsLost,
       System!InWalk
  <1>2. systemPhase = "cleaning" /\ systemTodo # <<>> /\ IsList(systemWalk) /\ systemWalk \notin Spared
    BY <1>1 DEF SystemSafe
  <1>3. \A q \in DOMAIN tree : System!IsPrefix(systemWalk, q) => q \in meddled \/ ~Protected(q, tree[q])
    <2>1. \A q : System!IsPrefix(systemWalk, q) = IsPrefix(systemWalk, q)
      BY Zenon DEF System!IsPrefix, IsPrefix
    <2> QED
      BY <1>2, <2>1, UnsparedMayGo
  <1>4. \/ UNCHANGED systemErased
        \/ \E q \in DOMAIN tree : System!IsPrefix(systemWalk, q) /\ systemErased' = systemErased \cup {<<q, tree[q]>>}
    <2>1. ASSUME NEW q \in DOMAIN tree, System!WalkErases(q) \/ System!WalkRemoves(q)
          PROVE  System!IsPrefix(systemWalk, q) /\ systemErased' = systemErased \cup {<<q, tree[q]>>}
      BY <2>1, Zenon DEF System!WalkErases, System!WalkRemoves, System!InWalk, System!Take
    <2>2. ASSUME NEW q \in DOMAIN tree, System!WalkFails(q) PROVE UNCHANGED systemErased
      BY <2>2, Zenon DEF System!WalkFails
    <2>3. ASSUME System!WalkIsLost PROVE UNCHANGED systemErased
      BY <2>3, Zenon DEF System!WalkIsLost
    <2> QED
      BY <2>1, <2>2, <2>3, Zenon DEF System!Walk
  <1>5. \A e \in systemErased' \cup systemEntered' : e[1] \in meddled' \/ ~Protected(e[1], e[2])
    <2>1. \A e \in systemErased \cup systemEntered : e[1] \in meddled' \/ ~Protected(e[1], e[2])
      BY DEF SystemSafe
    <2>2. CASE UNCHANGED systemErased
      BY <1>1, <2>1, <2>2
    <2>3. ASSUME NEW q \in DOMAIN tree, System!IsPrefix(systemWalk, q),
                 systemErased' = systemErased \cup {<<q, tree[q]>>}
          PROVE  \A e \in systemErased' \cup systemEntered' : e[1] \in meddled' \/ ~Protected(e[1], e[2])
      <3> DEFINE e0 == <<q, tree[q]>>
      <3>1. e0[1] = q /\ e0[2] = tree[q] /\ systemErased' = systemErased \cup {e0}
        BY <2>3
      <3>2. q \in meddled' \/ ~Protected(q, tree[q])
        BY <1>3, <2>3
      <3> HIDE DEF e0
      <3> QED
        BY <1>1, <2>1, <3>1, <3>2
    <2> QED
      BY <1>4, <2>2, <2>3
  <1>6. CASE System!Stops
    <2>1. systemTodo' = System!Visited(systemWalk) /\ systemWalk' = System!NoWalk
      BY <1>6, Zenon DEF System!Stops
    <2> QED
      BY <1>1, <1>2, <1>5, <2>1, SystemSafeGoesOn
  <1>7. CASE UNCHANGED <<systemTodo, systemWalk>>
    <2>1. Spared' \subseteq Spared
      BY SparedShrinks
    <2>2. ClearOf(systemTodo', Spared')
      BY <1>2, <1>7, <2>1 DEF SystemSafe, ClearOf
    <2>3. \A e \in systemErased' \cup systemEntered' : e[1] \in meddled' \/ ~Protected(e[1], e[2])'
      BY <1>5, ProtectionStays, Zenon
    <2> QED
      BY <1>1, <1>2, <1>7, <2>1, <2>2, <2>3 DEF SystemSafe
  <1> QED
    BY <1>6, <1>7, Zenon DEF System!Walk, System!WalkErases, System!WalkRemoves, System!WalkFails, System!WalkIsLost

(* And so does one that goes on.                                           *)
LEMMA SystemSafeRuns ==
  ASSUME SystemSafe, System!Next, UNCHANGED meddled, TreeOfPaths, IsFiniteSet(DOMAIN tree)
  PROVE  SystemSafe'
  <1>1. TreeChanges
    BY SystemShrinks DEF TreeShrinks, TreeChanges
  <1>2. Spared' \subseteq Spared
    BY <1>1, SparedShrinks
  <1>3. ASSUME UNCHANGED <<systemErased, systemEntered>>
        PROVE  \A e \in systemErased' \cup systemEntered' : e[1] \in meddled' \/ ~Protected(e[1], e[2])'
    BY <1>3, ProtectionStays DEF SystemSafe
  <1>4. ASSUME NEW req, System!Discover(req) PROVE SystemSafe'
    <2>1. /\ systemPhase = "idle" /\ systemPhase' = "found" /\ systemTargets' = SystemRules!Discovered
          /\ UNCHANGED <<systemErased, systemEntered, systemWalk>>
      BY <1>4, Zenon DEF System!Discover
    <2>2. Spares(SystemRules!Discovered, Spared)
      BY DiscoveredSpares
    <2>3. Spares(systemTargets', Spared')
      BY <1>2, <2>1, <2>2 DEF Spares
    <2> QED
      BY <1>3, <2>1, <2>3 DEF SystemSafe, System!NoWalk
  <1>5. CASE System!Scan
    <2>1. /\ systemPhase = "found" /\ UNCHANGED <<systemErased, systemEntered, systemWalk>>
          /\ IF systemRequest.dry THEN systemPhase' = "done"
                                  ELSE systemPhase' = "cleaning" /\ systemTodo' = System!ToVisit
      BY <1>5, Zenon DEF System!Scan
    <2>2. System!ToVisit = FlattenSeq([i \in DOMAIN systemTargets |->
            IF systemTargets[i].category \in systemRequest.categories
            THEN <<systemTargets[i].paths>> ELSE <<>>])
      <3>1. \A s : System!FlattenSeq(s) = FlattenSeq(s)
        BY Zenon DEF System!FlattenSeq, FlattenSeq
      <3> QED
        BY <3>1, Zenon DEF System!ToVisit
    <2>3. Spares(systemTargets, Spared)
      BY <2>1 DEF SystemSafe
    <2>4. ClearOf(System!ToVisit, Spared)
      BY <2>2, <2>3, VisitSpares, Zenon
    <2>5. /\ systemPhase' # "found"
          /\ systemPhase' = "cleaning" => ClearOf(systemTodo', Spared')
      BY <1>2, <2>1, <2>4 DEF ClearOf
    <2> QED
      BY <1>3, <2>1, <2>5 DEF SystemSafe, System!NoWalk
  <1>6. CASE System!Finish
    <2>1. /\ systemPhase = "cleaning" /\ systemTodo = <<>> /\ systemPhase' = "done"
          /\ UNCHANGED <<systemErased, systemEntered, systemWalk>>
      BY <1>6, Zenon DEF System!Finish
    <2> QED
      BY <1>3, <2>1 DEF SystemSafe, System!NoWalk
  <1>7. ASSUME NEW p, System!Visit(p) PROVE SystemSafe'
    BY <1>1, <1>7, SystemSafeVisits
  <1>8. CASE System!Walk
    BY <1>1, <1>8, SystemSafeWalks
  <1> QED
    BY <1>4, <1>5, <1>6, <1>7, <1>8, Zenon DEF System!Next

(* The same of the browser cleaner. *)
BrowserSafe ==
  /\ browserPhase = "found" => Spares(browserTargets, Spared)
  /\ browserPhase = "cleaning" => ClearOf(browserTodo, Spared)
  /\ browserWalk # Browser!NoWalk =>
       /\ browserPhase = "cleaning" /\ browserTodo # <<>>
       /\ IsList(browserWalk) /\ browserWalk \notin Spared
  /\ \A e \in browserErased \cup browserEntered : e[1] \in meddled \/ ~Protected(e[1], e[2])

LEMMA BrowserSafeRests ==
  ASSUME BrowserSafe, TreeChanges, UNCHANGED browserVars
  PROVE  BrowserSafe'
  <1>1. Spared' \subseteq Spared /\ meddled \subseteq meddled'
    BY SparedShrinks DEF TreeChanges
  <1>2. UNCHANGED <<browserPhase, browserTargets, browserTodo, browserWalk, browserErased, browserEntered>>
    BY DEF browserVars
  <1>3. Spares(browserTargets, Spared) => Spares(browserTargets, Spared')
    BY <1>1 DEF Spares
  <1>4. ClearOf(browserTodo, Spared) => ClearOf(browserTodo, Spared')
    BY <1>1 DEF ClearOf
  <1>5. \A e \in browserErased' \cup browserEntered' : e[1] \in meddled' \/ ~Protected(e[1], e[2])'
    BY <1>1, <1>2, ProtectionStays, Zenon DEF BrowserSafe
  <1> QED
    BY <1>1, <1>2, <1>3, <1>4, <1>5, Zenon DEF BrowserSafe, Browser!NoWalk

LEMMA BrowserSafeGoesOn ==
  ASSUME BrowserSafe, TreeChanges, browserPhase = "cleaning", browserPhase' = "cleaning",
         browserTodo # <<>>, NEW p, browserTodo' = Browser!Visited(p), browserWalk' = Browser!NoWalk,
         \A e \in browserErased' \cup browserEntered' : e[1] \in meddled' \/ ~Protected(e[1], e[2])
  PROVE  BrowserSafe'
  <1>1. Spared' \subseteq Spared
    BY SparedShrinks
  <1> DEFINE rest == browserTodo'
  <1>2. rest = IF Head(browserTodo) = {p} THEN Tail(browserTodo)
                                         ELSE [browserTodo EXCEPT ![1] = @ \ {p}]
    BY Zenon DEF Browser!Visited
  <1>3. ClearOf(rest, Spared)
    <2>1. ClearOf(browserTodo, Spared)
      BY Zenon DEF BrowserSafe
    <2> HIDE DEF rest
    <2> QED
      BY <1>2, <2>1, VisitedSpares
  <1>4. ClearOf(browserTodo', Spared')
    BY <1>1, <1>3 DEF ClearOf
  <1>5. \A e \in browserErased' \cup browserEntered' : e[1] \in meddled' \/ ~Protected(e[1], e[2])'
    BY ProtectionStays, Zenon
  <1> QED
    BY <1>4, <1>5 DEF BrowserSafe, Browser!NoWalk

LEMMA BrowserSafePending ==
  ASSUME BrowserSafe, NEW p, Browser!Pending(p)
  PROVE  p \notin Spared
  <1>1. browserPhase = "cleaning" /\ browserTodo # <<>> /\ p \in Head(browserTodo)
    BY Zenon DEF Browser!Pending
  <1>2. ClearOf(browserTodo, Spared)
    BY <1>1 DEF BrowserSafe
  <1>3. Head(browserTodo) \cap Spared = {}
    <2> DEFINE rest == IF Head(browserTodo) = {p} THEN Tail(browserTodo)
                                                 ELSE [browserTodo EXCEPT ![1] = @ \ {p}]
    <2>1. \E r : r = rest
      OBVIOUS
    <2> QED
      BY <1>1, <1>2, <2>1, VisitedSpares
  <1> QED
    BY <1>1, <1>3

LEMMA BrowserSafeVisits ==
  ASSUME BrowserSafe, NEW p, Browser!Visit(p), TreeChanges, UNCHANGED meddled, TreeOfPaths
  PROVE  BrowserSafe'
  <1>1. /\ browserPhase = "cleaning" /\ browserPhase' = "cleaning" /\ browserTodo # <<>>
        /\ Browser!Pending(p) /\ browserWalk = Browser!NoWalk
    BY Zenon DEF Browser!Visit, Browser!Erase, Browser!EraseFails, Browser!Fails, Browser!Skip, Browser!Enter,
       Browser!Pending
  <1>2. p \notin Spared
    BY <1>1, BrowserSafePending
  <1>3. p \in DOMAIN tree => p \in meddled \/ ~Protected(p, tree[p])
    <2>1. p \in DOMAIN tree => IsList(p)
      BY DEF TreeOfPaths
    <2> QED
      BY <1>2, <2>1, ListIsPrefix, UnsparedMayGo
  <1>4. \A e \in browserErased \cup browserEntered : e[1] \in meddled' \/ ~Protected(e[1], e[2])
    BY DEF BrowserSafe
  <1> DEFINE e0 == <<p, tree[p]>>
  <1>5. e0[1] = p /\ e0[2] = tree[p]
    OBVIOUS
  <1> HIDE DEF e0
  <1>6. CASE Browser!Erase(p) \/ Browser!EraseFails(p) \/ Browser!Skip(p)
    <2>1. browserTodo' = Browser!Visited(p) /\ browserWalk' = Browser!NoWalk
      BY <1>1, <1>6, Zenon DEF Browser!Erase, Browser!EraseFails, Browser!Fails, Browser!Skip
    <2>2. \/ UNCHANGED <<browserErased, browserEntered>>
          \/ p \in DOMAIN tree /\ browserErased' = browserErased \cup {e0} /\ UNCHANGED browserEntered
      <3>1. CASE Browser!Erase(p)
        BY <3>1, Zenon DEF Browser!Erase, Browser!Take, Browser!Is, e0
      <3>2. CASE Browser!EraseFails(p) \/ Browser!Skip(p)
        BY <3>2, Zenon DEF Browser!EraseFails, Browser!Fails, Browser!Skip
      <3> QED
        BY <1>6, <3>1, <3>2
    <2>3. \A e \in browserErased' \cup browserEntered' : e[1] \in meddled' \/ ~Protected(e[1], e[2])
      BY <1>3, <1>4, <1>5, <2>2
    <2> QED
      BY <1>1, <2>1, <2>3, BrowserSafeGoesOn
  <1>7. CASE Browser!Enter(p)
    <2>1. /\ p \in DOMAIN tree /\ browserWalk' = p /\ browserEntered' = browserEntered \cup {e0}
          /\ UNCHANGED <<browserPhase, browserTodo, browserErased>>
      BY <1>7, Zenon DEF Browser!Enter, Browser!IsDir, Browser!Is, e0
    <2>2. \A e \in browserErased' \cup browserEntered' : e[1] \in meddled' \/ ~Protected(e[1], e[2])'
      BY <1>3, <1>4, <1>5, <2>1, ProtectionStays
    <2>3. Spared' \subseteq Spared
      BY SparedShrinks
    <2>4. ClearOf(browserTodo', Spared')
      BY <1>1, <2>1, <2>3 DEF BrowserSafe, ClearOf
    <2>5. IsList(p)
      BY <2>1 DEF TreeOfPaths
    <2> QED
      BY <1>1, <1>2, <2>1, <2>2, <2>3, <2>4, <2>5 DEF BrowserSafe
  <1> QED
    BY <1>6, <1>7, Zenon DEF Browser!Visit

LEMMA BrowserSafeWalks ==
  ASSUME BrowserSafe, Browser!Walk, TreeChanges, UNCHANGED meddled, TreeOfPaths
  PROVE  BrowserSafe'
  <1>1. browserWalk # Browser!NoWalk /\ browserPhase' = browserPhase /\ UNCHANGED browserEntered
    BY Zenon DEF Browser!Walk, Browser!WalkErases, Browser!WalkRemoves, Browser!WalkFails, Browser!WalkIsLost,
       Browser!InWalk
  <1>2. browserPhase = "cleaning" /\ browserTodo # <<>> /\ IsList(browserWalk) /\ browserWalk \notin Spared
    BY <1>1 DEF BrowserSafe
  <1>3. \A q \in DOMAIN tree : Browser!IsPrefix(browserWalk, q) => q \in meddled \/ ~Protected(q, tree[q])
    <2>1. \A q : Browser!IsPrefix(browserWalk, q) = IsPrefix(browserWalk, q)
      BY Zenon DEF Browser!IsPrefix, IsPrefix
    <2> QED
      BY <1>2, <2>1, UnsparedMayGo
  <1>4. \/ UNCHANGED browserErased
        \/ \E q \in DOMAIN tree : Browser!IsPrefix(browserWalk, q) /\ browserErased' = browserErased \cup {<<q, tree[q]>>}
    <2>1. ASSUME NEW q \in DOMAIN tree, Browser!WalkErases(q) \/ Browser!WalkRemoves(q)
          PROVE  Browser!IsPrefix(browserWalk, q) /\ browserErased' = browserErased \cup {<<q, tree[q]>>}
      BY <2>1, Zenon DEF Browser!WalkErases, Browser!WalkRemoves, Browser!InWalk, Browser!Take
    <2>2. ASSUME NEW q \in DOMAIN tree, Browser!WalkFails(q) PROVE UNCHANGED browserErased
      BY <2>2, Zenon DEF Browser!WalkFails
    <2>3. ASSUME Browser!WalkIsLost PROVE UNCHANGED browserErased
      BY <2>3, Zenon DEF Browser!WalkIsLost
    <2> QED
      BY <2>1, <2>2, <2>3, Zenon DEF Browser!Walk
  <1>5. \A e \in browserErased' \cup browserEntered' : e[1] \in meddled' \/ ~Protected(e[1], e[2])
    <2>1. \A e \in browserErased \cup browserEntered : e[1] \in meddled' \/ ~Protected(e[1], e[2])
      BY DEF BrowserSafe
    <2>2. CASE UNCHANGED browserErased
      BY <1>1, <2>1, <2>2
    <2>3. ASSUME NEW q \in DOMAIN tree, Browser!IsPrefix(browserWalk, q),
                 browserErased' = browserErased \cup {<<q, tree[q]>>}
          PROVE  \A e \in browserErased' \cup browserEntered' : e[1] \in meddled' \/ ~Protected(e[1], e[2])
      <3> DEFINE e0 == <<q, tree[q]>>
      <3>1. e0[1] = q /\ e0[2] = tree[q] /\ browserErased' = browserErased \cup {e0}
        BY <2>3
      <3>2. q \in meddled' \/ ~Protected(q, tree[q])
        BY <1>3, <2>3
      <3> HIDE DEF e0
      <3> QED
        BY <1>1, <2>1, <3>1, <3>2
    <2> QED
      BY <1>4, <2>2, <2>3
  <1>6. CASE Browser!Stops
    <2>1. browserTodo' = Browser!Visited(browserWalk) /\ browserWalk' = Browser!NoWalk
      BY <1>6, Zenon DEF Browser!Stops
    <2> QED
      BY <1>1, <1>2, <1>5, <2>1, BrowserSafeGoesOn
  <1>7. CASE UNCHANGED <<browserTodo, browserWalk>>
    <2>1. Spared' \subseteq Spared
      BY SparedShrinks
    <2>2. ClearOf(browserTodo', Spared')
      BY <1>2, <1>7, <2>1 DEF BrowserSafe, ClearOf
    <2>3. \A e \in browserErased' \cup browserEntered' : e[1] \in meddled' \/ ~Protected(e[1], e[2])'
      BY <1>5, ProtectionStays, Zenon
    <2> QED
      BY <1>1, <1>2, <1>7, <2>1, <2>2, <2>3 DEF BrowserSafe
  <1> QED
    BY <1>6, <1>7, Zenon DEF Browser!Walk, Browser!WalkErases, Browser!WalkRemoves, Browser!WalkFails, Browser!WalkIsLost

LEMMA BrowserSafeRuns ==
  ASSUME BrowserSafe, Browser!Next, UNCHANGED meddled, TreeOfPaths, IsFiniteSet(DOMAIN tree)
  PROVE  BrowserSafe'
  <1>1. TreeChanges
    BY BrowserShrinks DEF TreeShrinks, TreeChanges
  <1>2. Spared' \subseteq Spared
    BY <1>1, SparedShrinks
  <1>3. ASSUME UNCHANGED <<browserErased, browserEntered>>
        PROVE  \A e \in browserErased' \cup browserEntered' : e[1] \in meddled' \/ ~Protected(e[1], e[2])'
    BY <1>3, ProtectionStays DEF BrowserSafe
  <1>4. ASSUME NEW req, Browser!Discover(req) PROVE BrowserSafe'
    <2>1. /\ browserPhase = "idle" /\ browserPhase' = "found" /\ browserTargets' = BrowserRules!Discovered
          /\ UNCHANGED <<browserErased, browserEntered, browserWalk>>
      BY <1>4, Zenon DEF Browser!Discover
    <2>2. Spares(BrowserRules!Discovered, Spared)
      BY DiscoveredSpares
    <2>3. Spares(browserTargets', Spared')
      BY <1>2, <2>1, <2>2 DEF Spares
    <2> QED
      BY <1>3, <2>1, <2>3 DEF BrowserSafe, Browser!NoWalk
  <1>5. CASE Browser!Scan
    <2>1. /\ browserPhase = "found" /\ UNCHANGED <<browserErased, browserEntered, browserWalk>>
          /\ IF browserRequest.dry THEN browserPhase' = "done"
                                  ELSE browserPhase' = "cleaning" /\ browserTodo' = Browser!ToVisit
      BY <1>5, Zenon DEF Browser!Scan
    <2>2. Browser!ToVisit = FlattenSeq([i \in DOMAIN browserTargets |->
            IF browserTargets[i].category \in browserRequest.categories
            THEN <<browserTargets[i].paths>> ELSE <<>>])
      <3>1. \A s : Browser!FlattenSeq(s) = FlattenSeq(s)
        BY Zenon DEF Browser!FlattenSeq, FlattenSeq
      <3> QED
        BY <3>1, Zenon DEF Browser!ToVisit
    <2>3. Spares(browserTargets, Spared)
      BY <2>1 DEF BrowserSafe
    <2>4. ClearOf(Browser!ToVisit, Spared)
      BY <2>2, <2>3, VisitSpares, Zenon
    <2>5. /\ browserPhase' # "found"
          /\ browserPhase' = "cleaning" => ClearOf(browserTodo', Spared')
      BY <1>2, <2>1, <2>4 DEF ClearOf
    <2> QED
      BY <1>3, <2>1, <2>5 DEF BrowserSafe, Browser!NoWalk
  <1>6. CASE Browser!Finish
    <2>1. /\ browserPhase = "cleaning" /\ browserTodo = <<>> /\ browserPhase' = "done"
          /\ UNCHANGED <<browserErased, browserEntered, browserWalk>>
      BY <1>6, Zenon DEF Browser!Finish
    <2> QED
      BY <1>3, <2>1 DEF BrowserSafe, Browser!NoWalk
  <1>7. ASSUME NEW p, Browser!Visit(p) PROVE BrowserSafe'
    BY <1>1, <1>7, BrowserSafeVisits
  <1>8. CASE Browser!Walk
    BY <1>1, <1>8, BrowserSafeWalks
  <1> QED
    BY <1>4, <1>5, <1>6, <1>7, <1>8, Zenon DEF Browser!Next

(* The invariant behind ProtectedSurvives.                                 *)
SpareInv ==
  IsFiniteSet(DOMAIN tree) /\ TreeOfPaths /\ SystemSafe /\ BrowserSafe

(* Each step keeps the tree a finite tree of paths.                        *)
LEMMA PathsStay ==
  ASSUME TreeOfPaths, IsFiniteSet(DOMAIN tree), Next
  PROVE  TreeOfPaths' /\ IsFiniteSet(DOMAIN tree') /\ TreeChanges
  <1>1. CASE UNCHANGED meddled /\ TreeShrinks
    <2>1. DOMAIN tree' \subseteq DOMAIN tree
      BY <1>1 DEF TreeShrinks
    <2> QED
      BY <1>1, <2>1, FS_Subset DEF TreeShrinks, TreeChanges, TreeOfPaths
  <1>2. CASE Meddle
    <2>1. CASE \E p \in DOMAIN tree : tree' = [q \in DOMAIN tree \ {p} |-> tree[q]]
                                      /\ meddled' = meddled \cup {p}
      <3>1. DOMAIN tree' \subseteq DOMAIN tree
        BY <2>1
      <3> QED
        BY <2>1, <3>1, FS_Subset DEF TreeChanges, TreeOfPaths
    <2>2. CASE \E a \in Arrivals :
                 /\ tree' = [q \in DOMAIN tree \cup {a[1]} |-> IF q = a[1] THEN a[2] ELSE tree[q]]
                 /\ meddled' = meddled \cup {a[1]}
      <3>1. PICK a \in Arrivals :
                 /\ tree' = [q \in DOMAIN tree \cup {a[1]} |-> IF q = a[1] THEN a[2] ELSE tree[q]]
                 /\ meddled' = meddled \cup {a[1]}
        BY <2>2
      <3>2. a[1] \in Seq(STRING)
        BY PathsAssumption
      <3>3. IsList(a[1])
        BY <3>2, ListOf
      <3>4. DOMAIN tree' = DOMAIN tree \cup {a[1]}
        BY <3>1
      <3>5. IsFiniteSet(DOMAIN tree')
        BY <3>4, FS_AddElement
      <3> QED
        BY <3>1, <3>3, <3>4, <3>5 DEF TreeChanges, TreeOfPaths
    <2> QED
      BY <1>2, <2>1, <2>2, Zenon DEF Meddle
  <1> QED
    BY <1>1, <1>2, SystemShrinks, BrowserShrinks, Zenon DEF Next, SystemClean, BrowserClean

LEMMA FirstSpare ==
  ASSUME NEW layout, InitWith(layout), Findable(layout)
  PROVE  SpareInv
  <1>1. /\ tree = layout /\ systemPhase = "idle" /\ browserPhase = "idle"
        /\ systemErased = {} /\ browserErased = {} /\ systemEntered = {} /\ browserEntered = {}
        /\ systemWalk = System!NoWalk /\ browserWalk = Browser!NoWalk
    BY Zenon DEF InitWith, System!Init, Browser!Init
  <1>2. TreeOfPaths
    BY <1>1, ListOf DEF Findable, TreeOfPaths
  <1> QED
    BY <1>1, <1>2 DEF Findable, SpareInv, SystemSafe, BrowserSafe

LEMMA StepSpare ==
  ASSUME SpareInv, Next \/ UNCHANGED cleanerVars
  PROVE  SpareInv'
  <1>1. CASE UNCHANGED cleanerVars
    <2>1. UNCHANGED <<tree, meddled, systemVars, browserVars>>
      BY <1>1 DEF cleanerVars
    <2>2. TreeChanges
      BY <2>1 DEF TreeChanges
    <2>3. SystemSafe' /\ BrowserSafe'
      BY <2>1, <2>2, SystemSafeRests, BrowserSafeRests DEF SpareInv
    <2> QED
      BY <2>1, <2>3 DEF SpareInv, TreeOfPaths
  <1>2. CASE Next
    <2>1. TreeOfPaths' /\ IsFiniteSet(DOMAIN tree') /\ TreeChanges
      BY <1>2, PathsStay DEF SpareInv
    <2>2. SystemSafe'
      <3>1. CASE System!Next /\ UNCHANGED meddled
        BY <3>1, SystemSafeRuns DEF SpareInv
      <3>2. CASE UNCHANGED systemVars
        BY <2>1, <3>2, SystemSafeRests DEF SpareInv
      <3> QED
        BY <1>2, <3>1, <3>2, Zenon DEF Next, SystemClean, BrowserClean, Meddle
    <2>3. BrowserSafe'
      <3>1. CASE Browser!Next /\ UNCHANGED meddled
        BY <3>1, BrowserSafeRuns DEF SpareInv
      <3>2. CASE UNCHANGED browserVars
        BY <2>1, <3>2, BrowserSafeRests DEF SpareInv
      <3> QED
        BY <1>2, <3>1, <3>2, Zenon DEF Next, SystemClean, BrowserClean, Meddle
    <2> QED
      BY <2>1, <2>2, <2>3 DEF SpareInv
  <1> QED
    BY <1>1, <1>2

-----------------------------------------------------------------------------
(***************************************************************************)
(* What is freed is what is reported.                                      *)
(***************************************************************************)
(* A target that was sized when it was listed: one path.                   *)
SizedAlone(t, T) == \E p : t.paths = {p} /\ Fits(t.size, p, T)

(* A list of targets whose sizes are known or can be added up.             *)
Sizable(list, T) ==
  /\ AreTargets(list)
  /\ \A t \in Elems(list) : IsFiniteSet(t.paths) /\ (t.size = Unsized \/ SizedAlone(t, T))

LEMMA SizableTarget ==
  ASSUME NEW T, NEW c, NEW S, IsFiniteSet(S)
  PROVE  Sizable(Target(c, S), T)
  <1>1. AreTargets(Target(c, S))
    BY BelowTarget DEF Below
  <1>2. CASE S = {}
    <2>1. Target(c, S) = <<>>
      BY <1>2, Zenon DEF Target
    <2> QED
      BY <1>1, <2>1, EmptyIsList DEF Sizable
  <1>3. CASE S # {}
    <2> DEFINE r == [category |-> c, paths |-> S, size |-> Unsized]
    <2>1. Target(c, S) = <<r>>
      BY <1>3, Zenon DEF Target
    <2>2. r.paths = S /\ r.size = Unsized
      OBVIOUS
    <2> HIDE DEF r
    <2>3. Elems(<<r>>) = {r}
      BY DEF Elems
    <2> QED
      BY <1>1, <2>1, <2>2, <2>3 DEF Sizable
  <1> QED
    BY <1>2, <1>3

LEMMA SizableJoined ==
  ASSUME NEW T, NEW a, NEW b, Sizable(a, T), Sizable(b, T)
  PROVE  Sizable(a \o b, T)
  <1>1. IsList(a \o b) /\ Elems(a \o b) = Elems(a) \cup Elems(b)
    BY ListsJoined DEF Sizable, AreTargets
  <1> QED
    BY <1>1 DEF Sizable, AreTargets

(* Lists of such lists, flattened. *)
AllSizable(f, T) == IsList(f) /\ \A i \in DOMAIN f : Sizable(f[i], T)

LEMMA SizableFlat ==
  ASSUME NEW T, NEW f, AllSizable(f, T)
  PROVE  Sizable(FlattenSeq(f), T)
  <1>1. \A i \in DOMAIN f : IsList(f[i])
    BY DEF AllSizable, Sizable, AreTargets
  <1>2. IsList(FlattenSeq(f)) /\ Elems(FlattenSeq(f)) = UNION {Elems(f[i]) : i \in DOMAIN f}
    BY <1>1, Flattened DEF AllSizable
  <1> QED
    BY <1>2 DEF AllSizable, Sizable, AreTargets

LEMMA SizableByIndex ==
  ASSUME NEW T, NEW n \in Nat, NEW f, f = [i \in 1..n |-> f[i]], \A i \in 1..n : Sizable(f[i], T)
  PROVE  Sizable(FlattenSeq(f), T)
  <1>1. DOMAIN f = 1..n
    OBVIOUS
  <1>2. AllSizable(f, T)
    BY <1>1, ListByIndex DEF AllSizable
  <1> QED
    BY <1>2, SizableFlat

LEMMA SizableTuples ==
  ASSUME NEW T
  PROVE  /\ \A a1, a2, a3 : Sizable(a1, T) /\ Sizable(a2, T) /\ Sizable(a3, T)
              => Sizable(FlattenSeq(<<a1, a2, a3>>), T)
         /\ \A a1, a2, a3, a4 :
              Sizable(a1, T) /\ Sizable(a2, T) /\ Sizable(a3, T) /\ Sizable(a4, T)
              => Sizable(FlattenSeq(<<a1, a2, a3, a4>>), T)
         /\ \A a1, a2, a3, a4, a5 :
              Sizable(a1, T) /\ Sizable(a2, T) /\ Sizable(a3, T) /\ Sizable(a4, T) /\ Sizable(a5, T)
              => Sizable(FlattenSeq(<<a1, a2, a3, a4, a5>>), T)
         /\ \A a1, a2, a3, a4, a5, a6, a7 :
              /\ Sizable(a1, T) /\ Sizable(a2, T) /\ Sizable(a3, T) /\ Sizable(a4, T)
              /\ Sizable(a5, T) /\ Sizable(a6, T) /\ Sizable(a7, T)
              => Sizable(FlattenSeq(<<a1, a2, a3, a4, a5, a6, a7>>), T)
         /\ \A a1, a2, a3, a4, a5, a6, a7, a8, a9, a10, a11 :
              /\ Sizable(a1, T) /\ Sizable(a2, T) /\ Sizable(a3, T) /\ Sizable(a4, T)
              /\ Sizable(a5, T) /\ Sizable(a6, T) /\ Sizable(a7, T) /\ Sizable(a8, T)
              /\ Sizable(a9, T) /\ Sizable(a10, T) /\ Sizable(a11, T)
              => Sizable(FlattenSeq(<<a1, a2, a3, a4, a5, a6, a7, a8, a9, a10, a11>>), T)
  <1>1. \A f : AllSizable(f, T) => Sizable(FlattenSeq(f), T)
    BY SizableFlat
  <1>3. \A a1, a2, a3 : Sizable(a1, T) /\ Sizable(a2, T) /\ Sizable(a3, T)
          => AllSizable(<<a1, a2, a3>>, T)
    BY DEF AllSizable, IsList, Elems
  <1>4. \A a1, a2, a3, a4 :
          Sizable(a1, T) /\ Sizable(a2, T) /\ Sizable(a3, T) /\ Sizable(a4, T)
          => AllSizable(<<a1, a2, a3, a4>>, T)
    BY DEF AllSizable, IsList, Elems
  <1>5. \A a1, a2, a3, a4, a5 :
          Sizable(a1, T) /\ Sizable(a2, T) /\ Sizable(a3, T) /\ Sizable(a4, T) /\ Sizable(a5, T)
          => AllSizable(<<a1, a2, a3, a4, a5>>, T)
    BY DEF AllSizable, IsList, Elems
  <1>7. \A a1, a2, a3, a4, a5, a6, a7 :
          /\ Sizable(a1, T) /\ Sizable(a2, T) /\ Sizable(a3, T) /\ Sizable(a4, T)
          /\ Sizable(a5, T) /\ Sizable(a6, T) /\ Sizable(a7, T)
          => AllSizable(<<a1, a2, a3, a4, a5, a6, a7>>, T)
    BY DEF AllSizable, IsList, Elems
  <1>11. \A a1, a2, a3, a4, a5, a6, a7, a8, a9, a10, a11 :
           /\ Sizable(a1, T) /\ Sizable(a2, T) /\ Sizable(a3, T) /\ Sizable(a4, T)
           /\ Sizable(a5, T) /\ Sizable(a6, T) /\ Sizable(a7, T) /\ Sizable(a8, T)
           /\ Sizable(a9, T) /\ Sizable(a10, T) /\ Sizable(a11, T)
           => AllSizable(<<a1, a2, a3, a4, a5, a6, a7, a8, a9, a10, a11>>, T)
    BY DEF AllSizable, IsList, Elems
  <1> QED
    BY <1>1, <1>3, <1>4, <1>5, <1>7, <1>11

(* What the helpers of CleanTree find in a finite tree is finite.          *)
LEMMA SystemFinite ==
  ASSUME IsFiniteSet(DOMAIN tree), NEW d
  PROVE  /\ IsFiniteSet(SystemRules!Children(d))
         /\ IsFiniteSet(SystemRules!FilesIn(d))
         /\ IsFiniteSet(SystemRules!FilesBelow(d))
  <1>1. /\ SystemRules!Children(d) \subseteq DOMAIN tree
        /\ SystemRules!FilesIn(d) \subseteq DOMAIN tree
        /\ SystemRules!FilesBelow(d) \subseteq DOMAIN tree
    BY Zenon DEF SystemRules!Children, SystemRules!FilesIn, SystemRules!FilesBelow, SystemRules!Inside
  <1> QED
    BY <1>1, FS_Subset

(* The rules' ways to make targets. *)
LEMMA SystemSizable ==
  ASSUME IsFiniteSet(DOMAIN tree)
  PROVE  /\ \A c, p : Sizable(SystemRules!IfExists(c, p), tree)
         /\ \A c, P : IsFiniteSet(P) => Sizable(SystemRules!Dirs(c, P), tree)
         /\ \A c, base, names : Counted(names)
              => Sizable(SystemRules!EachThatExists(c, base, names), tree)
         /\ \A c, paths : Counted(paths) => Sizable(SystemRules!EachDir(c, paths), tree)
         /\ \A c, d, S : \/ S \subseteq SystemRules!Children(d) \/ S \subseteq SystemRules!FilesIn(d)
                         \/ S \subseteq SystemRules!FilesBelow(d)
                         => Sizable(SystemRules!Target(c, S), tree)
  <1>1. ASSUME NEW c, NEW p PROVE Sizable(SystemRules!IfExists(c, p), tree)
    <2> DEFINE S == {q \in {p} : SystemRules!Exists(q)}
    <2>1. SystemRules!IfExists(c, p) = Target(c, S)
      BY SystemOps, Zenon DEF SystemRules!IfExists
    <2>2. IsFiniteSet(S)
      BY FS_Singleton, FS_Subset
    <2> HIDE DEF S
    <2> QED
      BY <2>1, <2>2, SizableTarget
  <1>2. ASSUME NEW c, NEW P, IsFiniteSet(P) PROVE Sizable(SystemRules!Dirs(c, P), tree)
    <2> DEFINE S == {p \in P : SystemRules!IsDir(p)}
    <2>1. SystemRules!Dirs(c, P) = Target(c, S)
      BY SystemOps, Zenon DEF SystemRules!Dirs
    <2>2. IsFiniteSet(S)
      BY <1>2, FS_Subset
    <2> HIDE DEF S
    <2> QED
      BY <2>1, <2>2, SizableTarget
  <1>3. ASSUME NEW c, NEW base, NEW names, Counted(names)
        PROVE  Sizable(SystemRules!EachThatExists(c, base, names), tree)
    <2> DEFINE f == [i \in DOMAIN names |-> SystemRules!IfExists(c, base \o names[i])]
    <2>1. PICK n \in Nat : DOMAIN names = 1..n
      BY <1>3 DEF Counted
    <2>2. f = [i \in 1..n |-> f[i]] /\ \A i \in 1..n : Sizable(f[i], tree)
      BY <1>1, <2>1, Zenon
    <2>3. SystemRules!EachThatExists(c, base, names) = FlattenSeq(f)
      BY SystemOps, Zenon DEF SystemRules!EachThatExists
    <2> HIDE DEF f
    <2> QED
      BY <2>2, <2>3, SizableByIndex, Zenon
  <1>4. ASSUME NEW c, NEW paths, Counted(paths)
        PROVE  Sizable(SystemRules!EachDir(c, paths), tree)
    <2> DEFINE f == [i \in DOMAIN paths |-> SystemRules!Dirs(c, {paths[i]})]
    <2>1. PICK n \in Nat : DOMAIN paths = 1..n
      BY <1>4 DEF Counted
    <2>2. \A p : IsFiniteSet({p})
      BY FS_Singleton
    <2>3. f = [i \in 1..n |-> f[i]] /\ \A i \in 1..n : Sizable(f[i], tree)
      BY <1>2, <2>1, <2>2, Zenon
    <2>4. SystemRules!EachDir(c, paths) = FlattenSeq(f)
      BY SystemOps, Zenon DEF SystemRules!EachDir
    <2> HIDE DEF f
    <2> QED
      BY <2>3, <2>4, SizableByIndex, Zenon
  <1>5. ASSUME NEW c, NEW d, NEW S,
               \/ S \subseteq SystemRules!Children(d) \/ S \subseteq SystemRules!FilesIn(d)
               \/ S \subseteq SystemRules!FilesBelow(d)
        PROVE  Sizable(SystemRules!Target(c, S), tree)
    <2>1. IsFiniteSet(S)
      BY <1>5, SystemFinite, FS_Subset
    <2> QED
      BY <2>1, SystemOps, SizableTarget
  <1> QED
    BY <1>1, <1>2, <1>3, <1>4, <1>5

LEMMA SystemDirs ==
  ASSUME IsFiniteSet(DOMAIN tree)
  PROVE  /\ \A c, x : Sizable(SystemRules!Dirs(c, {x}), tree)
         /\ \A c, x, y : Sizable(SystemRules!Dirs(c, {x, y}), tree)
  <1>1. ASSUME NEW c, NEW x PROVE Sizable(SystemRules!Dirs(c, {x}), tree)
    <2>1. IsFiniteSet({x})
      BY FS_Singleton
    <2> QED
      BY <2>1, SystemSizable
  <1>2. ASSUME NEW c, NEW x, NEW y PROVE Sizable(SystemRules!Dirs(c, {x, y}), tree)
    <2>1. IsFiniteSet({x} \cup {y})
      <3> DEFINE X == {x}  Y == {y}
      <3>1. IsFiniteSet(X) /\ IsFiniteSet(Y)
        BY FS_Singleton
      <3> HIDE DEF X, Y
      <3>2. IsFiniteSet(X \cup Y)
        BY <3>1, FS_Union
      <3> QED
        BY <3>2 DEF X, Y
    <2>2. {x} \cup {y} = {x, y}
      OBVIOUS
    <2>3. IsFiniteSet({x, y})
      BY <2>1, <2>2
    <2> QED
      BY <2>3, SystemSizable
  <1> QED
    BY <1>1, <1>2

(* All the rules of the system cleaner list what can be sized.             *)
LEMMA SystemRulesSize ==
  ASSUME IsFiniteSet(DOMAIN tree)
  PROVE  Sizable(SystemRules!Discovered, tree)
  <1>1. Sizable(SystemRules!PackageCaches, tree)
    <2> DEFINE D == SystemRules!Dirs("PackageCache", {<<"var", "cache", "dnf">>})
               E == SystemRules!Dirs("PackageCache", {<<"var", "cache", "zypp", "packages">>})
    <2>1. Sizable(D, tree) /\ Sizable(E, tree)
      BY SystemDirs, Zenon
    <2>2. SystemRules!PackageCaches =
            LET apt == <<"var", "cache", "apt">> IN FlattenSeq(<<
              SystemRules!Target("PackageCache", {p \in SystemRules!Children(apt \o <<"archives">>) :
                                                    SystemRules!Has(p, ".deb")}),
              SystemRules!Target("PackageCache", SystemRules!FilesIn(apt \o <<"archives", "partial">>)),
              SystemRules!IfExists("PackageCache", apt \o <<"pkgcache.bin">>),
              SystemRules!IfExists("PackageCache", apt \o <<"srcpkgcache.bin">>), D,
              SystemRules!Target("PackageCache", SystemRules!FilesIn(<<"var", "cache", "pacman", "pkg">>)),
              E>>)
      BY SystemOps, Zenon DEF SystemRules!PackageCaches
    <2> HIDE DEF D, E
    <2> QED
      BY <2>1, <2>2, SystemSizable, SizableTuples, SMTT(60)
  <1>2. Sizable(SystemRules!SystemLogs, tree)
    <2> DEFINE f == [i \in DOMAIN SystemRules!LogDirs |-> SystemRules!Target("SystemLogs",
          {p \in SystemRules!FilesBelow(SystemRules!VarLog \o <<SystemRules!LogDirs[i]>>) :
             SystemRules!IsRotatedLog(p)})]
    <2>1. 10 \in Nat /\ DOMAIN SystemRules!LogDirs = 1..10
      BY DEF SystemRules!LogDirs
    <2>2. f = [i \in 1..10 |-> f[i]]
      BY <2>1, Zenon
    <2>3. \A i \in 1..10 : Sizable(f[i], tree)
      BY <2>1, SystemSizable
    <2>4. Sizable(FlattenSeq(f), tree)
      <3> HIDE DEF f
      <3> QED
        BY <2>1, <2>2, <2>3, SizableByIndex, Zenon
    <2> QED
      BY <2>4, SystemOps, SystemSizable, CountedTuples, SizableTuples, SMTT(60)
         DEF SystemRules!SystemLogs
  <1>3. Sizable(SystemRules!OldKernels, tree)
    BY SystemOps, SystemSizable, SizableTuples, SMTT(60) DEF SystemRules!OldKernels
  <1>4. Sizable(SystemRules!ThumbnailCache, tree)
    <2> DEFINE d == SystemRules!Cache \o <<"thumbnails">>
               S == {p \in SystemRules!Children(d) : SystemRules!IsDir(p)}
               D == SystemRules!Dirs("ThumbnailCache", {Home \o <<".thumbnails">>})
    <2>1. SystemRules!ThumbnailCache = SystemRules!Target("ThumbnailCache", S) \o D
      BY Zenon DEF SystemRules!ThumbnailCache
    <2>2. Sizable(D, tree)
      BY SystemDirs, Zenon
    <2>3. S \subseteq SystemRules!Children(d)
      OBVIOUS
    <2> HIDE DEF S, D, d
    <2>4. Sizable(SystemRules!Target("ThumbnailCache", S), tree)
      BY <2>3, SystemSizable
    <2> QED
      BY <2>1, <2>2, <2>4, SizableJoined
  <1>5. Sizable(SystemRules!ShaderCache, tree)
    BY SystemSizable, CountedTuples, SizableJoined, SMTT(60) DEF SystemRules!ShaderCache
  <1>6. Sizable(SystemRules!LanguageCaches, tree)
    <2> DEFINE A == <<SystemRules!Cache \o <<"pip">>>>
               N == SystemRules!Dirs("LanguageCache",
                      {SystemRules!Cache \o <<"npm">>, Home \o <<".npm">>})
               Y == SystemRules!Dirs("LanguageCache",
                      {SystemRules!Cache \o <<"yarn">>, Home \o <<".yarn", "cache">>})
               B == <<
                 SystemRules!Cache \o <<"pnpm">>, Home \o <<".cargo", "registry", "cache">>,
                 SystemRules!Cache \o <<"go-build">>,
                 Home \o <<"go", "pkg", "mod", "cache", "download">>,
                 Home \o <<".m2", "repository">>, Home \o <<".gradle", "caches">>,
                 SystemRules!Cache \o <<"composer">>, Home \o <<".gem">>,
                 Home \o <<".nuget", "packages">>>>
    <2>1. SystemRules!LanguageCaches = FlattenSeq(<<
            SystemRules!EachDir("LanguageCache", A), N, Y, SystemRules!EachDir("LanguageCache", B)>>)
      BY SystemOps, Zenon DEF SystemRules!LanguageCaches
    <2>2. Sizable(N, tree) /\ Sizable(Y, tree)
      BY SystemDirs, Zenon
    <2>3. Counted(A) /\ Counted(B)
      BY CountedTuples, Zenon
    <2> HIDE DEF A, N, Y, B
    <2> QED
      BY <2>1, <2>2, <2>3, SystemSizable, SizableTuples
  <1>7. Sizable(SystemRules!ContainerCaches, tree)
    <2> DEFINE docker == <<"var", "lib", "docker">>
               L == {d \o <<"l">> : d \in {e \in {docker \o <<"overlay2">>} : SystemRules!IsDir(e)}}
               B == <<docker \o <<"volumes">>, docker \o <<"tmp">>,
                      SystemRules!Share \o <<"containers", "cache">>>>
    <2>1. IsFiniteSet(L)
      <3> DEFINE x == (docker \o <<"overlay2">>) \o <<"l">>
      <3>1. L \subseteq {x}
        OBVIOUS
      <3> HIDE DEF L, x
      <3> QED
        BY <3>1, FS_Singleton, FS_Subset
    <2>2. Sizable(SystemRules!Target("ContainerCache", L), tree)
      <3> HIDE DEF L
      <3> QED
        BY <2>1, SystemOps, SizableTarget
    <2>3. /\ Sizable(SystemRules!EachDir("ContainerCache", <<docker \o <<"buildkit">>>>), tree)
          /\ Sizable(SystemRules!EachDir("ContainerCache", B), tree)
      BY SystemSizable, CountedTuples
    <2>4. SystemRules!ContainerCaches = FlattenSeq(<<
            SystemRules!EachDir("ContainerCache", <<docker \o <<"buildkit">>>>),
            SystemRules!Target("ContainerCache", L), SystemRules!EachDir("ContainerCache", B)>>)
      BY SystemOps, Zenon DEF SystemRules!ContainerCaches
    <2> HIDE DEF L, B, docker
    <2> QED
      BY <2>2, <2>3, <2>4, SizableTuples
  <1>8. Sizable(SystemRules!SnapFlatpak, tree)
    <2> DEFINE R == UNION {SystemRules!OldRevisions(app) : app \in SystemRules!Children(<<"snap">>)}
               A == SystemRules!Children(Home \o <<"snap">>)
               C == {app \o <<"common", ".cache">> : app \in A}
    <2>1. IsFiniteSet(R)
      <3> DEFINE K == SystemRules!Children(<<"snap">>)
                 g == [app \in K |-> SystemRules!OldRevisions(app)]
      <3>1. IsFiniteSet(K)
        BY SystemFinite
      <3>2. \A app : SystemRules!OldRevisions(app) \subseteq SystemRules!Children(app)
        BY Zenon DEF SystemRules!OldRevisions, SystemRules!Revisions
      <3>3. \A app : IsFiniteSet(SystemRules!OldRevisions(app))
        BY <3>2, SystemFinite, FS_Subset
      <3>4. R = UNION {g[app] : app \in K}
        OBVIOUS
      <3>5. \A app \in K : IsFiniteSet(g[app])
        BY <3>3
      <3> HIDE DEF K, g, R
      <3>6. IsFiniteSet({g[app] : app \in K}) /\ \A x \in {g[app] : app \in K} : IsFiniteSet(x)
        BY <3>1, <3>5, ImageFinite
      <3> QED
        BY <3>4, <3>6, FS_UNION
    <2>2. IsFiniteSet(C)
      <3> DEFINE g == [app \in A |-> app \o <<"common", ".cache">>]
      <3>1. C = {g[app] : app \in A}
        OBVIOUS
      <3>2. IsFiniteSet(A)
        BY SystemFinite
      <3> HIDE DEF A, g, C
      <3> QED
        BY <3>1, <3>2, ImageFinite
    <2>3. /\ Sizable(SystemRules!Target("SnapFlatpak", R), tree)
          /\ Sizable(SystemRules!Dirs("SnapFlatpak", C), tree)
      <3> HIDE DEF R, C
      <3> QED
        BY <2>1, <2>2, SystemOps, SystemSizable, SizableTarget
    <2> QED
      BY <2>3, SystemOps, SystemSizable, CountedTuples, SizableTuples, SMTT(60)
         DEF SystemRules!SnapFlatpak
  <1>9. Sizable(SystemRules!TempFiles, tree)
    <2> DEFINE T == {p \in SystemRules!Children(<<"tmp">>) : tree[p].mine}
               V == {p \in SystemRules!Children(<<"var", "tmp">>) : tree[p].old}
               A == <<SystemRules!Share \o <<"Trash">>>>
               N == SystemRules!Dirs("TempFiles",
                      {SystemRules!State \o <<"swap">>, SystemRules!State \o <<"undo">>})
               X == << <<".xsession-errors">>, <<".xsession-errors.old">> >>
    <2>1. SystemRules!TempFiles = FlattenSeq(<<
            SystemRules!Target("TempFiles", T), SystemRules!Target("TempFiles", V),
            SystemRules!EachDir("TempFiles", A), N,
            SystemRules!EachThatExists("TempFiles", Home, X)>>)
      BY SystemOps, Zenon DEF SystemRules!TempFiles
    <2>2. Sizable(N, tree)
      BY SystemDirs, Zenon
    <2>3. Counted(A) /\ Counted(X)
      BY CountedTuples, Zenon
    <2>4. T \subseteq SystemRules!Children(<<"tmp">>) /\ V \subseteq SystemRules!Children(<<"var", "tmp">>)
      OBVIOUS
    <2> HIDE DEF A, N, X, T, V
    <2>5. /\ Sizable(SystemRules!Target("TempFiles", T), tree)
          /\ Sizable(SystemRules!Target("TempFiles", V), tree)
      BY <2>4, SystemSizable
    <2> QED
      BY <2>1, <2>2, <2>3, <2>5, SystemSizable, SizableTuples
  <1>10. Sizable(SystemRules!CoreDumps, tree)
    <2> DEFINE C == {p \in SystemRules!FilesIn(Home) \cup SystemRules!FilesIn(<<"tmp">>) :
                       SystemRules!Has(p, "core")}
    <2>1. IsFiniteSet(C)
      BY SystemFinite, FS_Union, FS_Subset
    <2>2. Sizable(SystemRules!Target("CoreDumps", C), tree)
      <3> HIDE DEF C
      <3> QED
        BY <2>1, SystemOps, SizableTarget
    <2> QED
      BY <2>2, SystemOps, SystemSizable, CountedTuples, SizableTuples, SMTT(60)
         DEF SystemRules!CoreDumps
  <1>11. Sizable(SystemRules!RecentDocuments, tree)
    BY SystemOps, SystemSizable, CountedTuples, SizableTuples, SMTT(60)
       DEF SystemRules!RecentDocuments
  <1> QED
    BY <1>1, <1>2, <1>3, <1>4, <1>5, <1>6, <1>7, <1>8, <1>9, <1>10, <1>11, SizableTuples,
       SystemOps, SMTT(60) DEF SystemRules!Discovered

LEMMA BrowserSizesOf ==
  ASSUME Tidy(tree), NEW p
  PROVE  Fits(BrowserRules!PathSize(p), p, tree)
  <1> DEFINE S == BrowserRules!FilesBelow(p)
             z == SizesIn(tree)
             E(g) == [s \in SUBSET S |-> IF s = {} THEN 0 ELSE tree[Some(s)].size + g[s \ {Some(s)}]]
             F(g) == [s \in SUBSET S |-> IF s = {} THEN 0 ELSE z[Some(s)] + g[s \ {Some(s)}]]
  <1>1. S = {q \in FilesOf(tree) : IsStrictPrefix(p, q)}
    BY Zenon DEF BrowserRules!FilesBelow, BrowserRules!Inside, FilesOf,
       BrowserRules!IsStrictPrefix, BrowserRules!IsPrefix, IsStrictPrefix, IsPrefix
  <1>2. BrowserRules!SizeOf(S) = (CHOOSE g : g = E(g))[S]
    BY Zenon DEF BrowserRules!SizeOf, BrowserRules!MapThenSumSet, BrowserRules!MapThenFoldSet, Some
  <1>3. SumOver(z, S) = (CHOOSE g : g = F(g))[S]
    BY Zenon DEF SumOver, MapThenSumSet, MapThenFoldSet, Some
  <1>4. ASSUME NEW g PROVE E(g) = F(g)
    <2>1. ASSUME NEW s \in SUBSET S, s # {} PROVE tree[Some(s)].size = z[Some(s)]
      <3>1. Some(s) \in s
        BY <2>1, Zenon DEF Some
      <3>2. Some(s) \in DOMAIN tree
        BY <1>1, <3>1 DEF FilesOf
      <3> QED
        BY <3>2 DEF SizesIn
    <2> HIDE DEF S, z
    <2> QED
      BY <2>1
  <1>5. BrowserRules!SizeOf(S) = SumOver(z, S)
    <2> HIDE DEF E, F
    <2> QED
      BY <1>2, <1>3, <1>4, Zenon
  <1>6. BrowserRules!PathSize(p)
           = IF BrowserRules!IsFile(p) THEN tree[p].size ELSE BrowserRules!SizeOf(S)
    BY Zenon DEF BrowserRules!PathSize
  <1>7. BrowserRules!IsFile(p) <=> p \in DOMAIN tree /\ tree[p].kind \in {"file", "link"}
    BY Zenon DEF BrowserRules!IsFile, BrowserRules!Is
  <1>8. CASE BrowserRules!IsFile(p)
    <2>1. p \in DOMAIN tree /\ tree[p].kind \in {"file", "link"} /\ tree[p].size \in Nat
      BY <1>7, <1>8 DEF Tidy
    <2>2. /\ tree[p].kind = "file" => Load(p, tree) = tree[p].size
          /\ tree[p].kind # "file" => Load(p, tree) = 0
      BY <2>1, LoadOfFile
    <2> HIDE DEF S
    <2> QED
      BY <1>6, <1>8, <2>1, <2>2 DEF Fits, NotALink
  <1>9. CASE ~BrowserRules!IsFile(p)
    <2>1. S = FilesAt(p, tree)
      <3>1. p \notin FilesOf(tree)
        BY <1>7, <1>9 DEF FilesOf
      <3>2. \A q : IsStrictPrefix(p, q) <=> IsPrefix(p, q) /\ p # q
        BY Zenon DEF IsStrictPrefix
      <3> HIDE DEF S
      <3> QED
        BY <1>1, <3>1, <3>2 DEF FilesAt
    <2>2. Load(p, tree) \in Nat
      BY LoadIsNat DEF Load, FilesAt
    <2>3. BrowserRules!PathSize(p) = Load(p, tree)
      <3> HIDE DEF S, z
      <3> QED
        BY <1>5, <1>6, <1>9, <2>1, Zenon DEF Load, z
    <2> QED
      BY <2>2, <2>3 DEF Fits
  <1> QED
    BY <1>8, <1>9

LEMMA BrowserSizable ==
  /\ \A c, p : Sizable(BrowserRules!IfExists(c, p), tree)
  /\ \A c, base, names : Counted(names) =>
       Sizable(BrowserRules!EachThatExists(c, base, names), tree)
  <1>1. ASSUME NEW c, NEW p PROVE Sizable(BrowserRules!IfExists(c, p), tree)
    <2> DEFINE S == {q \in {p} : BrowserRules!Exists(q)}
    <2>1. BrowserRules!IfExists(c, p) = Target(c, S)
      BY BrowserOps, Zenon DEF BrowserRules!IfExists
    <2>2. IsFiniteSet(S)
      BY FS_Singleton, FS_Subset
    <2> HIDE DEF S
    <2> QED
      BY <2>1, <2>2, SizableTarget
  <1>2. ASSUME NEW c, NEW base, NEW names, Counted(names)
        PROVE  Sizable(BrowserRules!EachThatExists(c, base, names), tree)
    <2> DEFINE f == [i \in DOMAIN names |-> BrowserRules!IfExists(c, base \o names[i])]
    <2>1. PICK n \in Nat : DOMAIN names = 1..n
      BY <1>2 DEF Counted
    <2>2. f = [i \in 1..n |-> f[i]] /\ \A i \in 1..n : Sizable(f[i], tree)
      BY <1>1, <2>1, Zenon
    <2>3. BrowserRules!EachThatExists(c, base, names) = FlattenSeq(f)
      BY BrowserOps, Zenon DEF BrowserRules!EachThatExists
    <2> HIDE DEF f
    <2> QED
      BY <2>2, <2>3, SizableByIndex, Zenon
  <1> QED
    BY <1>1, <1>2

(* A profile's lists. *)
LEMMA FirefoxSizable ==
  ASSUME NEW p, NEW root
  PROVE  Sizable(FlattenSeq(BrowserRules!Firefox(p, root)), tree)
  <1> DEFINE f == BrowserRules!Firefox(p, root)
  <1>1. /\ Sizable(f[1], tree) /\ Sizable(f[2], tree) /\ Sizable(f[3], tree)
        /\ Sizable(f[4], tree) /\ Sizable(f[5], tree) /\ Sizable(f[6], tree)
    BY BrowserSizable, CountedTuples, Zenon DEF BrowserRules!Firefox
  <1>2. /\ Sizable(f[7], tree) /\ Sizable(f[8], tree) /\ Sizable(f[9], tree)
        /\ Sizable(f[10], tree) /\ Sizable(f[11], tree) /\ Sizable(f[12], tree)
    BY BrowserSizable, CountedTuples, Zenon DEF BrowserRules!Firefox
  <1>3. /\ Sizable(f[13], tree) /\ Sizable(f[14], tree) /\ Sizable(f[15], tree)
        /\ Sizable(f[16], tree)
    BY BrowserSizable, CountedTuples, Zenon DEF BrowserRules!Firefox
  <1>4. 16 \in Nat /\ f = [i \in 1..16 |-> f[i]]
    BY DEF BrowserRules!Firefox
  <1>5. Sizable(FlattenSeq(f), tree)
    <2> HIDE DEF f
    <2>1. \A i \in 1..16 : Sizable(f[i], tree)
      BY <1>1, <1>2, <1>3
    <2> QED
      BY <1>4, <2>1, SizableByIndex, Zenon
  <1> QED
    BY <1>5

LEMMA ChromiumSizable ==
  ASSUME NEW p, NEW base
  PROVE  Sizable(FlattenSeq(BrowserRules!Chromium(p, base)), tree)
  <1> DEFINE f == BrowserRules!Chromium(p, base)
  <1>1. /\ Sizable(f[1], tree) /\ Sizable(f[2], tree) /\ Sizable(f[3], tree)
        /\ Sizable(f[4], tree) /\ Sizable(f[5], tree) /\ Sizable(f[6], tree)
    BY BrowserSizable, CountedTuples, Zenon DEF BrowserRules!Chromium
  <1>2. /\ Sizable(f[7], tree) /\ Sizable(f[8], tree) /\ Sizable(f[9], tree)
        /\ Sizable(f[10], tree) /\ Sizable(f[11], tree) /\ Sizable(f[12], tree)
    BY BrowserSizable, CountedTuples, Zenon DEF BrowserRules!Chromium
  <1>3. /\ Sizable(f[13], tree) /\ Sizable(f[14], tree) /\ Sizable(f[15], tree)
        /\ Sizable(f[16], tree) /\ Sizable(f[17], tree) /\ Sizable(f[18], tree)
    BY BrowserSizable, CountedTuples, Zenon DEF BrowserRules!Chromium
  <1>4. 18 \in Nat /\ f = [i \in 1..18 |-> f[i]]
    BY DEF BrowserRules!Chromium
  <1>5. Sizable(FlattenSeq(f), tree)
    <2> HIDE DEF f
    <2>1. \A i \in 1..18 : Sizable(f[i], tree)
      BY <1>1, <1>2, <1>3
    <2> QED
      BY <1>4, <2>1, SizableByIndex, Zenon
  <1> QED
    BY <1>5

LEMMA SizableOfSet ==
  ASSUME NEW S, IsFiniteSet(S), NEW a, NEW T, \A x \in S : Sizable(a[x], T)
  PROVE  Sizable(FlattenSeq([i \in DOMAIN SetToSeq(S) |-> a[SetToSeq(S)[i]]]), T)
  <1> DEFINE s == SetToSeq(S)
             f == [i \in DOMAIN s |-> a[s[i]]]
  <1>1. PICK n \in Nat : s \in [1..n -> S]
    BY SetListed
  <1> HIDE DEF s
  <1>2. f = [i \in 1..n |-> f[i]] /\ \A i \in 1..n : Sizable(f[i], T)
    BY <1>1
  <1>3. Sizable(FlattenSeq(f), T)
    <2> HIDE DEF f
    <2> QED
      BY <1>2, SizableByIndex, Zenon
  <1> QED
    BY <1>3 DEF s

(* All the rules of the browser cleaner. *)
LEMMA BrowserRulesSize ==
  ASSUME Tidy(tree)
  PROVE  Sizable(BrowserRules!Discovered, tree)
  <1>1. \A d : IsFiniteSet(BrowserRules!Children(d))
    BY ChildrenFinite DEF Tidy
  <1>2. Sizable(BrowserRules!FirefoxTargets, tree)
    <2> DEFINE root == Home \o <<".mozilla", "firefox">>
               S == {p \in BrowserRules!Children(root) : BrowserRules!IsDir(p)}
               a == [p \in S |-> FlattenSeq(BrowserRules!Firefox(p, root))]
    <2>1. IsFiniteSet(S)
      BY <1>1, FS_Subset
    <2>2. \A p \in S : Sizable(a[p], tree)
      BY FirefoxSizable
    <2>3. BrowserRules!FirefoxTargets = FlattenSeq([i \in DOMAIN SetToSeq(S) |-> a[SetToSeq(S)[i]]])
      <3>1. \A i \in DOMAIN SetToSeq(S) : SetToSeq(S)[i] \in S
        BY <2>1, SetListed DEF Elems
      <3> QED
        BY <3>1, BrowserListed, BrowserOps DEF BrowserRules!FirefoxTargets
    <2> HIDE DEF S, a
    <2> QED
      BY <2>1, <2>2, <2>3, SizableOfSet
  <1>3. ASSUME NEW config PROVE Sizable(BrowserRules!ChromiumTargets(config), tree)
    <2> DEFINE base == Home \o <<".config">> \o config
               S == {p \in BrowserRules!Children(base) :
                       BrowserRules!IsDir(p) /\ BrowserRules!Has(p, "profile")}
               a == [p \in S |-> FlattenSeq(BrowserRules!Chromium(p, base))]
    <2>1. IsFiniteSet(S)
      BY <1>1, FS_Subset
    <2>2. \A p \in S : Sizable(a[p], tree)
      BY ChromiumSizable
    <2>3. BrowserRules!ChromiumTargets(config)
            = FlattenSeq([i \in DOMAIN SetToSeq(S) |-> a[SetToSeq(S)[i]]])
      <3>1. \A i \in DOMAIN SetToSeq(S) : SetToSeq(S)[i] \in S
        BY <2>1, SetListed DEF Elems
      <3> QED
        BY <3>1, BrowserListed, BrowserOps DEF BrowserRules!ChromiumTargets
    <2> HIDE DEF S, a
    <2> QED
      BY <2>1, <2>2, <2>3, SizableOfSet
  <1>4. Sizable(BrowserRules!OwnTemps, tree)
    <2> DEFINE S == {p \in BrowserRules!Children(<<"tmp">>) : tree[p].mine}
               T(p) == [category |-> "SystemTemp", paths |-> {p}, size |-> BrowserRules!PathSize(p)]
               s == SetToSeq(S)
               f == [i \in DOMAIN s |-> T(s[i])]
    <2>1. BrowserRules!OwnTemps = f
      BY BrowserListed, Zenon DEF BrowserRules!OwnTemps
    <2>2. PICK n \in Nat : s \in [1..n -> S]
      <3>1. IsFiniteSet(S)
        BY <1>1, FS_Subset
      <3> QED
        BY <3>1, SetListed
    <2> HIDE DEF s, S
    <2>3. IsList(f) /\ \A t \in Elems(f) : \E p \in S : t = T(p)
      <3>1. f = [i \in 1..n |-> f[i]] /\ DOMAIN f = 1..n
        BY <2>2
      <3>2. \A t \in Elems(f) : \E p \in S : t = T(p)
        BY <2>2 DEF Elems
      <3> HIDE DEF f
      <3> QED
        BY <3>1, <3>2, ListByIndex
    <2>4. ASSUME NEW p \in S
          PROVE  /\ T(p) = [category |-> T(p).category, paths |-> T(p).paths, size |-> T(p).size]
                 /\ IsFiniteSet(T(p).paths) /\ SizedAlone(T(p), tree)
      <3>1. T(p).paths = {p} /\ T(p).size = BrowserRules!PathSize(p)
        OBVIOUS
      <3>2. T(p) = [category |-> T(p).category, paths |-> T(p).paths, size |-> T(p).size]
        OBVIOUS
      <3> HIDE DEF T
      <3>3. IsFiniteSet(T(p).paths)
        BY <3>1, FS_Singleton
      <3>4. SizedAlone(T(p), tree)
        BY <3>1, BrowserSizesOf DEF SizedAlone
      <3> QED
        BY <3>2, <3>3, <3>4
    <2> HIDE DEF f, T
    <2>5. Sizable(f, tree)
      BY <2>3, <2>4 DEF Sizable, AreTargets
    <2> QED
      BY <2>1, <2>5
  <1>5. Sizable(BrowserRules!SystemTemps, tree)
    <2> DEFINE N == << <<"thumbnails">>, <<"fontconfig">>, <<"mesa_shader_cache">>, <<"mozilla">>,
                 <<"google-chrome">>, <<"chromium">>, <<"BraveSoftware">>, <<"vivaldi">>,
                 <<"microsoft-edge">>, <<"opera">>, <<"gstreamer-1.0">>, <<"pip">>, <<"yarn">>,
                 <<"node">> >>
               T == << <<".local", "share", "Trash">> >>
               R == << <<".local", "share", "recently-used.xbel">>, <<".local", "share", "recent">> >>
    <2>1. BrowserRules!SystemTemps = FlattenSeq(<<
            BrowserRules!OwnTemps,
            BrowserRules!EachThatExists("Cache", Home \o <<".cache">>, N),
            BrowserRules!EachThatExists("SystemTemp", Home, T),
            BrowserRules!EachThatExists("History", Home, R)>>)
      BY BrowserOps, Zenon DEF BrowserRules!SystemTemps
    <2>2. Counted(T) /\ Counted(R) /\ Counted(N)
      BY CountedTuples, Zenon
    <2> HIDE DEF N, T, R
    <2> QED
      BY <1>4, <2>1, <2>2, BrowserSizable, SizableTuples
  <1>6. Sizable(BrowserRules!Discovered, tree)
    <2> DEFINE f == [i \in DOMAIN BrowserRules!Configs |->
                       BrowserRules!ChromiumTargets(BrowserRules!Configs[i])]
    <2>1. 6 \in Nat /\ DOMAIN BrowserRules!Configs = 1..6
      BY DEF BrowserRules!Configs
    <2>2. f = [i \in 1..6 |-> f[i]]
      BY <2>1, Zenon
    <2>3. \A i \in 1..6 : Sizable(f[i], tree)
      BY <1>3, <2>1
    <2>4. Sizable(FlattenSeq(f), tree)
      <3> HIDE DEF f
      <3> QED
        BY <2>1, <2>2, <2>3, SizableByIndex, Zenon
    <2>5. BrowserRules!Discovered
            = BrowserRules!FirefoxTargets \o FlattenSeq(f) \o BrowserRules!SystemTemps
      BY BrowserOps, Zenon DEF BrowserRules!Discovered
    <2> HIDE DEF f
    <2> QED
      BY <1>2, <1>5, <2>4, <2>5, SizableJoined
  <1> QED
    BY <1>6

(* h adds up the sizes of the targets of a list, of those categories, the  *)
(* last first: what TotalOf folds to.                                      *)
Totals(list, cats, D, h) ==
  h = [S \in SUBSET D |->
         IF S = {} THEN 0
         ELSE IF list[Max(S)].category \in cats THEN h[S \ {Max(S)}] + list[Max(S)].size
         ELSE h[S \ {Max(S)}]]

LEMMA TotalIsASum ==
  ASSUME NEW n \in Nat, NEW list, NEW cats, NEW s,
         \A i \in 1..n : list[i].category \in cats /\ list[i].size = s[i] /\ s[i] \in Int
  PROVE  (CHOOSE h : Totals(list, cats, 1..n, h))[1..n] = SumOver(s, 1..n)
  <1> DEFINE D == 1..n
             k == [S \in SUBSET D |-> SumOver(s, S)]
             h == CHOOSE g : Totals(list, cats, D, g)
  <1>1. IsFiniteSet(D)
    BY FS_Interval
  <1>2. ASSUME NEW S \in SUBSET D, S # {}
        PROVE  /\ Max(S) \in S /\ S \ {Max(S)} \in SUBSET D
               /\ list[Max(S)].category \in cats
               /\ SumOver(s, S) = SumOver(s, S \ {Max(S)}) + list[Max(S)].size
    <2>1. Max(S) \in S
      BY <1>2, GreatestNumber
    <2> DEFINE m == Max(S)
               R == S \ {m}
    <2>2. IsFiniteSet(S) /\ IsFiniteSet(R) /\ \A x \in S : s[x] \in Int
      BY <1>1, FS_Subset
    <2>3. m \in S
      BY <2>1
    <2> HIDE DEF m
    <2>4. SumOver(s, S) = s[m] + SumOver(s, R)
      <3>1. SumOver(s, S) = s[m] + SumOver(s, S \ {m})
        <4> HIDE DEF R, D, k, h
        <4> QED
          BY <2>2, <2>3, SumTakes
      <3> QED
        BY <3>1
    <2>5. \A x \in R : s[x] \in Int
      BY <2>2
    <2>6. SumOver(s, R) \in Int
      <3> HIDE DEF R
      <3> QED
        BY <2>2, <2>5, SumIsInt
    <2>7. s[m] \in Int /\ s[m] = list[m].size /\ list[m].category \in cats
      BY <2>3
    <2>8. SumOver(s, S) = SumOver(s, R) + list[m].size
      <3> HIDE DEF R
      <3> QED
        BY <2>4, <2>6, <2>7
    <2> QED
      BY <2>3, <2>7, <2>8 DEF m
  <1>3. Totals(list, cats, D, k)
    <2> DEFINE r == [S \in SUBSET D |->
                       IF S = {} THEN 0
                       ELSE IF list[Max(S)].category \in cats
                            THEN k[S \ {Max(S)}] + list[Max(S)].size
                       ELSE k[S \ {Max(S)}]]
    <2>1. ASSUME NEW S \in SUBSET D PROVE k[S] = r[S]
      <3>1. CASE S = {}
        BY <3>1, SumOfNone
      <3>2. CASE S # {}
        <4>1. k[S \ {Max(S)}] = SumOver(s, S \ {Max(S)})
          BY <1>2, <3>2
        <4>2. r[S] = k[S \ {Max(S)}] + list[Max(S)].size
          <5> HIDE DEF k
          <5> QED
            BY <1>2, <3>2
        <4> HIDE DEF r, D
        <4>3. k[S] = SumOver(s, S)
          OBVIOUS
        <4> HIDE DEF k
        <4> QED
          BY <1>2, <3>2, <4>1, <4>2, <4>3
      <3> QED
        BY <3>1, <3>2
    <2>2. k = [S \in SUBSET D |-> k[S]] /\ r = [S \in SUBSET D |-> r[S]]
      OBVIOUS
    <2>3. k = r
      <3> HIDE DEF k, r, D
      <3> QED
        BY <2>1, <2>2
    <2> HIDE DEF k
    <2> QED
      BY <2>3, Zenon DEF Totals
  <1>4. Totals(list, cats, D, h)
    <2> HIDE DEF k, D
    <2> QED
      BY <1>3, Zenon
  <1> DEFINE F == {S \in SUBSET D : h[S] # SumOver(s, S)}
  <1>5. F = {}
    <2> SUFFICES ASSUME F # {} PROVE FALSE
      OBVIOUS
    <2>0. F \subseteq SUBSET D
      OBVIOUS
    <2> HIDE DEF F, D, h
    <2>1. PICK S \in F : \A R \in F : R \subseteq S => R = S
      BY <1>1, <2>0, MinimalSet
    <2>2. S \in SUBSET D
      BY <2>0
    <2>3. h[S] = IF S = {} THEN 0
                 ELSE IF list[Max(S)].category \in cats THEN h[S \ {Max(S)}] + list[Max(S)].size
                 ELSE h[S \ {Max(S)}]
      BY <1>4, <2>2 DEF Totals
    <2>4. CASE S = {}
      BY <2>1, <2>3, <2>4, SumOfNone DEF F
    <2>5. CASE S # {}
      <3>1. /\ Max(S) \in S /\ S \ {Max(S)} \in SUBSET D /\ list[Max(S)].category \in cats
            /\ SumOver(s, S) = SumOver(s, S \ {Max(S)}) + list[Max(S)].size
        BY <1>2, <2>2, <2>5
      <3>2. S \ {Max(S)} \notin F
        BY <2>1, <3>1
      <3>3. h[S \ {Max(S)}] = SumOver(s, S \ {Max(S)})
        BY <3>1, <3>2 DEF F
      <3>4. h[S] = SumOver(s, S)
        BY <2>3, <2>5, <3>1, <3>3
      <3> QED
        BY <2>1, <3>4 DEF F
    <2> QED
      BY <2>4, <2>5
  <1>6. h[D] = SumOver(s, D)
    <2>1. D \in SUBSET D
      OBVIOUS
    <2> HIDE DEF D, h
    <2> QED
      BY <1>5, <2>1 DEF F
  <1> QED
    BY <1>6

(* The total of a report is the sum of the sizes, whichever list is told.  *)
LEMMA SystemTotal ==
  ASSUME NEW n \in Nat, NEW list, DOMAIN list = 1..n, NEW s,
         \A i \in 1..n : list[i].size = s[i] /\ s[i] \in Int
  PROVE  System!BuildReport(list).total = SumOver(s, 1..n)
  <1> DEFINE D == DOMAIN list
             d == [i \in D |-> i]
             cats == System!Categories(list)
             E(h) == [S \in SUBSET D |->
                        IF S = {} THEN 0
                        ELSE IF list[d[Max(S)]].category \in cats
                             THEN h[S \ {Max(S)}] + list[d[Max(S)]].size
                        ELSE h[S \ {Max(S)}]]
             F(h) == [S \in SUBSET D |->
                        IF S = {} THEN 0
                        ELSE IF list[Max(S)].category \in cats
                             THEN h[S \ {Max(S)}] + list[Max(S)].size
                        ELSE h[S \ {Max(S)}]]
  <1>1. System!BuildReport(list).total = System!TotalOf(list, cats)
    BY DEF System!BuildReport
  <1>2. DOMAIN d = D
    OBVIOUS
  <1>3. System!TotalOf(list, cats) = (CHOOSE h : h = E(h))[D]
    <2>1. System!TotalOf(list, cats)
            = (CHOOSE h : h = [S \in SUBSET (DOMAIN d) |->
                        IF S = {} THEN 0
                        ELSE IF list[d[Max(S)]].category \in cats
                             THEN h[S \ {Max(S)}] + list[d[Max(S)]].size
                        ELSE h[S \ {Max(S)}]])[DOMAIN d]
      <3> HIDE DEF cats
      <3> QED
        BY Zenon DEF System!TotalOf, System!FoldLeftDomain, System!FoldLeft, System!MapThenFoldSet,
           System!Max, Max
    <2> HIDE DEF cats
    <2> QED
      BY <1>2, <2>1, Zenon
  <1>4. \A i \in 1..n : list[i].category \in cats
    BY DEF System!Categories
  <1> HIDE DEF cats
  <1>5. ASSUME NEW h PROVE E(h) = F(h)
    <2>1. ASSUME NEW S \in SUBSET D, S # {} PROVE d[Max(S)] = Max(S)
      <3>1. Max(S) \in S
        BY <2>1, GreatestNumber
      <3> QED
        BY <3>1
    <2> HIDE DEF d, D
    <2> QED
      BY <2>1, Zenon
  <1>6. (CHOOSE h : h = E(h)) = CHOOSE h : Totals(list, cats, D, h)
    <2>1. \A h : Totals(list, cats, D, h) <=> h = F(h)
      BY Zenon DEF Totals
    <2> HIDE DEF E, F
    <2> QED
      BY <1>5, <2>1, Zenon
  <1>7. (CHOOSE h : Totals(list, cats, 1..n, h))[1..n] = SumOver(s, 1..n)
    BY <1>4, TotalIsASum
  <1> HIDE DEF E, d
  <1> QED
    BY <1>1, <1>3, <1>6, <1>7, Zenon

LEMMA BrowserTotal ==
  ASSUME NEW n \in Nat, NEW list, DOMAIN list = 1..n, NEW s,
         \A i \in 1..n : list[i].size = s[i] /\ s[i] \in Int
  PROVE  Browser!BuildReport(list).total = SumOver(s, 1..n)
  <1> DEFINE D == DOMAIN list
             d == [i \in D |-> i]
             cats == Browser!Categories(list)
             E(h) == [S \in SUBSET D |->
                        IF S = {} THEN 0
                        ELSE IF list[d[Max(S)]].category \in cats
                             THEN h[S \ {Max(S)}] + list[d[Max(S)]].size
                        ELSE h[S \ {Max(S)}]]
             F(h) == [S \in SUBSET D |->
                        IF S = {} THEN 0
                        ELSE IF list[Max(S)].category \in cats
                             THEN h[S \ {Max(S)}] + list[Max(S)].size
                        ELSE h[S \ {Max(S)}]]
  <1>1. Browser!BuildReport(list).total = Browser!TotalOf(list, cats)
    BY DEF Browser!BuildReport
  <1>2. DOMAIN d = D
    OBVIOUS
  <1>3. Browser!TotalOf(list, cats) = (CHOOSE h : h = E(h))[D]
    <2>1. Browser!TotalOf(list, cats)
            = (CHOOSE h : h = [S \in SUBSET (DOMAIN d) |->
                        IF S = {} THEN 0
                        ELSE IF list[d[Max(S)]].category \in cats
                             THEN h[S \ {Max(S)}] + list[d[Max(S)]].size
                        ELSE h[S \ {Max(S)}]])[DOMAIN d]
      <3> HIDE DEF cats
      <3> QED
        BY Zenon DEF Browser!TotalOf, Browser!FoldLeftDomain, Browser!FoldLeft, Browser!MapThenFoldSet,
           Browser!Max, Max
    <2> HIDE DEF cats
    <2> QED
      BY <1>2, <2>1, Zenon
  <1>4. \A i \in 1..n : list[i].category \in cats
    BY DEF Browser!Categories
  <1> HIDE DEF cats
  <1>5. ASSUME NEW h PROVE E(h) = F(h)
    <2>1. ASSUME NEW S \in SUBSET D, S # {} PROVE d[Max(S)] = Max(S)
      <3>1. Max(S) \in S
        BY <2>1, GreatestNumber
      <3> QED
        BY <3>1
    <2> HIDE DEF d, D
    <2> QED
      BY <2>1, Zenon
  <1>6. (CHOOSE h : h = E(h)) = CHOOSE h : Totals(list, cats, D, h)
    <2>1. \A h : Totals(list, cats, D, h) <=> h = F(h)
      BY Zenon DEF Totals
    <2> HIDE DEF E, F
    <2> QED
      BY <1>5, <2>1, Zenon
  <1>7. (CHOOSE h : Totals(list, cats, 1..n, h))[1..n] = SumOver(s, 1..n)
    BY <1>4, TotalIsASum
  <1> HIDE DEF E, d
  <1> QED
    BY <1>1, <1>3, <1>6, <1>7, Zenon

(* The size of each target, with those that are looked up. *)
SizesOf(list) ==
  [i \in DOMAIN list |->
     IF list[i].size # Unsized THEN list[i].size
     ELSE SumOver([p \in list[i].paths |-> PathSize(p)], list[i].paths)]

LEMMA SizesOfPaths ==
  ASSUME Tidy(tree), NEW p
  PROVE  /\ Fits(PathSize(p), p, tree)
         /\ System!PathSize(p) = PathSize(p) /\ Browser!PathSize(p) = PathSize(p)
  <1>1. PathSize(p) = BrowserRules!PathSize(p)
    BY Zenon DEF PathSize, IsFile, Is, SizeOf, FilesBelow, Inside, MapThenSumSet, MapThenFoldSet,
       BrowserRules!PathSize, BrowserRules!IsFile, BrowserRules!Is, BrowserRules!SizeOf,
       BrowserRules!FilesBelow, BrowserRules!Inside, BrowserRules!MapThenSumSet, BrowserRules!MapThenFoldSet,
       IsStrictPrefix, IsPrefix, BrowserRules!IsStrictPrefix, BrowserRules!IsPrefix
  <1>2. System!PathSize(p) = PathSize(p)
    BY Zenon DEF PathSize, IsFile, Is, SizeOf, FilesBelow, Inside, MapThenSumSet, MapThenFoldSet,
       System!PathSize, System!IsFile, System!Is, System!SizeOf,
       System!FilesBelow, System!Inside, System!MapThenSumSet, System!MapThenFoldSet,
       IsStrictPrefix, IsPrefix, System!IsStrictPrefix, System!IsPrefix
  <1>3. Browser!PathSize(p) = PathSize(p)
    BY Zenon DEF PathSize, IsFile, Is, SizeOf, FilesBelow, Inside, MapThenSumSet, MapThenFoldSet,
       Browser!PathSize, Browser!IsFile, Browser!Is, Browser!SizeOf,
       Browser!FilesBelow, Browser!Inside, Browser!MapThenSumSet, Browser!MapThenFoldSet,
       IsStrictPrefix, IsPrefix, Browser!IsStrictPrefix, Browser!IsPrefix
  <1> QED
    BY <1>1, <1>2, <1>3, BrowserSizesOf

(* A sum that a cleaner takes of the sizes of paths is one of PathSize.    *)
LEMMA SystemSums ==
  ASSUME Tidy(tree), NEW S
  PROVE  System!MapThenSumSet(System!PathSize, S) = SumOver([p \in S |-> PathSize(p)], S)
  <1> DEFINE z == [p \in S |-> PathSize(p)]
             E(g) == [s \in SUBSET S |->
                        IF s = {} THEN 0 ELSE System!PathSize(Some(s)) + g[s \ {Some(s)}]]
             F(g) == [s \in SUBSET S |-> IF s = {} THEN 0 ELSE z[Some(s)] + g[s \ {Some(s)}]]
  <1>1. System!MapThenSumSet(System!PathSize, S) = (CHOOSE g : g = E(g))[S]
    BY Zenon DEF System!MapThenSumSet, System!MapThenFoldSet, Some
  <1>2. SumOver(z, S) = (CHOOSE g : g = F(g))[S]
    BY Zenon DEF SumOver, MapThenSumSet, MapThenFoldSet, Some
  <1>3. ASSUME NEW g PROVE E(g) = F(g)
    <2>1. ASSUME NEW s \in SUBSET S, s # {} PROVE System!PathSize(Some(s)) = z[Some(s)]
      <3>1. Some(s) \in S
        BY <2>1, Zenon DEF Some
      <3> QED
        BY <3>1, SizesOfPaths
    <2> HIDE DEF z
    <2> QED
      BY <2>1, Zenon
  <1> HIDE DEF E, F
  <1> QED
    BY <1>1, <1>2, <1>3, Zenon

LEMMA SystemSized ==
  ASSUME Tidy(tree), NEW list, AreTargets(list)
  PROVE  /\ DOMAIN System!Sized(list) = DOMAIN list
         /\ \A i \in DOMAIN list : System!Sized(list)[i].paths = list[i].paths
                                   /\ System!Sized(list)[i].size = SizesOf(list)[i]
  <1>1. DOMAIN System!Sized(list) = DOMAIN list
    BY DEF System!Sized
  <1>2. ASSUME NEW i \in DOMAIN list
        PROVE  System!Sized(list)[i].paths = list[i].paths
               /\ System!Sized(list)[i].size = SizesOf(list)[i]
    <2> DEFINE t == list[i]
               m == System!MapThenSumSet(System!PathSize, t.paths)
    <2>1. System!Sized(list)[i] = IF t.size # Unsized THEN t ELSE [t EXCEPT !.size = m]
      BY Zenon DEF System!Sized, System!Unsized, Unsized
    <2>2. t = [category |-> t.category, paths |-> t.paths, size |-> t.size]
      BY DEF AreTargets, Elems
    <2>3. m = SumOver([p \in t.paths |-> PathSize(p)], t.paths)
      BY SystemSums
    <2>4. SizesOf(list)[i] = IF t.size # Unsized THEN t.size ELSE m
      BY <2>3, Zenon DEF SizesOf
    <2> HIDE DEF t, m
    <2>5. [t EXCEPT !.size = m].paths = t.paths /\ [t EXCEPT !.size = m].size = m
      BY <2>2
    <2> QED
      BY <2>1, <2>4, <2>5 DEF t
  <1> QED
    BY <1>1, <1>2

LEMMA BrowserSums ==
  ASSUME Tidy(tree), NEW S
  PROVE  Browser!MapThenSumSet(Browser!PathSize, S) = SumOver([p \in S |-> PathSize(p)], S)
  <1> DEFINE z == [p \in S |-> PathSize(p)]
             E(g) == [s \in SUBSET S |->
                        IF s = {} THEN 0 ELSE Browser!PathSize(Some(s)) + g[s \ {Some(s)}]]
             F(g) == [s \in SUBSET S |-> IF s = {} THEN 0 ELSE z[Some(s)] + g[s \ {Some(s)}]]
  <1>1. Browser!MapThenSumSet(Browser!PathSize, S) = (CHOOSE g : g = E(g))[S]
    BY Zenon DEF Browser!MapThenSumSet, Browser!MapThenFoldSet, Some
  <1>2. SumOver(z, S) = (CHOOSE g : g = F(g))[S]
    BY Zenon DEF SumOver, MapThenSumSet, MapThenFoldSet, Some
  <1>3. ASSUME NEW g PROVE E(g) = F(g)
    <2>1. ASSUME NEW s \in SUBSET S, s # {} PROVE Browser!PathSize(Some(s)) = z[Some(s)]
      <3>1. Some(s) \in S
        BY <2>1, Zenon DEF Some
      <3> QED
        BY <3>1, SizesOfPaths
    <2> HIDE DEF z
    <2> QED
      BY <2>1, Zenon
  <1> HIDE DEF E, F
  <1> QED
    BY <1>1, <1>2, <1>3, Zenon

LEMMA BrowserSized ==
  ASSUME Tidy(tree), NEW list, AreTargets(list)
  PROVE  /\ DOMAIN Browser!Sized(list) = DOMAIN list
         /\ \A i \in DOMAIN list : Browser!Sized(list)[i].paths = list[i].paths
                                   /\ Browser!Sized(list)[i].size = SizesOf(list)[i]
  <1>1. DOMAIN Browser!Sized(list) = DOMAIN list
    BY DEF Browser!Sized
  <1>2. ASSUME NEW i \in DOMAIN list
        PROVE  Browser!Sized(list)[i].paths = list[i].paths
               /\ Browser!Sized(list)[i].size = SizesOf(list)[i]
    <2> DEFINE t == list[i]
               m == Browser!MapThenSumSet(Browser!PathSize, t.paths)
    <2>1. Browser!Sized(list)[i] = IF t.size # Unsized THEN t ELSE [t EXCEPT !.size = m]
      BY Zenon DEF Browser!Sized, Browser!Unsized, Unsized
    <2>2. t = [category |-> t.category, paths |-> t.paths, size |-> t.size]
      BY DEF AreTargets, Elems
    <2>3. m = SumOver([p \in t.paths |-> PathSize(p)], t.paths)
      BY BrowserSums
    <2>4. SizesOf(list)[i] = IF t.size # Unsized THEN t.size ELSE m
      BY <2>3, Zenon DEF SizesOf
    <2> HIDE DEF t, m
    <2>5. [t EXCEPT !.size = m].paths = t.paths /\ [t EXCEPT !.size = m].size = m
      BY <2>2
    <2> QED
      BY <2>1, <2>4, <2>5 DEF t
  <1> QED
    BY <1>1, <1>2

(* When the sizes are known, nothing is erased yet, and each path has its  *)
(* share.                                                                  *)
LEMMA BalancedAtFirst ==
  ASSUME NEW D, NEW others, Since(D, {}, others, tree), NEW old, Sizable(old, D),
         NEW list, DOMAIN list = DOMAIN old, \A i \in DOMAIN old : list[i].paths = old[i].paths,
         NEW total, total = SumOver(SizesOf(old), DOMAIN old)
  PROVE  /\ Balanced(list, total, {}, others, tree)
         /\ \A i \in DOMAIN old : SizesOf(old)[i] \in Int
  <1> DEFINE s == SizesOf(old)
             P == [i \in DOMAIN old |-> old[i].paths]
             C == CellsOf(list)
             w == [c \in C |-> IF old[c[1]].size # Unsized THEN old[c[1]].size ELSE PathSize(c[2])]
  <1>0. Tidy(tree)
    BY TidyWithin DEF Since
  <1>1. PICK n \in Nat : DOMAIN old = 1..n
    BY ListDomain DEF Sizable, AreTargets
  <1>2. \A i \in 1..n : IsFiniteSet(P[i]) /\ P[i] = old[i].paths
    BY <1>1 DEF Sizable, Elems
  <1>3. C = Cells(P, n)
    <2>1. \A i \in 1..n : {i} \X list[i].paths = {i} \X P[i]
      BY <1>1, <1>2
    <2> HIDE DEF P
    <2> QED
      BY <1>1, <2>1, Zenon DEF CellsOf, Cells
  <1>4. \A c \in C : \E i \in 1..n : c[1] = i /\ c[2] \in P[i] /\ c = <<i, c[2]>>
    <2> HIDE DEF P, C
    <2> QED
      BY <1>3 DEF Cells
  <1>5. \A i \in 1..n : old[i].size = Unsized \/ SizedAlone(old[i], D)
    BY <1>1 DEF Sizable, Elems
  <1>6. \A p : Fits(PathSize(p), p, tree)
    BY <1>0, SizesOfPaths
  <1>7. ASSUME NEW c \in C
        PROVE  /\ w[c] \in Nat /\ w[c] >= Load(c[2], tree)
               /\ NotALink(c[2], tree) /\ Apart(c[2], others) => w[c] = Load(c[2], tree)
    <2>1. PICK i \in 1..n : c[1] = i /\ c[2] \in P[i]
      BY <1>4
    <2>2. w[c] = IF old[i].size # Unsized THEN old[i].size ELSE PathSize(c[2])
      BY <2>1
    <2> HIDE DEF w
    <2>3. CASE old[i].size = Unsized
      <3>1. Fits(w[c], c[2], tree)
        BY <1>6, <2>2, <2>3
      <3> QED
        BY <3>1 DEF Fits
    <2>4. CASE old[i].size # Unsized
      <3>1. PICK p : old[i].paths = {p} /\ Fits(old[i].size, p, D)
        BY <1>5, <2>4 DEF SizedAlone
      <3>2. c[2] = p
        BY <1>2, <2>1, <3>1
      <3>3. Fits(w[c], c[2], D)
        BY <2>2, <2>4, <3>1, <3>2
      <3> HIDE DEF C
      <3> QED
        BY <3>3, FitsSince
    <2> QED
      BY <2>3, <2>4
  <1>8. ASSUME NEW i \in 1..n
        PROVE  s[i] = SumOver([p \in P[i] |-> w[<<i, p>>]], P[i])
    <2> DEFINE Q == P[i]
               r == [p \in Q |-> w[<<i, p>>]]
    <2>1. ASSUME NEW p \in Q
          PROVE  r[p] = IF old[i].size # Unsized THEN old[i].size ELSE PathSize(p)
      <3> DEFINE c == <<i, p>>
      <3>1. c \in C /\ c[1] = i /\ c[2] = p
        <4> HIDE DEF C, P, w
        <4> QED
          BY <1>3 DEF Cells
      <3> HIDE DEF c
      <3>2. w[c] = IF old[i].size # Unsized THEN old[i].size ELSE PathSize(p)
        BY <3>1
      <3>3. r[p] = w[c]
        <4> HIDE DEF w, Q
        <4> QED
          BY DEF c
      <3> HIDE DEF r, w
      <3> QED
        BY <3>2, <3>3
    <2>2. s[i] = IF old[i].size # Unsized THEN old[i].size
                 ELSE SumOver([p \in old[i].paths |-> PathSize(p)], old[i].paths)
      BY <1>1, Zenon DEF SizesOf
    <2>3. Q = old[i].paths /\ IsFiniteSet(Q)
      BY <1>2
    <2>4. CASE old[i].size = Unsized
      <3>1. r = [p \in Q |-> PathSize(p)]
        <4>1. r = [p \in Q |-> r[p]]
          OBVIOUS
        <4> HIDE DEF r, Q
        <4> QED
          BY <2>1, <2>4, <4>1
      <3> HIDE DEF r, Q, s
      <3>2. s[i] = SumOver(r, Q)
        BY <2>2, <2>3, <2>4, <3>1
      <3> QED
        BY <3>2 DEF r, Q
    <2>5. CASE old[i].size # Unsized
      <3>1. PICK p : old[i].paths = {p} /\ old[i].size \in Nat
        BY <1>5, <2>5 DEF SizedAlone, Fits
      <3>2. p \in Q /\ Q \ {p} = {} /\ r[p] = old[i].size
        <4>1. Q = {p}
          BY <2>3, <3>1
        <4>2. p \in Q
          BY <4>1
        <4>3. r[p] = old[i].size
          <5> HIDE DEF r, Q
          <5> QED
            BY <2>1, <2>5, <4>2
        <4> HIDE DEF r, Q
        <4> QED
          BY <4>1, <4>3
      <3>3. \A q \in Q : r[q] \in Int
        <4> HIDE DEF r
        <4> QED
          BY <2>1, <2>5, <3>1
      <3> HIDE DEF r, Q, s
      <3>4. SumOver(r, Q) = r[p] + SumOver(r, Q \ {p})
        BY <2>3, <3>2, <3>3, SumTakes
      <3>5. SumOver(r, Q \ {p}) = 0
        BY <3>2, SumOfNone
      <3>6. s[i] = SumOver(r, Q)
        BY <2>2, <2>5, <3>1, <3>2, <3>4, <3>5
      <3> QED
        BY <3>6 DEF r, Q
    <2> QED
      BY <2>4, <2>5
  <1>9. IsFiniteSet(Cells(P, n)) /\ SumOver(w, Cells(P, n)) = SumOver(s, 1..n)
    <2>1. \A c \in Cells(P, n) : w[c] \in Nat
      <3> HIDE DEF w, C, P
      <3> QED
        BY <1>3, <1>7
    <2>2. \A i \in 1..n : IsFiniteSet(P[i])
      BY <1>2
    <2>3. \A i \in 1..n : s[i] = SumOver([p \in P[i] |-> w[<<i, p>>]], P[i])
      BY <1>8
    <2> HIDE DEF w, P, s
    <2> QED
      BY <2>1, <2>2, <2>3, SumOfRows
  <1>10. \A i \in 1..n : s[i] \in Int
    <2>1. ASSUME NEW i \in 1..n PROVE s[i] \in Int
      <3> DEFINE Q == P[i]
                 r == [p \in Q |-> w[<<i, p>>]]
      <3>1. IsFiniteSet(Q)
        BY <1>2
      <3>2. \A p \in Q : r[p] \in Int
        <4>1. \A p \in Q : <<i, p>> \in C
          <5> HIDE DEF C, P, w
          <5> QED
            BY <1>3 DEF Cells
        <4> HIDE DEF w, C, Q
        <4> QED
          BY <1>7, <4>1
      <3>3. s[i] = SumOver(r, Q)
        BY <1>8
      <3> HIDE DEF r, Q, s
      <3> QED
        BY <3>1, <3>2, <3>3, SumIsInt
    <2> QED
      BY <2>1
  <1>11. Weighing(w, list, total, others, tree)
    <2>1. IsFiniteSet(C) /\ total = SumOver(w, C)
      <3> HIDE DEF w, C, P, s
      <3> QED
        BY <1>1, <1>3, <1>9 DEF s
    <2> HIDE DEF w
    <2> QED
      BY <1>7, <2>1 DEF Weighing
  <1>12. Taken(list, {}, tree, tree)
    BY FS_EmptySet DEF Taken
  <1>13. Since(tree, {}, others, tree)
    BY <1>0, SinceNow
  <1> HIDE DEF w, s
  <1> QED
    BY <1>1, <1>10, <1>11, <1>12, <1>13 DEF Balanced, s

(* What is in the tree and not listed. *)
Unlisted(list, T) == {p \in DOMAIN T : ~Listed(p, list)}

(* The books of a run: nothing is erased before the report, and from then  *)
(* on it balances; only what is listed is to be visited, or walked.        *)
Ledger(phase, request, list, report, todo, walk, gone, others, T) ==
  /\ phase \in {"idle", "found", "cleaning", "done"}
  /\ phase \in {"idle", "found"} => gone = {}
  /\ phase = "found" => \E D : Since(D, {}, others, T) /\ Sizable(list, D)
  /\ phase \in {"cleaning", "done"} => Balanced(list, report.total, gone, others, T)
  /\ phase = "cleaning" => ~request.dry /\ ClearOf(todo, Unlisted(list, T))
  /\ walk # <<>> => phase = "cleaning" /\ todo # <<>> /\ Listed(walk, list)
  /\ phase = "done" /\ request.dry => gone = {}

LEMMA UnlistedShrinks ==
  ASSUME NEW list, NEW T, NEW T2, Within(T2, T), NEW todo, ClearOf(todo, Unlisted(list, T))
  PROVE  ClearOf(todo, Unlisted(list, T2))
  <1>1. Unlisted(list, T2) \subseteq Unlisted(list, T)
    BY DEF Unlisted, Within
  <1> QED
    BY <1>1 DEF ClearOf

LEMMA LedgerLater ==
  ASSUME NEW phase, NEW request, NEW list, NEW report, NEW todo, NEW walk, NEW gone, NEW others,
         NEW T, Ledger(phase, request, list, report, todo, walk, gone, others, T),
         NEW others2, others \subseteq others2, NEW T2, Follows(T2, T, others2)
  PROVE  Ledger(phase, request, list, report, todo, walk, gone, others2, T2)
  <1>1. Within(T2, T) /\ others2 = {} \cup others2
    BY DEF Follows
  <1>2. ClearOf(todo, Unlisted(list, T)) => ClearOf(todo, Unlisted(list, T2))
    BY <1>1, UnlistedShrinks
  <1>3. \A D : Since(D, {}, others, T) => Since(D, {}, others2, T2)
    BY <1>1, SinceLater
  <1>4. Balanced(list, report.total, gone, others, T) => Balanced(list, report.total, gone, others2, T2)
    BY BalancedLater
  <1> QED
    BY <1>2, <1>3, <1>4 DEF Ledger

(* What is to be visited at first is listed.                               *)
LEMMA VisitListed ==
  ASSUME NEW T, NEW old, AreTargets(old),
         NEW list, DOMAIN list = DOMAIN old, \A i \in DOMAIN old : list[i].paths = old[i].paths,
         NEW cats, NEW todo,
         todo = FlattenSeq([i \in DOMAIN old |->
                  IF old[i].category \in cats THEN <<old[i].paths>> ELSE <<>>])
  PROVE  ClearOf(todo, Unlisted(list, T))
  <1> DEFINE H == Unlisted(list, T)
  <1>1. ASSUME NEW i \in DOMAIN old, NEW p \in old[i].paths PROVE p \notin H
    <2> DEFINE c == <<i, p>>
    <2>1. c \in CellsOf(list) /\ c[2] = p
      BY DEF CellsOf
    <2> HIDE DEF c
    <2>2. Listed(p, list)
      BY <2>1 DEF Listed
    <2> QED
      BY <2>2 DEF Unlisted
  <1>2. Spares(old, H)
    <2> HIDE DEF H
    <2> QED
      BY <1>1 DEF Spares, Elems
  <1> HIDE DEF H
  <1>3. ClearOf(todo, H)
    BY <1>2, VisitSpares, Zenon
  <1> QED
    BY <1>3 DEF H

(* What goes leaves the rest as it was.                                    *)
LEMMA TakeFollows ==
  ASSUME NEW T, NEW p \in DOMAIN T, \A q \in DOMAIN T : ~IsStrictPrefix(p, q),
         NEW T2, T2 = [q \in DOMAIN T \ {p} |-> T[q]], NEW E, <<p, T[p]>> \in E
  PROVE  Follows(T2, T, E) /\ p \notin DOMAIN T2
  <1>1. DOMAIN T2 = DOMAIN T \ {p} /\ \A q \in DOMAIN T \ {p} : T2[q] = T[q]
    OBVIOUS
  <1>2. p \in PathsIn(E)
    <2> DEFINE e == <<p, T[p]>>
    <2>1. e \in E /\ e[1] = p
      OBVIOUS
    <2> HIDE DEF e
    <2> QED
      BY <2>1 DEF PathsIn
  <1>3. ASSUME NEW d \in DOMAIN T, NEW q \in DOMAIN T2, IsPrefix(d, q) PROVE d \in DOMAIN T2
    <2>1. d # p
      <3>1. q \in DOMAIN T /\ q # p
        BY <1>1
      <3> QED
        BY <1>3, <3>1, Zenon DEF IsStrictPrefix
    <2> QED
      BY <1>1, <2>1
  <1> QED
    BY <1>1, <1>2, <1>3 DEF Follows, Within

LEMMA FollowsItself ==
  ASSUME NEW T, NEW E
  PROVE  Follows(T, T, E)
  BY DEF Follows, Within

(* The books of a run that cleans.                                         *)
LEMMA LedgerGoesOn ==
  ASSUME NEW request, ~request.dry, NEW list, NEW report, NEW T, NEW T2, Within(T2, T),
         NEW todo, ClearOf(todo, Unlisted(list, T)), NEW todo2,
         \/ todo2 = todo
         \/ todo # <<>> /\ \E p : todo2 = IF Head(todo) = {p} THEN Tail(todo)
                                                             ELSE [todo EXCEPT ![1] = @ \ {p}],
         NEW walk2, walk2 # <<>> => todo2 # <<>> /\ Listed(walk2, list),
         NEW gone2, NEW others, Balanced(list, report.total, gone2, others, T2)
  PROVE  Ledger("cleaning", request, list, report, todo2, walk2, gone2, others, T2)
  <1> DEFINE H == Unlisted(list, T)
  <1>1. ClearOf(todo2, H)
    <2>1. ASSUME todo # <<>>, NEW p, todo2 = IF Head(todo) = {p} THEN Tail(todo)
                                             ELSE [todo EXCEPT ![1] = @ \ {p}]
          PROVE  ClearOf(todo2, H)
      <3> HIDE DEF H
      <3> QED
        BY <2>1, VisitedSpares DEF H
    <2> QED
      BY <2>1
  <1>2. ClearOf(todo2, Unlisted(list, T2))
    BY <1>1, UnlistedShrinks
  <1> QED
    BY <1>2 DEF Ledger

(* What is freed is the sum of the files that were erased.                 *)
LEMMA SystemFreed ==
  ASSUME NEW files, files = {e \in systemErased : e[2].kind = "file"}
  PROVE  System!Freed = SumOver([e \in files |-> e[2].size], files)
  <1> DEFINE z == [e \in files |-> e[2].size]
             E(g) == [s \in SUBSET files |-> IF s = {} THEN 0 ELSE Some(s)[2].size + g[s \ {Some(s)}]]
             F(g) == [s \in SUBSET files |-> IF s = {} THEN 0 ELSE z[Some(s)] + g[s \ {Some(s)}]]
  <1>1. System!Freed = (CHOOSE g : g = E(g))[files]
    BY Zenon DEF System!Freed, System!MapThenSumSet, System!MapThenFoldSet, Some
  <1>2. SumOver(z, files) = (CHOOSE g : g = F(g))[files]
    BY Zenon DEF SumOver, MapThenSumSet, MapThenFoldSet, Some
  <1>3. ASSUME NEW g PROVE E(g) = F(g)
    <2>1. ASSUME NEW s \in SUBSET files, s # {} PROVE Some(s)[2].size = z[Some(s)]
      <3>1. Some(s) \in files
        BY <2>1, Zenon DEF Some
      <3> QED
        BY <3>1
    <2> HIDE DEF z
    <2> QED
      BY <2>1, Zenon
  <1> HIDE DEF E, F
  <1> QED
    BY <1>1, <1>2, <1>3, Zenon

(* It takes a file, or a directory that is empty.                          *)
SystemMayTake(p) == System!Is(p, {"file"}) \/ (System!IsDir(p) /\ System!Inside(p) = {})

LEMMA SystemTakesOne ==
  ASSUME Tidy(tree), NEW p \in DOMAIN tree, System!Take(p),
         SystemMayTake(p)
  PROVE  /\ tree[p].kind # "link" /\ systemErased' = systemErased \cup {<<p, tree[p]>>}
         /\ Follows(tree', tree, systemErased') /\ p \notin DOMAIN tree'
  <1> DEFINE T2 == tree'
  <1>1. T2 = [q \in DOMAIN tree \ {p} |-> tree[q]] /\ systemErased' = systemErased \cup {<<p, tree[p]>>}
    BY Zenon DEF System!Take
  <1>2. \A q : System!IsStrictPrefix(p, q) = IsStrictPrefix(p, q)
    BY Zenon DEF System!IsStrictPrefix, System!IsPrefix, IsStrictPrefix, IsPrefix
  <1>3. tree[p].kind # "link" /\ \A q \in DOMAIN tree : ~IsStrictPrefix(p, q)
    <2>1. CASE System!Is(p, {"file"})
      BY <2>1 DEF System!Is, Tidy
    <2>2. CASE System!IsDir(p) /\ System!Inside(p) = {}
      BY <1>2, <2>2 DEF System!IsDir, System!Is, System!Inside
    <2> QED
      BY <2>1, <2>2 DEF SystemMayTake
  <1>4. <<p, tree[p]>> \in systemErased'
    BY <1>1
  <1>5. Follows(T2, tree, systemErased') /\ p \notin DOMAIN T2
    <2> HIDE DEF T2
    <2> QED
      BY <1>1, <1>3, <1>4, TakeFollows
  <1> QED
    BY <1>1, <1>3, <1>5

(* Every step of a run leaves what it does not erase.                      *)
LEMMA SystemFollows ==
  ASSUME Tidy(tree), System!Next
  PROVE  Follows(tree', tree, systemErased') /\ systemErased \subseteq systemErased'
  <1>1. \/ UNCHANGED <<tree, systemErased>>
        \/ \E p \in DOMAIN tree : System!Take(p) /\ SystemMayTake(p)
    <2>1. ASSUME System!Walk
          PROVE  UNCHANGED <<tree, systemErased>> \/ \E q \in DOMAIN tree : System!Take(q) /\ SystemMayTake(q)
      BY <2>1, Zenon DEF System!Walk, System!WalkErases, System!WalkRemoves, System!WalkFails, System!WalkIsLost,
         SystemMayTake
    <2>2. ASSUME NEW p, System!Visit(p)
          PROVE  UNCHANGED <<tree, systemErased>> \/ \E q \in DOMAIN tree : System!Take(q) /\ SystemMayTake(q)
      BY <2>2, Zenon DEF System!Visit, System!Erase, System!EraseFails, System!Fails, System!Skip,
         System!Enter, System!Is, SystemMayTake
    <2> QED
      BY <2>1, <2>2, Zenon DEF System!Next, System!Discover, System!Scan, System!Finish
  <1>2. CASE UNCHANGED <<tree, systemErased>>
    BY <1>2, FollowsItself
  <1>3. ASSUME NEW p \in DOMAIN tree, System!Take(p), SystemMayTake(p)
        PROVE  Follows(tree', tree, systemErased') /\ systemErased \subseteq systemErased'
    BY <1>3, SystemTakesOne
  <1> QED
    BY <1>1, <1>2, <1>3

SystemLedger ==
  Ledger(systemPhase, systemRequest, systemTargets, systemReport, systemTodo, systemWalk,
         systemErased, browserErased, tree)

LEMMA SystemLedgerRests ==
  ASSUME SystemLedger, UNCHANGED systemVars, browserErased \subseteq browserErased',
         Follows(tree', tree, browserErased')
  PROVE  SystemLedger'
  <1>1. Ledger(systemPhase, systemRequest, systemTargets, systemReport, systemTodo, systemWalk,
               systemErased, browserErased', tree')
    BY LedgerLater DEF SystemLedger
  <1> QED
    BY <1>1, Zenon DEF SystemLedger, systemVars

LEMMA SystemLedgerScans ==
  ASSUME SystemLedger, Tidy(tree), System!Scan, UNCHANGED browserErased
  PROVE  SystemLedger'
  <1> DEFINE new == System!Sized(systemTargets)
             total == SumOver(SizesOf(systemTargets), DOMAIN systemTargets)
  <1>1. /\ systemPhase = "found" /\ tree' = tree /\ systemRequest' = systemRequest
        /\ systemTargets' = new /\ systemReport' = System!BuildReport(new)
        /\ systemErased' = systemErased /\ systemWalk' = systemWalk
        /\ \/ systemRequest.dry /\ systemPhase' = "done"
           \/ ~systemRequest.dry /\ systemPhase' = "cleaning" /\ systemTodo' = System!ToVisit
    BY Zenon DEF System!Scan, System!Reported
  <1>2. systemErased = {} /\ systemWalk = <<>>
    BY <1>1 DEF SystemLedger, Ledger
  <1>3. PICK D : Since(D, {}, browserErased, tree) /\ Sizable(systemTargets, D)
    BY <1>1 DEF SystemLedger, Ledger
  <1>4. /\ DOMAIN new = DOMAIN systemTargets
        /\ \A i \in DOMAIN systemTargets : new[i].paths = systemTargets[i].paths
        /\ \A i \in DOMAIN systemTargets : new[i].size = SizesOf(systemTargets)[i]
    BY <1>3, SystemSized DEF Sizable
  <1>5. /\ Balanced(new, total, {}, browserErased, tree)
        /\ \A i \in DOMAIN systemTargets : SizesOf(systemTargets)[i] \in Int
    <2> HIDE DEF new
    <2> QED
      BY <1>3, <1>4, BalancedAtFirst
  <1>6. systemReport'.total = total
    <2>1. PICK n \in Nat : DOMAIN systemTargets = 1..n
      BY <1>3, ListDomain DEF Sizable, AreTargets
    <2> DEFINE s == SizesOf(systemTargets)
    <2>2. DOMAIN new = 1..n /\ \A i \in 1..n : new[i].size = s[i] /\ s[i] \in Int
      <3> HIDE DEF new, s
      <3> QED
        BY <1>4, <1>5, <2>1 DEF s
    <2>3. System!BuildReport(new).total = SumOver(s, 1..n)
      <3> HIDE DEF new, s
      <3> QED
        BY <2>2, SystemTotal
    <2> QED
      BY <1>1, <2>1, <2>3
  <1>7. ClearOf(System!ToVisit, Unlisted(new, tree))
    <2> DEFINE todo == System!ToVisit
    <2>1. todo = FlattenSeq([i \in DOMAIN systemTargets |->
            IF systemTargets[i].category \in systemRequest.categories
            THEN <<systemTargets[i].paths>> ELSE <<>>])
      <3>1. \A s : System!FlattenSeq(s) = FlattenSeq(s)
        BY Zenon DEF System!FlattenSeq, FlattenSeq
      <3> QED
        BY <3>1, Zenon DEF System!ToVisit
    <2>2. AreTargets(systemTargets)
      BY <1>3 DEF Sizable
    <2> HIDE DEF new, todo
    <2>3. ClearOf(todo, Unlisted(new, tree))
      BY <1>4, <2>1, <2>2, VisitListed, Zenon
    <2> QED
      BY <2>3 DEF todo
  <1> HIDE DEF new, total
  <1>8. Balanced(systemTargets', systemReport'.total, systemErased', browserErased', tree')
    BY <1>1, <1>2, <1>5, <1>6
  <1> QED
    BY <1>1, <1>2, <1>7, <1>8 DEF SystemLedger, Ledger

(* What it takes off its list is done with, or in what it is walking.      *)
LEMMA SystemLedgerCleans ==
  ASSUME SystemLedger, systemPhase = "cleaning", systemPhase' = "cleaning",
         UNCHANGED <<systemRequest, systemTargets, systemReport, browserErased>>,
         \/ UNCHANGED systemTodo
         \/ systemTodo # <<>> /\ \E p : systemTodo' = System!Visited(p),
         systemWalk' # <<>> => systemTodo' # <<>> /\ Listed(systemWalk', systemTargets),
         \/ UNCHANGED <<tree, systemErased>>
         \/ \E p \in DOMAIN tree :
              /\ Under(p, systemTargets) /\ tree[p].kind # "link"
              /\ systemErased' = systemErased \cup {<<p, tree[p]>>}
              /\ Follows(tree', tree, systemErased') /\ p \notin DOMAIN tree'
  PROVE  SystemLedger'
  <1> DEFINE total == systemReport.total
  <1>1. /\ ~systemRequest.dry /\ ClearOf(systemTodo, Unlisted(systemTargets, tree))
        /\ Balanced(systemTargets, total, systemErased, browserErased, tree)
    BY DEF SystemLedger, Ledger
  <1>2. Balanced(systemTargets, total, systemErased', browserErased, tree')
    <2>1. CASE UNCHANGED <<tree, systemErased>>
      BY <1>1, <2>1
    <2>2. ASSUME NEW p \in DOMAIN tree, Under(p, systemTargets), tree[p].kind # "link",
                 systemErased' = systemErased \cup {<<p, tree[p]>>},
                 Follows(tree', tree, systemErased'), p \notin DOMAIN tree'
          PROVE  Balanced(systemTargets, total, systemErased', browserErased, tree')
      <3> HIDE DEF total
      <3> QED
        BY <1>1, <2>2, BalancedErased
    <2> QED
      BY <2>1, <2>2
  <1>3. Within(tree', tree)
    BY DEF Within, Follows
  <1>4. \/ systemTodo' = systemTodo
        \/ systemTodo # <<>> /\ \E p : systemTodo' = IF Head(systemTodo) = {p} THEN Tail(systemTodo)
                                                     ELSE [systemTodo EXCEPT ![1] = @ \ {p}]
    BY Zenon DEF System!Visited
  <1>5. Ledger("cleaning", systemRequest, systemTargets, systemReport, systemTodo', systemWalk',
               systemErased', browserErased, tree')
    BY <1>1, <1>2, <1>3, <1>4, LedgerGoesOn
  <1> QED
    BY <1>5, Zenon DEF SystemLedger

LEMMA SystemLedgerVisits ==
  ASSUME SystemLedger, Tidy(tree), NEW p, System!Visit(p), UNCHANGED browserErased
  PROVE  SystemLedger'
  <1>1. /\ systemPhase = "cleaning" /\ systemPhase' = "cleaning" /\ systemTodo # <<>>
        /\ p \in Head(systemTodo) /\ systemWalk = <<>>
        /\ UNCHANGED <<systemRequest, systemTargets, systemReport>>
    BY Zenon DEF System!Visit, System!Erase, System!EraseFails, System!Fails, System!Skip, System!Enter,
       System!Pending, System!NoWalk
  <1>2. ASSUME p \in DOMAIN tree PROVE Listed(p, systemTargets) /\ Under(p, systemTargets)
    <2> DEFINE H == Unlisted(systemTargets, tree)
               rest == IF Head(systemTodo) = {p} THEN Tail(systemTodo)
                                                 ELSE [systemTodo EXCEPT ![1] = @ \ {p}]
    <2>1. ClearOf(systemTodo, H)
      BY <1>1 DEF SystemLedger, Ledger
    <2>2. \E r : r = rest
      OBVIOUS
    <2>3. Head(systemTodo) \cap H = {}
      <3> HIDE DEF H
      <3> QED
        BY <1>1, <2>1, <2>2, VisitedSpares
    <2>4. Listed(p, systemTargets)
      BY <1>1, <1>2, <2>3 DEF Unlisted
    <2>5. IsPrefix(p, p)
      BY <1>2, ListIsPrefix DEF Tidy
    <2> QED
      BY <2>4, <2>5 DEF Listed, Under
  <1>3. CASE System!Erase(p)
    <2>1. /\ System!Is(p, {"file"}) /\ System!Take(p) /\ p \in DOMAIN tree
          /\ systemTodo' = System!Visited(p) /\ systemWalk' = systemWalk
      BY <1>3, Zenon DEF System!Erase, System!Is
    <2>2. /\ tree[p].kind # "link" /\ systemErased' = systemErased \cup {<<p, tree[p]>>}
          /\ Follows(tree', tree, systemErased') /\ p \notin DOMAIN tree'
      BY <2>1, SystemTakesOne DEF SystemMayTake
    <2> QED
      BY <1>1, <1>2, <2>1, <2>2, SystemLedgerCleans
  <1>4. CASE System!EraseFails(p) \/ System!Skip(p)
    <2>1. /\ systemTodo' = System!Visited(p) /\ systemWalk' = systemWalk
          /\ UNCHANGED <<tree, systemErased>>
      BY <1>4, Zenon DEF System!EraseFails, System!Fails, System!Skip
    <2> QED
      BY <1>1, <2>1, SystemLedgerCleans
  <1>5. CASE System!Enter(p)
    <2>1. p \in DOMAIN tree /\ systemWalk' = p /\ UNCHANGED <<tree, systemErased, systemTodo>>
      BY <1>5, Zenon DEF System!Enter, System!IsDir, System!Is
    <2> QED
      BY <1>1, <1>2, <2>1, SystemLedgerCleans
  <1> QED
    BY <1>3, <1>4, <1>5, Zenon DEF System!Visit

LEMMA SystemLedgerWalks ==
  ASSUME SystemLedger, Tidy(tree), System!Walk, UNCHANGED browserErased
  PROVE  SystemLedger'
  <1>1. /\ systemWalk # <<>> /\ systemPhase' = systemPhase
        /\ UNCHANGED <<systemRequest, systemTargets, systemReport>>
    BY Zenon DEF System!Walk, System!WalkErases, System!WalkRemoves, System!WalkFails, System!WalkIsLost,
       System!InWalk, System!NoWalk
  <1>2. systemPhase = "cleaning" /\ systemTodo # <<>> /\ Listed(systemWalk, systemTargets)
    BY <1>1 DEF SystemLedger, Ledger
  <1>3. \/ systemWalk' = <<>> /\ systemTodo' = System!Visited(systemWalk)
        \/ UNCHANGED <<systemTodo, systemWalk>>
    BY Zenon DEF System!Walk, System!WalkErases, System!WalkRemoves, System!WalkFails, System!WalkIsLost,
       System!Stops, System!NoWalk
  <1>4. \/ UNCHANGED <<tree, systemErased>>
        \/ \E q \in DOMAIN tree :
             System!IsPrefix(systemWalk, q) /\ System!Take(q) /\ SystemMayTake(q)
    BY Zenon DEF System!Walk, System!WalkErases, System!WalkRemoves, System!WalkFails, System!WalkIsLost,
       System!InWalk, SystemMayTake
  <1>5. ASSUME NEW q \in DOMAIN tree, System!IsPrefix(systemWalk, q), System!Take(q), SystemMayTake(q)
        PROVE  /\ Under(q, systemTargets) /\ tree[q].kind # "link"
               /\ systemErased' = systemErased \cup {<<q, tree[q]>>}
               /\ Follows(tree', tree, systemErased') /\ q \notin DOMAIN tree'
    <2>1. IsPrefix(systemWalk, q)
      BY <1>5, Zenon DEF System!IsPrefix, IsPrefix
    <2>2. Under(q, systemTargets)
      BY <1>2, <2>1 DEF Listed, Under
    <2> QED
      BY <1>5, <2>2, SystemTakesOne
  <1>6. \/ UNCHANGED <<tree, systemErased>>
        \/ \E q \in DOMAIN tree :
             /\ Under(q, systemTargets) /\ tree[q].kind # "link"
             /\ systemErased' = systemErased \cup {<<q, tree[q]>>}
             /\ Follows(tree', tree, systemErased') /\ q \notin DOMAIN tree'
    BY <1>4, <1>5
  <1> QED
    BY <1>1, <1>2, <1>3, <1>6, SystemLedgerCleans

LEMMA SystemLedgerRuns ==
  ASSUME SystemLedger, Tidy(tree), System!Next, UNCHANGED browserErased
  PROVE  SystemLedger'
  <1>1. ASSUME NEW req, System!Discover(req) PROVE SystemLedger'
    <2>1. /\ tree' = tree /\ systemPhase = "idle" /\ systemPhase' = "found"
          /\ systemTargets' = SystemRules!Discovered /\ systemErased' = systemErased
          /\ systemWalk' = systemWalk
      BY <1>1, Zenon DEF System!Discover
    <2>2. Sizable(SystemRules!Discovered, tree)
      BY SystemRulesSize DEF Tidy
    <2>3. systemErased = {} /\ systemWalk = <<>>
      BY <2>1 DEF SystemLedger, Ledger
    <2>4. Since(tree, {}, browserErased, tree)
      BY SinceNow
    <2> QED
      BY <2>1, <2>2, <2>3, <2>4 DEF SystemLedger, Ledger
  <1>2. CASE System!Finish
    <2>1. /\ systemPhase = "cleaning" /\ systemTodo = <<>> /\ systemPhase' = "done"
          /\ UNCHANGED <<tree, systemRequest, systemTargets, systemReport, systemWalk, systemErased>>
      BY <1>2, Zenon DEF System!Finish
    <2> QED
      BY <2>1 DEF SystemLedger, Ledger
  <1>3. ASSUME NEW p, System!Visit(p) PROVE SystemLedger'
    BY <1>3, SystemLedgerVisits
  <1> QED
    BY <1>1, <1>2, <1>3, SystemLedgerScans, SystemLedgerWalks, Zenon DEF System!Next

(* Books that balance are what the run promises.                           *)
LEMMA SystemFreesAsTold ==
  ASSUME SystemLedger
  PROVE  System!FreesWhatItReports(browserErased)
  <1> SUFFICES ASSUME systemPhase = "done" PROVE System!FreesWhatItReports(browserErased)
    BY DEF System!FreesWhatItReports
  <1> DEFINE files == {e \in systemErased : e[2].kind = "file"}
             z == [e \in files |-> e[2].size]
             freed == SumOver(z, files)
  <1>1. /\ Balanced(systemTargets, systemReport.total, systemErased, browserErased, tree)
        /\ systemRequest.dry => systemErased = {}
    BY DEF SystemLedger, Ledger
  <1>2. System!Freed = freed
    <2>1. \E F : F = files
      OBVIOUS
    <2> QED
      BY <2>1, SystemFreed, Zenon
  <1>3. \A e \in files : z[e] = e[2].size
    OBVIOUS
  <1>4. systemRequest.dry => freed = 0
    <2>1. systemRequest.dry => files = {}
      BY <1>1
    <2> HIDE DEF z, files
    <2> QED
      BY <2>1, SumOfNone
  <1> HIDE DEF z
  <1>5. /\ freed <= systemReport.total
        /\ ErasedAlone(systemTargets, systemErased, browserErased) => freed = systemReport.total
    <2>1. \E F : F = files
      OBVIOUS
    <2> QED
      BY <1>1, <1>3, <2>1, BalancedSum
  <1>6. ASSUME System!ListedOnce, System!ListedPaths \subseteq {e[1] : e \in systemErased},
               \A p \in System!ListedPaths, e \in browserErased : ~System!IsPrefix(p, e[1])
        PROVE  ErasedAlone(systemTargets, systemErased, browserErased)
    <2>1. \A p, q : /\ System!IsPrefix(p, q) = IsPrefix(p, q)
                    /\ System!IsStrictPrefix(p, q) = IsStrictPrefix(p, q)
      BY Zenon DEF System!IsStrictPrefix, System!IsPrefix, IsStrictPrefix, IsPrefix
    <2>2. System!ListedPaths = PathsOf(systemTargets)
      BY Zenon DEF System!ListedPaths, PathsOf
    <2> QED
      BY <1>6, <2>1, <2>2 DEF System!ListedOnce, ErasedAlone, OnceEach, PathsIn, Apart
  <1> HIDE DEF freed
  <1> QED
    BY <1>2, <1>4, <1>5, <1>6, Zenon DEF System!FreesWhatItReports

LEMMA BrowserFreed ==
  ASSUME NEW files, files = {e \in browserErased : e[2].kind = "file"}
  PROVE  Browser!Freed = SumOver([e \in files |-> e[2].size], files)
  <1> DEFINE z == [e \in files |-> e[2].size]
             E(g) == [s \in SUBSET files |-> IF s = {} THEN 0 ELSE Some(s)[2].size + g[s \ {Some(s)}]]
             F(g) == [s \in SUBSET files |-> IF s = {} THEN 0 ELSE z[Some(s)] + g[s \ {Some(s)}]]
  <1>1. Browser!Freed = (CHOOSE g : g = E(g))[files]
    BY Zenon DEF Browser!Freed, Browser!MapThenSumSet, Browser!MapThenFoldSet, Some
  <1>2. SumOver(z, files) = (CHOOSE g : g = F(g))[files]
    BY Zenon DEF SumOver, MapThenSumSet, MapThenFoldSet, Some
  <1>3. ASSUME NEW g PROVE E(g) = F(g)
    <2>1. ASSUME NEW s \in SUBSET files, s # {} PROVE Some(s)[2].size = z[Some(s)]
      <3>1. Some(s) \in files
        BY <2>1, Zenon DEF Some
      <3> QED
        BY <3>1
    <2> HIDE DEF z
    <2> QED
      BY <2>1, Zenon
  <1> HIDE DEF E, F
  <1> QED
    BY <1>1, <1>2, <1>3, Zenon

BrowserMayTake(p) == Browser!Is(p, {"file"}) \/ (Browser!IsDir(p) /\ Browser!Inside(p) = {})

LEMMA BrowserTakesOne ==
  ASSUME Tidy(tree), NEW p \in DOMAIN tree, Browser!Take(p),
         BrowserMayTake(p)
  PROVE  /\ tree[p].kind # "link" /\ browserErased' = browserErased \cup {<<p, tree[p]>>}
         /\ Follows(tree', tree, browserErased') /\ p \notin DOMAIN tree'
  <1> DEFINE T2 == tree'
  <1>1. T2 = [q \in DOMAIN tree \ {p} |-> tree[q]] /\ browserErased' = browserErased \cup {<<p, tree[p]>>}
    BY Zenon DEF Browser!Take
  <1>2. \A q : Browser!IsStrictPrefix(p, q) = IsStrictPrefix(p, q)
    BY Zenon DEF Browser!IsStrictPrefix, Browser!IsPrefix, IsStrictPrefix, IsPrefix
  <1>3. tree[p].kind # "link" /\ \A q \in DOMAIN tree : ~IsStrictPrefix(p, q)
    <2>1. CASE Browser!Is(p, {"file"})
      BY <2>1 DEF Browser!Is, Tidy
    <2>2. CASE Browser!IsDir(p) /\ Browser!Inside(p) = {}
      BY <1>2, <2>2 DEF Browser!IsDir, Browser!Is, Browser!Inside
    <2> QED
      BY <2>1, <2>2 DEF BrowserMayTake
  <1>4. <<p, tree[p]>> \in browserErased'
    BY <1>1
  <1>5. Follows(T2, tree, browserErased') /\ p \notin DOMAIN T2
    <2> HIDE DEF T2
    <2> QED
      BY <1>1, <1>3, <1>4, TakeFollows
  <1> QED
    BY <1>1, <1>3, <1>5

LEMMA BrowserFollows ==
  ASSUME Tidy(tree), Browser!Next
  PROVE  Follows(tree', tree, browserErased') /\ browserErased \subseteq browserErased'
  <1>1. \/ UNCHANGED <<tree, browserErased>>
        \/ \E p \in DOMAIN tree : Browser!Take(p) /\ BrowserMayTake(p)
    <2>1. ASSUME Browser!Walk
          PROVE  UNCHANGED <<tree, browserErased>> \/ \E q \in DOMAIN tree : Browser!Take(q) /\ BrowserMayTake(q)
      BY <2>1, Zenon DEF Browser!Walk, Browser!WalkErases, Browser!WalkRemoves, Browser!WalkFails, Browser!WalkIsLost,
         BrowserMayTake
    <2>2. ASSUME NEW p, Browser!Visit(p)
          PROVE  UNCHANGED <<tree, browserErased>> \/ \E q \in DOMAIN tree : Browser!Take(q) /\ BrowserMayTake(q)
      BY <2>2, Zenon DEF Browser!Visit, Browser!Erase, Browser!EraseFails, Browser!Fails, Browser!Skip,
         Browser!Enter, Browser!Is, BrowserMayTake
    <2> QED
      BY <2>1, <2>2, Zenon DEF Browser!Next, Browser!Discover, Browser!Scan, Browser!Finish
  <1>2. CASE UNCHANGED <<tree, browserErased>>
    BY <1>2, FollowsItself
  <1>3. ASSUME NEW p \in DOMAIN tree, Browser!Take(p), BrowserMayTake(p)
        PROVE  Follows(tree', tree, browserErased') /\ browserErased \subseteq browserErased'
    BY <1>3, BrowserTakesOne
  <1> QED
    BY <1>1, <1>2, <1>3

BrowserLedger ==
  Ledger(browserPhase, browserRequest, browserTargets, browserReport, browserTodo, browserWalk,
         browserErased, systemErased, tree)

LEMMA BrowserLedgerRests ==
  ASSUME BrowserLedger, UNCHANGED browserVars, systemErased \subseteq systemErased',
         Follows(tree', tree, systemErased')
  PROVE  BrowserLedger'
  <1>1. Ledger(browserPhase, browserRequest, browserTargets, browserReport, browserTodo, browserWalk,
               browserErased, systemErased', tree')
    BY LedgerLater DEF BrowserLedger
  <1> QED
    BY <1>1, Zenon DEF BrowserLedger, browserVars

LEMMA BrowserLedgerScans ==
  ASSUME BrowserLedger, Tidy(tree), Browser!Scan, UNCHANGED systemErased
  PROVE  BrowserLedger'
  <1> DEFINE new == Browser!Sized(browserTargets)
             total == SumOver(SizesOf(browserTargets), DOMAIN browserTargets)
  <1>1. /\ browserPhase = "found" /\ tree' = tree /\ browserRequest' = browserRequest
        /\ browserTargets' = new /\ browserReport' = Browser!BuildReport(new)
        /\ browserErased' = browserErased /\ browserWalk' = browserWalk
        /\ \/ browserRequest.dry /\ browserPhase' = "done"
           \/ ~browserRequest.dry /\ browserPhase' = "cleaning" /\ browserTodo' = Browser!ToVisit
    BY Zenon DEF Browser!Scan, Browser!Reported
  <1>2. browserErased = {} /\ browserWalk = <<>>
    BY <1>1 DEF BrowserLedger, Ledger
  <1>3. PICK D : Since(D, {}, systemErased, tree) /\ Sizable(browserTargets, D)
    BY <1>1 DEF BrowserLedger, Ledger
  <1>4. /\ DOMAIN new = DOMAIN browserTargets
        /\ \A i \in DOMAIN browserTargets : new[i].paths = browserTargets[i].paths
        /\ \A i \in DOMAIN browserTargets : new[i].size = SizesOf(browserTargets)[i]
    BY <1>3, BrowserSized DEF Sizable
  <1>5. /\ Balanced(new, total, {}, systemErased, tree)
        /\ \A i \in DOMAIN browserTargets : SizesOf(browserTargets)[i] \in Int
    <2> HIDE DEF new
    <2> QED
      BY <1>3, <1>4, BalancedAtFirst
  <1>6. browserReport'.total = total
    <2>1. PICK n \in Nat : DOMAIN browserTargets = 1..n
      BY <1>3, ListDomain DEF Sizable, AreTargets
    <2> DEFINE s == SizesOf(browserTargets)
    <2>2. DOMAIN new = 1..n /\ \A i \in 1..n : new[i].size = s[i] /\ s[i] \in Int
      <3> HIDE DEF new, s
      <3> QED
        BY <1>4, <1>5, <2>1 DEF s
    <2>3. Browser!BuildReport(new).total = SumOver(s, 1..n)
      <3> HIDE DEF new, s
      <3> QED
        BY <2>2, BrowserTotal
    <2> QED
      BY <1>1, <2>1, <2>3
  <1>7. ClearOf(Browser!ToVisit, Unlisted(new, tree))
    <2> DEFINE todo == Browser!ToVisit
    <2>1. todo = FlattenSeq([i \in DOMAIN browserTargets |->
            IF browserTargets[i].category \in browserRequest.categories
            THEN <<browserTargets[i].paths>> ELSE <<>>])
      <3>1. \A s : Browser!FlattenSeq(s) = FlattenSeq(s)
        BY Zenon DEF Browser!FlattenSeq, FlattenSeq
      <3> QED
        BY <3>1, Zenon DEF Browser!ToVisit
    <2>2. AreTargets(browserTargets)
      BY <1>3 DEF Sizable
    <2> HIDE DEF new, todo
    <2>3. ClearOf(todo, Unlisted(new, tree))
      BY <1>4, <2>1, <2>2, VisitListed, Zenon
    <2> QED
      BY <2>3 DEF todo
  <1> HIDE DEF new, total
  <1>8. Balanced(browserTargets', browserReport'.total, browserErased', systemErased', tree')
    BY <1>1, <1>2, <1>5, <1>6
  <1> QED
    BY <1>1, <1>2, <1>7, <1>8 DEF BrowserLedger, Ledger

LEMMA BrowserLedgerCleans ==
  ASSUME BrowserLedger, browserPhase = "cleaning", browserPhase' = "cleaning",
         UNCHANGED <<browserRequest, browserTargets, browserReport, systemErased>>,
         \/ UNCHANGED browserTodo
         \/ browserTodo # <<>> /\ \E p : browserTodo' = Browser!Visited(p),
         browserWalk' # <<>> => browserTodo' # <<>> /\ Listed(browserWalk', browserTargets),
         \/ UNCHANGED <<tree, browserErased>>
         \/ \E p \in DOMAIN tree :
              /\ Under(p, browserTargets) /\ tree[p].kind # "link"
              /\ browserErased' = browserErased \cup {<<p, tree[p]>>}
              /\ Follows(tree', tree, browserErased') /\ p \notin DOMAIN tree'
  PROVE  BrowserLedger'
  <1> DEFINE total == browserReport.total
  <1>1. /\ ~browserRequest.dry /\ ClearOf(browserTodo, Unlisted(browserTargets, tree))
        /\ Balanced(browserTargets, total, browserErased, systemErased, tree)
    BY DEF BrowserLedger, Ledger
  <1>2. Balanced(browserTargets, total, browserErased', systemErased, tree')
    <2>1. CASE UNCHANGED <<tree, browserErased>>
      BY <1>1, <2>1
    <2>2. ASSUME NEW p \in DOMAIN tree, Under(p, browserTargets), tree[p].kind # "link",
                 browserErased' = browserErased \cup {<<p, tree[p]>>},
                 Follows(tree', tree, browserErased'), p \notin DOMAIN tree'
          PROVE  Balanced(browserTargets, total, browserErased', systemErased, tree')
      <3> HIDE DEF total
      <3> QED
        BY <1>1, <2>2, BalancedErased
    <2> QED
      BY <2>1, <2>2
  <1>3. Within(tree', tree)
    BY DEF Within, Follows
  <1>4. \/ browserTodo' = browserTodo
        \/ browserTodo # <<>> /\ \E p : browserTodo' = IF Head(browserTodo) = {p} THEN Tail(browserTodo)
                                                     ELSE [browserTodo EXCEPT ![1] = @ \ {p}]
    BY Zenon DEF Browser!Visited
  <1>5. Ledger("cleaning", browserRequest, browserTargets, browserReport, browserTodo', browserWalk',
               browserErased', systemErased, tree')
    BY <1>1, <1>2, <1>3, <1>4, LedgerGoesOn
  <1> QED
    BY <1>5, Zenon DEF BrowserLedger

LEMMA BrowserLedgerVisits ==
  ASSUME BrowserLedger, Tidy(tree), NEW p, Browser!Visit(p), UNCHANGED systemErased
  PROVE  BrowserLedger'
  <1>1. /\ browserPhase = "cleaning" /\ browserPhase' = "cleaning" /\ browserTodo # <<>>
        /\ p \in Head(browserTodo) /\ browserWalk = <<>>
        /\ UNCHANGED <<browserRequest, browserTargets, browserReport>>
    BY Zenon DEF Browser!Visit, Browser!Erase, Browser!EraseFails, Browser!Fails, Browser!Skip, Browser!Enter,
       Browser!Pending, Browser!NoWalk
  <1>2. ASSUME p \in DOMAIN tree PROVE Listed(p, browserTargets) /\ Under(p, browserTargets)
    <2> DEFINE H == Unlisted(browserTargets, tree)
               rest == IF Head(browserTodo) = {p} THEN Tail(browserTodo)
                                                 ELSE [browserTodo EXCEPT ![1] = @ \ {p}]
    <2>1. ClearOf(browserTodo, H)
      BY <1>1 DEF BrowserLedger, Ledger
    <2>2. \E r : r = rest
      OBVIOUS
    <2>3. Head(browserTodo) \cap H = {}
      <3> HIDE DEF H
      <3> QED
        BY <1>1, <2>1, <2>2, VisitedSpares
    <2>4. Listed(p, browserTargets)
      BY <1>1, <1>2, <2>3 DEF Unlisted
    <2>5. IsPrefix(p, p)
      BY <1>2, ListIsPrefix DEF Tidy
    <2> QED
      BY <2>4, <2>5 DEF Listed, Under
  <1>3. CASE Browser!Erase(p)
    <2>1. /\ Browser!Is(p, {"file"}) /\ Browser!Take(p) /\ p \in DOMAIN tree
          /\ browserTodo' = Browser!Visited(p) /\ browserWalk' = browserWalk
      BY <1>3, Zenon DEF Browser!Erase, Browser!Is
    <2>2. /\ tree[p].kind # "link" /\ browserErased' = browserErased \cup {<<p, tree[p]>>}
          /\ Follows(tree', tree, browserErased') /\ p \notin DOMAIN tree'
      BY <2>1, BrowserTakesOne DEF BrowserMayTake
    <2> QED
      BY <1>1, <1>2, <2>1, <2>2, BrowserLedgerCleans
  <1>4. CASE Browser!EraseFails(p) \/ Browser!Skip(p)
    <2>1. /\ browserTodo' = Browser!Visited(p) /\ browserWalk' = browserWalk
          /\ UNCHANGED <<tree, browserErased>>
      BY <1>4, Zenon DEF Browser!EraseFails, Browser!Fails, Browser!Skip
    <2> QED
      BY <1>1, <2>1, BrowserLedgerCleans
  <1>5. CASE Browser!Enter(p)
    <2>1. p \in DOMAIN tree /\ browserWalk' = p /\ UNCHANGED <<tree, browserErased, browserTodo>>
      BY <1>5, Zenon DEF Browser!Enter, Browser!IsDir, Browser!Is
    <2> QED
      BY <1>1, <1>2, <2>1, BrowserLedgerCleans
  <1> QED
    BY <1>3, <1>4, <1>5, Zenon DEF Browser!Visit

LEMMA BrowserLedgerWalks ==
  ASSUME BrowserLedger, Tidy(tree), Browser!Walk, UNCHANGED systemErased
  PROVE  BrowserLedger'
  <1>1. /\ browserWalk # <<>> /\ browserPhase' = browserPhase
        /\ UNCHANGED <<browserRequest, browserTargets, browserReport>>
    BY Zenon DEF Browser!Walk, Browser!WalkErases, Browser!WalkRemoves, Browser!WalkFails, Browser!WalkIsLost,
       Browser!InWalk, Browser!NoWalk
  <1>2. browserPhase = "cleaning" /\ browserTodo # <<>> /\ Listed(browserWalk, browserTargets)
    BY <1>1 DEF BrowserLedger, Ledger
  <1>3. \/ browserWalk' = <<>> /\ browserTodo' = Browser!Visited(browserWalk)
        \/ UNCHANGED <<browserTodo, browserWalk>>
    BY Zenon DEF Browser!Walk, Browser!WalkErases, Browser!WalkRemoves, Browser!WalkFails, Browser!WalkIsLost,
       Browser!Stops, Browser!NoWalk
  <1>4. \/ UNCHANGED <<tree, browserErased>>
        \/ \E q \in DOMAIN tree :
             Browser!IsPrefix(browserWalk, q) /\ Browser!Take(q) /\ BrowserMayTake(q)
    BY Zenon DEF Browser!Walk, Browser!WalkErases, Browser!WalkRemoves, Browser!WalkFails, Browser!WalkIsLost,
       Browser!InWalk, BrowserMayTake
  <1>5. ASSUME NEW q \in DOMAIN tree, Browser!IsPrefix(browserWalk, q), Browser!Take(q), BrowserMayTake(q)
        PROVE  /\ Under(q, browserTargets) /\ tree[q].kind # "link"
               /\ browserErased' = browserErased \cup {<<q, tree[q]>>}
               /\ Follows(tree', tree, browserErased') /\ q \notin DOMAIN tree'
    <2>1. IsPrefix(browserWalk, q)
      BY <1>5, Zenon DEF Browser!IsPrefix, IsPrefix
    <2>2. Under(q, browserTargets)
      BY <1>2, <2>1 DEF Listed, Under
    <2> QED
      BY <1>5, <2>2, BrowserTakesOne
  <1>6. \/ UNCHANGED <<tree, browserErased>>
        \/ \E q \in DOMAIN tree :
             /\ Under(q, browserTargets) /\ tree[q].kind # "link"
             /\ browserErased' = browserErased \cup {<<q, tree[q]>>}
             /\ Follows(tree', tree, browserErased') /\ q \notin DOMAIN tree'
    BY <1>4, <1>5
  <1> QED
    BY <1>1, <1>2, <1>3, <1>6, BrowserLedgerCleans

LEMMA BrowserLedgerRuns ==
  ASSUME BrowserLedger, Tidy(tree), Browser!Next, UNCHANGED systemErased
  PROVE  BrowserLedger'
  <1>1. ASSUME NEW req, Browser!Discover(req) PROVE BrowserLedger'
    <2>1. /\ tree' = tree /\ browserPhase = "idle" /\ browserPhase' = "found"
          /\ browserTargets' = BrowserRules!Discovered /\ browserErased' = browserErased
          /\ browserWalk' = browserWalk
      BY <1>1, Zenon DEF Browser!Discover
    <2>2. Sizable(BrowserRules!Discovered, tree)
      BY BrowserRulesSize
    <2>3. browserErased = {} /\ browserWalk = <<>>
      BY <2>1 DEF BrowserLedger, Ledger
    <2>4. Since(tree, {}, systemErased, tree)
      BY SinceNow
    <2> QED
      BY <2>1, <2>2, <2>3, <2>4 DEF BrowserLedger, Ledger
  <1>2. CASE Browser!Finish
    <2>1. /\ browserPhase = "cleaning" /\ browserTodo = <<>> /\ browserPhase' = "done"
          /\ UNCHANGED <<tree, browserRequest, browserTargets, browserReport, browserWalk, browserErased>>
      BY <1>2, Zenon DEF Browser!Finish
    <2> QED
      BY <2>1 DEF BrowserLedger, Ledger
  <1>3. ASSUME NEW p, Browser!Visit(p) PROVE BrowserLedger'
    BY <1>3, BrowserLedgerVisits
  <1> QED
    BY <1>1, <1>2, <1>3, BrowserLedgerScans, BrowserLedgerWalks, Zenon DEF Browser!Next

LEMMA BrowserFreesAsTold ==
  ASSUME BrowserLedger
  PROVE  Browser!FreesWhatItReports(systemErased)
  <1> SUFFICES ASSUME browserPhase = "done" PROVE Browser!FreesWhatItReports(systemErased)
    BY DEF Browser!FreesWhatItReports
  <1> DEFINE files == {e \in browserErased : e[2].kind = "file"}
             z == [e \in files |-> e[2].size]
             freed == SumOver(z, files)
  <1>1. /\ Balanced(browserTargets, browserReport.total, browserErased, systemErased, tree)
        /\ browserRequest.dry => browserErased = {}
    BY DEF BrowserLedger, Ledger
  <1>2. Browser!Freed = freed
    <2>1. \E F : F = files
      OBVIOUS
    <2> QED
      BY <2>1, BrowserFreed, Zenon
  <1>3. \A e \in files : z[e] = e[2].size
    OBVIOUS
  <1>4. browserRequest.dry => freed = 0
    <2>1. browserRequest.dry => files = {}
      BY <1>1
    <2> HIDE DEF z, files
    <2> QED
      BY <2>1, SumOfNone
  <1> HIDE DEF z
  <1>5. /\ freed <= browserReport.total
        /\ ErasedAlone(browserTargets, browserErased, systemErased) => freed = browserReport.total
    <2>1. \E F : F = files
      OBVIOUS
    <2> QED
      BY <1>1, <1>3, <2>1, BalancedSum
  <1>6. ASSUME Browser!ListedOnce, Browser!ListedPaths \subseteq {e[1] : e \in browserErased},
               \A p \in Browser!ListedPaths, e \in systemErased : ~Browser!IsPrefix(p, e[1])
        PROVE  ErasedAlone(browserTargets, browserErased, systemErased)
    <2>1. \A p, q : /\ Browser!IsPrefix(p, q) = IsPrefix(p, q)
                    /\ Browser!IsStrictPrefix(p, q) = IsStrictPrefix(p, q)
      BY Zenon DEF Browser!IsStrictPrefix, Browser!IsPrefix, IsStrictPrefix, IsPrefix
    <2>2. Browser!ListedPaths = PathsOf(browserTargets)
      BY Zenon DEF Browser!ListedPaths, PathsOf
    <2> QED
      BY <1>6, <2>1, <2>2 DEF Browser!ListedOnce, ErasedAlone, OnceEach, PathsIn, Apart
  <1> HIDE DEF freed
  <1> QED
    BY <1>2, <1>4, <1>5, <1>6, Zenon DEF Browser!FreesWhatItReports

(* The books of both runs, until another program touches the tree.         *)
LedgerInv == meddled = {} => Tidy(tree) /\ SystemLedger /\ BrowserLedger

LEMMA FirstLedger ==
  ASSUME NEW layout, InitWith(layout), Findable(layout)
  PROVE  LedgerInv
  <1>1. /\ tree = layout /\ systemPhase = "idle" /\ browserPhase = "idle"
        /\ systemErased = {} /\ browserErased = {} /\ systemWalk = <<>> /\ browserWalk = <<>>
    BY Zenon DEF InitWith, System!Init, Browser!Init, System!NoWalk, Browser!NoWalk
  <1>2. Tidy(tree)
    <2>1. \A p \in Seq(STRING) : IsList(p)
      BY ListOf
    <2> QED
      BY <1>1, <2>1 DEF Findable, Tidy, Node
  <1>3. SystemLedger /\ BrowserLedger
    BY <1>1 DEF SystemLedger, BrowserLedger, Ledger
  <1> QED
    BY <1>2, <1>3 DEF LedgerInv

LEMMA StepLedger ==
  ASSUME LedgerInv, Next \/ UNCHANGED cleanerVars
  PROVE  LedgerInv'
  <1> SUFFICES ASSUME meddled' = {} PROVE (Tidy(tree) /\ SystemLedger /\ BrowserLedger)'
    BY DEF LedgerInv
  <1>1. ~Meddle
    BY DEF Meddle
  <1>2. meddled = {}
    BY <1>1, Zenon DEF Next, SystemClean, BrowserClean, cleanerVars
  <1>3. Tidy(tree) /\ SystemLedger /\ BrowserLedger
    BY <1>2 DEF LedgerInv
  <1>4. CASE SystemClean
    <2>1. System!Next /\ UNCHANGED browserVars /\ browserErased' = browserErased
      BY <1>4, Zenon DEF SystemClean, browserVars
    <2>2. Follows(tree', tree, systemErased') /\ systemErased \subseteq systemErased'
      BY <1>3, <2>1, SystemFollows
    <2>3. Tidy(tree')
      BY <1>3, <2>2, TidyWithin DEF Follows
    <2>4. SystemLedger' /\ BrowserLedger'
      BY <1>3, <2>1, <2>2, SystemLedgerRuns, BrowserLedgerRests
    <2> QED
      BY <2>3, <2>4 DEF Tidy
  <1>5. CASE BrowserClean
    <2>1. Browser!Next /\ UNCHANGED systemVars /\ systemErased' = systemErased
      BY <1>5, Zenon DEF BrowserClean, systemVars
    <2>2. Follows(tree', tree, browserErased') /\ browserErased \subseteq browserErased'
      BY <1>3, <2>1, BrowserFollows
    <2>3. Tidy(tree')
      BY <1>3, <2>2, TidyWithin DEF Follows
    <2>4. SystemLedger' /\ BrowserLedger'
      BY <1>3, <2>1, <2>2, BrowserLedgerRuns, SystemLedgerRests
    <2> QED
      BY <2>3, <2>4 DEF Tidy
  <1>6. CASE UNCHANGED cleanerVars
    <2>1. UNCHANGED tree /\ UNCHANGED systemVars /\ UNCHANGED browserVars
          /\ systemErased' = systemErased /\ browserErased' = browserErased
      BY <1>6, Zenon DEF cleanerVars, systemVars, browserVars
    <2>2. Follows(tree', tree, browserErased') /\ Follows(tree', tree, systemErased')
      BY <2>1, FollowsItself
    <2>3. SystemLedger' /\ BrowserLedger'
      BY <1>3, <2>1, <2>2, SystemLedgerRests, BrowserLedgerRests
    <2> QED
      BY <1>3, <2>1, <2>3 DEF Tidy
  <1> QED
    BY <1>1, <1>4, <1>5, <1>6 DEF Next
=============================================================================
