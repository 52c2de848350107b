-------------------------- MODULE ReclaimingProofs --------------------------
(***************************************************************************)
(* Proofs about Reclaiming!ReclaimSpec: one inductive invariant for each   *)
(* of the parts, for any number of files, contents and entries.            *)
(***************************************************************************)
EXTENDS Reclaiming, CleanersProofs, DataLemmas, FiniteSetTheorems, SequenceTheorems, TLAPS

(* Whatever happens, a part takes a step of its own or rests.              *)
LEMMA ReclaimParts ==
  ASSUME [ReclaimNext]_allVars
  PROVE  /\ Next \/ UNCHANGED cleanerVars
         /\ Rotation!Next \/ UNCHANGED rotationVars
         /\ Finder!Next \/ UNCHANGED finderVars
         /\ Catalogs!Next \/ UNCHANGED catalogVars
         /\ Carving!Next \/ UNCHANGED carvingVars
         /\ Stripper!Next \/ UNCHANGED stripperVars
  <1>1. CASE UNCHANGED allVars
    BY <1>1 DEF allVars
  <1>2. CASE ReclaimNext
    BY <1>2, Zenon DEF ReclaimNext, Only, Rests
  <1> QED
    BY <1>1, <1>2

-----------------------------------------------------------------------------
(***************************************************************************)
(* DuplicateCatalogs.  A path is never entered with two contents, so that  *)
(* what is suggested of one group is not what is kept of another.          *)
(***************************************************************************)
CatalogType ==
  /\ disk \in [Paths -> Catalogs!File \cup {Catalogs!Nothing}]
  /\ entries \in Seq([path : Paths, content_hash : Contents, modified_at : Times])
  /\ follows \in {"DuplicateDetector", "ContentDedup"}

(* What an entry says of a file that is there. *)
Recorded ==
  \A i \in DOMAIN entries :
    disk[entries[i].path] = Catalogs!Nothing \/ disk[entries[i].path].content = entries[i].content_hash

OneContentEach ==
  \A i, j \in DOMAIN entries :
    entries[i].path = entries[j].path => entries[i].content_hash = entries[j].content_hash

First(c) == entries[Catalogs!Min(Catalogs!Group(c))].path

KeptOf(c) == IF follows = "ContentDedup" THEN Catalogs!Canonical(c) ELSE First(c)

CatalogInv ==
  /\ CatalogType
  /\ ~stale => Recorded /\ OneContentEach
  /\ ~stale /\ (follows = "DuplicateDetector" => ~Catalogs!AddedTwice) =>
       \A c \in Contents : Catalogs!Group(c) # {} => disk[KeptOf(c)].content = c

LEMMA LeastPlace ==
  ASSUME NEW S, S \subseteq Nat, S # {}
  PROVE  Catalogs!Min(S) \in S /\ \A k \in S : Catalogs!Min(S) <= k
  <1>1. PICK n \in S : \A k \in S : n <= k
    BY LeastNumber
  <1> QED
    BY <1>1, Zenon DEF Catalogs!Min

LEMMA LeastPlaceIs ==
  ASSUME NEW S, S \subseteq Nat, NEW m \in S, \A k \in S : m <= k
  PROVE  Catalogs!Min(S) = m
  <1>1. Catalogs!Min(S) \in S /\ Catalogs!Min(S) <= m
    BY LeastPlace
  <1>2. m \in Nat /\ Catalogs!Min(S) \in Nat /\ m <= Catalogs!Min(S)
    BY <1>1
  <1> QED
    BY <1>1, <1>2

LEMMA EntryType ==
  ASSUME CatalogType, NEW i \in DOMAIN entries
  PROVE  /\ entries[i].path \in Paths /\ entries[i].modified_at \in Times
         /\ entries[i].content_hash \in Contents
  <1> DEFINE E == [path : Paths, content_hash : Contents, modified_at : Times]
  <1>1. entries \in Seq(E)
    BY DEF CatalogType
  <1> HIDE DEF E
  <1>2. entries[i] \in E
    BY <1>1
  <1> QED
    BY <1>2 DEF E

LEMMA OldestThere ==
  ASSUME CatalogType, NEW c, Catalogs!Group(c) # {}
  PROVE  Catalogs!Oldest(c) # {}
  <1> DEFINE ages == {entries[i].modified_at : i \in Catalogs!Group(c)}
  <1>1. Catalogs!Group(c) \subseteq DOMAIN entries
    BY DEF Catalogs!Group
  <1>2. ages \subseteq Nat /\ ages # {}
    <2>1. \A i \in DOMAIN entries : entries[i].modified_at \in Times
      BY EntryType
    <2>2. \A t \in Times : t \in Nat
      <3>1. Times \subseteq Nat
        BY ReclaimAssumption, Zenon
      <3> QED
        BY <3>1, Zenon
    <2> QED
      BY <1>1, <2>1, <2>2, Zenon
  <1>3. PICK n \in ages : \A k \in ages : n <= k
    BY <1>2, LeastNumber
  <1>4. PICK i \in Catalogs!Group(c) : entries[i].modified_at = n
    BY <1>3
  <1>5. i \in Catalogs!Oldest(c)
    BY <1>3, <1>4 DEF Catalogs!Oldest
  <1> QED
    BY <1>5

LEMMA KeptIsOfGroup ==
  ASSUME CatalogType, NEW c, Catalogs!Group(c) # {}
  PROVE  KeptOf(c) \in Catalogs!PathsOf(Catalogs!Group(c))
  <1>1. Catalogs!Group(c) \subseteq Nat
    BY DEF Catalogs!Group, CatalogType
  <1>2. CASE follows = "ContentDedup"
    <2>1. Catalogs!Oldest(c) # {} /\ Catalogs!Oldest(c) \subseteq Catalogs!Group(c)
      BY OldestThere DEF Catalogs!Oldest
    <2>2. Catalogs!Min(Catalogs!Oldest(c)) \in Catalogs!Group(c)
      BY <1>1, <2>1, LeastPlace
    <2> QED
      BY <1>2, <2>2 DEF KeptOf, Catalogs!Canonical, Catalogs!PathsOf
  <1>3. CASE follows # "ContentDedup"
    <2>1. Catalogs!Min(Catalogs!Group(c)) \in Catalogs!Group(c)
      BY <1>1, LeastPlace
    <2> QED
      BY <1>3, <2>1 DEF KeptOf, First, Catalogs!PathsOf
  <1> QED
    BY <1>2, <1>3

LEMMA CatalogAdd ==
  ASSUME CatalogInv, NEW p \in Paths, Catalogs!Add(p)
  PROVE  CatalogInv'
  <1> DEFINE n == Len(entries) + 1
             c == disk[p].content
             e == [path |-> p, content_hash |-> c, modified_at |-> disk[p].modified]
  <1>1. CatalogType /\ disk[p] \in Catalogs!File /\ disk[p] # Catalogs!Nothing
    BY DEF CatalogInv, CatalogType, Catalogs!Add
  <1>2. e \in [path : Paths, content_hash : Contents, modified_at : Times]
    BY <1>1 DEF Catalogs!File
  <1>3. entries' = Append(entries, e) /\ UNCHANGED <<disk, follows, stale>>
    BY DEF Catalogs!Add
  <1> HIDE DEF e
  <1>4. CatalogType'
    BY <1>1, <1>2, <1>3 DEF CatalogType
  <1>5. /\ n \in Nat \ {0} /\ DOMAIN entries = 1..n-1 /\ DOMAIN entries' = 1..n
        /\ entries'[n] = e
        /\ \A i \in 1..n-1 : entries'[i] = entries[i]
    BY <1>1, <1>2, <1>3 DEF CatalogType
  <1>6. e.path = p /\ e.content_hash = c /\ c \in Contents
    BY <1>1 DEF e, Catalogs!File
  <1> HIDE DEF n, c
  <1>7. ~stale => (Recorded /\ OneContentEach)'
    <2> SUFFICES ASSUME ~stale PROVE Recorded' /\ OneContentEach'
      OBVIOUS
    <2>1. Recorded /\ OneContentEach
      BY DEF CatalogInv
    <2>2. \A i \in DOMAIN entries : entries[i].path = p => entries[i].content_hash = c
      BY <1>1, <2>1 DEF Recorded, c
    <2>3. Recorded'
      BY <1>3, <1>5, <1>6, <2>1 DEF Recorded, c
    <2>4. OneContentEach'
      BY <1>3, <1>5, <1>6, <2>1, <2>2 DEF OneContentEach
    <2> QED
      BY <2>3, <2>4
  <1>8. ASSUME ~stale, follows = "DuplicateDetector" => ~Catalogs!AddedTwice', NEW d \in Contents,
               Catalogs!Group(d)' # {}
        PROVE  disk[KeptOf(d)'].content = d
    <2>1. follows = "DuplicateDetector" => ~Catalogs!AddedTwice
      BY <1>5, <1>8 DEF Catalogs!AddedTwice
    <2>2. Catalogs!Group(d) # {} => disk[KeptOf(d)].content = d
      BY <1>8, <2>1 DEF CatalogInv
    <2>3. /\ d = c => Catalogs!Group(d)' = Catalogs!Group(d) \cup {n}
          /\ d # c => Catalogs!Group(d)' = Catalogs!Group(d)
      <3>1. Catalogs!Group(d)' = {i \in 1..n : entries'[i].content_hash = d}
        BY <1>5 DEF Catalogs!Group
      <3>2. Catalogs!Group(d) = {i \in 1..n-1 : entries[i].content_hash = d}
        BY <1>5 DEF Catalogs!Group
      <3>7. n \in Nat \ {0}
        BY <1>5
      <3>3. 1..n = 1..n-1 \cup {n} /\ n \notin 1..n-1
        BY <3>7
      <3>4. entries'[n].content_hash = c
        BY <1>5, <1>6
      <3>5. \A i \in 1..n-1 : entries'[i].content_hash = entries[i].content_hash
        BY <1>5
      <3> HIDE DEF n
      <3>6. ASSUME d = c PROVE Catalogs!Group(d)' = Catalogs!Group(d) \cup {n}
        BY <3>1, <3>2, <3>3, <3>4, <3>5, <3>6
      <3>8. ASSUME d # c PROVE Catalogs!Group(d)' = Catalogs!Group(d)
        BY <3>1, <3>2, <3>3, <3>4, <3>5, <3>8
      <3> QED
        BY <3>6, <3>8
    <2>4. /\ Catalogs!Group(d) \subseteq 1..n-1 /\ Catalogs!Group(d) \subseteq Nat
          /\ Catalogs!Group(d)' \subseteq 1..n /\ Catalogs!Group(d)' \subseteq Nat
      BY <1>5 DEF Catalogs!Group
    <2>8. \A i \in 1..n : entries'[i].modified_at \in Int
      <3>1. e.modified_at \in Times
        BY <1>2
      <3>2. \A i \in 1..n-1 : entries[i].modified_at \in Times
        BY <1>1, <1>5, EntryType
      <3>3. \A i \in 1..n : i = n \/ i \in 1..n-1
        BY <1>5
      <3>4. Times \subseteq Int
        BY ReclaimAssumption
      <3> QED
        BY <1>5, <3>1, <3>2, <3>3, <3>4
    <2>5. CASE Catalogs!Group(d) = {}
      <3>1. d = c /\ Catalogs!Group(d)' = {n}
        BY <1>8, <2>3, <2>5
      <3>2. Catalogs!Oldest(d)' = {n}
        <4>1. n \in 1..n
          BY <1>5
        <4>3. entries'[n].modified_at \in Int
          BY <2>8, <4>1
        <4>4. entries'[n].modified_at <= entries'[n].modified_at
          BY <4>3
        <4>2. Catalogs!Oldest(d)' =
                {i \in Catalogs!Group(d)' : \A j \in Catalogs!Group(d)' :
                   entries'[i].modified_at <= entries'[j].modified_at}
          BY DEF Catalogs!Oldest
        <4> QED
          BY <3>1, <4>2, <4>4
      <3>3. Catalogs!Min({n}) = n
        BY <1>5, LeastPlaceIs
      <3>4. KeptOf(d)' = p
        BY <1>5, <1>6, <3>1, <3>2, <3>3 DEF KeptOf, First, Catalogs!Canonical
      <3> QED
        BY <3>1, <3>4 DEF c
    <2>6. CASE Catalogs!Group(d) # {} /\ follows # "ContentDedup"
      <3> DEFINE k == Catalogs!Min(Catalogs!Group(d))
      <3>1. k \in Catalogs!Group(d) /\ \A j \in Catalogs!Group(d) : k <= j
        BY <2>4, <2>6, LeastPlace
      <3>2. k \in Catalogs!Group(d)' /\ \A j \in Catalogs!Group(d)' : k <= j
        BY <1>5, <2>3, <2>4, <3>1
      <3>3. Catalogs!Min(Catalogs!Group(d)') = k
        BY <2>4, <3>2, LeastPlaceIs
      <3>4. First(d)' = First(d)
        BY <1>5, <2>4, <3>1, <3>3 DEF First
      <3> QED
        BY <1>3, <2>2, <2>6, <3>4 DEF KeptOf
    <2>7. CASE Catalogs!Group(d) # {} /\ follows = "ContentDedup"
      <3> DEFINE k == Catalogs!Min(Catalogs!Oldest(d))
                 age(i) == entries'[i].modified_at
      <3>1. Catalogs!Oldest(d) # {} /\ Catalogs!Oldest(d) \subseteq Catalogs!Group(d)
        BY <1>1, <2>7, OldestThere DEF Catalogs!Oldest
      <3>2. k \in Catalogs!Oldest(d) /\ \A j \in Catalogs!Oldest(d) : k <= j
        BY <2>4, <3>1, LeastPlace
      <3>3. k \in 1..n-1 /\ Catalogs!Canonical(d) = entries'[k].path
        BY <1>5, <2>4, <3>1, <3>2 DEF Catalogs!Canonical
      <3>4. Catalogs!Oldest(d) = {i \in Catalogs!Group(d) : \A j \in Catalogs!Group(d) : age(i) <= age(j)}
        BY <1>5, <2>4 DEF Catalogs!Oldest
      <3>5. Catalogs!Oldest(d)' = {i \in Catalogs!Group(d)' : \A j \in Catalogs!Group(d)' : age(i) <= age(j)}
        BY DEF Catalogs!Oldest
      <3> HIDE DEF k
      <3>6. CASE d = c /\ age(n) < age(k)
        <4>1. n \in Catalogs!Oldest(d)'
          BY <1>5, <2>3, <2>4, <2>8, <3>2, <3>3, <3>4, <3>5, <3>6
        <4>2. \A i \in Catalogs!Oldest(d)' : i = n
          BY <1>5, <2>3, <2>4, <2>8, <3>2, <3>3, <3>4, <3>5, <3>6
        <4>3. Catalogs!Oldest(d)' = {n}
          BY <4>1, <4>2
        <4>4. Catalogs!Min({n}) = n
          BY <1>5, LeastPlaceIs
        <4>5. KeptOf(d)' = p
          BY <1>3, <1>5, <1>6, <2>7, <4>3, <4>4 DEF KeptOf, Catalogs!Canonical
        <4> QED
          BY <3>6, <4>5 DEF c
      <3>7. CASE d # c \/ ~(age(n) < age(k))
        <4>1. k \in Catalogs!Oldest(d)'
          BY <1>5, <2>3, <2>4, <2>8, <3>2, <3>3, <3>4, <3>5, <3>7
        <4>2. \A j \in Catalogs!Oldest(d)' : j \in Catalogs!Oldest(d) \/ j = n
          BY <1>5, <2>3, <2>4, <2>8, <3>4, <3>5
        <4>3. \A j \in Catalogs!Oldest(d)' : k <= j
          <5>1. k <= n
            BY <1>5, <3>3
          <5> QED
            BY <3>2, <4>2, <5>1
        <4>4. Catalogs!Oldest(d)' \subseteq Nat
          BY <2>4, <3>5
        <4>5. Catalogs!Min(Catalogs!Oldest(d)') = k
          BY <4>1, <4>3, <4>4, LeastPlaceIs
        <4>6. Catalogs!Canonical(d)' = Catalogs!Canonical(d)
          BY <3>3, <4>5 DEF Catalogs!Canonical
        <4> QED
          BY <1>3, <2>2, <2>7, <4>6 DEF KeptOf
      <3> QED
        BY <3>6, <3>7
    <2> QED
      BY <2>5, <2>6, <2>7
  <1> QED
    BY <1>3, <1>4, <1>7, <1>8 DEF CatalogInv

LEMMA CatalogDelete ==
  ASSUME CatalogInv, NEW p \in Paths, Catalogs!Delete(p)
  PROVE  CatalogInv'
  <1>1. /\ CatalogType /\ p \in Catalogs!Suggested
        /\ disk' = [disk EXCEPT ![p] = Catalogs!Nothing]
        /\ UNCHANGED <<entries, follows, stale>>
    BY DEF CatalogInv, Catalogs!Delete
  <1>2. CatalogType'
    BY <1>1 DEF CatalogType
  <1>3. ~stale => (Recorded /\ OneContentEach)'
    BY <1>1, EntryType DEF CatalogInv, CatalogType, Recorded, OneContentEach
  <1>4. ASSUME ~stale, follows = "DuplicateDetector" => ~Catalogs!AddedTwice, NEW d \in Contents,
               Catalogs!Group(d) # {}
        PROVE  disk'[KeptOf(d)] = disk[KeptOf(d)]
    <2>1. KeptOf(d) \in Catalogs!PathsOf(Catalogs!Group(d))
      BY <1>1, <1>4, KeptIsOfGroup
    <2>2. PICK i \in Catalogs!Group(d) : entries[i].path = KeptOf(d)
      BY <2>1 DEF Catalogs!PathsOf
    <2>3. OneContentEach
      BY <1>4 DEF CatalogInv
    <2>4. PICK c \in Contents :
            p \in IF follows = "ContentDedup" THEN Catalogs!ButCanonical(c) ELSE Catalogs!ButTheFirst(c)
      BY <1>1 DEF Catalogs!Suggested, Catalogs!DuplicateGroups
    <2>5. PICK j \in Catalogs!Group(c) :
            /\ entries[j].path = p
            /\ follows = "ContentDedup" => p # Catalogs!Canonical(c)
            /\ follows # "ContentDedup" => j # Catalogs!Min(Catalogs!Group(c))
      BY <2>4 DEF Catalogs!ButCanonical, Catalogs!ButTheFirst, Catalogs!PathsOf
    <2>6. p # KeptOf(d)
      <3>1. SUFFICES ASSUME p = KeptOf(d) PROVE FALSE
        OBVIOUS
      <3>2. i \in DOMAIN entries /\ j \in DOMAIN entries /\ entries[i].path = entries[j].path
        BY <2>2, <2>5, <3>1 DEF Catalogs!Group
      <3>3. entries[i].content_hash = entries[j].content_hash
        BY <2>3, <3>2 DEF OneContentEach
      <3>4. c = d
        BY <2>2, <2>5, <3>3 DEF Catalogs!Group
      <3>5. CASE follows = "ContentDedup"
        BY <2>5, <3>1, <3>4, <3>5 DEF KeptOf
      <3>6. CASE follows # "ContentDedup"
        <4> DEFINE k == Catalogs!Min(Catalogs!Group(d))
        <4>1. Catalogs!Group(d) \subseteq Nat
          BY <1>1 DEF Catalogs!Group, CatalogType
        <4>2. k \in Catalogs!Group(d)
          BY <1>4, <4>1, LeastPlace
        <4>3. j # k /\ entries[k].path = entries[j].path /\ k \in Nat /\ j \in Nat
          BY <2>5, <3>1, <3>4, <3>6, <4>1, <4>2 DEF KeptOf, First
        <4>4. Catalogs!AddedTwice
          BY <2>5, <3>2, <3>4, <4>2, <4>3 DEF Catalogs!AddedTwice, Catalogs!Group
        <4>5. follows = "DuplicateDetector"
          BY <1>1, <3>6 DEF CatalogType
        <4> QED
          BY <1>4, <4>4, <4>5
      <3> QED
        BY <3>5, <3>6
    <2> QED
      BY <1>1, <2>6 DEF CatalogType
  <1>5. \A d : Catalogs!Group(d)' = Catalogs!Group(d) /\ KeptOf(d)' = KeptOf(d)
    BY <1>1 DEF KeptOf, First, Catalogs!Canonical, Catalogs!Oldest, Catalogs!Group
  <1>6. Catalogs!AddedTwice' = Catalogs!AddedTwice
    BY <1>1 DEF Catalogs!AddedTwice
  <1>7. ASSUME ~stale, follows = "DuplicateDetector" => ~Catalogs!AddedTwice, NEW d \in Contents,
               Catalogs!Group(d) # {}
        PROVE  disk'[KeptOf(d)].content = d
    BY <1>4, <1>7 DEF CatalogInv
  <1>8. ASSUME ~stale', follows' = "DuplicateDetector" => ~Catalogs!AddedTwice', NEW d \in Contents,
               Catalogs!Group(d)' # {}
        PROVE  disk'[KeptOf(d)'].content = d
    BY <1>1, <1>5, <1>6, <1>7, <1>8
  <1> QED
    BY <1>1, <1>2, <1>3, <1>8 DEF CatalogInv

LEMMA StepCatalogs ==
  ASSUME CatalogInv, Catalogs!Next \/ UNCHANGED catalogVars
  PROVE  CatalogInv'
  <1>1. CASE UNCHANGED catalogVars
    <2>1. UNCHANGED <<disk, entries, follows, stale>>
      BY <1>1 DEF catalogVars
    <2>2. \A d : Catalogs!Group(d)' = Catalogs!Group(d) /\ KeptOf(d)' = KeptOf(d)
      BY <2>1 DEF KeptOf, First, Catalogs!Canonical, Catalogs!Oldest, Catalogs!Group
    <2> QED
      BY <2>1, <2>2 DEF CatalogInv, CatalogType, Recorded, OneContentEach, Catalogs!AddedTwice
  <1>2. ASSUME NEW p \in Paths, NEW f \in Catalogs!File, Catalogs!Edit(p, f)
        PROVE  CatalogInv'
    <2>1. /\ CatalogType /\ disk' = [disk EXCEPT ![p] = f] /\ UNCHANGED <<entries, follows>>
          /\ stale' = (stale \/ p \in Catalogs!Added)
      BY <1>2 DEF CatalogInv, Catalogs!Edit
    <2>2. CatalogType'
      BY <2>1 DEF CatalogType
    <2>3. CASE stale'
      BY <2>2, <2>3 DEF CatalogInv
    <2>4. CASE ~stale'
      <3>1. ~stale /\ \A i \in DOMAIN entries : entries[i].path # p
        BY <2>1, <2>4 DEF Catalogs!Added
      <3>2. \A i \in DOMAIN entries : disk'[entries[i].path] = disk[entries[i].path]
        BY <2>1, <3>1, EntryType DEF CatalogType
      <3>3. (Recorded /\ OneContentEach)'
        BY <2>1, <3>1, <3>2 DEF CatalogInv, Recorded, OneContentEach
      <3>4. \A d : Catalogs!Group(d)' = Catalogs!Group(d) /\ KeptOf(d)' = KeptOf(d)
        BY <2>1 DEF KeptOf, First, Catalogs!Canonical, Catalogs!Oldest, Catalogs!Group
      <3>5. Catalogs!AddedTwice' = Catalogs!AddedTwice
        BY <2>1 DEF Catalogs!AddedTwice
      <3>6. ASSUME NEW d \in Contents, Catalogs!Group(d) # {}
            PROVE  disk'[KeptOf(d)] = disk[KeptOf(d)]
        BY <2>1, <3>2, <3>6, KeptIsOfGroup DEF Catalogs!PathsOf, Catalogs!Group
      <3>7. (follows = "DuplicateDetector" => ~Catalogs!AddedTwice) =>
              \A d \in Contents : Catalogs!Group(d) # {} => disk[KeptOf(d)].content = d
        BY <3>1 DEF CatalogInv
      <3>8. (follows' = "DuplicateDetector" => ~Catalogs!AddedTwice') =>
              \A d \in Contents : Catalogs!Group(d)' # {} => disk'[KeptOf(d)'].content = d
        BY <2>1, <3>4, <3>5, <3>6, <3>7
      <3> QED
        BY <2>2, <3>3, <3>8 DEF CatalogInv
    <2> QED
      BY <2>3, <2>4
  <1>3. CASE Catalogs!Clear
    <2>1. CatalogType /\ entries' = <<>> /\ UNCHANGED <<disk, follows>>
      BY <1>3 DEF Catalogs!Clear, CatalogInv
    <2>2. DOMAIN entries' = {}
      BY <2>1
    <2>3. CatalogType'
      BY <2>1 DEF CatalogType
    <2> QED
      BY <2>2, <2>3 DEF CatalogInv, Recorded, OneContentEach, Catalogs!Group
  <1> QED
    BY <1>1, <1>2, <1>3, CatalogAdd, CatalogDelete DEF Catalogs!Next

(* Who deletes what a catalog suggests, in any order and as it grows,      *)
(* keeps a copy of every content in it, unless a path was written to after *)
(* it was added, or the detector was told of a file twice.                 *)
THEOREM ACopyIsKept == ReclaimSpec => []OneCopySurvives
  <1>1. ReclaimInit => CatalogInv
    <2> SUFFICES ASSUME ReclaimInit PROVE CatalogInv
      OBVIOUS
    <2>1. Catalogs!Init \/ Catalogs!InitWith([p \in Paths |-> Catalogs!Nothing], "ContentDedup")
      BY Zenon DEF ReclaimInit
    <2>2. PICK d \in [Paths -> Catalogs!File \cup {Catalogs!Nothing}],
               catalog \in {"DuplicateDetector", "ContentDedup"} : Catalogs!InitWith(d, catalog)
      BY <2>1 DEF Catalogs!Init
    <2>3. CatalogType /\ DOMAIN entries = {}
      BY <2>2 DEF CatalogType, Catalogs!InitWith
    <2> QED
      BY <2>3 DEF CatalogInv, Recorded, OneContentEach, Catalogs!Group
  <1>2. CatalogInv /\ [ReclaimNext]_allVars => CatalogInv'
    BY ReclaimParts, StepCatalogs
  <1>3. CatalogInv => OneCopySurvives
    <2> SUFFICES ASSUME CatalogInv, ~stale, follows = "DuplicateDetector" => ~Catalogs!AddedTwice,
                        NEW i \in DOMAIN entries
                 PROVE  \E p \in Catalogs!Added : disk[p].content = entries[i].content_hash
      BY DEF OneCopySurvives, Catalogs!OneCopySurvives
    <2> DEFINE c == entries[i].content_hash
    <2>1. CatalogType /\ c \in Contents /\ i \in Catalogs!Group(c)
      BY EntryType DEF CatalogInv, Catalogs!Group
    <2>2. KeptOf(c) \in Catalogs!PathsOf(Catalogs!Group(c)) /\ disk[KeptOf(c)].content = c
      BY <2>1, KeptIsOfGroup DEF CatalogInv
    <2>3. KeptOf(c) \in Catalogs!Added
      BY <2>2 DEF Catalogs!PathsOf, Catalogs!Group, Catalogs!Added
    <2> QED
      BY <2>2, <2>3
  <1> QED
    BY <1>1, <1>2, <1>3, PTL DEF ReclaimSpec

-----------------------------------------------------------------------------
(***************************************************************************)
(* FileCarvingBlocker.  The search of a buffer is a recursion towards its  *)
(* end: g is the function that gives what it finds from each position on,  *)
(* as far as the positions D.                                              *)
(***************************************************************************)
Searching(s, m, D, g) ==
  g = [i \in D |-> IF i \notin Carving!Positions(s, m) THEN {}
                   ELSE IF Carving!MatchesAt(s, m, i) THEN {<<i, Len(m)>>} \cup g[i + Len(m)]
                   ELSE g[i + 1]]

LEMMA HitsAreChosen ==
  ASSUME NEW s, NEW m, m # <<>>
  PROVE  Carving!Hits(s, m) = (CHOOSE g : Searching(s, m, 1..(Len(s) + 1), g))[1]
  BY Zenon DEF Carving!Hits, Searching

Ending(s, n) == {i \in 1..(Len(s) + 1) : Len(s) + 1 - i <= n}

LEMMA SearchUpTo ==
  ASSUME NEW T, NEW s \in Seq(T), NEW m \in Seq(T), m # <<>>, NEW n \in Nat
  PROVE  \E g : Searching(s, m, Ending(s, n), g)
  <1> DEFINE N == {k \in Nat : \E g : Searching(s, m, Ending(s, k), g)}
             P == Carving!Positions(s, m)
  <1>1. Len(s) \in Nat /\ Len(m) \in Nat \ {0}
    OBVIOUS
  <1>2. \A i \in P : i \in 1..Len(s) /\ i + Len(m) \in 1..(Len(s) + 1)
    BY <1>1 DEF Carving!Positions
  <1> HIDE DEF P
  <1>3. 0 \in N
    <2>1. Ending(s, 0) = {Len(s) + 1}
      BY <1>1 DEF Ending
    <2>2. Len(s) + 1 \notin P
      BY <1>1, <1>2
    <2> DEFINE h == [i \in {Len(s) + 1} |-> {}]
    <2>3. Searching(s, m, {Len(s) + 1}, h)
      BY <2>2 DEF Searching, P
    <2> HIDE DEF h
    <2> QED
      BY <2>1, <2>3
  <1>4. ASSUME NEW k \in Nat, k \in N PROVE k + 1 \in N
    <2>1. PICK g : Searching(s, m, Ending(s, k), g)
      BY <1>4
    <2> DEFINE D == Ending(s, k + 1)
               h == [i \in D |-> IF i \notin P THEN {}
                                 ELSE IF Carving!MatchesAt(s, m, i) THEN {<<i, Len(m)>>} \cup g[i + Len(m)]
                                 ELSE g[i + 1]]
    <2>2. Ending(s, k) \subseteq D
      BY <1>1 DEF Ending
    <2>3. \A i \in Ending(s, k) : h[i] = g[i]
      BY <2>1, <2>2 DEF Searching, P
    <2>4. \A i \in D : i \in P => i + 1 \in Ending(s, k) /\ i + Len(m) \in Ending(s, k)
      BY <1>1, <1>2 DEF Ending
    <2>5. h = [i \in D |-> IF i \notin P THEN {}
                           ELSE IF Carving!MatchesAt(s, m, i) THEN {<<i, Len(m)>>} \cup h[i + Len(m)]
                           ELSE h[i + 1]]
      <3> DEFINE f == [i \in D |-> IF i \notin P THEN {}
                                   ELSE IF Carving!MatchesAt(s, m, i) THEN {<<i, Len(m)>>} \cup h[i + Len(m)]
                                   ELSE h[i + 1]]
      <3>1. ASSUME NEW i \in D PROVE h[i] = f[i]
        <4>1. i \in P => h[i + 1] = g[i + 1] /\ h[i + Len(m)] = g[i + Len(m)]
          BY <2>3, <2>4
        <4> HIDE DEF D
        <4> QED
          BY <4>1, Zenon
      <3> HIDE DEF D
      <3> QED
        BY <3>1
    <2>6. Searching(s, m, D, h)
      BY <2>5, Zenon DEF Searching, P
    <2> HIDE DEF h
    <2> QED
      BY <2>6
  <1> HIDE DEF N
  <1>5. Nat \subseteq N
    BY <1>3, <1>4, InductiveSet
  <1> QED
    BY <1>5 DEF N

LEMMA HitsSearched ==
  ASSUME NEW T, NEW s \in Seq(T), NEW m \in Seq(T), m # <<>>
  PROVE  \E g : Searching(s, m, 1..(Len(s) + 1), g) /\ Carving!Hits(s, m) = g[1]
  <1>1. Ending(s, Len(s)) = 1..(Len(s) + 1) /\ Len(s) \in Nat
    BY DEF Ending
  <1>2. \E g : Searching(s, m, Ending(s, Len(s)), g)
    BY <1>1, SearchUpTo
  <1> QED
    BY <1>1, <1>2, HitsAreChosen, Zenon

(* A hit is an occurrence, and every occurrence begins within a hit.       *)
LEMMA HitsCover ==
  ASSUME NEW T, NEW s \in Seq(T), NEW m \in Seq(T), m # <<>>
  PROVE  /\ \A h \in Carving!Hits(s, m) :
              \E k \in Carving!Positions(s, m) : Carving!MatchesAt(s, m, k) /\ h = <<k, Len(m)>>
         /\ \A j \in Carving!Positions(s, m) : Carving!MatchesAt(s, m, j) =>
              \E h \in Carving!Hits(s, m) : h[1] <= j /\ j <= h[1] + h[2] - 1
  <1> DEFINE P == Carving!Positions(s, m)
             M == {k \in P : Carving!MatchesAt(s, m, k)}
  <1>1. PICK g : Searching(s, m, 1..(Len(s) + 1), g) /\ Carving!Hits(s, m) = g[1]
    BY HitsSearched
  <1>2. PICK L \in Nat : L = Len(s)
    OBVIOUS
  <1>3. PICK l \in Nat \ {0} : l = Len(m)
    OBVIOUS
  <1>4. P = 1..(L - l + 1)
    BY <1>2, <1>3 DEF Carving!Positions
  <1>5. \A i \in 1..(L + 1) : g[i] = IF i \notin P THEN {}
                                     ELSE IF i \in M THEN {<<i, l>>} \cup g[i + l] ELSE g[i + 1]
    BY <1>1, <1>2, <1>3 DEF Searching
  <1> DEFINE Sound(i) == \A h \in g[i] : \E k \in M : k >= i /\ h = <<k, l>>
             Covers(i) == \A j \in M : j >= i => \E h \in g[i] : h[1] <= j /\ j <= h[1] + h[2] - 1
             B == {n \in 0..L : ~(Sound(L + 1 - n) /\ Covers(L + 1 - n))}
  <1>6. M \subseteq P
    OBVIOUS
  <1> HIDE DEF M, P
  <1>7. B = {}
    <2> SUFFICES ASSUME B # {} PROVE FALSE
      OBVIOUS
    <2>1. B \subseteq Nat
      OBVIOUS
    <2> HIDE DEF B
    <2>2. PICK n \in B : \A k \in B : n <= k
      BY <2>1, LeastNumber
    <2> USE DEF B
    <2>3. PICK i \in 1..(L + 1) : i = L + 1 - n
      BY <2>2
    <2>4. ASSUME NEW o \in 1..(L + 1), o > i PROVE Sound(o) /\ Covers(o)
      <3>1. PICK k \in 0..L : k = L + 1 - o
        OBVIOUS
      <3>2. k < n /\ n \in Nat /\ k \in Nat /\ L + 1 - k = o
        BY <2>1, <2>2, <2>3, <2>4, <3>1
      <3>3. ~(n <= k)
        BY <3>2
      <3> HIDE DEF B
      <3>4. k \notin B
        BY <2>2, <3>3, Zenon
      <3> USE DEF B
      <3>5. Sound(L + 1 - k) /\ Covers(L + 1 - k)
        BY <3>4
      <3> HIDE DEF Sound, Covers
      <3> QED
        BY <3>2, <3>5
    <2>5. ~(Sound(i) /\ Covers(i))
      BY <2>2, <2>3
    <2>6. CASE i \notin P
      <3>0. g[i] = {}
        BY <1>5, <2>6, Zenon
      <3>1. g[i] = {} /\ \A j \in M : j < i
        BY <1>4, <1>6, <2>6, <3>0
      <3> QED
        BY <1>4, <1>6, <2>5, <3>1
    <2>7. CASE i \in P /\ i \notin M
      <3>0. g[i] = g[i + 1]
        BY <1>5, <2>7, Zenon
      <3>1. g[i] = g[i + 1] /\ i + 1 \in 1..(L + 1)
        BY <1>4, <2>7, <3>0
      <3>2. Sound(i + 1) /\ Covers(i + 1)
        BY <2>4, <3>1
      <3>3. Sound(i)
        BY <1>4, <1>6, <3>1, <3>2
      <3>4. Covers(i)
        BY <1>4, <1>6, <2>7, <3>1, <3>2
      <3> QED
        BY <2>5, <3>3, <3>4
    <2>8. CASE i \in M
      <3>0. g[i] = {<<i, l>>} \cup g[i + l]
        BY <1>5, <1>6, <2>8, Zenon
      <3>1. g[i] = {<<i, l>>} \cup g[i + l] /\ i + l \in 1..(L + 1)
        BY <1>4, <1>6, <2>8, <3>0
      <3>2. Sound(i + l) /\ Covers(i + l)
        BY <2>4, <3>1
      <3>3. Sound(i)
        BY <1>4, <1>6, <2>8, <3>1, <3>2
      <3>4. ASSUME NEW j \in M, j >= i PROVE \E h \in g[i] : h[1] <= j /\ j <= h[1] + h[2] - 1
        <4>1. CASE j >= i + l
          BY <3>1, <3>2, <4>1
        <4>2. CASE j < i + l
          <5>1. <<i, l>> \in g[i] /\ j \in Int
            BY <1>4, <1>6, <3>1
          <5> QED
            BY <3>4, <4>2, <5>1
        <4>3. j \in Int
          BY <1>4, <1>6
        <4> QED
          BY <4>1, <4>2, <4>3
      <3> QED
        BY <2>5, <3>3, <3>4
    <2> QED
      BY <1>6, <2>6, <2>7, <2>8
  <1>8. Sound(1) /\ Covers(1)
    <2>1. L \in 0..L /\ L + 1 - L = 1
      OBVIOUS
    <2>2. L \notin B
      BY <1>7
    <2> QED
      BY <2>1, <2>2
  <1> HIDE DEF B
  <1>9. \A j \in M : j >= 1
    BY <1>4, <1>6
  <1> QED
    BY <1>1, <1>3, <1>8, <1>9 DEF M, P

Buffer == 1..BufferLength

Span(hit) == hit[1][1]..(hit[1][1] + hit[1][2] - 1)

Overwritten == Carving!AllHits(original, signatures) \ hits

Changed == {i \in Buffer : buf[i] # original[i]}

CarveType ==
  /\ original \in [Buffer -> Bytes] /\ buf \in [Buffer -> Bytes]
  /\ signatures \in SUBSET Seq(Bytes)
  /\ fill \in Bytes \cup {PseudoRandom}
  /\ hits \subseteq Carving!AllHits(original, signatures)

(* Of a buffer that is being filled, a byte is the original one or the     *)
(* fill byte, and this if it is in a hit that is done.                     *)
FillingInv ==
  /\ CarveType
  /\ \A i \in Buffer : ~Carving!InSignature(i) => buf[i] = original[i]
  /\ fill # PseudoRandom =>
       \A i \in Buffer : /\ buf[i] \in {original[i], fill}
                         /\ (\E hit \in Overwritten : i \in Span(hit)) => buf[i] = fill
  /\ Cardinality(Changed) <= scrubReport.bytes_scrubbed

CarveInv ==
  /\ scrubPhase \in {"idle", "filling", "scrubbed"}
  /\ scrubReport \in [signatures_found : Nat, bytes_scrubbed : Nat]
  /\ scrubPhase = "idle" \/ FillingInv
  /\ scrubPhase = "scrubbed" => hits = {}

LEMMA CarveConstants ==
  /\ BufferLength \in Nat
  /\ \A sigs \in SignatureSets : sigs \in SUBSET Seq(Bytes)
  /\ \A byte \in Fills : byte \in Bytes \cup {PseudoRandom}
  <1>1. BufferLength \in Nat
    BY ReclaimAssumption, Zenon
  <1>2. SignatureSets \subseteq SUBSET Seq(Bytes)
    BY ReclaimAssumption, Zenon
  <1>3. Fills \subseteq Bytes \cup {PseudoRandom}
    BY ReclaimAssumption, Zenon
  <1>4. \A byte \in Fills : byte \in Bytes \cup {PseudoRandom}
    BY <1>3
  <1>5. \A sigs \in SignatureSets : sigs \in SUBSET Seq(Bytes)
    BY <1>2
  <1> QED
    BY <1>1, <1>4, <1>5

LEMMA BufferIsSeq ==
  ASSUME NEW b \in [Buffer -> Bytes]
  PROVE  b \in Seq(Bytes) /\ Len(b) = BufferLength
  BY CarveConstants DEF Buffer

LEMMA HitInBuffer ==
  ASSUME CarveType, NEW hit \in Carving!AllHits(original, signatures)
  PROVE  /\ hit[1][1] \in Nat /\ hit[1][2] \in Nat
         /\ IsFiniteSet(Span(hit)) /\ Cardinality(Span(hit)) = hit[1][2]
         /\ \A i \in Span(hit) : i \in Buffer /\ Carving!InSignature(i)
  <1>0. PICK m \in signatures : \E h \in Carving!Hits(original, m) : hit = <<h, m>>
    BY DEF Carving!AllHits
  <1>1. PICK h \in Carving!Hits(original, m) : hit = <<h, m>>
    BY <1>0
  <1>2. m \in Seq(Bytes) /\ original \in Seq(Bytes) /\ Len(original) = BufferLength
    BY BufferIsSeq DEF CarveType
  <1>3. m # <<>>
    BY <1>1 DEF Carving!Hits
  <1>4. PICK k \in Carving!Positions(original, m) :
          Carving!MatchesAt(original, m, k) /\ h = <<k, Len(m)>>
    BY <1>1, <1>2, <1>3, HitsCover
  <1>5. /\ hit[1][1] = k /\ hit[1][2] = Len(m)
    BY <1>1, <1>4
  <1>6. Len(m) \in Nat \ {0} /\ k \in Nat \ {0} /\ k + Len(m) - 1 <= BufferLength
    BY <1>2, <1>3, <1>4, CarveConstants DEF Carving!Positions
  <1>7. Span(hit) = k..(k + Len(m) - 1)
    BY <1>5 DEF Span
  <1>8. IsFiniteSet(Span(hit)) /\ Cardinality(Span(hit)) = Len(m)
    <2>1. k \in Int /\ k + Len(m) - 1 \in Int /\ k <= k + Len(m) - 1 /\ (k + Len(m) - 1) - k + 1 = Len(m)
      BY <1>6
    <2> QED
      BY <1>7, <2>1, FS_Interval
  <1>9. ASSUME NEW i \in Span(hit) PROVE i \in Buffer /\ Carving!InSignature(i)
    <2>1. i \in k..(k + Len(m) - 1) /\ k \in Buffer /\ i \in Buffer
      BY <1>6, <1>7, CarveConstants DEF Buffer
    <2> QED
      BY <1>3, <1>4, <2>1 DEF Carving!InSignature, Buffer
  <1> QED
    BY <1>5, <1>6, <1>8, <1>9

LEMMA StepScrub ==
  ASSUME CarveInv, NEW contents \in [Buffer -> Bytes], NEW sigs \in SignatureSets, NEW byte \in Fills,
         Carving!Scrub(contents, sigs, byte)
  PROVE  CarveInv'
  <1>1. /\ buf' = contents /\ original' = contents /\ signatures' = sigs /\ fill' = byte
        /\ scrubPhase' = "filling" /\ hits' = Carving!AllHits(contents, sigs)
        /\ scrubReport' = scrubReport
    BY DEF Carving!Scrub
  <1>2. CarveType'
    BY <1>1, CarveConstants DEF CarveType, Buffer
  <1>3. Overwritten' = {} /\ Changed' = {}
    BY <1>1 DEF Overwritten, Changed, Buffer
  <1>4. Cardinality(Changed)' <= scrubReport'.bytes_scrubbed
    BY <1>1, <1>3, FS_EmptySet DEF CarveInv
  <1>5. \A i \in Buffer' : buf'[i] = original'[i]
    BY <1>1
  <1>6. FillingInv'
    BY <1>2, <1>3, <1>4, <1>5 DEF FillingInv
  <1> QED
    BY <1>1, <1>6 DEF CarveInv

LEMMA StepFill ==
  ASSUME CarveInv, NEW hit \in hits, Carving!FillRange(hit)
  PROVE  CarveInv'
  <1>1. /\ scrubPhase = "filling" /\ scrubPhase' = scrubPhase /\ hits' = hits \ {hit}
        /\ signatures' = signatures /\ fill' = fill /\ original' = original
        /\ scrubReport' = [signatures_found |-> scrubReport.signatures_found + 1,
                           bytes_scrubbed |-> scrubReport.bytes_scrubbed + hit[1][2]]
    BY DEF Carving!FillRange
  <1>2. FillingInv /\ CarveType
    BY <1>1 DEF CarveInv, FillingInv
  <1>3. hit \in Carving!AllHits(original, signatures)
    BY <1>2 DEF CarveType
  <1> DEFINE S == Span(hit)
  <1>4. /\ hit[1][1] \in Nat /\ hit[1][2] \in Nat
        /\ IsFiniteSet(S) /\ Cardinality(S) = hit[1][2]
        /\ \A i \in S : i \in Buffer /\ Carving!InSignature(i)
    BY <1>2, <1>3, HitInBuffer
  <1>5. /\ buf' \in [Buffer -> Bytes]
        /\ \A i \in Buffer \ S : buf'[i] = buf[i]
        /\ fill # PseudoRandom => \A i \in S : buf'[i] = fill
    <2>1. CASE fill = PseudoRandom
      <3>1. PICK s \in [S -> Bytes] : buf' = [i \in DOMAIN buf |-> IF i \in DOMAIN s THEN s[i] ELSE buf[i]]
        BY <2>1 DEF Carving!FillRange, Span
      <3> QED
        BY <1>2, <2>1, <3>1 DEF CarveType
    <2>2. CASE fill # PseudoRandom
      <3>1. buf' = [i \in DOMAIN buf |-> IF i \in S THEN fill ELSE buf[i]]
        BY <2>2 DEF Carving!FillRange, Carving!Filled, Span
      <3>2. fill \in Bytes
        BY <1>2, <2>2 DEF CarveType
      <3> HIDE DEF S
      <3> QED
        BY <1>2, <1>4, <3>1, <3>2 DEF CarveType
    <2> QED
      BY <2>1, <2>2
  <1> HIDE DEF S
  <1>6. CarveType'
    BY <1>1, <1>2, <1>5 DEF CarveType, Buffer
  <1>7. scrubReport' \in [signatures_found : Nat, bytes_scrubbed : Nat]
    BY <1>1, <1>4 DEF CarveInv
  <1>8. \A i \in Buffer : Carving!InSignature(i)' = Carving!InSignature(i)
    BY <1>1 DEF Carving!InSignature
  <1>9. \A i \in Buffer : ~Carving!InSignature(i) => buf'[i] = original[i]
    BY <1>2, <1>4, <1>5 DEF FillingInv
  <1>10. ASSUME fill # PseudoRandom, NEW i \in Buffer
         PROVE  /\ buf'[i] \in {original[i], fill}
                /\ (\E x \in Overwritten' : i \in Span(x)) => buf'[i] = fill
    <2>1. CASE i \in S
      BY <1>5, <1>10, <2>1
    <2>2. CASE i \notin S
      <3>1. /\ buf'[i] = buf[i] /\ buf[i] \in {original[i], fill}
            /\ (\E x \in Overwritten : i \in Span(x)) => buf[i] = fill
        BY <1>2, <1>5, <1>10, <2>2 DEF FillingInv
      <3>2. ASSUME NEW x \in Overwritten', i \in Span(x) PROVE x \in Overwritten
        BY <1>1, <2>2, <3>2 DEF Overwritten, S
      <3> QED
        BY <3>1, <3>2
    <2> QED
      BY <2>1, <2>2
  <1>11. Cardinality(Changed') <= scrubReport'.bytes_scrubbed
    <2>1. Changed' \subseteq Changed \cup S
      BY <1>1, <1>5 DEF Changed, Buffer
    <2>2. IsFiniteSet(Buffer) /\ Changed \subseteq Buffer
      BY CarveConstants, FS_Interval DEF Buffer, Changed
    <2>3. IsFiniteSet(Changed) /\ IsFiniteSet(S)
      BY <1>4, <2>2, FS_Subset
    <2>4. /\ IsFiniteSet(Changed \cup S) /\ IsFiniteSet(Changed \cap S)
          /\ Cardinality(Changed \cup S) = Cardinality(Changed) + Cardinality(S) - Cardinality(Changed \cap S)
      BY <2>3, FS_Union, FS_Intersection
    <2>5. /\ Cardinality(Changed') <= Cardinality(Changed \cup S) /\ IsFiniteSet(Changed')
      BY <2>1, <2>4, FS_Subset
    <2>6. /\ Cardinality(Changed) \in Nat /\ Cardinality(S) \in Nat /\ Cardinality(Changed') \in Nat
          /\ Cardinality(Changed \cap S) \in Nat
      BY <2>3, <2>4, <2>5, FS_CardinalityType
    <2>7. /\ Cardinality(Changed) <= scrubReport.bytes_scrubbed /\ scrubReport.bytes_scrubbed \in Nat
      BY <1>2 DEF FillingInv, CarveInv
    <2>8. scrubReport'.bytes_scrubbed = scrubReport.bytes_scrubbed + Cardinality(S)
      BY <1>1, <1>4
    <2> DEFINE c == Cardinality(Changed)  d == Cardinality(S)  e == Cardinality(Changed')
               b == Cardinality(Changed \cap S)  u == Cardinality(Changed \cup S)
    <2>9. c \in Nat /\ d \in Nat /\ e \in Nat /\ b \in Nat /\ u = c + d - b /\ e <= u
      BY <2>4, <2>5, <2>6
    <2> HIDE DEF c, d, e, b, u
    <2>10. e <= scrubReport.bytes_scrubbed + d
      BY <2>7, <2>9 DEF c
    <2> QED
      BY <2>8, <2>10 DEF d, e
  <1>12. FillingInv'
    <2>1. \A i \in Buffer' : ~Carving!InSignature(i)' => buf'[i] = original'[i]
      BY <1>1, <1>8, <1>9 DEF Buffer
    <2>2. fill' # PseudoRandom =>
            \A i \in Buffer' : /\ buf'[i] \in {original'[i], fill'}
                               /\ (\E x \in Overwritten' : i \in Span(x)') => buf'[i] = fill'
      BY <1>1, <1>10 DEF Buffer, Span
    <2> QED
      BY <1>6, <1>11, <2>1, <2>2 DEF FillingInv
  <1> QED
    BY <1>1, <1>7, <1>12 DEF CarveInv

LEMMA StepCarving ==
  ASSUME CarveInv, Carving!Next \/ UNCHANGED carvingVars
  PROVE  CarveInv'
  <1>1. CASE UNCHANGED carvingVars
    BY <1>1 DEF carvingVars, CarveInv, FillingInv, CarveType, Buffer, Overwritten, Changed, Span,
       Carving!InSignature
  <1>2. CASE Carving!Finish
    <2>1. /\ hits = {} /\ scrubPhase = "filling" /\ scrubPhase' = "scrubbed"
          /\ UNCHANGED <<buf, signatures, fill, hits, scrubReport, original>>
      BY <1>2 DEF Carving!Finish
    <2>2. FillingInv' = FillingInv
      BY <2>1 DEF FillingInv, CarveType, Buffer, Overwritten, Changed, Span, Carving!InSignature
    <2> QED
      BY <2>1, <2>2 DEF CarveInv
  <1>3. ASSUME NEW hit \in hits, Carving!FillRange(hit) PROVE CarveInv'
    BY <1>3, StepFill
  <1>4. ASSUME NEW contents \in [Buffer -> Bytes], NEW sigs \in SignatureSets, NEW byte \in Fills,
               Carving!Scrub(contents, sigs, byte)
        PROVE  CarveInv'
    BY <1>4, StepScrub
  <1> QED
    BY <1>1, <1>2, <1>3, <1>4 DEF Carving!Next, Buffer

(* What begins within a hit of a scrubbed buffer does not begin there      *)
(* any more, and nothing begins where it did not before.                   *)
LEMMA NothingBegins ==
  ASSUME FillingInv, hits = {}, fill # PseudoRandom,
         NEW m \in signatures, m # <<>>, fill \notin Carving!Range(m),
         NEW i \in 1..Len(buf), Carving!MatchesAt(buf, m, i)
  PROVE  FALSE
  <1>1. /\ m \in Seq(Bytes) /\ buf \in Seq(Bytes) /\ original \in Seq(Bytes)
        /\ Len(buf) = BufferLength /\ Len(original) = BufferLength /\ Len(m) \in Nat \ {0}
    <2>1. m \in Seq(Bytes) /\ buf \in [Buffer -> Bytes] /\ original \in [Buffer -> Bytes]
      BY DEF FillingInv, CarveType
    <2> QED
      BY <2>1, BufferIsSeq
  <1>2. i + Len(m) - 1 <= BufferLength /\ i \in Nat \ {0}
    BY <1>1 DEF Carving!MatchesAt
  <1>3. \A x \in 1..Len(m) : buf[i + x - 1] = m[x] /\ i + x - 1 \in Buffer
    <2>1. SubSeq(buf, i, i + Len(m) - 1) = m
      BY DEF Carving!MatchesAt
    <2>2. \A x \in 1..Len(m) : SubSeq(buf, i, i + Len(m) - 1)[x] = buf[i + x - 1]
      BY <1>1, <1>2
    <2> QED
      BY <1>1, <1>2, <2>1, <2>2 DEF Buffer
  <1>4. \A x \in 1..Len(m) : original[i + x - 1] = m[x]
    <2>1. ASSUME NEW x \in 1..Len(m) PROVE original[i + x - 1] = m[x]
      <3>1. m[x] # fill
        BY <1>1 DEF Carving!Range
      <3>2. buf[i + x - 1] \in {original[i + x - 1], fill}
        BY <1>3 DEF FillingInv
      <3> QED
        BY <1>3, <3>1, <3>2
    <2> QED
      BY <2>1
  <1>5. Carving!MatchesAt(original, m, i)
    <2> DEFINE q == SubSeq(original, i, i + Len(m) - 1)
    <2>1. q \in Seq(Bytes) /\ Len(q) = Len(m) /\ \A x \in 1..Len(m) : q[x] = original[i + x - 1]
      <3>1. i \in Int /\ i + Len(m) - 1 \in Int /\ i <= i + Len(m) - 1 /\ i + Len(m) - 1 - i + 1 = Len(m)
        BY <1>1, <1>2
      <3>2. ASSUME NEW x \in i..(i + Len(m) - 1) PROVE original[x] \in Bytes
        <4>1. x \in 1..Len(original)
          BY <1>1, <1>2
        <4> QED
          BY <1>1, <4>1, ElementOfSeq
      <3>3. /\ q \in Seq(Bytes)
            /\ Len(q) = IF i <= i + Len(m) - 1 THEN i + Len(m) - 1 - i + 1 ELSE 0
            /\ \A x \in 1..(i + Len(m) - 1 - i + 1) : q[x] = original[i + x - 1]
        BY <3>1, <3>2, SubSeqProperties
      <3> HIDE DEF q
      <3> QED
        BY <3>1, <3>3
    <2> HIDE DEF q
    <2>2. \A x \in 1..Len(m) : q[x] = m[x]
      BY <1>4, <2>1
    <2>3. q = m
      BY <1>1, <2>1, <2>2
    <2> QED
      BY <1>1, <1>2, <2>3 DEF Carving!MatchesAt, q
  <1>6. i \in Carving!Positions(original, m)
    BY <1>1, <1>2 DEF Carving!Positions
  <1>7. PICK h \in Carving!Hits(original, m) : h[1] <= i /\ i <= h[1] + h[2] - 1
    BY <1>1, <1>5, <1>6, HitsCover
  <1>8. <<h, m>> \in Overwritten
    BY <1>7 DEF Overwritten, Carving!AllHits
  <1>9. i \in Span(<<h, m>>)
    <2>1. PICK k \in Carving!Positions(original, m) : h = <<k, Len(m)>>
      BY <1>1, <1>7, HitsCover
    <2>2. k \in Int
      BY <1>1, <2>1 DEF Carving!Positions
    <2> QED
      BY <1>2, <1>7, <2>1, <2>2 DEF Span
  <1>10. i \in Buffer
    BY <1>1 DEF Buffer
  <1>11. buf[i] = fill
    BY <1>8, <1>9, <1>10 DEF FillingInv
  <1>12. buf[i] = m[1] /\ m[1] \in Carving!Range(m)
    <2>1. 1 \in 1..Len(m) /\ i + 1 - 1 = i
      BY <1>1, <1>2
    <2> QED
      BY <1>1, <1>3, <2>1 DEF Carving!Range
  <1> QED
    BY <1>11, <1>12

(* A scrubbed buffer holds no signature, if the fill byte is in none, is   *)
(* as it was outside them, and no byte changed that is not reported.       *)
THEOREM ScrubbedIsScrubbed == ReclaimSpec => []NoSignatureLeft
  <1>1. ReclaimInit => CarveInv
    BY DEF ReclaimInit, Carving!Init, CarveInv
  <1>2. CarveInv /\ [ReclaimNext]_allVars => CarveInv'
    BY ReclaimParts, StepCarving
  <1>3. CarveInv => NoSignatureLeft
    <2> SUFFICES ASSUME CarveInv, scrubPhase = "scrubbed"
                 PROVE  /\ (fill # PseudoRandom /\ \A m \in signatures : fill \notin Carving!Range(m)) =>
                             ~Carving!ContainsSignature(buf)
                        /\ \A i \in 1..BufferLength : ~Carving!InSignature(i) => buf[i] = original[i]
                        /\ Carving!Cardinality({i \in 1..BufferLength : buf[i] # original[i]}) <= scrubReport.bytes_scrubbed
      BY DEF NoSignatureLeft, Carving!NoSignatureLeft
    <2>1. FillingInv /\ hits = {}
      BY DEF CarveInv
    <2>2. ASSUME fill # PseudoRandom, \A m \in signatures : fill \notin Carving!Range(m),
                 Carving!ContainsSignature(buf)
          PROVE  FALSE
      <3>1. PICK m \in signatures : m # <<>> /\ \E i \in 1..Len(buf) : Carving!MatchesAt(buf, m, i)
        BY <2>2 DEF Carving!ContainsSignature
      <3> QED
        BY <2>1, <2>2, <3>1, NothingBegins
    <2>3. Carving!Cardinality({i \in 1..BufferLength : buf[i] # original[i]}) = Cardinality(Changed)
      BY Zenon DEF Carving!Cardinality, Cardinality, Changed, Buffer
    <2> QED
      BY <2>1, <2>2, <2>3 DEF FillingInv, Buffer
  <1> QED
    BY <1>1, <1>2, <1>3, PTL DEF ReclaimSpec

-----------------------------------------------------------------------------
(***************************************************************************)
(* BackupRotator.  What came first in a period is kept as long as all the  *)
(* periods it lies in are recent: it comes first among what is left of     *)
(* them, whichever tier that puts it in.                                   *)
(***************************************************************************)
IsRecent(d, length, tier) == d \div length \in Rotation!Recent(length, Policy[tier])

CameFirst(length, d) == \A e \in taken : Rotation!Same(length, e, d) => d <= e

RotationInv ==
  /\ day \in Nat /\ taken \subseteq 0..day /\ backups \subseteq taken
  /\ (\A tier \in DOMAIN Policy : Policy[tier] > 0) =>
       \A d \in taken : (\A e \in taken : e <= d) => d \in backups
  /\ \A d \in taken : IsRecent(d, Year, "Yearly") =>
       /\ CameFirst(Year, d) => d \in backups
       /\ IsRecent(d, Month, "Monthly") =>
            /\ CameFirst(Month, d) => d \in backups
            /\ IsRecent(d, Week, "Weekly") => (CameFirst(Week, d) => d \in backups)

Tiers == {"Yearly", "Monthly", "Weekly", "Daily"}

LEMMA CalendarFacts ==
  /\ Week \in Nat \ {0} /\ Month \in Nat \ {0} /\ Year \in Nat \ {0}
  /\ \E n \in Nat \ {0} : Year = n * Month
  /\ Policy \in [Tiers -> Nat]
  <1>1. /\ Week \in Nat \ {0} /\ Month \in Nat \ {0} /\ Year \in Nat \ {0}
        /\ \E n \in 1..Year : Year = n * Month
        /\ Policy \in [Tiers -> Nat]
    BY ReclaimAssumption, Zenon DEF Tiers
  <1>2. \A n \in 1..Year : n \in Nat \ {0}
    BY <1>1
  <1> QED
    BY <1>1, <1>2

LEMMA PeriodOf ==
  ASSUME NEW length \in Nat \ {0}, NEW d \in Nat
  PROVE  d \div length \in Nat
  BY DivMod

LEMMA LeastOf ==
  ASSUME NEW S \in SUBSET Nat, NEW m \in S
  PROVE  m = Rotation!Min(S) <=> \A k \in S : m <= k
  <1>1. PICK n \in S : \A k \in S : n <= k
    BY LeastNumber
  <1>2. Rotation!Min(S) \in S /\ \A k \in S : Rotation!Min(S) <= k
    BY <1>1, Zenon DEF Rotation!Min
  <1> DEFINE x == Rotation!Min(S)
  <1>3. x \in S /\ \A k \in S : x <= k
    BY <1>2
  <1> HIDE DEF x
  <1>4. m = x <=> \A k \in S : m <= k
    BY <1>3
  <1> QED
    BY <1>4 DEF x

LEMMA FirstAmong ==
  ASSUME NEW all \in SUBSET Nat, NEW b \in all, NEW length
  PROVE  Rotation!IsFirst(length, b, all) <=>
           \A d \in all : Rotation!Same(length, d, b) => b <= d
  <1> DEFINE S == {d \in all : Rotation!Same(length, d, b)}
  <1>1. S \in SUBSET Nat /\ b \in S
    BY DEF Rotation!Same
  <1>2. Rotation!IsFirst(length, b, all) <=> b = Rotation!Min(S)
    BY DEF Rotation!IsFirst
  <1>3. \A d : d \in S <=> d \in all /\ Rotation!Same(length, d, b)
    OBVIOUS
  <1> HIDE DEF S
  <1>4. b = Rotation!Min(S) <=> \A k \in S : b <= k
    BY <1>1, LeastOf
  <1> QED
    BY <1>2, <1>3, <1>4

(* Which tier a backup falls into, by what it comes first in.              *)
LEMMA TierOf ==
  ASSUME NEW b, NEW all
  PROVE  LET y == Rotation!IsFirst(Year, b, all)
             m == Rotation!IsFirst(Month, b, all)
             w == Rotation!IsFirst(Week, b, all)
             t == Rotation!Classify(b, all)
         IN  /\ t \in Tiers
             /\ t = "Yearly" <=> y
             /\ t = "Monthly" <=> ~y /\ m
             /\ t = "Weekly" <=> ~y /\ ~m /\ w
  <1> DEFINE y == Rotation!IsFirst(Year, b, all)
             m == Rotation!IsFirst(Month, b, all)
             w == Rotation!IsFirst(Week, b, all)
  <1>1. Rotation!Classify(b, all) =
          CASE y -> "Yearly"
            [] ~y /\ m -> "Monthly"
            [] ~y /\ ~m /\ w -> "Weekly"
            [] OTHER -> "Daily"
    BY DEF Rotation!Classify
  <1> HIDE DEF y, m, w
  <1>2. CASE y
    <2>1. Rotation!Classify(b, all) = "Yearly"
      BY <1>1, <1>2
    <2> QED
      BY <1>2, <2>1 DEF Tiers, y, m, w
  <1>3. CASE ~y /\ m
    <2>1. Rotation!Classify(b, all) = "Monthly"
      BY <1>1, <1>3
    <2> QED
      BY <1>3, <2>1 DEF Tiers, y, m, w
  <1>4. CASE ~y /\ ~m /\ w
    <2>1. Rotation!Classify(b, all) = "Weekly"
      BY <1>1, <1>4
    <2> QED
      BY <1>4, <2>1 DEF Tiers, y, m, w
  <1>5. CASE ~y /\ ~m /\ ~w
    <2>1. Rotation!Classify(b, all) = "Daily"
      BY <1>1, <1>5
    <2> QED
      BY <1>5, <2>1 DEF Tiers, y, m, w
  <1> QED
    BY <1>2, <1>3, <1>4, <1>5

LEMMA RotationCardinality ==
  ASSUME NEW S
  PROVE  Rotation!Cardinality(S) = Cardinality(S)
  BY Zenon DEF Rotation!Cardinality, Cardinality

LEMMA TakenFinite ==
  ASSUME RotationInv, NEW length \in Nat \ {0}
  PROVE  /\ IsFiniteSet(taken) /\ taken \subseteq Nat
         /\ IsFiniteSet(Rotation!Periods(length)) /\ Rotation!Periods(length) \subseteq Nat
  <1>1. taken \subseteq 0..day /\ day \in Nat
    BY DEF RotationInv
  <1>2. IsFiniteSet(taken) /\ taken \subseteq Nat
    <2>1. IsFiniteSet(0..day)
      <3>1. 0 \in Int /\ day \in Int
        BY <1>1
      <3> QED
        BY <3>1, FS_Interval
    <2>2. IsFiniteSet(taken)
      BY <1>1, <2>1, FS_Subset, Zenon
    <2>3. \A d \in 0..day : d \in Nat
      BY <1>1
    <2>4. taken \subseteq Nat
      BY <1>1, <2>3, Zenon
    <2> QED
      BY <2>2, <2>4
  <1>3. Rotation!Periods(length) \subseteq 0..(day \div length) /\ day \div length \in Nat
    <2>1. day \div length \in Nat
      BY <1>1, PeriodOf
    <2>2. ASSUME NEW d \in taken PROVE d \div length \in 0..(day \div length)
      <3>1. d \in Nat /\ d <= day
        BY <1>1
      <3>2. d \div length \in Nat /\ d \div length <= day \div length
        BY <1>1, <3>1, PeriodOf, DivMonotone
      <3> QED
        BY <2>1, <3>2
    <2> QED
      BY <2>1, <2>2 DEF Rotation!Periods
  <1> DEFINE P == Rotation!Periods(length)  n == day \div length
  <1>4. P \subseteq 0..n /\ n \in Nat
    BY <1>3
  <1> HIDE DEF P, n
  <1>5. IsFiniteSet(P) /\ P \subseteq Nat
    <2>1. IsFiniteSet(0..n)
      <3>1. 0 \in Int /\ n \in Int
        BY <1>4
      <3> QED
        BY <3>1, FS_Interval
    <2>2. IsFiniteSet(P)
      BY <1>4, <2>1, FS_Subset, Zenon
    <2>3. \A d \in 0..n : d \in Nat
      BY <1>4
    <2>4. P \subseteq Nat
      BY <1>4, <2>3, Zenon
    <2> QED
      BY <2>2, <2>4
  <1> QED
    BY <1>2, <1>5 DEF P

(* No more come first in a newer period than there are newer periods.      *)
LEMMA FirstsAreFew ==
  ASSUME RotationInv, NEW tier \in Tiers, NEW length \in Nat \ {0}, NEW b \in backups,
         b \in Rotation!InTier(tier, backups), IsRecent(b, length, tier),
         \A d \in Rotation!InTier(tier, backups) : Rotation!IsFirst(length, d, backups)
  PROVE  b \in Rotation!Newest(tier, backups)
  <1> DEFINE Newer == {d \in Rotation!InTier(tier, backups) : d > b}
             P == Rotation!Periods(length)
             Later == {q \in P : q > b \div length}
             f == [d \in Newer |-> d \div length]
  <1>1. backups \subseteq taken /\ backups \in SUBSET Nat /\ Newer \subseteq backups
    BY TakenFinite DEF RotationInv, Rotation!InTier
  <1>2. IsFiniteSet(P) /\ IsFiniteSet(Later)
    BY TakenFinite, FS_Subset
  <1>3. ASSUME NEW d \in Newer, NEW e \in Newer \cup {b}, d \div length = e \div length
        PROVE  d = e
    <2>1. d \in Rotation!InTier(tier, backups) /\ e \in Rotation!InTier(tier, backups)
      OBVIOUS
    <2>2. Rotation!IsFirst(length, d, backups) /\ Rotation!IsFirst(length, e, backups)
      BY <2>1
    <2>3. d \in backups /\ e \in backups /\ d \in Nat /\ e \in Nat
      BY <1>1
    <2>4. Rotation!Same(length, d, e) /\ Rotation!Same(length, e, d)
      BY <1>3 DEF Rotation!Same
    <2>5. d <= e /\ e <= d
      BY <1>1, <2>2, <2>3, <2>4, FirstAmong
    <2> QED
      BY <2>3, <2>5
  <1>4. ASSUME NEW d \in Newer PROVE d \div length \in Later
    <2>1. d \in taken /\ d \in Nat /\ b \in Nat /\ d > b
      BY <1>1
    <2>2. d \div length \in P
      BY <2>1 DEF Rotation!Periods
    <2>3. b \div length <= d \div length /\ d \div length \in Nat /\ b \div length \in Nat
      BY <2>1, DivMonotone, PeriodOf
    <2>4. d \div length # b \div length
      BY <1>3, <2>1
    <2> DEFINE x == d \div length  y == b \div length
    <2>5. x \in P /\ y <= x /\ x \in Nat /\ y \in Nat /\ x # y
      BY <2>2, <2>3, <2>4
    <2> HIDE DEF x, y, P
    <2>6. x > y
      BY <2>5
    <2> QED
      BY <2>2, <2>6 DEF x, y
  <1>5. f \in Injection(Newer, Later)
    <2>1. f \in [Newer -> Later]
      BY <1>4
    <2>2. \A d, e \in Newer : f[d] = f[e] => d = e
      BY <1>3
    <2> HIDE DEF f, Newer, Later
    <2> QED
      BY <2>1, <2>2 DEF Injection, IsInjective
  <1>6. IsFiniteSet(Newer) /\ Cardinality(Newer) <= Cardinality(Later)
    BY <1>2, <1>5, FS_Injection
  <1>7. Cardinality(Later) < Policy[tier]
    <2>1. b \div length \in Rotation!Recent(length, Policy[tier])
      BY DEF IsRecent
    <2>2. Rotation!Cardinality(Later) < Policy[tier]
      BY <2>1 DEF Rotation!Recent
    <2> QED
      BY <2>2, RotationCardinality
  <1>8. Cardinality(Newer) < Policy[tier]
    <2>1. Cardinality(Newer) \in Nat /\ Cardinality(Later) \in Nat /\ Policy[tier] \in Nat
      BY <1>2, <1>6, FS_CardinalityType, CalendarFacts
    <2> QED
      BY <1>6, <1>7, <2>1
  <1>9. Rotation!Cardinality(Newer) < Policy[tier]
    BY <1>8, RotationCardinality
  <1> QED
    BY <1>9 DEF Rotation!Newest

LEMMA KeptIfNewest ==
  ASSUME NEW tier \in Tiers, NEW b \in Rotation!Newest(tier, backups)
  PROVE  b \in Rotation!Keep(backups)
  <1>1. DOMAIN Policy = Tiers
    BY CalendarFacts
  <1> QED
    BY <1>1 DEF Rotation!Keep

(* Of what a plan keeps, the tiers one by one.                             *)
LEMMA PlanKeeps ==
  ASSUME RotationInv, NEW b \in backups,
         Rotation!IsFirst(Year, b, backups) => IsRecent(b, Year, "Yearly"),
         ~Rotation!IsFirst(Year, b, backups) /\ Rotation!IsFirst(Month, b, backups) =>
           IsRecent(b, Month, "Monthly"),
         ~Rotation!IsFirst(Year, b, backups) /\ ~Rotation!IsFirst(Month, b, backups) =>
           Rotation!IsFirst(Week, b, backups) /\ IsRecent(b, Week, "Weekly")
  PROVE  b \in Rotation!Keep(backups)
  <1>1. \A tier : \A d : d \in Rotation!InTier(tier, backups) <=>
                           d \in backups /\ Rotation!Classify(d, backups) = tier
    BY DEF Rotation!InTier
  <1>2. CASE Rotation!IsFirst(Year, b, backups)
    <2>1. /\ b \in Rotation!InTier("Yearly", backups)
          /\ \A d \in Rotation!InTier("Yearly", backups) : Rotation!IsFirst(Year, d, backups)
      BY <1>1, <1>2, TierOf
    <2> QED
      BY <1>2, <2>1, FirstsAreFew, KeptIfNewest, CalendarFacts DEF Tiers
  <1>3. CASE ~Rotation!IsFirst(Year, b, backups) /\ Rotation!IsFirst(Month, b, backups)
    <2>1. /\ b \in Rotation!InTier("Monthly", backups)
          /\ \A d \in Rotation!InTier("Monthly", backups) : Rotation!IsFirst(Month, d, backups)
      BY <1>1, <1>3, TierOf
    <2> QED
      BY <1>3, <2>1, FirstsAreFew, KeptIfNewest, CalendarFacts DEF Tiers
  <1>4. CASE ~Rotation!IsFirst(Year, b, backups) /\ ~Rotation!IsFirst(Month, b, backups)
    <2>1. /\ b \in Rotation!InTier("Weekly", backups)
          /\ \A d \in Rotation!InTier("Weekly", backups) : Rotation!IsFirst(Week, d, backups)
      BY <1>1, <1>4, TierOf
    <2> QED
      BY <1>4, <2>1, FirstsAreFew, KeptIfNewest, CalendarFacts DEF Tiers
  <1> QED
    BY <1>2, <1>3, <1>4

LEMMA StillFirst ==
  ASSUME RotationInv, NEW length \in Nat \ {0}, NEW d \in backups, CameFirst(length, d)
  PROVE  Rotation!IsFirst(length, d, backups)
  <1>1. backups \subseteq taken /\ backups \in SUBSET Nat
    BY TakenFinite DEF RotationInv
  <1> QED
    BY <1>1, FirstAmong DEF CameFirst

LEMMA StepRotate ==
  ASSUME RotationInv, Rotation!Rotate
  PROVE  RotationInv'
  <1>1. PICK some \in SUBSET Rotation!Delete(backups) : backups' = backups \ some
    BY DEF Rotation!Rotate
  <1>2. day' = day /\ taken' = taken
    BY DEF Rotation!Rotate
  <1>3. \A b \in backups : b \in Rotation!Keep(backups) => b \in backups'
    BY <1>1 DEF Rotation!Delete
  <1>4. \A d \in taken : \A tier, length : IsRecent(d, length, tier)' = IsRecent(d, length, tier)
    BY <1>2 DEF IsRecent, Rotation!Recent, Rotation!Periods
  <1>5. \A d \in taken : \A length : CameFirst(length, d)' = CameFirst(length, d)
    BY <1>2 DEF CameFirst
  <1>6. ASSUME \A tier \in DOMAIN Policy : Policy[tier] > 0,
               NEW d \in taken, \A e \in taken : e <= d
        PROVE  d \in backups'
    <2>1. d \in backups /\ backups \subseteq taken /\ backups \in SUBSET Nat /\ d \in Nat
      BY <1>6, TakenFinite, CalendarFacts DEF RotationInv
    <2> DEFINE tier == Rotation!Classify(d, backups)
               Newer == {e \in Rotation!InTier(tier, backups) : e > d}
    <2>2. tier \in Tiers /\ d \in Rotation!InTier(tier, backups)
      BY <2>1, TierOf DEF Rotation!InTier
    <2> HIDE DEF tier
    <2>3. Newer = {}
      <3>1. ASSUME NEW e \in Newer PROVE FALSE
        <4>1. e \in taken /\ e \in Nat /\ e > d
          BY <2>1 DEF Rotation!InTier
        <4>2. e <= d
          BY <1>6, <4>1, Zenon
        <4> QED
          BY <2>1, <4>1, <4>2
      <3> QED
        BY <3>1
    <2>4. Rotation!Cardinality(Newer) = 0
      BY <2>3, FS_EmptySet, RotationCardinality
    <2>5. 0 < Policy[tier]
      BY <1>6, <2>2, CalendarFacts
    <2>6. d \in Rotation!Newest(tier, backups)
      BY <2>2, <2>4, <2>5 DEF Rotation!Newest
    <2> QED
      BY <1>3, <2>1, <2>2, <2>6, KeptIfNewest
  <1>7. ASSUME NEW d \in taken, IsRecent(d, Year, "Yearly"), CameFirst(Year, d)
        PROVE  d \in backups'
    <2>1. d \in backups
      BY <1>7 DEF RotationInv
    <2>2. Rotation!IsFirst(Year, d, backups)
      BY <1>7, <2>1, StillFirst, CalendarFacts
    <2> QED
      BY <1>3, <1>7, <2>1, <2>2, PlanKeeps
  <1>8. ASSUME NEW d \in taken, IsRecent(d, Year, "Yearly"), IsRecent(d, Month, "Monthly"),
               CameFirst(Month, d)
        PROVE  d \in backups'
    <2>1. d \in backups
      BY <1>8 DEF RotationInv
    <2>2. Rotation!IsFirst(Month, d, backups)
      BY <1>8, <2>1, StillFirst, CalendarFacts
    <2> QED
      BY <1>3, <1>8, <2>1, <2>2, PlanKeeps
  <1>9. ASSUME NEW d \in taken, IsRecent(d, Year, "Yearly"), IsRecent(d, Month, "Monthly"),
               IsRecent(d, Week, "Weekly"), CameFirst(Week, d)
        PROVE  d \in backups'
    <2>1. d \in backups
      BY <1>9 DEF RotationInv
    <2>2. Rotation!IsFirst(Week, d, backups)
      BY <1>9, <2>1, StillFirst, CalendarFacts
    <2> QED
      BY <1>3, <1>9, <2>1, <2>2, PlanKeeps
  <1>10. day' \in Nat /\ taken' \subseteq 0..day' /\ backups' \subseteq taken'
    BY <1>1, <1>2 DEF RotationInv
  <1> QED
    BY <1>2, <1>4, <1>5, <1>6, <1>7, <1>8, <1>9, <1>10 DEF RotationInv

(* What is recent once there is one backup more was recent before.         *)
LEMMA RecentBefore ==
  ASSUME RotationInv, taken' = taken \cup {day}, NEW d \in taken,
         NEW length \in Nat \ {0}, NEW tier \in Tiers, IsRecent(d, length, tier)'
  PROVE  IsRecent(d, length, tier)
  <1> DEFINE p == d \div length
             P == Rotation!Periods(length)  Q == Rotation!Periods(length)'
             A == {q \in P : q > p}  B == {q \in Q : q > p}
  <1>1. P \subseteq Q /\ p \in P /\ A \subseteq B
    BY DEF Rotation!Periods
  <1>2. IsFiniteSet(P) /\ IsFiniteSet(Q)
    <2>1. Q = P \cup {day \div length}
      BY DEF Rotation!Periods
    <2> QED
      BY <2>1, TakenFinite, FS_AddElement
  <1>3. IsFiniteSet(B)
    BY <1>2, FS_Subset
  <1>4. Cardinality(B) < Policy[tier]
    <2>1. Rotation!Cardinality(B) < Policy[tier]
      BY DEF IsRecent, Rotation!Recent
    <2> QED
      BY <2>1, RotationCardinality
  <1>5. Policy[tier] \in Nat
    BY CalendarFacts
  <1> HIDE DEF A, B
  <1>6. Cardinality(A) <= Cardinality(B) /\ Cardinality(A) \in Nat /\ Cardinality(B) \in Nat
    BY <1>1, <1>3, FS_Subset, FS_CardinalityType
  <1>7. Rotation!Cardinality(A) < Policy[tier]
    BY <1>4, <1>5, <1>6, RotationCardinality
  <1> QED
    BY <1>1, <1>7 DEF IsRecent, Rotation!Recent, A

LEMMA StepBackup ==
  ASSUME RotationInv, Rotation!Backup
  PROVE  RotationInv'
  <1>1. day' = day /\ taken' = taken \cup {day} /\ backups' = backups \cup {day}
    BY DEF Rotation!Backup
  <1>2. day' \in Nat /\ taken' \subseteq 0..day' /\ backups' \subseteq taken'
    BY <1>1 DEF RotationInv
  <1>3. \A d \in taken : \A length : CameFirst(length, d)' => CameFirst(length, d)
    BY <1>1 DEF CameFirst
  <1>4. ASSUME \A tier \in DOMAIN Policy : Policy[tier] > 0,
               NEW d \in taken', \A e \in taken' : e <= d
        PROVE  d \in backups'
    BY <1>1, <1>4 DEF RotationInv
  <1>5. ASSUME NEW d \in taken', IsRecent(d, Year, "Yearly")'
        PROVE  /\ CameFirst(Year, d)' => d \in backups'
               /\ IsRecent(d, Month, "Monthly")' =>
                    /\ CameFirst(Month, d)' => d \in backups'
                    /\ IsRecent(d, Week, "Weekly")' => (CameFirst(Week, d)' => d \in backups')
    <2>1. CASE d = day
      BY <1>1, <2>1
    <2>2. CASE d \in taken
      <3>1. \A b : b \in backups => b \in backups'
        BY <1>1
      <3>2. IsRecent(d, Year, "Yearly")
        BY <1>1, <1>5, <2>2, RecentBefore, CalendarFacts DEF Tiers
      <3>3. IsRecent(d, Month, "Monthly")' => IsRecent(d, Month, "Monthly")
        BY <1>1, <2>2, RecentBefore, CalendarFacts DEF Tiers
      <3>4. IsRecent(d, Week, "Weekly")' => IsRecent(d, Week, "Weekly")
        BY <1>1, <2>2, RecentBefore, CalendarFacts DEF Tiers
      <3> QED
        BY <1>3, <2>2, <3>1, <3>2, <3>3, <3>4 DEF RotationInv
    <2> QED
      BY <1>1, <2>1, <2>2
  <1> QED
    BY <1>2, <1>4, <1>5 DEF RotationInv

LEMMA StepRotation ==
  ASSUME RotationInv, Rotation!Next \/ UNCHANGED rotationVars
  PROVE  RotationInv'
  <1>1. CASE UNCHANGED rotationVars
    BY <1>1 DEF rotationVars, RotationInv, IsRecent, CameFirst, Rotation!Recent, Rotation!Periods
  <1>2. CASE Rotation!NextDay
    <2>1. day' = day + 1 /\ taken' = taken /\ backups' = backups
      BY <1>2 DEF Rotation!NextDay
    <2>2. day' \in Nat /\ taken' \subseteq 0..day' /\ backups' \subseteq taken'
      BY <2>1 DEF RotationInv
    <2> QED
      BY <2>1, <2>2 DEF RotationInv, IsRecent, CameFirst, Rotation!Recent, Rotation!Periods
  <1> QED
    BY <1>1, <1>2, StepBackup, StepRotate DEF Rotation!Next

LEMMA FirstTaken ==
  ASSUME RotationInv, NEW length \in Nat \ {0}, NEW d \in taken
  PROVE  \E f \in taken : /\ Rotation!Same(length, f, d) /\ CameFirst(length, f) /\ f <= d
  <1> DEFINE S == {e \in taken : Rotation!Same(length, e, d)}
  <1>1. S \subseteq Nat /\ d \in S
    BY TakenFinite DEF Rotation!Same
  <1>2. PICK f \in S : \A e \in S : f <= e
    BY <1>1, LeastNumber
  <1>3. ASSUME NEW e \in taken, Rotation!Same(length, e, f) PROVE f <= e
    <2>1. e \in S
      BY <1>3 DEF Rotation!Same
    <2> QED
      BY <1>2, <2>1
  <1> QED
    BY <1>1, <1>2, <1>3 DEF CameFirst

(* For any lengths of weeks, months and years, a month within a year, and  *)
(* any policy: whatever was rotated when, a backup of every recent year,   *)
(* month and week is left, and the newest of all.                          *)
THEOREM RecentAreLeft == ReclaimSpec => []RecentPeriodsSurvive
  <1>1. ReclaimInit => RotationInv
    BY DEF ReclaimInit, Rotation!Init, RotationInv
  <1>2. RotationInv /\ [ReclaimNext]_allVars => RotationInv'
    BY ReclaimParts, StepRotation
  <1>3. RotationInv => RecentPeriodsSurvive
    <2> SUFFICES ASSUME RotationInv PROVE RecentPeriodsSurvive
      OBVIOUS
    <2>1. ASSUME taken # {}, \A tier \in DOMAIN Policy : Policy[tier] > 0
          PROVE  Rotation!Max(taken) \in backups
      <3>1. taken \subseteq 0..day /\ day \in Nat
        BY DEF RotationInv
      <3> DEFINE S == {day - d : d \in taken}
      <3>2. S \subseteq Nat /\ S # {}
        <4>1. ASSUME NEW d \in taken PROVE day - d \in Nat
          BY <3>1
        <4>2. PICK d \in taken : TRUE
          BY <2>1
        <4> QED
          BY <4>1, <4>2
      <3>3. PICK n \in S : \A k \in S : n <= k
        BY <3>2, LeastNumber
      <3>4. PICK x \in taken : n = day - x
        BY <3>3
      <3>5. \A e \in taken : e <= x
        <4>1. ASSUME NEW e \in taken PROVE e <= x
          <5>1. day - x <= day - e
            BY <3>3, <3>4
          <5> QED
            BY <3>1, <5>1
        <4> QED
          BY <4>1
      <3>6. Rotation!Max(taken) \in taken /\ \A e \in taken : e <= Rotation!Max(taken)
        <4>1. \A e \in taken : x >= e
          BY <3>1, <3>5
        <4>2. Rotation!Max(taken) \in taken /\ \A e \in taken : Rotation!Max(taken) >= e
          BY <4>1, Zenon DEF Rotation!Max
        <4> QED
          BY <3>1, <4>2
      <3> QED
        BY <2>1, <3>6 DEF RotationInv
    <2>2. ASSUME NEW d \in taken, IsRecent(d, Year, "Yearly")
          PROVE  \E b \in backups : Rotation!Same(Year, b, d)
      <3>1. PICK f \in taken : Rotation!Same(Year, f, d) /\ CameFirst(Year, f)
        BY FirstTaken, CalendarFacts
      <3>2. IsRecent(f, Year, "Yearly")
        BY <2>2, <3>1 DEF IsRecent, Rotation!Same
      <3> QED
        BY <3>1, <3>2 DEF RotationInv
    <2>3. ASSUME NEW d \in taken, IsRecent(d, Year, "Yearly"), IsRecent(d, Month, "Monthly")
          PROVE  \E g \in taken : /\ g \in backups /\ g <= d
                                  /\ Rotation!Same(Month, g, d) /\ CameFirst(Month, g)
      <3>1. PICK f \in taken : Rotation!Same(Month, f, d) /\ CameFirst(Month, f) /\ f <= d
        BY FirstTaken, CalendarFacts
      <3>2. IsRecent(f, Month, "Monthly") /\ IsRecent(f, Year, "Yearly")
        <4>1. f \div Month = d \div Month
          BY <3>1 DEF Rotation!Same
        <4>2. PICK n \in Nat \ {0} : Year = n * Month
          BY CalendarFacts
        <4>3. f \in Nat /\ d \in Nat /\ Month \in Nat \ {0}
          BY TakenFinite, CalendarFacts
        <4>4. f \div (n * Month) = d \div (n * Month)
          BY <4>1, <4>3, DivWithin
        <4>5. f \div Year = d \div Year
          BY <4>2, <4>4, Zenon
        <4> QED
          BY <2>3, <4>1, <4>5 DEF IsRecent
      <3> QED
        BY <3>1, <3>2 DEF RotationInv
    <2>4. ASSUME NEW d \in taken, IsRecent(d, Year, "Yearly"), IsRecent(d, Month, "Monthly"),
                 IsRecent(d, Week, "Weekly")
          PROVE  \E b \in backups : Rotation!Same(Week, b, d)
      <3>1. PICK f \in taken : Rotation!Same(Week, f, d) /\ CameFirst(Week, f) /\ f <= d
        BY FirstTaken, CalendarFacts
      <3>2. PICK g \in taken : /\ g \in backups /\ g <= d
                               /\ Rotation!Same(Month, g, d) /\ CameFirst(Month, g)
        BY <2>4, <2>3
      <3>3. f \in Nat /\ g \in Nat /\ d \in Nat
        BY TakenFinite, CalendarFacts
      <3>4. CASE g <= f
        <4>1. f \div Month = d \div Month
          <5>1. g \div Month <= f \div Month /\ f \div Month <= d \div Month
            BY <3>1, <3>3, <3>4, DivMonotone, CalendarFacts
          <5>2. g \div Month = d \div Month /\ f \div Month \in Nat /\ g \div Month \in Nat
            BY <3>2, <3>3, PeriodOf, CalendarFacts DEF Rotation!Same
          <5> DEFINE x == f \div Month  y == g \div Month  z == d \div Month
          <5>3. y <= x /\ x <= z /\ y = z /\ x \in Nat /\ y \in Nat
            BY <5>1, <5>2
          <5> HIDE DEF x, y, z
          <5>4. x = z
            BY <5>3
          <5> QED
            BY <5>4 DEF x, z
        <4>2. PICK n \in Nat \ {0} : Year = n * Month
          BY CalendarFacts
        <4>3. f \div (n * Month) = d \div (n * Month)
          BY <3>3, <4>1, DivWithin, CalendarFacts
        <4>4. f \div Year = d \div Year
          BY <4>2, <4>3, Zenon
        <4>5. IsRecent(f, Month, "Monthly") /\ IsRecent(f, Year, "Yearly")
          BY <2>4, <4>1, <4>4 DEF IsRecent
        <4>6. IsRecent(f, Week, "Weekly")
          BY <2>4, <3>1 DEF IsRecent, Rotation!Same
        <4>7. f \in backups
          BY <3>1, <4>5, <4>6 DEF RotationInv
        <4> QED
          BY <3>1, <4>7
      <3>5. CASE f < g
        <4>1. f \div Week <= g \div Week /\ g \div Week <= d \div Week
          BY <3>2, <3>3, <3>5, DivMonotone, CalendarFacts
        <4>2. f \div Week = d \div Week /\ f \div Week \in Nat /\ g \div Week \in Nat
          BY <3>1, <3>3, PeriodOf, CalendarFacts DEF Rotation!Same
        <4> DEFINE x == f \div Week  y == g \div Week  z == d \div Week
        <4>3. x <= y /\ y <= z /\ x = z /\ x \in Nat /\ y \in Nat
          BY <4>1, <4>2
        <4> HIDE DEF x, y, z
        <4>4. y = z
          BY <4>3
        <4>5. Rotation!Same(Week, g, d)
          BY <4>4 DEF Rotation!Same, y, z
        <4> QED
          BY <3>2, <4>5
      <3> QED
        BY <3>3, <3>4, <3>5
    <2>5. \A d \in taken :
            /\ IsRecent(d, Year, "Yearly") <=> d \div Year \in Rotation!Recent(Year, Policy["Yearly"])
            /\ IsRecent(d, Month, "Monthly") <=> d \div Month \in Rotation!Recent(Month, Policy["Monthly"])
            /\ IsRecent(d, Week, "Weekly") <=> d \div Week \in Rotation!Recent(Week, Policy["Weekly"])
      BY DEF IsRecent
    <2> QED
      BY <2>1, <2>2, <2>3, <2>4, <2>5, Zenon DEF RecentPeriodsSurvive, Rotation!RecentPeriodsSurvive
  <1> QED
    BY <1>1, <1>2, <1>3, PTL DEF ReclaimSpec

-----------------------------------------------------------------------------
(***************************************************************************)
(* DuplicateFinder.  A file is in a group for an index the second pass has *)
(* seen to; of a tree at rest, the first pass misses no file worth it, and *)
(* each index of a shared size is under the size and content of its file.  *)
(***************************************************************************)
FinderType ==
  /\ scanDisk \in [Files -> Texts \cup {Finder!Absent}]
  /\ toWalk \in Seq(SUBSET Files)
  /\ found \in Seq(Files \X Nat)
  /\ hashed \subseteq DOMAIN found
  /\ \A k \in DOMAIN groups : groups[k] \in Seq(Files)
  /\ meddlings \in Nat

PassesInOrder ==
  /\ scanPhase \in {"idle", "walking", "hashing", "done", "failed"}
  /\ scanPhase = "idle" => found = <<>>
  /\ scanPhase \in {"idle", "walking"} => hashed = {} /\ DOMAIN groups = {}
  /\ scanPhase \in {"hashing", "done"} => toWalk = <<>>
  /\ scanPhase = "done" => hashed = DOMAIN found

MetOnce == \A i, j \in DOMAIN found : found[i][1] = found[j][1] => i = j

FromHashed ==
  \A k \in DOMAIN groups : \A n \in DOMAIN groups[k] : \E i \in hashed : found[i][1] = groups[k][n]

EachOnce ==
  \A k, l \in DOMAIN groups : \A m \in DOMAIN groups[k], n \in DOMAIN groups[l] :
    groups[k][m] = groups[l][n] => k = l /\ m = n

SizesHold ==
  \A i \in DOMAIN found :
    /\ scanDisk[found[i][1]] \in Texts /\ found[i][2] = Sizes[scanDisk[found[i][1]]]
    /\ ~Finder!TooSmall(found[i][2])

WorthIt(f) == scanDisk[f] \in Texts /\ ~Finder!TooSmall(Sizes[scanDisk[f]])

Met(f) == \E i \in DOMAIN found : found[i][1] = f

Awaits(f) == \E n \in DOMAIN toWalk : f \in toWalk[n]

NoneMissed == scanPhase # "idle" => \A f \in Files : WorthIt(f) => Met(f) \/ Awaits(f)

KeyOf(i) == <<found[i][2], scanDisk[found[i][1]]>>

KeysHold ==
  \A k \in DOMAIN groups : \A n \in DOMAIN groups[k] :
    \E i \in hashed : found[i][1] = groups[k][n] /\ Finder!SizeIsShared(i) /\ k = KeyOf(i)

InItsGroup(i) ==
  KeyOf(i) \in DOMAIN groups /\ \E n \in DOMAIN groups[KeyOf(i)] : groups[KeyOf(i)][n] = found[i][1]

SharedAreIn == \A i \in hashed : Finder!SizeIsShared(i) => InItsGroup(i)

FinderInv ==
  /\ FinderType /\ PassesInOrder /\ FromHashed
  /\ MetOnce => EachOnce
  /\ meddlings = 0 => SizesHold /\ NoneMissed /\ KeysHold /\ SharedAreIn

LEMMA FoundAt ==
  ASSUME FinderType, NEW i \in DOMAIN found
  PROVE  found[i] \in Files \X Nat /\ found[i][1] \in Files /\ found[i][2] \in Nat
  BY DEF FinderType

LEMMA StepScan ==
  ASSUME FinderInv, NEW roots \in Roots, Finder!Scan(roots)
  PROVE  FinderInv'
  <1>1. /\ FinderType /\ PassesInOrder /\ scanPhase = "idle" /\ scanPhase' = "walking" /\ toWalk' = roots
        /\ UNCHANGED <<scanDisk, found, hashed, groups, meddlings>>
    BY DEF FinderInv, Finder!Scan
  <1>2. found = <<>> /\ hashed = {} /\ DOMAIN groups = {}
    BY <1>1 DEF PassesInOrder
  <1>3. roots \in Seq(SUBSET Files) /\ UNION ToSet(roots) = Files
    BY FinderAssumption
  <1>4. FinderType'
    BY <1>1, <1>3 DEF FinderType
  <1>5. PassesInOrder' /\ FromHashed' /\ EachOnce' /\ KeysHold' /\ SharedAreIn' /\ SizesHold'
    BY <1>1, <1>2 DEF PassesInOrder, FromHashed, EachOnce, KeysHold, SharedAreIn, SizesHold
  <1>6. ASSUME NEW f \in Files PROVE Awaits(f)'
    BY <1>1, <1>3 DEF Awaits, ToSet
  <1> QED
    BY <1>4, <1>5, <1>6 DEF FinderInv, NoneMissed

LEMMA DropLeaves ==
  ASSUME FinderType, NEW f, toWalk # <<>>, toWalk' = Finder!Drop(f)
  PROVE  /\ toWalk' \in Seq(SUBSET Files)
         /\ \A g : g # f /\ Awaits(g) => Awaits(g)'
  <1>1. toWalk \in Seq(SUBSET Files) /\ Len(toWalk) \in Nat /\ Len(toWalk) > 0 /\ DOMAIN toWalk = 1..Len(toWalk)
    BY DEF FinderType
  <1>2. CASE Head(toWalk) = {f}
    <2>1. toWalk' = Tail(toWalk) /\ toWalk[1] = {f}
      BY <1>1, <1>2 DEF Finder!Drop
    <2>2. toWalk' \in Seq(SUBSET Files)
      BY <1>1, <2>1
    <2>3. ASSUME NEW g, g # f, NEW n \in DOMAIN toWalk, g \in toWalk[n] PROVE Awaits(g)'
      <3>1. n # 1 /\ n \in 1..Len(toWalk)
        BY <1>1, <2>1, <2>3
      <3>2. n - 1 \in 1..Len(Tail(toWalk)) /\ Tail(toWalk)[n - 1] = toWalk[n]
        BY <1>1, <3>1
      <3>3. n - 1 \in DOMAIN toWalk' /\ g \in toWalk'[n - 1]
        BY <1>1, <2>1, <2>3, <3>2
      <3> QED
        BY <3>3 DEF Awaits
    <2> QED
      BY <2>2, <2>3 DEF Awaits
  <1>3. CASE Head(toWalk) # {f}
    <2>1. toWalk' = [toWalk EXCEPT ![1] = @ \ {f}]
      BY <1>3 DEF Finder!Drop
    <2>2. toWalk[1] \ {f} \in SUBSET Files
      BY <1>1
    <2>3. toWalk' \in Seq(SUBSET Files)
      BY <1>1, <2>1, <2>2
    <2>4. ASSUME NEW g, g # f, NEW n \in DOMAIN toWalk, g \in toWalk[n]
          PROVE  n \in DOMAIN toWalk' /\ g \in toWalk'[n]
      BY <1>1, <2>1, <2>4
    <2> QED
      BY <2>3, <2>4 DEF Awaits
  <1> QED
    BY <1>2, <1>3

LEMMA StepVisit ==
  ASSUME FinderInv, NEW f \in Files, Finder!Visit(f)
  PROVE  FinderInv'
  <1>1. /\ FinderType /\ PassesInOrder /\ scanPhase = "walking" /\ toWalk # <<>> /\ toWalk' = Finder!Drop(f)
        /\ UNCHANGED <<scanDisk, scanPhase, hashed, groups, meddlings>>
    BY DEF FinderInv, Finder!Visit
  <1>2. hashed = {} /\ DOMAIN groups = {}
    BY <1>1 DEF PassesInOrder
  <1>3. toWalk' \in Seq(SUBSET Files) /\ \A g : g # f /\ Awaits(g) => Awaits(g)'
    BY <1>1, DropLeaves
  <1>4. PassesInOrder' /\ FromHashed' /\ EachOnce' /\ KeysHold' /\ SharedAreIn'
    BY <1>1, <1>2 DEF PassesInOrder, FromHashed, EachOnce, KeysHold, SharedAreIn
  <1>5. \A g \in Files : WorthIt(g)' = WorthIt(g)
    BY <1>1 DEF WorthIt
  <1>6. ASSUME UNCHANGED found, WorthIt(f) => FALSE PROVE FinderInv'
    <2>1. FinderType'
      BY <1>1, <1>3, <1>6 DEF FinderType
    <2>2. ASSUME meddlings = 0 PROVE SizesHold' /\ NoneMissed'
      <3>1. SizesHold /\ NoneMissed
        BY <2>2 DEF FinderInv
      <3>2. SizesHold'
        BY <1>1, <1>6, <3>1 DEF SizesHold
      <3>3. ASSUME NEW g \in Files, WorthIt(g) PROVE (Met(g) \/ Awaits(g))'
        <4>1. g # f /\ (Met(g) \/ Awaits(g))
          BY <1>1, <1>6, <3>1, <3>3 DEF NoneMissed
        <4> QED
          BY <1>3, <1>6, <4>1 DEF Met
      <3> QED
        BY <1>5, <3>2, <3>3 DEF NoneMissed
    <2> QED
      BY <1>1, <1>4, <2>1, <2>2 DEF FinderInv
  <1>7. ASSUME scanDisk[f] \in Texts, ~Finder!TooSmall(Sizes[scanDisk[f]]),
               found' = Append(found, <<f, Sizes[scanDisk[f]]>>)
        PROVE  FinderInv'
    <2>1. Sizes[scanDisk[f]] \in Nat /\ found \in Seq(Files \X Nat)
      BY <1>1, <1>7, FinderAssumption DEF FinderType
    <2> DEFINE n == Len(found) + 1  e == <<f, Sizes[scanDisk[f]]>>
    <2>2. e \in Files \X Nat /\ e[1] = f /\ e[2] = Sizes[scanDisk[f]]
      BY <2>1
    <2>3. found' = Append(found, e)
      BY <1>7
    <2> HIDE DEF e
    <2>4. /\ found' \in Seq(Files \X Nat) /\ DOMAIN found = 1..n-1 /\ DOMAIN found' = 1..n /\ n \in Nat \ {0}
          /\ found'[n] = e /\ \A i \in 1..n-1 : found'[i] = found[i]
      BY <2>1, <2>2, <2>3
    <2> HIDE DEF n
    <2>5. FinderType'
      BY <1>1, <1>2, <1>3, <2>4 DEF FinderType
    <2>6. ASSUME meddlings = 0 PROVE SizesHold' /\ NoneMissed'
      <3>1. SizesHold /\ NoneMissed
        BY <2>6 DEF FinderInv
      <3>2. SizesHold'
        <4> SUFFICES ASSUME NEW i \in 1..n
                     PROVE  /\ scanDisk[found'[i][1]] \in Texts
                            /\ found'[i][2] = Sizes[scanDisk[found'[i][1]]]
                            /\ ~Finder!TooSmall(found'[i][2])
          BY <1>1, <2>4 DEF SizesHold, Finder!TooSmall
        <4>1. CASE i = n
          BY <1>7, <2>2, <2>4, <4>1
        <4>2. CASE i \in 1..n-1
          BY <2>4, <3>1, <4>2 DEF SizesHold
        <4> QED
          BY <2>4, <4>1, <4>2
      <3>3. ASSUME NEW g \in Files, WorthIt(g) PROVE (Met(g) \/ Awaits(g))'
        <4>1. CASE g = f
          <5>1. n \in DOMAIN found' /\ found'[n][1] = g
            BY <2>2, <2>4, <4>1
          <5> QED
            BY <5>1 DEF Met
        <4>2. CASE g # f
          <5>1. Met(g) \/ Awaits(g)
            BY <1>1, <3>1, <3>3 DEF NoneMissed
          <5>2. ASSUME NEW i \in DOMAIN found, found[i][1] = g PROVE i \in DOMAIN found' /\ found'[i][1] = g
            BY <2>4, <5>2
          <5> QED
            BY <1>3, <4>2, <5>1, <5>2 DEF Met
        <4> QED
          BY <4>1, <4>2
      <3> QED
        BY <1>5, <3>2, <3>3 DEF NoneMissed
    <2> QED
      BY <1>1, <1>4, <2>5, <2>6 DEF FinderInv
  <1>8. scanDisk[f] \in Texts \cup {Finder!Absent} /\ Finder!Absent \notin Texts
    BY <1>1, FinderAssumption DEF FinderType
  <1>9. CASE scanDisk[f] = Finder!Absent \/ Finder!TooSmall(Sizes[scanDisk[f]])
    BY <1>6, <1>8, <1>9 DEF Finder!Visit, WorthIt
  <1>10. CASE ~(scanDisk[f] = Finder!Absent \/ Finder!TooSmall(Sizes[scanDisk[f]]))
    BY <1>7, <1>8, <1>10 DEF Finder!Visit
  <1> QED
    BY <1>9, <1>10

(* new is old with one more file f, in group k.                            *)
IsAdded(old, new, k, f) ==
  new = [g \in DOMAIN old \cup {k} |->
           (IF g \in DOMAIN old THEN old[g] ELSE <<>>) \o (IF g = k THEN <<f>> ELSE <<>>)]

HasGrown(old, new, k, f) ==
  /\ DOMAIN new = DOMAIN old \cup {k}
  /\ \A g \in DOMAIN new : new[g] \in Seq(Files)
  /\ \A g \in DOMAIN old \ {k} : new[g] = old[g]
  /\ \E m \in DOMAIN new[k] :
       /\ new[k][m] = f
       /\ \A n \in DOMAIN new[k] : n # m => k \in DOMAIN old /\ n \in DOMAIN old[k] /\ new[k][n] = old[k][n]
       /\ k \in DOMAIN old => \A n \in DOMAIN old[k] : n \in DOMAIN new[k] /\ new[k][n] = old[k][n]

LEMMA GroupGrows ==
  ASSUME NEW S, NEW k, NEW f \in Files, NEW T, \A g \in DOMAIN S : S[g] \in Seq(Files),
         IsAdded(S, T, k, f)
  PROVE  HasGrown(S, T, k, f)
  <1> DEFINE old == IF k \in DOMAIN S THEN S[k] ELSE <<>>
             m == Len(old) + 1
  <1>1. old \in Seq(Files) /\ <<f>> \in Seq(Files) /\ <<>> \in Seq(Files)
    OBVIOUS
  <1>2. DOMAIN T = DOMAIN S \cup {k} /\ T[k] = old \o <<f>>
    BY DEF IsAdded
  <1>3. \A g \in DOMAIN S \ {k} : T[g] = S[g] \o <<>>
    BY DEF IsAdded
  <1>5. \A g \in DOMAIN S \ {k} : T[g] = S[g]
    BY <1>3
  <1>6. k \in DOMAIN S => old = S[k]
    OBVIOUS
  <1>7. k \notin DOMAIN S => old = <<>>
    OBVIOUS
  <1> HIDE DEF old
  <1>8. /\ T[k] \in Seq(Files) /\ DOMAIN T[k] = 1..m /\ m \in Nat \ {0} /\ T[k][m] = f
        /\ DOMAIN old = 1..m-1 /\ \A n \in 1..m-1 : T[k][n] = old[n]
    <2>1. T[k] = Append(old, f)
      BY <1>1, <1>2, AppendIsConcat
    <2> QED
      BY <1>1, <2>1
  <1>9. \A g \in DOMAIN T : T[g] \in Seq(Files)
    BY <1>2, <1>5, <1>8
  <1>10. DOMAIN <<>> = {}
    OBVIOUS
  <1> HIDE DEF m
  <1>11. \A n \in 1..m : n # m => n \in 1..m-1
    BY <1>8
  <1>12. \A n \in 1..m-1 : n \in 1..m /\ k \in DOMAIN S
    BY <1>7, <1>8, <1>10
  <1>13. m \in DOMAIN T[k]
    BY <1>8
  <1>14. \A n \in DOMAIN T[k] : n # m => k \in DOMAIN S /\ n \in DOMAIN S[k] /\ T[k][n] = S[k][n]
    BY <1>6, <1>8, <1>11, <1>12
  <1>15. k \in DOMAIN S => \A n \in DOMAIN S[k] : n \in DOMAIN T[k] /\ T[k][n] = S[k][n]
    BY <1>6, <1>8, <1>12
  <1> QED
    BY <1>2, <1>5, <1>8, <1>9, <1>13, <1>14, <1>15 DEF HasGrown

LEMMA StepHash ==
  ASSUME FinderInv, NEW i \in DOMAIN found, Finder!Hash(i)
  PROVE  FinderInv'
  <1> DEFINE f == found[i][1]  k == KeyOf(i)
  <1>1. /\ FinderType /\ PassesInOrder /\ FromHashed /\ scanPhase = "hashing"
        /\ i \notin hashed /\ hashed' = hashed \cup {i}
        /\ UNCHANGED <<scanDisk, scanPhase, toWalk, found, meddlings>>
    BY DEF FinderInv, Finder!Hash
  <1>2. f \in Files /\ hashed \subseteq DOMAIN found
    BY <1>1, FoundAt DEF FinderType
  <1>3. PassesInOrder'
    BY <1>1 DEF PassesInOrder
  <1>4. MetOnce' = MetOnce /\ (SizesHold' = SizesHold) /\ (NoneMissed' = NoneMissed)
        /\ (\A j \in DOMAIN found : Finder!SizeIsShared(j)' = Finder!SizeIsShared(j) /\ KeyOf(j)' = KeyOf(j))
    <2>1. MetOnce' = MetOnce
      BY <1>1 DEF MetOnce
    <2>2. SizesHold' = SizesHold
      BY <1>1 DEF SizesHold, Finder!TooSmall
    <2>3. NoneMissed' = NoneMissed
      BY <1>1 DEF NoneMissed, WorthIt, Met, Awaits, Finder!TooSmall
    <2>4. \A j \in DOMAIN found : Finder!SizeIsShared(j)' = Finder!SizeIsShared(j) /\ KeyOf(j)' = KeyOf(j)
      BY <1>1 DEF Finder!SizeIsShared, KeyOf
    <2> QED
      BY <2>1, <2>2, <2>3, <2>4
  <1>5. ASSUME UNCHANGED groups, meddlings = 0 => ~Finder!SizeIsShared(i) PROVE FinderInv'
    <2>1. FinderType' /\ FromHashed'
      BY <1>1, <1>2, <1>5 DEF FinderType, FromHashed
    <2>2. MetOnce' => EachOnce'
      BY <1>4, <1>5 DEF FinderInv, EachOnce
    <2>3. ASSUME meddlings = 0 PROVE SizesHold' /\ NoneMissed' /\ KeysHold' /\ SharedAreIn'
      <3>1. SizesHold /\ NoneMissed /\ KeysHold /\ SharedAreIn /\ ~Finder!SizeIsShared(i)
        BY <1>5, <2>3 DEF FinderInv
      <3>2. KeysHold'
        <4> SUFFICES ASSUME NEW g \in DOMAIN groups, NEW n \in DOMAIN groups[g]
                     PROVE  \E j \in hashed' : found'[j][1] = groups'[g][n] /\ Finder!SizeIsShared(j)' /\ g = KeyOf(j)'
          BY <1>5 DEF KeysHold
        <4>1. PICK j \in hashed : found[j][1] = groups[g][n] /\ Finder!SizeIsShared(j) /\ g = KeyOf(j)
          BY <3>1 DEF KeysHold
        <4> QED
          BY <1>1, <1>2, <1>4, <1>5, <4>1
      <3>3. SharedAreIn'
        <4> SUFFICES ASSUME NEW j \in hashed', Finder!SizeIsShared(j)' PROVE InItsGroup(j)'
          BY DEF SharedAreIn
        <4>1. j \in hashed /\ Finder!SizeIsShared(j)
          BY <1>1, <1>2, <1>4, <3>1
        <4>2. InItsGroup(j)
          BY <3>1, <4>1 DEF SharedAreIn
        <4> QED
          BY <1>1, <1>2, <1>4, <1>5, <4>1, <4>2 DEF InItsGroup
      <3> QED
        BY <1>4, <3>1, <3>2, <3>3
    <2> QED
      BY <1>1, <1>3, <2>1, <2>2, <2>3 DEF FinderInv
  <1>6. ASSUME Finder!SizeIsShared(i),
               IsAdded(groups, groups', k, f)
        PROVE  FinderInv'
    <2> HIDE DEF f, k
    <2>0. HasGrown(groups, groups', k, f)
      <3>1. f \in Files /\ \A g \in DOMAIN groups : groups[g] \in Seq(Files)
        BY <1>1, <1>2 DEF FinderType
      <3> QED
        BY <1>6, <3>1, GroupGrows, Zenon
    <2>1. PICK m \in DOMAIN groups'[k] :
               /\ groups'[k][m] = f
               /\ \A n \in DOMAIN groups'[k] :
                    n # m => k \in DOMAIN groups /\ n \in DOMAIN groups[k] /\ groups'[k][n] = groups[k][n]
               /\ k \in DOMAIN groups =>
                    \A n \in DOMAIN groups[k] : n \in DOMAIN groups'[k] /\ groups'[k][n] = groups[k][n]
      BY <2>0 DEF HasGrown
    (* A place in a group is the new one or one there was.                 *)
    <2>2. \A g \in DOMAIN groups' : \A n \in DOMAIN groups'[g] :
            \/ g = k /\ n = m
            \/ g \in DOMAIN groups /\ n \in DOMAIN groups[g] /\ groups'[g][n] = groups[g][n]
      BY <2>0, <2>1 DEF HasGrown
    <2>3. \A g \in DOMAIN groups : \A n \in DOMAIN groups[g] :
            g \in DOMAIN groups' /\ n \in DOMAIN groups'[g] /\ groups'[g][n] = groups[g][n]
      BY <2>0, <2>1 DEF HasGrown
    <2>4. k \in DOMAIN groups'
      BY <2>0 DEF HasGrown
    <2>5. FinderType'
      BY <1>1, <1>2, <2>0 DEF FinderType, HasGrown
    <2>6. FromHashed'
      <3> SUFFICES ASSUME NEW g \in DOMAIN groups', NEW n \in DOMAIN groups'[g]
                   PROVE  \E j \in hashed' : found'[j][1] = groups'[g][n]
        BY DEF FromHashed
      <3>1. CASE g = k /\ n = m
        BY <1>1, <2>1, <3>1 DEF f
      <3>2. CASE g \in DOMAIN groups /\ n \in DOMAIN groups[g] /\ groups'[g][n] = groups[g][n]
        BY <1>1, <3>2 DEF FromHashed
      <3> QED
        BY <2>2, <3>1, <3>2
    <2>7. ASSUME MetOnce PROVE EachOnce'
      <3>1. EachOnce
        BY <2>7 DEF FinderInv
      <3>2. \A g \in DOMAIN groups : \A n \in DOMAIN groups[g] : groups[g][n] # f
        <4> SUFFICES ASSUME NEW g \in DOMAIN groups, NEW n \in DOMAIN groups[g], groups[g][n] = f
                     PROVE  FALSE
          OBVIOUS
        <4>1. PICK j \in hashed : found[j][1] = f
          BY <1>1 DEF FromHashed
        <4>2. j = i
          BY <1>2, <2>7, <4>1 DEF MetOnce, f
        <4> QED
          BY <1>1, <4>1, <4>2
      <3> SUFFICES ASSUME NEW g \in DOMAIN groups', NEW h \in DOMAIN groups', NEW n \in DOMAIN groups'[g],
                          NEW o \in DOMAIN groups'[h], groups'[g][n] = groups'[h][o]
                   PROVE  g = h /\ n = o
        BY DEF EachOnce
      <3>3. CASE g = k /\ n = m
        <4>1. groups'[h][o] = f
          BY <2>1, <3>3
        <4>2. ~(h \in DOMAIN groups /\ o \in DOMAIN groups[h] /\ groups'[h][o] = groups[h][o])
          BY <3>2, <4>1
        <4> QED
          BY <2>2, <3>3, <4>2
      <3>4. CASE h = k /\ o = m
        <4>1. groups'[g][n] = f
          BY <2>1, <3>4
        <4>2. ~(g \in DOMAIN groups /\ n \in DOMAIN groups[g] /\ groups'[g][n] = groups[g][n])
          BY <3>2, <4>1
        <4> QED
          BY <2>2, <3>4, <4>2
      <3>5. CASE ~(g = k /\ n = m) /\ ~(h = k /\ o = m)
        <4>1. g \in DOMAIN groups /\ n \in DOMAIN groups[g] /\ groups'[g][n] = groups[g][n]
          BY <2>2, <3>5
        <4>2. h \in DOMAIN groups /\ o \in DOMAIN groups[h] /\ groups'[h][o] = groups[h][o]
          BY <2>2, <3>5
        <4>3. groups[g][n] = groups[h][o]
          BY <4>1, <4>2
        <4> QED
          BY <3>1, <4>1, <4>2, <4>3, ZenonT(60) DEF EachOnce
      <3> QED
        BY <3>3, <3>4, <3>5
    <2>8. ASSUME meddlings = 0 PROVE SizesHold' /\ NoneMissed' /\ KeysHold' /\ SharedAreIn'
      <3>1. SizesHold /\ NoneMissed /\ KeysHold /\ SharedAreIn
        BY <2>8 DEF FinderInv
      <3>2. KeysHold'
        <4> SUFFICES ASSUME NEW g \in DOMAIN groups', NEW n \in DOMAIN groups'[g]
                     PROVE  \E j \in hashed' : found'[j][1] = groups'[g][n] /\ Finder!SizeIsShared(j)' /\ g = KeyOf(j)'
          BY DEF KeysHold
        <4>1. CASE g = k /\ n = m
          <5>1. found'[i][1] = groups'[g][n] /\ g = KeyOf(i)
            BY <1>1, <2>1, <4>1 DEF f, k
          <5>2. i \in hashed' /\ Finder!SizeIsShared(i)' /\ KeyOf(i)' = KeyOf(i)
            BY <1>1, <1>4, <1>6
          <5> QED
            BY <5>1, <5>2
        <4>2. CASE g \in DOMAIN groups /\ n \in DOMAIN groups[g] /\ groups'[g][n] = groups[g][n]
          <5>1. PICK j \in hashed : found[j][1] = groups[g][n] /\ Finder!SizeIsShared(j) /\ g = KeyOf(j)
            BY <3>1, <4>2 DEF KeysHold
          <5> QED
            BY <1>1, <1>2, <1>4, <4>2, <5>1
        <4> QED
          BY <2>2, <4>1, <4>2
      <3>3. SharedAreIn'
        <4> SUFFICES ASSUME NEW j \in hashed', Finder!SizeIsShared(j)' PROVE InItsGroup(j)'
          BY DEF SharedAreIn
        <4>1. j \in DOMAIN found /\ found' = found /\ KeyOf(j)' = KeyOf(j) /\ Finder!SizeIsShared(j)
          BY <1>1, <1>2, <1>4
        <4>2. CASE j = i
          <5>1. KeyOf(j)' = k /\ groups'[k][m] = found'[j][1]
            BY <2>1, <4>1, <4>2 DEF f, k
          <5> QED
            BY <2>1, <2>4, <5>1 DEF InItsGroup
        <4>3. CASE j \in hashed
          <5>1. InItsGroup(j)
            BY <3>1, <4>1, <4>3 DEF SharedAreIn
          <5> DEFINE g == KeyOf(j)
          <5>2. g \in DOMAIN groups /\ KeyOf(j)' = g
            BY <4>1, <5>1 DEF InItsGroup
          <5>3. PICK n \in DOMAIN groups[g] : groups[g][n] = found[j][1]
            BY <5>1 DEF InItsGroup
          <5> HIDE DEF g
          <5>4. g \in DOMAIN groups' /\ n \in DOMAIN groups'[g] /\ groups'[g][n] = found'[j][1]
            BY <2>3, <4>1, <5>2, <5>3
          <5> QED
            BY <5>2, <5>4 DEF InItsGroup
        <4> QED
          BY <1>1, <4>2, <4>3
      <3> QED
        BY <1>4, <3>1, <3>2, <3>3
    <2> QED
      BY <1>1, <1>3, <1>4, <2>5, <2>6, <2>7, <2>8 DEF FinderInv
  <1>7. meddlings = 0 => scanDisk[f] # Finder!Absent
    BY FinderAssumption DEF FinderInv, SizesHold
  <1>8. CASE Finder!SizeIsShared(i) /\ scanDisk[f] # Finder!Absent
    <2>1. Finder!Key(f, found[i][2]) = k
      BY DEF Finder!Key, KeyOf
    <2>2. IsAdded(groups, groups', Finder!Key(f, found[i][2]), f)
      BY <1>8, Zenon DEF Finder!Hash, IsAdded
    <2> HIDE DEF f, k
    <2> QED
      BY <1>6, <1>8, <2>1, <2>2
  <1>9. CASE ~(Finder!SizeIsShared(i) /\ scanDisk[f] # Finder!Absent)
    <2>1. UNCHANGED groups
      BY <1>9, Zenon DEF Finder!Hash
    <2> QED
      BY <1>5, <1>7, <1>9, <2>1
  <1> QED
    BY <1>8, <1>9

LEMMA StepFinder ==
  ASSUME FinderInv, Finder!Next \/ UNCHANGED finderVars
  PROVE  FinderInv'
  <1>1. CASE UNCHANGED finderVars
    <2>1. UNCHANGED <<scanDisk, scanPhase, toWalk, found, hashed, groups, meddlings>>
      BY <1>1 DEF finderVars
    <2>2. (FinderType /\ PassesInOrder /\ FromHashed)'
      BY <2>1 DEF FinderInv, FinderType, PassesInOrder, FromHashed
    <2>3. (MetOnce => EachOnce)'
      BY <2>1 DEF FinderInv, MetOnce, EachOnce
    <2>4. ASSUME meddlings' = 0
          PROVE  (SizesHold /\ NoneMissed /\ KeysHold /\ SharedAreIn)'
      <3>1. SizesHold /\ NoneMissed /\ KeysHold /\ SharedAreIn
        BY <2>1, <2>4 DEF FinderInv
      <3>2. SizesHold'
        BY <2>1, <3>1 DEF SizesHold
      <3>3. NoneMissed'
        BY <2>1, <3>1, Zenon DEF NoneMissed, WorthIt, Met, Awaits
      <3>4. KeysHold'
        BY <2>1, <3>1 DEF KeysHold, KeyOf, Finder!SizeIsShared
      <3>5. SharedAreIn'
        BY <2>1, <3>1 DEF SharedAreIn, InItsGroup, KeyOf, Finder!SizeIsShared
      <3> QED
        BY <3>2, <3>3, <3>4, <3>5
    <2> QED
      BY <2>2, <2>3, <2>4 DEF FinderInv
  <1>2. ASSUME Finder!EndWalk \/ Finder!EndScan PROVE FinderInv'
    <2>1. /\ scanPhase \in {"walking", "hashing"} /\ scanPhase' \in {"hashing", "done"} /\ toWalk = <<>>
          /\ scanPhase' = "done" => hashed = DOMAIN found
          /\ UNCHANGED <<scanDisk, toWalk, found, hashed, groups, meddlings>>
      BY <1>2 DEF Finder!EndWalk, Finder!EndScan, FinderInv, PassesInOrder
    <2> QED
      BY <2>1 DEF FinderInv, FinderType, PassesInOrder, MetOnce, FromHashed, EachOnce, SizesHold, WorthIt,
                  Met, Awaits, NoneMissed, KeyOf, KeysHold, InItsGroup, SharedAreIn, Finder!SizeIsShared,
                  Finder!TooSmall
  <1>3. ASSUME NEW f \in Files, NEW c \in Texts \cup {Finder!Absent}, Finder!Meddle(f, c) PROVE FinderInv'
    <2>1. /\ FinderType /\ meddlings' = meddlings + 1 /\ scanDisk' = [scanDisk EXCEPT ![f] = c]
          /\ UNCHANGED <<scanPhase, toWalk, found, hashed, groups>>
      BY <1>3 DEF FinderInv, Finder!Meddle
    <2>2. FinderType' /\ meddlings' # 0
      BY <2>1 DEF FinderType
    <2> QED
      BY <2>1, <2>2 DEF FinderInv, PassesInOrder, MetOnce, FromHashed, EachOnce
  <1>4. ASSUME Finder!RootIsMissing PROVE FinderInv'
    <2>1. /\ scanPhase = "walking" /\ scanPhase' = "failed"
          /\ UNCHANGED <<scanDisk, toWalk, found, hashed, groups, meddlings>>
      BY <1>4 DEF Finder!RootIsMissing
    <2> QED
      BY <2>1 DEF FinderInv, FinderType, PassesInOrder, MetOnce, FromHashed, EachOnce, SizesHold, WorthIt,
                  Met, Awaits, NoneMissed, KeyOf, KeysHold, InItsGroup, SharedAreIn, Finder!SizeIsShared,
                  Finder!TooSmall
  <1> QED
    BY <1>1, <1>2, <1>3, <1>4, StepScan, StepVisit, StepHash, Zenon DEF Finder!Next

LEMMA FinderLibrary ==
  ASSUME NEW S
  PROVE  /\ Finder!Cardinality(S) = Cardinality(S)
         /\ Finder!ToSet(S) = ToSet(S)
         /\ Finder!IsInjective(S) <=> IsInjective(S)
  <1>1. Finder!Cardinality(S) = Cardinality(S)
    BY Zenon DEF Finder!Cardinality, Cardinality
  <1>2. Finder!ToSet(S) = ToSet(S)
    BY Zenon DEF Finder!ToSet, ToSet
  <1>3. Finder!IsInjective(S) <=> IsInjective(S)
    BY Zenon DEF Finder!IsInjective, IsInjective
  <1> QED
    BY <1>1, <1>2, <1>3

(* What is found of a tree at rest. *)
Alike(c) == {f \in Files : scanDisk[f] = c}

GroupedAt(c) == <<Sizes[c], c>>

LEMMA GroupIsClass ==
  ASSUME FinderInv, scanPhase = "done", meddlings = 0, NEW k \in DOMAIN groups, NEW n \in DOMAIN groups[k]
  PROVE  \E c \in Texts :
           k = GroupedAt(c) /\ ~Finder!TooSmall(Sizes[c]) /\ ToSet(groups[k]) = Alike(c)
  <1>1. /\ FinderType /\ SizesHold /\ NoneMissed /\ KeysHold /\ SharedAreIn
        /\ toWalk = <<>> /\ hashed = DOMAIN found
    BY DEF FinderInv, PassesInOrder
  <1>2. PICK i \in hashed : found[i][1] = groups[k][n] /\ Finder!SizeIsShared(i) /\ k = KeyOf(i)
    BY <1>1 DEF KeysHold
  <1> DEFINE c == scanDisk[found[i][1]]
  <1>3. c \in Texts /\ found[i][2] = Sizes[c] /\ ~Finder!TooSmall(Sizes[c])
    BY <1>1 DEF SizesHold
  <1>4. k = <<Sizes[c], c>>
    BY <1>2, <1>3 DEF KeyOf
  <1> HIDE DEF c
  <1>5. ASSUME NEW m \in DOMAIN groups[k] PROVE groups[k][m] \in Alike(c)
    <2>1. PICK j \in hashed : found[j][1] = groups[k][m] /\ k = KeyOf(j)
      BY <1>1 DEF KeysHold
    <2>2. scanDisk[groups[k][m]] = c
      BY <1>4, <2>1 DEF KeyOf
    <2>3. found[j][1] \in Files
      BY <1>1, <2>1, FoundAt
    <2> QED
      BY <2>1, <2>2, <2>3 DEF Alike
  <1>6. ASSUME NEW f \in Alike(c) PROVE \E m \in DOMAIN groups[k] : groups[k][m] = f
    <2>1. f \in Files /\ scanDisk[f] = c
      BY <1>6 DEF Alike
    <2>2. ~Awaits(f)
      BY <1>1 DEF Awaits
    <2>3. PICK j \in DOMAIN found : found[j][1] = f
      BY <1>1, <1>3, <2>1, <2>2 DEF NoneMissed, WorthIt, Met
    <2>4. found[j][2] = Sizes[c]
      BY <1>1, <2>1, <2>3 DEF SizesHold
    <2>5. Finder!SizeIsShared(j)
      BY <1>1, <1>2, <1>3, <2>3, <2>4 DEF Finder!SizeIsShared
    <2>6. KeyOf(j) = k
      BY <1>4, <2>1, <2>3, <2>4 DEF KeyOf
    <2> QED
      BY <1>1, <2>3, <2>5, <2>6 DEF SharedAreIn, InItsGroup
  <1>7. ToSet(groups[k]) = Alike(c)
    BY <1>5, <1>6 DEF ToSet
  <1> QED
    BY <1>3, <1>4, <1>7 DEF GroupedAt

LEMMA AlikeFinite ==
  ASSUME NEW c
  PROVE  IsFiniteSet(Alike(c)) /\ Cardinality(Alike(c)) \in Nat
  <1>1. IsFiniteSet(Alike(c))
    <2>1. Alike(c) \subseteq Files
      BY DEF Alike
    <2> QED
      BY <2>1, FinderAssumption, FS_Subset
  <1> QED
    BY <1>1, FS_CardinalityType

LEMMA ClassIsGrouped ==
  ASSUME FinderInv, scanPhase = "done", meddlings = 0,
         NEW c \in Texts, ~Finder!TooSmall(Sizes[c]), Cardinality(Alike(c)) >= 2
  PROVE  GroupedAt(c) \in DOMAIN groups /\ DOMAIN groups[GroupedAt(c)] # {}
  <1>1. FinderType /\ SizesHold /\ NoneMissed /\ SharedAreIn /\ toWalk = <<>> /\ hashed = DOMAIN found
    BY DEF FinderInv, PassesInOrder
  <1>2. \E f, g \in Alike(c) : f # g
    <2>1. Alike(c) # {}
      BY FS_EmptySet
    <2>2. PICK f \in Alike(c) : TRUE
      BY <2>1
    <2>3. Alike(c) # {f}
      BY FS_Singleton
    <2> QED
      BY <2>2, <2>3
  <1>3. PICK f \in Alike(c), g \in Alike(c) : f # g
    BY <1>2
  <1>4. ASSUME NEW h \in Alike(c) PROVE \E i \in DOMAIN found : found[i][1] = h /\ found[i][2] = Sizes[c]
    <2>1. h \in Files /\ scanDisk[h] = c /\ ~Awaits(h)
      BY <1>1 DEF Alike, Awaits
    <2>2. PICK i \in DOMAIN found : found[i][1] = h
      BY <1>1, <2>1 DEF NoneMissed, WorthIt, Met
    <2> QED
      BY <1>1, <2>1, <2>2 DEF SizesHold
  <1>5. PICK i \in DOMAIN found : found[i][1] = f /\ found[i][2] = Sizes[c]
    BY <1>4
  <1>6. PICK j \in DOMAIN found : found[j][1] = g /\ found[j][2] = Sizes[c]
    BY <1>4
  <1>7. Finder!SizeIsShared(i)
    BY <1>3, <1>5, <1>6 DEF Finder!SizeIsShared
  <1>8. KeyOf(i) = GroupedAt(c)
    BY <1>5 DEF KeyOf, GroupedAt, Alike
  <1> QED
    BY <1>1, <1>7, <1>8 DEF SharedAreIn, InItsGroup

Large == {c \in Texts : ~Finder!TooSmall(Sizes[c]) /\ Finder!Cardinality(Alike(c)) >= 2}

(* The groups reported are those of the large classes, each of one class.  *)
LEMMA ReportIsLarge ==
  ASSUME FinderInv, scanPhase = "done", meddlings = 0, MetOnce
  PROVE  /\ Finder!DuplicateGroups = {GroupedAt(c) : c \in Large}
         /\ \A c \in Large : /\ ToSet(groups[GroupedAt(c)]) = Alike(c)
                             /\ Len(groups[GroupedAt(c)]) = Cardinality(Alike(c))
  <1>1. FinderType /\ EachOnce
    BY DEF FinderInv
  <1>2. ASSUME NEW k \in DOMAIN groups
        PROVE  Len(groups[k]) = Cardinality(ToSet(groups[k])) /\ Len(groups[k]) \in Nat
               /\ DOMAIN groups[k] = 1..Len(groups[k])
    <2>1. Len(groups[k]) \in Nat /\ DOMAIN groups[k] = 1..Len(groups[k])
      BY <1>1 DEF FinderType
    <2>2. IsInjective(groups[k])
      BY <1>1 DEF EachOnce, IsInjective
    <2> QED
      BY <2>1, <2>2, LengthIsCardinality DEF ToSet
  <1>3. ASSUME NEW k \in Finder!DuplicateGroups PROVE \E c \in Large : k = GroupedAt(c)
    <2>1. k \in DOMAIN groups /\ Len(groups[k]) >= 2
      BY DEF Finder!DuplicateGroups
    <2>2. 1 \in DOMAIN groups[k]
      BY <1>2, <2>1
    <2>3. PICK c \in Texts :
            k = GroupedAt(c) /\ ~Finder!TooSmall(Sizes[c]) /\ ToSet(groups[k]) = Alike(c)
      BY <2>1, <2>2, GroupIsClass
    <2>4. Cardinality(Alike(c)) >= 2
      BY <1>2, <2>1, <2>3
    <2> QED
      BY <2>3, <2>4, FinderLibrary DEF Large
  <1>4. ASSUME NEW c \in Large
        PROVE  /\ GroupedAt(c) \in Finder!DuplicateGroups
               /\ ToSet(groups[GroupedAt(c)]) = Alike(c)
               /\ Len(groups[GroupedAt(c)]) = Cardinality(Alike(c))
    <2> DEFINE k == GroupedAt(c)
    <2>1. c \in Texts /\ ~Finder!TooSmall(Sizes[c]) /\ Cardinality(Alike(c)) >= 2
      BY FinderLibrary DEF Large
    <2>2. k \in DOMAIN groups /\ DOMAIN groups[k] # {}
      BY <2>1, ClassIsGrouped
    <2>3. PICK n \in DOMAIN groups[k] : TRUE
      BY <2>2
    <2>4. PICK d \in Texts : k = GroupedAt(d) /\ ToSet(groups[k]) = Alike(d)
      BY <2>2, <2>3, GroupIsClass
    <2>5. d = c
      BY <2>4 DEF GroupedAt
    <2>6. Len(groups[k]) = Cardinality(Alike(c)) /\ ToSet(groups[k]) = Alike(c)
      BY <1>2, <2>2, <2>4, <2>5
    <2>7. k \in Finder!DuplicateGroups
      BY <2>1, <2>2, <2>6 DEF Finder!DuplicateGroups
    <2> QED
      BY <2>6, <2>7
  <1> QED
    BY <1>3, <1>4

LargeFirst == [c \in Large |-> GroupedAt(c)]

Spare == [c \in Large |-> (Cardinality(Alike(c)) - 1) * Sizes[c]]

WastedOf == [k \in Finder!DuplicateGroups |-> Finder!Wasted(k)]

LEMMA WastedIsASum == Finder!TotalWasted = SumOver(WastedOf, Finder!DuplicateGroups)
  <1> DEFINE S == Finder!DuplicateGroups
             E(g) == [s \in SUBSET S |-> IF s = {} THEN 0 ELSE Finder!Wasted(Some(s)) + g[s \ {Some(s)}]]
             F(g) == [s \in SUBSET S |-> IF s = {} THEN 0 ELSE WastedOf[Some(s)] + g[s \ {Some(s)}]]
  <1>1. Finder!TotalWasted = (CHOOSE g : g = E(g))[S]
    BY Zenon DEF Finder!TotalWasted, Finder!MapThenSumSet, Finder!MapThenFoldSet, Some
  <1>2. SumOver(WastedOf, S) = (CHOOSE g : g = F(g))[S]
    BY Zenon DEF SumOver, MapThenSumSet, MapThenFoldSet, Some
  <1>3. ASSUME NEW g PROVE E(g) = F(g)
    <2>1. ASSUME NEW s \in SUBSET S, s # {} PROVE Finder!Wasted(Some(s)) = WastedOf[Some(s)]
      <3>1. Some(s) \in s
        BY <2>1, Zenon DEF Some
      <3> QED
        BY <3>1 DEF WastedOf
    <2> HIDE DEF S
    <2> QED
      BY <2>1
  <1> HIDE DEF E, F
  <1> QED
    BY <1>1, <1>2, <1>3, Zenon

SpareBytes == Finder!MapThenSumSet(LAMBDA c : (Finder!Cardinality(Alike(c)) - 1) * Sizes[c], Large)

LEMMA SpareIsASum == SpareBytes = SumOver(Spare, Large)
  <1> DEFINE S == Large
             E(g) == [s \in SUBSET S |-> IF s = {} THEN 0
                        ELSE (Finder!Cardinality(Alike(Some(s))) - 1) * Sizes[Some(s)] + g[s \ {Some(s)}]]
             F(g) == [s \in SUBSET S |-> IF s = {} THEN 0 ELSE Spare[Some(s)] + g[s \ {Some(s)}]]
  <1>1. SpareBytes = (CHOOSE g : g = E(g))[S]
    BY Zenon DEF SpareBytes, Finder!MapThenSumSet, Finder!MapThenFoldSet, Some
  <1>2. SumOver(Spare, S) = (CHOOSE g : g = F(g))[S]
    BY Zenon DEF SumOver, MapThenSumSet, MapThenFoldSet, Some
  <1>3. ASSUME NEW g PROVE E(g) = F(g)
    <2>1. ASSUME NEW s \in SUBSET S, s # {}
          PROVE  (Finder!Cardinality(Alike(Some(s))) - 1) * Sizes[Some(s)] = Spare[Some(s)]
      <3>1. Some(s) \in s
        BY <2>1, Zenon DEF Some
      <3>2. Finder!Cardinality(Alike(Some(s))) = Cardinality(Alike(Some(s)))
        BY FinderLibrary
      <3> QED
        BY <3>1, <3>2 DEF Spare
    <2> HIDE DEF S
    <2> QED
      BY <2>1, Zenon
  <1> HIDE DEF E, F
  <1> QED
    BY <1>1, <1>2, <1>3, Zenon

LEMMA WasteIsWhatIsSpare ==
  ASSUME FinderInv, scanPhase = "done", meddlings = 0, MetOnce
  PROVE  Finder!TotalWasted = SpareBytes
  <1>1. /\ Finder!DuplicateGroups = {LargeFirst[c] : c \in Large}
        /\ \A c \in Large : LargeFirst[c] = GroupedAt(c) /\ Len(groups[GroupedAt(c)]) = Cardinality(Alike(c))
    BY ReportIsLarge DEF LargeFirst
  <1>2. IsFiniteSet(Large)
    <2> DEFINE there == {scanDisk[f] : f \in Files}
    <2>1. IsFiniteSet(there)
      BY FinderAssumption, ImageFinite
    <2>2. ASSUME NEW c \in Large PROVE c \in there
      <3>1. Cardinality(Alike(c)) >= 2
        BY FinderLibrary DEF Large
      <3>2. Alike(c) # {}
        BY <3>1, FS_EmptySet
      <3> QED
        BY <3>2 DEF Alike
    <2> HIDE DEF there
    <2>3. Large \subseteq there
      BY <2>2
    <2> QED
      BY <2>1, <2>3, FS_Subset
  <1>3. \A c \in Large : Spare[c] \in Int /\ WastedOf[LargeFirst[c]] = Spare[c]
    <2> SUFFICES ASSUME NEW c \in Large
                 PROVE  Spare[c] \in Int /\ WastedOf[LargeFirst[c]] = Spare[c]
      OBVIOUS
    <2>1. c \in Texts /\ Sizes[c] \in Nat /\ Cardinality(Alike(c)) \in Nat
      BY FinderAssumption, AlikeFinite DEF Large
    <2>2. LargeFirst[c] \in Finder!DuplicateGroups
      BY <1>1
    <2>3. WastedOf[LargeFirst[c]] = (Len(groups[LargeFirst[c]]) - 1) * LargeFirst[c][1]
      BY <2>2 DEF WastedOf, Finder!Wasted
    <2>4. LargeFirst[c] = <<Sizes[c], c>> /\ Len(groups[LargeFirst[c]]) = Cardinality(Alike(c))
      BY <1>1 DEF GroupedAt
    <2>5. LargeFirst[c][1] = Sizes[c]
      BY <2>4
    <2>6. Spare[c] = (Cardinality(Alike(c)) - 1) * Sizes[c]
      BY DEF Spare
    <2>7. WastedOf[LargeFirst[c]] = Spare[c]
      BY <2>3, <2>4, <2>5, <2>6, Zenon
    <2>8. Spare[c] \in Int
      BY <2>1, <2>6
    <2> QED
      BY <2>7, <2>8
  <1>4. \A c, d \in Large : LargeFirst[c] = LargeFirst[d] => c = d
    <2>1. ASSUME NEW c \in Large PROVE LargeFirst[c][2] = c
      <3>1. LargeFirst[c] = <<Sizes[c], c>>
        BY <1>1 DEF GroupedAt
      <3> QED
        BY <3>1
    <2> QED
      BY <2>1, Zenon
  <1> HIDE DEF LargeFirst, Large
  <1>6. \A c \in Large : Spare[c] \in Int
    BY <1>3
  <1>7. \A c \in Large : WastedOf[LargeFirst[c]] = Spare[c]
    BY <1>3
  <1>5. SumOver(WastedOf, {LargeFirst[c] : c \in Large}) = SumOver(Spare, Large)
    BY <1>2, <1>4, <1>6, <1>7, SumOfImages
  <1> QED
    BY <1>1, <1>5, WastedIsASum, SpareIsASum, Zenon

(* What is reported of a scan are the classes of equal files, each file    *)
(* once and in one group, and what could be spared; of a tree that other   *)
(* programs write to, still no file twice.                                 *)
THEOREM EqualFilesAreGrouped == ReclaimSpec => []GroupsAreEqualFiles
  <1>1. ReclaimInit => FinderInv
    <2> SUFFICES ASSUME ReclaimInit PROVE FinderInv
      OBVIOUS
    <2>1. \E d \in [Files -> Texts \cup {Finder!Absent}] : Finder!InitWith(d)
      BY DEF ReclaimInit, Finder!Init
    <2>2. /\ scanDisk \in [Files -> Texts \cup {Finder!Absent}]
          /\ scanPhase = "idle" /\ toWalk = <<>> /\ found = <<>> /\ hashed = {}
          /\ DOMAIN groups = {} /\ meddlings = 0
      BY <2>1 DEF Finder!InitWith
    <2> QED
      BY <2>2 DEF FinderInv, FinderType, PassesInOrder, FromHashed, EachOnce, SizesHold, NoneMissed, KeysHold,
                  SharedAreIn
  <1>2. FinderInv /\ [ReclaimNext]_allVars => FinderInv'
    BY ReclaimParts, StepFinder
  <1>3. FinderInv => GroupsAreEqualFiles
    <2> SUFFICES ASSUME FinderInv, scanPhase = "done", MetOnce
                 PROVE  /\ \A k, l \in Finder!DuplicateGroups :
                             k # l => Finder!ToSet(groups[k]) \cap Finder!ToSet(groups[l]) = {}
                        /\ \A k \in Finder!DuplicateGroups : Finder!IsInjective(groups[k])
                        /\ meddlings = 0 =>
                             /\ {Finder!ToSet(groups[k]) : k \in Finder!DuplicateGroups} = {Alike(c) : c \in Large}
                             /\ Finder!TotalWasted = SpareBytes
      BY Zenon DEF GroupsAreEqualFiles, Finder!GroupsAreEqualFiles, MetOnce, Alike, Large, SpareBytes
    <2>1. EachOnce
      BY DEF FinderInv
    <2>2. \A k \in Finder!DuplicateGroups : k \in DOMAIN groups
      BY DEF Finder!DuplicateGroups
    <2>3. ASSUME NEW k \in Finder!DuplicateGroups, NEW l \in Finder!DuplicateGroups, k # l
          PROVE  Finder!ToSet(groups[k]) \cap Finder!ToSet(groups[l]) = {}
      BY <2>1, <2>2, <2>3 DEF EachOnce, Finder!ToSet
    <2>4. ASSUME NEW k \in Finder!DuplicateGroups PROVE Finder!IsInjective(groups[k])
      BY <2>1, <2>2 DEF EachOnce, Finder!IsInjective
    <2>5. ASSUME meddlings = 0
          PROVE  /\ {Finder!ToSet(groups[k]) : k \in Finder!DuplicateGroups} = {Alike(c) : c \in Large}
                 /\ Finder!TotalWasted = SpareBytes
      <3>1. /\ Finder!DuplicateGroups = {GroupedAt(c) : c \in Large}
            /\ \A c \in Large : Finder!ToSet(groups[GroupedAt(c)]) = Alike(c)
        BY <2>5, ReportIsLarge, FinderLibrary
      <3>2. Finder!TotalWasted = SpareBytes
        BY <2>5, WasteIsWhatIsSpare
      <3>3. {Finder!ToSet(groups[k]) : k \in Finder!DuplicateGroups} = {Alike(c) : c \in Large}
        BY <3>1
      <3> QED
        BY <3>2, <3>3
    <2> QED
      BY <2>3, <2>4, <2>5
  <1> QED
    BY <1>1, <1>2, <1>3, PTL DEF ReclaimSpec

-----------------------------------------------------------------------------
(***************************************************************************)
(* The cleaners, by the invariants of CleanersProofs.                      *)
(***************************************************************************)
(* They start from one of the trees, or rest over an empty one.            *)
LEMMA FirstTree ==
  ASSUME ReclaimInit
  PROVE  \E layout : InitWith(layout) /\ Findable(layout)
  <1>1. CASE active = "cleaners"
    <2>1. PICK layout \in Layouts : InitWith(layout)
      BY <1>1, Zenon DEF ReclaimInit, Init
    <2>2. ASSUME NEW p \in DOMAIN layout, NEW q \in DOMAIN layout, IsStrictPrefix(p, q)
          PROVE  layout[p].kind = "dir"
      <3>1. IsList(p) /\ IsList(q)
        BY PathsAssumption, ListOf
      <3>2. Len(p) < Len(q)
        BY <2>2, <3>1, StrictlyBelow
      <3>3. Len(p) \in Nat /\ Len(q) \in Nat /\ (p # <<>> => Len(p) # 0)
        BY <3>1 DEF IsList
      <3>4. Len(p) \in 1..(Len(q) - 1)
        BY <3>2, <3>3, LayoutsAssumption
      <3>5. SubSeq(q, 1, Len(p)) = p
        <4>1. p = SubSeq(p, 1, Len(p))
          BY <3>1 DEF IsList
        <4> QED
          BY <2>2, <4>1, Zenon DEF IsStrictPrefix, IsPrefix
      <3> QED
        BY <3>4, <3>5, LayoutsAssumption
    <2>3. Findable(layout)
      BY <2>2, CleanersAssumption, PathsAssumption, NodesAssumption DEF Findable
    <2> QED
      BY <2>1, <2>3
  <1>2. CASE active # "cleaners"
    <2>1. InitWith(<<>>)
      BY <1>2, Zenon DEF ReclaimInit
    <2>2. DOMAIN <<>> = {}
      OBVIOUS
    <2>3. Findable(<<>>)
      BY <2>2, FS_EmptySet DEF Findable
    <2> QED
      BY <2>1, <2>3
  <1> QED
    BY <1>1, <1>2

(* Left to themselves, the two cleaners leave nothing behind that their    *)
(* rules list for a category they were asked to clean, but where           *)
(* secure_delete failed on it or on something below it (CleanIsThorough).  *)
THEOREM NothingLeftBehind == ReclaimSpec => []CleanIsThorough
  <1>1. ReclaimInit => CleanInv
    BY FirstTree, FirstClean
  <1>2. CleanInv /\ [ReclaimNext]_allVars => CleanInv'
    BY ReclaimParts, StepClean
  <1>3. CleanInv => CleanIsThorough
    BY SystemIsThorough, BrowserIsThorough DEF CleanInv, CleanIsThorough
  <1> QED
    BY <1>1, <1>2, <1>3, PTL DEF ReclaimSpec

(* A cleaner erases nothing of the running kernel, no log in use, no       *)
(* document of the user's, nothing of others in /tmp and nothing recent in *)
(* /var/tmp, nor sets out to erase a directory with such a thing in it,    *)
(* unless another program put it in the place of what was listed           *)
(* (ProtectedSurvives).                                                    *)
THEOREM ProtectedIsLeft == ReclaimSpec => []ProtectedSurvives
  <1>1. ReclaimInit => SpareInv
    BY FirstTree, FirstSpare
  <1>2. SpareInv /\ [ReclaimNext]_allVars => SpareInv'
    BY ReclaimParts, StepSpare
  <1>3. SpareInv => ProtectedSurvives
    BY DEF SpareInv, SystemSafe, BrowserSafe, ProtectedSurvives
  <1> QED
    BY <1>1, <1>2, <1>3, PTL DEF ReclaimSpec

(* Left to themselves, a run frees no more than it reported, and no less   *)
(* if it erased all that it listed, each path once and apart, and the      *)
(* other run had nothing of it; a dry run frees nothing (FreedAsReported). *)
THEOREM FreedIsReported == ReclaimSpec => []FreedAsReported
  <1>1. ReclaimInit => LedgerInv
    BY FirstTree, FirstLedger
  <1>2. LedgerInv /\ [ReclaimNext]_allVars => LedgerInv'
    BY ReclaimParts, StepLedger
  <1>3. LedgerInv => FreedAsReported
    BY SystemFreesAsTold, BrowserFreesAsTold DEF LedgerInv, FreedAsReported
  <1> QED
    BY <1>1, <1>2, <1>3, PTL DEF ReclaimSpec
=============================================================================
