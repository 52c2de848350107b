------------------------ MODULE DirectoryWalkProofs ------------------------
(***************************************************************************)
(* Proofs about DirectoryWalk!Spec for any tree and any number of walks.   *)
(***************************************************************************)
EXTENDS DirectoryWalk, SequenceTheorems, TLAPS

Moves(w) == DryRun(w) \/ Begin(w) \/ Refuse(w) \/ Step(w) \/ Fault(w)

Meddles == (\E n \in Late : Create(n)) \/ (\E n \in Files : Remove(n))

LEMMA NextCases ==
  ASSUME [Next]_vars
  PROVE  UNCHANGED vars \/ Meddles \/ \E w \in Walks : Moves(w)
  BY DEF Next, Moves, Meddles

LEMMA NameFacts == "gone" \notin Names /\ "absent" \notin Names /\ "own" \in Names
  BY TreeAssumption DEF Names

(* A running walk has the root at the bottom of its stack, one that does   *)
(* not run has none, and what it erases is a file.                         *)
Shape(w) ==
  /\ Running(w) => stack[w] # <<>> /\ stack[w][1] = Root
  /\ ~Running(w) => stack[w] = <<>>
  /\ pc[w] \in {"rename", "unlink"} => at[w] \in Files

WellFormed == TypeOK /\ \A w \in Walks : Shape(w)

(* What a walk does leaves the other walks where they are.                 *)
LEMMA OtherWalks ==
  ASSUME TypeOK, NEW w \in Walks, Moves(w), NEW v \in Walks, v # w
  PROVE  /\ pc'[v] = pc[v] /\ stack'[v] = stack[v] /\ left'[v] = left[v] /\ at'[v] = at[v]
         /\ seen'[v] = seen[v] /\ erased'[v] = erased[v] /\ preview'[v] = preview[v]
  <1> USE DEF TypeOK
  <1>1. ASSUME NEW o, Return(w, o)
        PROVE  /\ pc'[v] = pc[v] /\ stack'[v] = stack[v] /\ left'[v] = left[v]
               /\ at'[v] = at[v] /\ seen'[v] = seen[v]
    BY <1>1 DEF Return, Goto
  <1>2. CASE DryRun(w)
    BY <1>2 DEF DryRun, walkVars
  <1>3. CASE Begin(w)
    BY <1>3 DEF Begin, Push, Goto
  <1>4. CASE Refuse(w) \/ RenameFails(w) \/ UnlinkFails(w) \/ RemoveFails(w) \/ Fault(w)
    BY <1>1, <1>4 DEF Refuse, RenameFails, UnlinkFails, RemoveFails, Fault
  <1>5. ASSUME NEW e \in Upcoming(w), EnterDirectory(w, e)
        PROVE  /\ pc'[v] = pc[v] /\ stack'[v] = stack[v] /\ left'[v] = left[v] /\ at'[v] = at[v]
               /\ seen'[v] = seen[v] /\ erased'[v] = erased[v] /\ preview'[v] = preview[v]
    BY <1>5 DEF EnterDirectory
  <1>6. ASSUME NEW e \in Upcoming(w), PassOver(w, e) \/ StartFile(w, e)
        PROVE  /\ pc'[v] = pc[v] /\ stack'[v] = stack[v] /\ left'[v] = left[v] /\ at'[v] = at[v]
               /\ seen'[v] = seen[v] /\ erased'[v] = erased[v] /\ preview'[v] = preview[v]
    BY <1>6 DEF PassOver, StartFile, Goto
  <1>7. CASE RenameFile(w) \/ UnlinkFile(w)
    BY <1>7 DEF RenameFile, UnlinkFile, Counted, Goto
  <1>8. CASE RemoveDirectory(w)
    <2>1. CASE Top(w) = Root
      BY <1>1, <1>8, <2>1 DEF RemoveDirectory
    <2>2. CASE Top(w) # Root
      BY <1>8, <2>2 DEF RemoveDirectory, Pop
    <2> QED
      BY <2>1, <2>2
  <1> QED
    BY <1>2, <1>3, <1>4, <1>5, <1>6, <1>7, <1>8 DEF Moves, Step

LEMMA InitWellFormed == Init => WellFormed
  <1> SUFFICES ASSUME Init PROVE WellFormed
    OBVIOUS
  <1>1. TypeOK
    <2>1. <<>> \in Seq(Nodes)
      OBVIOUS
    <2> QED
      BY <2>1, TreeAssumption DEF Init, TypeOK, Done, NothingLeft, Entries, Names
  <1>2. ASSUME NEW w \in Walks PROVE Shape(w)
    BY DEF Init, Shape, Running
  <1> QED
    BY <1>1, <1>2 DEF WellFormed

(* Lists of entries.                                                       *)
LEMMA ListingType ==
  ASSUME NEW d \in Nodes
  PROVE  Listing(d) \in SUBSET Entries
  BY DEF Listing, Content, There, Entries

LEMMA StackFacts ==
  ASSUME TypeOK, NEW w \in Walks, Shape(w), Running(w)
  PROVE  /\ Len(stack[w]) \in Nat \ {0} /\ Top(w) \in Nodes
         /\ \A i \in 1..Len(stack[w]) : stack[w][i] \in Nodes
         /\ stack[w] \in Seq(Nodes)
         /\ Top(w) # Root => Len(stack[w]) > 1
  <1>1. stack[w] \in Seq(Nodes) /\ stack[w] # <<>> /\ stack[w][1] = Root
    BY DEF TypeOK, Shape
  <1>2. Len(stack[w]) \in Nat \ {0}
    BY <1>1, EmptySeq
  <1>3. \A i \in 1..Len(stack[w]) : stack[w][i] \in Nodes
    BY <1>1, ElementOfSeq
  <1> QED
    BY <1>1, <1>2, <1>3 DEF Top

LEMMA ReturnWellFormed ==
  ASSUME WellFormed, NEW w \in Walks, NEW o \in Done, Return(w, o)
  PROVE  /\ pc' \in [Walks -> {"idle", "walk", "rename", "unlink"} \cup Done]
         /\ stack' \in [Walks -> Seq(Nodes)]
         /\ left' \in [Walks -> [Nodes -> SUBSET Entries]]
         /\ at' \in [Walks -> Nodes \cup {NoFile}] /\ seen' \in [Walks -> Names]
         /\ Shape(w)'
  <1> USE DEF WellFormed, TypeOK
  <1>1. <<>> \in Seq(Nodes) /\ NothingLeft \in [Nodes -> SUBSET Entries] /\ "own" \in Names
    BY DEF NothingLeft, Names
  <1>2. stack' \in [Walks -> Seq(Nodes)] /\ stack'[w] = <<>>
    BY <1>1 DEF Return
  <1>3. left' \in [Walks -> [Nodes -> SUBSET Entries]]
    BY <1>1 DEF Return
  <1>4. /\ at' \in [Walks -> Nodes \cup {NoFile}] /\ seen' \in [Walks -> Names]
        /\ pc' \in [Walks -> {"idle", "walk", "rename", "unlink"} \cup Done] /\ pc'[w] = o
    BY <1>1 DEF Return, Goto
  <1>5. Shape(w)'
    BY <1>2, <1>4 DEF Shape, Running, Done
  <1> QED
    BY <1>2, <1>3, <1>4, <1>5

LEMMA Prefix ==
  ASSUME NEW S, NEW s \in Seq(S), NEW n \in Nat, n < Len(s)
  PROVE  /\ SubSeq(s, 1, n) \in Seq(S) /\ Len(SubSeq(s, 1, n)) = n
         /\ \A i \in 1..n : SubSeq(s, 1, n)[i] = s[i]
  OBVIOUS

(* The two ways a stack changes in a walk.                                 *)
LEMMA Pushing ==
  ASSUME TypeOK, NEW w \in Walks, NEW d \in Nodes, stack' = [stack EXCEPT ![w] = Append(@, d)]
  PROVE  /\ stack' \in [Walks -> Seq(Nodes)]
         /\ stack'[w] # <<>> /\ Len(stack'[w]) = Len(stack[w]) + 1
         /\ \A i \in 1..Len(stack[w]) : stack'[w][i] = stack[w][i]
         /\ stack'[w][Len(stack[w]) + 1] = d
  <1>1. stack[w] \in Seq(Nodes) /\ stack'[w] = Append(stack[w], d)
    BY DEF TypeOK
  <1>2. /\ Append(stack[w], d) \in Seq(Nodes) /\ Len(Append(stack[w], d)) = Len(stack[w]) + 1
        /\ \A i \in 1..Len(stack[w]) : Append(stack[w], d)[i] = stack[w][i]
        /\ Append(stack[w], d)[Len(stack[w]) + 1] = d
    BY <1>1, AppendProperties
  <1>3. stack' \in [Walks -> Seq(Nodes)]
    BY <1>1, <1>2 DEF TypeOK
  <1>4. Len(stack[w]) \in Nat /\ Len(<<>>) = 0
    BY <1>1, LenProperties
  <1> QED
    BY <1>1, <1>2, <1>3, <1>4

LEMMA Popping ==
  ASSUME TypeOK, NEW w \in Walks, Shape(w), Running(w), Top(w) # Root, Pop(w)
  PROVE  /\ stack' \in [Walks -> Seq(Nodes)]
         /\ stack'[w] # <<>> /\ Len(stack'[w]) = Len(stack[w]) - 1
         /\ \A i \in 1..(Len(stack[w]) - 1) : stack'[w][i] = stack[w][i]
         /\ stack'[w][1] = Root
  <1> DEFINE n == Len(stack[w]) - 1
             t == SubSeq(stack[w], 1, n)
  <1>1. /\ n \in Nat \ {0} /\ stack[w] \in Seq(Nodes) /\ stack[w][1] = Root
        /\ \A i \in 1..n : stack[w][i] \in Nodes
    BY StackFacts DEF Shape
  <1>2. stack' = [stack EXCEPT ![w] = t]
    BY DEF Pop
  <1>3. /\ t \in Seq(Nodes) /\ Len(t) = n
        /\ \A i \in 1..n : t[i] = stack[w][i]
    <2>1. n < Len(stack[w])
      BY <1>1
    <2> QED
      BY <1>1, <2>1, Prefix
  <1> HIDE DEF t
  <1>4. stack' \in [Walks -> Seq(Nodes)] /\ stack'[w] = t
    BY <1>2, <1>3 DEF TypeOK
  <1>5. t # <<>>
    BY <1>1, <1>3
  <1> QED
    BY <1>1, <1>3, <1>4, <1>5

(* The lists after a directory was entered.                                *)
ListsOnEntering(w, t, d, e, X) == left' = [left EXCEPT ![w][t] = @ \ {e}, ![w][d] = X]

ListsEntered(w, t, d, e, X) ==
  /\ left'[w][d] = X
  /\ \A k \in Nodes \ {d} : left'[w][k] = IF k = t THEN left[w][k] \ {e} ELSE left[w][k]

LEMMA EnteredLists ==
  ASSUME TypeOK, NEW w \in Walks, NEW t \in Nodes, NEW d \in Nodes, NEW e,
         NEW X \in SUBSET Entries, ListsOnEntering(w, t, d, e, X)
  PROVE  left' \in [Walks -> [Nodes -> SUBSET Entries]] /\ ListsEntered(w, t, d, e, X)
  <1> USE DEF TypeOK
  <1> DEFINE L == [left EXCEPT ![w][t] = @ \ {e}]
  <1>1. L \in [Walks -> [Nodes -> SUBSET Entries]]
    OBVIOUS
  <1>2. \A k \in Nodes : L[w][k] = IF k = t THEN left[w][k] \ {e} ELSE left[w][k]
    OBVIOUS
  <1>3. left' = [L EXCEPT ![w][d] = X]
    BY Zenon DEF ListsOnEntering
  <1> HIDE DEF L
  <1>4. left' \in [Walks -> [Nodes -> SUBSET Entries]]
    BY <1>1, <1>3
  <1>5. left'[w] = [L[w] EXCEPT ![d] = X]
    BY <1>1, <1>3
  <1>6. L[w] \in [Nodes -> SUBSET Entries]
    BY <1>1
  <1>7. left'[w][d] = X
    BY <1>5, <1>6
  <1>8. \A k \in Nodes \ {d} : left'[w][k] = L[w][k]
    BY <1>5, <1>6
  <1> QED
    BY <1>2, <1>4, <1>7, <1>8, Zenon DEF ListsEntered

LEMMA OwnWellFormed ==
  ASSUME WellFormed, NEW w \in Walks, Moves(w)
  PROVE  TypeOK' /\ Shape(w)'
  <1> USE TreeAssumption DEF WellFormed, TypeOK
  <1>0. Shape(w)
    OBVIOUS
  <1>1. ASSUME NEW o \in Done, Return(w, o),
               UNCHANGED <<treeVars, erased, preview>>, disturbed' \in [Walks -> BOOLEAN],
               UNCHANGED current
        PROVE  TypeOK' /\ Shape(w)'
    BY <1>1, ReturnWellFormed DEF treeVars
  <1>2. CASE DryRun(w)
    <2>1. {n \in Files : There(n)} \in SUBSET Files
      OBVIOUS
    <2> QED
      BY <1>0, <1>2, <2>1 DEF DryRun, treeVars, walkVars, Shape, Running
  <1>3. CASE Begin(w)
    <2>1. /\ stack' = [stack EXCEPT ![w] = Append(@, Root)]
          /\ left' = [left EXCEPT ![w][Root] = Listing(Root)]
          /\ pc' = [pc EXCEPT ![w] = "walk"] /\ pc[w] = "idle"
          /\ UNCHANGED <<treeVars, at, seen, erased, preview, historyVars>>
      BY <1>3 DEF Begin, Push, Goto
    <2>2. stack[w] = <<>>
      BY <1>0, <2>1 DEF Shape, Running
    <2>3. stack' \in [Walks -> Seq(Nodes)] /\ stack'[w] # <<>> /\ stack'[w][1] = Root
      BY <2>1, <2>2, Pushing
    <2>4. left' \in [Walks -> [Nodes -> SUBSET Entries]]
      BY <2>1, ListingType
    <2>5. Shape(w)'
      BY <2>1, <2>3 DEF Shape, Running, Done
    <2> QED
      BY <2>1, <2>3, <2>4, <2>5 DEF treeVars, historyVars
  <1>4. CASE Refuse(w) \/ RenameFails(w) \/ UnlinkFails(w) \/ RemoveFails(w)
    <2>1. "error" \in Done
      BY DEF Done
    <2> QED
      BY <1>1, <1>4, <2>1 DEF Refuse, RenameFails, UnlinkFails, RemoveFails, historyVars
  <1>5. CASE Fault(w)
    <2>1. "error" \in Done
      BY DEF Done
    <2> QED
      BY <1>1, <1>5, <2>1 DEF Fault
  <1>6. ASSUME NEW e \in Upcoming(w)
        PROVE  /\ e \in Entries /\ e[1] \in Nodes /\ e[2] \in Names
               /\ pc[w] = "walk" /\ Running(w) /\ Top(w) \in Nodes /\ e \in left[w][Top(w)]
    <2>1. pc[w] = "walk" /\ e \in left[w][Top(w)]
      BY DEF Upcoming
    <2>2. Running(w)
      BY <2>1 DEF Running, Done
    <2>3. Top(w) \in Nodes
      BY <1>0, <2>2, StackFacts
    <2>4. e \in Entries
      BY <2>1, <2>3
    <2> QED
      BY <2>1, <2>2, <2>3, <2>4 DEF Entries
  <1>7. ASSUME NEW e \in Upcoming(w), EnterDirectory(w, e) PROVE TypeOK' /\ Shape(w)'
    <2>1. /\ stack' = [stack EXCEPT ![w] = Append(@, e[1])]
          /\ UNCHANGED <<treeVars, pc, at, seen, erased, preview, historyVars>>
      BY <1>7 DEF EnterDirectory
    <2>2. /\ stack' \in [Walks -> Seq(Nodes)] /\ stack'[w] # <<>>
          /\ \A i \in 1..Len(stack[w]) : stack'[w][i] = stack[w][i]
      BY <1>6, <2>1, Pushing
    <2>3. stack'[w][1] = Root
      <3>1. 1 \in 1..Len(stack[w])
        BY <1>0, <1>6, StackFacts
      <3> QED
        BY <1>0, <1>6, <2>2, <3>1 DEF Shape
    <2>4. left' \in [Walks -> [Nodes -> SUBSET Entries]]
      <3> DEFINE X == IF There(e[1]) THEN Listing(e[1]) ELSE {}
      <3>1. X \in SUBSET Entries
        BY <1>6, ListingType
      <3>2. ListsOnEntering(w, Top(w), e[1], e, X)
        BY <1>7, Zenon DEF EnterDirectory, ListsOnEntering
      <3> HIDE DEF X
      <3> QED
        BY <1>6, <3>1, <3>2, EnteredLists, Zenon
    <2>5. Shape(w)'
      BY <1>0, <1>6, <2>1, <2>2, <2>3 DEF Shape, Running
    <2> QED
      BY <2>1, <2>2, <2>4, <2>5 DEF treeVars, historyVars
  <1>8. ASSUME NEW e \in Upcoming(w), PassOver(w, e) PROVE TypeOK' /\ Shape(w)'
    <2>1. /\ UNCHANGED <<treeVars, pc, stack, at, seen, erased, preview, historyVars>>
          /\ left' = [left EXCEPT ![w][Top(w)] = @ \ {e}]
      BY <1>8 DEF PassOver
    <2> QED
      BY <1>0, <1>6, <2>1 DEF treeVars, historyVars, Shape, Running
  <1>9. ASSUME NEW e \in Upcoming(w), StartFile(w, e) PROVE TypeOK' /\ Shape(w)'
    <2>1. /\ UNCHANGED <<treeVars, stack, erased, preview, historyVars>>
          /\ left' = [left EXCEPT ![w][Top(w)] = @ \ {e}]
          /\ at' = [at EXCEPT ![w] = e[1]] /\ seen' = [seen EXCEPT ![w] = e[2]]
          /\ pc' = [pc EXCEPT ![w] = "rename"] /\ e[1] \in Files
      BY <1>6, <1>9 DEF StartFile, Goto, Files
    <2>2. Shape(w)'
      BY <1>0, <1>6, <2>1 DEF Shape, Running, Done
    <2> QED
      BY <1>6, <2>1, <2>2 DEF treeVars, historyVars
  <1>10. ASSUME NEW others \in SUBSET Walks, Disturb(others)
         PROVE  disturbed' \in [Walks -> BOOLEAN] /\ current' \in [Walks -> BOOLEAN]
    BY <1>10, Zenon DEF Disturb
  <1>11. CASE RenameFile(w)
    <2>1. /\ pc[w] = "rename" /\ name' = [name EXCEPT ![at[w]] = w]
          /\ pc' = [pc EXCEPT ![w] = "unlink"]
          /\ UNCHANGED <<filler, stack, left, at, seen, erased, preview>>
      BY <1>11 DEF RenameFile, Goto
    <2>2. Shape(w)'
      BY <1>0, <2>1 DEF Shape, Running, Done
    <2>3. disturbed' \in [Walks -> BOOLEAN] /\ current' \in [Walks -> BOOLEAN]
      BY <1>10, <1>11 DEF RenameFile
    <2> QED
      BY <2>1, <2>2, <2>3 DEF Names
  <1>12. CASE UnlinkFile(w)
    <2>1. /\ pc[w] = "unlink" /\ name' = [name EXCEPT ![at[w]] = "gone"]
          /\ pc' = [pc EXCEPT ![w] = "walk"] /\ at' = [at EXCEPT ![w] = NoFile]
          /\ seen' = [seen EXCEPT ![w] = "own"]
          /\ erased' = [erased EXCEPT ![w] = @ \cup {at[w]}]
          /\ UNCHANGED <<stack, left, preview>>
      BY <1>12 DEF UnlinkFile, Counted, Goto
    <2>2. at[w] \in Files /\ at[w] \in Nodes \ {Root}
      BY <1>0, <2>1 DEF Shape, Files
    <2>3. filler' \subseteq Nodes
      <3>1. Parent[at[w]] \in Nodes
        BY <2>2
      <3> QED
        BY <1>12, <3>1 DEF UnlinkFile, Counted
    <2>4. Shape(w)'
      BY <1>0, <2>1 DEF Shape, Running, Done
    <2>5. disturbed' \in [Walks -> BOOLEAN] /\ current' \in [Walks -> BOOLEAN]
      BY <1>10, <1>12 DEF UnlinkFile, Counted
    <2>6. "own" \in Names
      BY DEF Names
    <2> QED
      <3>1. /\ name' \in [Nodes -> Names \cup {"absent", "gone"}]
            /\ pc' \in [Walks -> {"idle", "walk", "rename", "unlink"} \cup Done]
            /\ at' \in [Walks -> Nodes \cup {NoFile}]
        BY <2>1
      <3>2. seen' \in [Walks -> Names]
        BY <2>1, <2>6
      <3>3. erased' \in [Walks -> SUBSET Files]
        BY <2>1, <2>2
      <3> QED
        BY <2>1, <2>3, <2>4, <2>5, <3>1, <3>2, <3>3
  <1>13. CASE RemoveDirectory(w)
    <2>1. /\ pc[w] = "walk" /\ Running(w) /\ name' = [name EXCEPT ![Top(w)] = "gone"]
          /\ UNCHANGED <<filler, erased, preview>>
      BY <1>13 DEF RemoveDirectory, Exhausted, Running, Done
    <2>2. name' \in [Nodes -> Names \cup {"absent", "gone"}]
      BY <2>1
    <2>3. disturbed' \in [Walks -> BOOLEAN] /\ current' \in [Walks -> BOOLEAN]
      BY <1>10, <1>13 DEF RemoveDirectory
    <2>4. CASE Top(w) = Root
      <3>1. Return(w, "ok") /\ "ok" \in Done
        BY <1>13, <2>4 DEF RemoveDirectory, Done
      <3> QED
        BY <2>1, <2>2, <2>3, <3>1, ReturnWellFormed
    <2>5. CASE Top(w) # Root
      <3>1. Pop(w) /\ UNCHANGED <<pc, at, seen, left>>
        BY <1>13, <2>5 DEF RemoveDirectory, Pop
      <3>2. /\ stack' \in [Walks -> Seq(Nodes)] /\ stack'[w] # <<>> /\ stack'[w][1] = Root
        BY <1>0, <2>1, <2>5, <3>1, Popping
      <3>3. Shape(w)'
        BY <1>0, <2>1, <3>1, <3>2 DEF Shape, Running
      <3> QED
        BY <2>1, <2>2, <2>3, <3>1, <3>2, <3>3
    <2> QED
      BY <2>4, <2>5
  <1> QED
    BY <1>2, <1>3, <1>4, <1>5, <1>7, <1>8, <1>9, <1>11, <1>12, <1>13 DEF Moves, Step

LEMMA StepWellFormed == ASSUME WellFormed, [Next]_vars PROVE WellFormed'
  <1> USE DEF WellFormed
  <1>1. CASE UNCHANGED vars
    BY <1>1 DEF vars, treeVars, walkVars, historyVars, TypeOK, Shape, Running
  <1>2. CASE Meddles
    <2>1. PICK n \in Nodes, new \in {"own", "gone"} : Meddle(n, new)
      BY <1>2, TreeAssumption DEF Meddles, Create, Remove, Files
    <2>2. disturbed' \in [Walks -> BOOLEAN] /\ current' \in [Walks -> BOOLEAN]
      BY <2>1, Zenon DEF Meddle, Disturb, TypeOK
    <2> QED
      BY <2>1, <2>2 DEF Meddle, walkVars, TypeOK, Shape, Running, Names
  <1>3. ASSUME NEW w \in Walks, Moves(w) PROVE WellFormed'
    <2>1. TypeOK' /\ Shape(w)'
      BY <1>3, OwnWellFormed
    <2>2. ASSUME NEW v \in Walks, v # w PROVE Shape(v)'
      BY <1>3, <2>2, OtherWalks DEF Shape, Running
    <2> QED
      BY <2>1, <2>2
  <1> QED
    BY <1>1, <1>2, <1>3, NextCases

LEMMA WellFormedAlways == Spec => []WellFormed
  BY InitWellFormed, StepWellFormed, PTL DEF Spec

(* Every variable keeps its type in every behaviour.                       *)
THEOREM TypeCorrect == Spec => []TypeOK
  <1>1. WellFormed => TypeOK
    BY DEF WellFormed
  <1> QED
    BY <1>1, WellFormedAlways, PTL

-----------------------------------------------------------------------------
(***************************************************************************)
(* How names change.                                                       *)
(***************************************************************************)
Dirs == \A w \in Walks : \A k \in 1..Len(stack[w]) : Kind[stack[w][k]] = "dir"

LEMMA StackSteps ==
  ASSUME WellFormed, NEW w \in Walks, Moves(w)
  PROVE  \/ stack'[w] = stack[w]
         \/ stack'[w] = <<>>
         \/ \E d \in Nodes :
              Kind[d] = "dir" /\ stack' = [stack EXCEPT ![w] = Append(@, d)]
         \/ Running(w) /\ Top(w) # Root /\ Pop(w)
  <1> USE TreeAssumption DEF WellFormed, TypeOK
  <1>1. ASSUME NEW o, Return(w, o) PROVE stack'[w] = <<>>
    BY <1>1 DEF Return
  <1>2. CASE Begin(w)
    BY <1>2 DEF Begin, Push
  <1>3. ASSUME NEW e \in Upcoming(w), EnterDirectory(w, e)
        PROVE  \E d \in Nodes : Kind[d] = "dir" /\ stack' = [stack EXCEPT ![w] = Append(@, d)]
    <2>1. Running(w) /\ e \in left[w][Top(w)] /\ Top(w) \in Nodes
      BY <1>3, StackFacts DEF Upcoming, Running, Done
    <2>2. e[1] \in Nodes
      BY <2>1 DEF Entries
    <2> QED
      BY <1>3, <2>2 DEF EnterDirectory
  <1>4. ASSUME NEW e \in Upcoming(w), PassOver(w, e) \/ StartFile(w, e) PROVE stack' = stack
    BY <1>4 DEF PassOver, StartFile
  <1>5. CASE Refuse(w) \/ RenameFails(w) \/ UnlinkFails(w) \/ RemoveFails(w) \/ Fault(w)
    BY <1>1, <1>5 DEF Refuse, RenameFails, UnlinkFails, RemoveFails, Fault
  <1>6. CASE RemoveDirectory(w)
    BY <1>1, <1>6 DEF RemoveDirectory, Exhausted, Running, Done
  <1>7. CASE DryRun(w) \/ RenameFile(w) \/ UnlinkFile(w)
    BY <1>7 DEF DryRun, RenameFile, UnlinkFile, Counted, walkVars
  <1> QED
    BY <1>2, <1>3, <1>4, <1>5, <1>6, <1>7 DEF Moves, Step

LEMMA StepDirs ==
  ASSUME WellFormed, Dirs, [Next]_vars
  PROVE  Dirs'
  <1> USE DEF WellFormed
  <1>1. CASE stack' = stack
    BY <1>1 DEF Dirs
  <1>2. ASSUME NEW w \in Walks, Moves(w) PROVE Dirs'
    <2> SUFFICES ASSUME NEW v \in Walks, NEW k \in 1..Len(stack'[v])
                 PROVE  Kind[stack'[v][k]] = "dir"
      BY DEF Dirs
    <2>1. CASE v # w \/ stack'[w] = stack[w]
      BY <1>2, <2>1, OtherWalks DEF Dirs
    <2>2. CASE v = w /\ stack'[w] = <<>>
      BY <2>2
    <2>3. ASSUME NEW d \in Nodes, Kind[d] = "dir", stack' = [stack EXCEPT ![w] = Append(@, d)], v = w
          PROVE  Kind[stack'[v][k]] = "dir"
      <3>1. /\ Len(stack'[w]) = Len(stack[w]) + 1
            /\ \A i \in 1..Len(stack[w]) : stack'[w][i] = stack[w][i]
            /\ stack'[w][Len(stack[w]) + 1] = d
        BY <2>3, Pushing
      <3>2. Len(stack[w]) \in Nat
        BY LenProperties DEF TypeOK
      <3>3. k = Len(stack[w]) + 1 \/ k \in 1..Len(stack[w])
        BY <2>3, <3>1, <3>2
      <3> QED
        BY <2>3, <3>1, <3>3 DEF Dirs
    <2>4. CASE v = w /\ Running(w) /\ Top(w) # Root /\ Pop(w)
      <3>1. /\ Len(stack'[w]) = Len(stack[w]) - 1
            /\ \A i \in 1..(Len(stack[w]) - 1) : stack'[w][i] = stack[w][i]
            /\ Len(stack[w]) \in Nat
        BY <2>4, Popping, StackFacts
      <3>2. k \in 1..Len(stack[w]) /\ k \in 1..(Len(stack[w]) - 1)
        BY <2>4, <3>1
      <3> QED
        BY <2>4, <3>1, <3>2 DEF Dirs
    <2> QED
      BY <1>2, <2>1, <2>2, <2>3, <2>4, StackSteps
  <1> QED
    BY <1>1, <1>2, NextCases DEF Meddles, Create, Remove, Meddle, walkVars, vars

(* A name is taken by an outsider, given by one to what was not there yet, *)
(* or changed by the walk that is at the file or at the empty directory.   *)
LEMMA NameSteps ==
  ASSUME WellFormed, Dirs, [Next]_vars
  PROVE  \/ name' = name
         \/ \E n \in Late :
              name[n] = "absent" /\ There(Parent[n]) /\ name' = [name EXCEPT ![n] = "own"]
         \/ \E n \in Files : There(n) /\ name' = [name EXCEPT ![n] = "gone"]
         \/ \E w \in Walks : \E n \in Files : There(n) /\ name' = [name EXCEPT ![n] = w]
         \/ \E n \in Nodes :
              /\ Kind[n] = "dir" /\ There(n) /\ Content(n) = {}
              /\ name' = [name EXCEPT ![n] = "gone"]
  <1> USE TreeAssumption DEF WellFormed, TypeOK
  <1>1. CASE Meddles
    BY <1>1 DEF Meddles, Create, Remove, Meddle, There, Names
  <1>2. ASSUME NEW w \in Walks, RenameFile(w)
        PROVE  \E n \in Files : There(n) /\ name' = [name EXCEPT ![n] = w]
    <2>1. at[w] \in Files
      BY <1>2 DEF RenameFile, Shape
    <2> QED
      BY <1>2, <2>1 DEF RenameFile, There
  <1>3. ASSUME NEW w \in Walks, UnlinkFile(w)
        PROVE  \E n \in Files : There(n) /\ name' = [name EXCEPT ![n] = "gone"]
    <2>1. at[w] \in Files
      BY <1>3 DEF UnlinkFile, Shape
    <2>2. There(at[w])
      BY <1>3 DEF UnlinkFile, There, Names
    <2>3. name' = [name EXCEPT ![at[w]] = "gone"]
      BY <1>3 DEF UnlinkFile
    <2> QED
      BY <2>1, <2>2, <2>3
  <1>4. ASSUME NEW w \in Walks, RemoveDirectory(w)
        PROVE  \E n \in Nodes :
                 /\ Kind[n] = "dir" /\ There(n) /\ Content(n) = {}
                 /\ name' = [name EXCEPT ![n] = "gone"]
    <2>1. Running(w)
      BY <1>4 DEF RemoveDirectory, Exhausted, Running, Done
    <2>2. Top(w) \in Nodes /\ Kind[Top(w)] = "dir"
      BY <2>1, StackFacts DEF Dirs, Top
    <2> QED
      BY <1>4, <2>2 DEF RemoveDirectory, Empty
  <1>5. ASSUME NEW w \in Walks, Moves(w), ~RenameFile(w), ~UnlinkFile(w), ~RemoveDirectory(w)
        PROVE  name' = name
    BY <1>5 DEF Moves, Step, DryRun, Begin, Refuse, Fault, EnterDirectory, PassOver, StartFile,
       RenameFails, UnlinkFails, RemoveFails, treeVars
  <1> QED
    BY <1>1, <1>2, <1>3, <1>4, <1>5, NextCases DEF vars, treeVars

(* What is gone stays gone, and only an outsider brings anything.          *)
LEMMA GoneStays ==
  ASSUME WellFormed, Dirs, [Next]_vars, NEW n \in Nodes
  PROVE  /\ name[n] = "gone" => name'[n] = "gone"
         /\ There(n)' /\ ~There(n) =>
              n \in Late /\ There(Parent[n]) /\ name' = [name EXCEPT ![n] = "own"]
         /\ There(n) /\ Kind[n] = "other" => There(n)'
  <1> USE TreeAssumption, NameFacts DEF WellFormed, TypeOK, There
  <1>1. CASE name' = name
    BY <1>1
  <1>2. ASSUME NEW m \in Late, name[m] = "absent", There(Parent[m]),
               name' = [name EXCEPT ![m] = "own"]
        PROVE  /\ name[n] = "gone" => name'[n] = "gone"
               /\ There(n)' /\ ~There(n) =>
                    n \in Late /\ There(Parent[n]) /\ name' = [name EXCEPT ![n] = "own"]
               /\ There(n) /\ Kind[n] = "other" => There(n)'
    BY <1>2
  <1>3. ASSUME NEW m \in Nodes, Kind[m] # "other", There(m), NEW a \in Walks \cup {"gone"},
               name' = [name EXCEPT ![m] = a]
        PROVE  /\ name[n] = "gone" => name'[n] = "gone"
               /\ ~There(n) => ~There(n)'
               /\ There(n) /\ Kind[n] = "other" => There(n)'
    BY <1>3
  <1>4. CASE \E m \in Files : There(m) /\ name' = [name EXCEPT ![m] = "gone"]
    <2>1. PICK m \in Files : There(m) /\ name' = [name EXCEPT ![m] = "gone"]
      BY <1>4
    <2>2. m \in Nodes /\ Kind[m] # "other"
      BY <2>1 DEF Files
    <2> QED
      BY <2>1, <2>2, <1>3
  <1>5. CASE \E w \in Walks : \E m \in Files : There(m) /\ name' = [name EXCEPT ![m] = w]
    <2>1. PICK w \in Walks, m \in Files : There(m) /\ name' = [name EXCEPT ![m] = w]
      BY <1>5
    <2>2. m \in Nodes /\ Kind[m] # "other"
      BY <2>1 DEF Files
    <2> QED
      BY <2>1, <2>2, <1>3
  <1>6. CASE \E m \in Nodes : /\ Kind[m] = "dir" /\ There(m) /\ Content(m) = {}
                             /\ name' = [name EXCEPT ![m] = "gone"]
    <2>1. PICK m \in Nodes : /\ Kind[m] = "dir" /\ There(m)
                             /\ name' = [name EXCEPT ![m] = "gone"]
      BY <1>6
    <2> QED
      BY <2>1, <1>3
  <1>7. CASE \E m \in Late :
               name[m] = "absent" /\ There(Parent[m]) /\ name' = [name EXCEPT ![m] = "own"]
    BY <1>2, <1>7
  <1> QED
    BY <1>1, <1>4, <1>5, <1>6, <1>7, NameSteps

LEMMA InitDirs == Init => Dirs
  BY DEF Init, Dirs

-----------------------------------------------------------------------------
(***************************************************************************)
(* Counting.                                                               *)
(***************************************************************************)
CountedGone == \A w \in Walks : \A n \in erased[w] : name[n] = "gone"

LEMMA ErasedSteps ==
  ASSUME WellFormed, [Next]_vars
  PROVE  \/ erased' = erased
         \/ \E w \in Walks :
              /\ at[w] \in Files /\ There(at[w])
              /\ name' = [name EXCEPT ![at[w]] = "gone"]
              /\ erased' = [erased EXCEPT ![w] = @ \cup {at[w]}]
  <1>1. ASSUME NEW w \in Walks, UnlinkFile(w)
        PROVE  /\ at[w] \in Files /\ There(at[w])
               /\ name' = [name EXCEPT ![at[w]] = "gone"]
               /\ erased' = [erased EXCEPT ![w] = @ \cup {at[w]}]
    BY <1>1 DEF WellFormed, UnlinkFile, Counted, Shape, There, Names
  <1>2. ASSUME NEW w \in Walks, Moves(w), ~UnlinkFile(w) PROVE erased' = erased
    BY <1>2 DEF Moves, Step, DryRun, Begin, Refuse, Fault, EnterDirectory, PassOver, StartFile,
       RenameFails, UnlinkFails, RemoveFails, RenameFile, RemoveDirectory
  <1> QED
    BY <1>1, <1>2, NextCases DEF vars, Meddles, Create, Remove, Meddle

CountInv == WellFormed /\ Dirs /\ CountedGone /\ EachFileCountedOnce

LEMMA StepCount == ASSUME CountInv, [Next]_vars PROVE CountInv'
  <1> USE DEF CountInv, WellFormed, TypeOK
  <1>1. WellFormed' /\ Dirs'
    BY StepWellFormed, StepDirs
  <1>2. \A n \in Nodes : name[n] = "gone" => name'[n] = "gone"
    BY GoneStays
  <1>3. \A w \in Walks : erased[w] \subseteq Nodes
    BY DEF Files
  <1>4. CASE erased' = erased
    BY <1>1, <1>2, <1>3, <1>4 DEF CountedGone, EachFileCountedOnce
  <1>5. ASSUME NEW w \in Walks, at[w] \in Files, There(at[w]),
               name' = [name EXCEPT ![at[w]] = "gone"],
               erased' = [erased EXCEPT ![w] = @ \cup {at[w]}]
        PROVE  CountInv'
    <2>1. at[w] \in Nodes /\ name[at[w]] # "gone" /\ name'[at[w]] = "gone"
      BY <1>5, NameFacts DEF Files, There
    <2>2. \A v \in Walks : at[w] \notin erased[v]
      BY <2>1 DEF CountedGone
    <2>3. \A v \in Walks : erased'[v] = IF v = w THEN erased[v] \cup {at[w]} ELSE erased[v]
      BY <1>5
    <2>4. CountedGone'
      <3> SUFFICES ASSUME NEW v \in Walks, NEW n \in erased'[v] PROVE name'[n] = "gone"
        BY DEF CountedGone
      <3>1. n \in erased[v] \/ n = at[w]
        BY <2>3
      <3> QED
        BY <1>2, <1>3, <2>1, <3>1 DEF CountedGone
    <2>5. EachFileCountedOnce'
      <3> SUFFICES ASSUME NEW u \in Walks, NEW v \in Walks, u # v
                   PROVE  erased'[u] \cap erased'[v] = {}
        BY DEF EachFileCountedOnce
      <3>1. erased[u] \cap erased[v] = {} /\ at[w] \notin erased[u] /\ at[w] \notin erased[v]
        BY <2>2 DEF EachFileCountedOnce
      <3>2. /\ erased'[u] = IF u = w THEN erased[u] \cup {at[w]} ELSE erased[u]
            /\ erased'[v] = IF v = w THEN erased[v] \cup {at[w]} ELSE erased[v]
        BY <2>3
      <3> QED
        BY <3>1, <3>2
    <2> QED
      BY <1>1, <2>4, <2>5
  <1> QED
    BY <1>4, <1>5, ErasedSteps

LEMMA CountAlways == Spec => []CountInv
  <1>1. Init => CountInv
    BY InitWellFormed, InitDirs DEF Init, CountInv, CountedGone, EachFileCountedOnce
  <1> QED
    BY <1>1, StepCount, PTL DEF Spec

(* However many walks come across a file, under whatever name the others   *)
(* have given it, one of them at most counts it as deleted.                *)
THEOREM CountedOnce == Spec => []EachFileCountedOnce
  <1>1. CountInv => EachFileCountedOnce
    BY DEF CountInv
  <1> QED
    BY <1>1, CountAlways, PTL

-----------------------------------------------------------------------------
(***************************************************************************)
(* The tree stays a tree.                                                  *)
(***************************************************************************)
LEMMA StepAttached ==
  ASSUME WellFormed, Dirs, NoEntryCutOff, [Next]_vars
  PROVE  NoEntryCutOff'
  <1> USE TreeAssumption, NameFacts DEF WellFormed, TypeOK
  <1> SUFFICES ASSUME NEW n \in Nodes \ {Root}, There(n)' PROVE There(Parent[n])'
    BY DEF NoEntryCutOff
  <1>1. Parent[n] \in Nodes /\ Kind[Parent[n]] = "dir"
    OBVIOUS
  <1>2. There(Parent[n])
    <2>1. CASE There(n)
      BY <2>1 DEF NoEntryCutOff
    <2>2. CASE ~There(n)
      BY <2>2, GoneStays
    <2> QED
      BY <2>1, <2>2
  <1>3. CASE name' = name
    BY <1>2, <1>3 DEF There
  <1>4. ASSUME NEW m \in Nodes, NEW a \in Names, name' = [name EXCEPT ![m] = a]
        PROVE  There(Parent[n])'
    BY <1>1, <1>2, <1>4 DEF There
  <1>5. ASSUME NEW m \in Files, name' = [name EXCEPT ![m] = "gone"]
        PROVE  There(Parent[n])'
    BY <1>1, <1>2, <1>5 DEF There, Files
  <1>6. ASSUME NEW m \in Nodes, There(m), Content(m) = {}, name' = [name EXCEPT ![m] = "gone"]
        PROVE  There(Parent[n])'
    <2>1. There(n)
      BY <1>6 DEF There
    <2>2. Parent[n] # m
      BY <1>6, <2>1 DEF Content
    <2> QED
      BY <1>1, <1>2, <1>6, <2>2 DEF There
  <1>7. CASE \E m \in Late :
               name[m] = "absent" /\ There(Parent[m]) /\ name' = [name EXCEPT ![m] = "own"]
    <2>1. PICK m \in Late : name' = [name EXCEPT ![m] = "own"]
      BY <1>7
    <2> QED
      BY <2>1, <1>4
  <1>8. CASE \E w \in Walks : \E m \in Files : There(m) /\ name' = [name EXCEPT ![m] = w]
    <2>1. PICK w \in Walks, m \in Files : name' = [name EXCEPT ![m] = w]
      BY <1>8
    <2>2. m \in Nodes /\ w \in Names
      BY DEF Files, Names
    <2> QED
      BY <2>1, <2>2, <1>4
  <1> QED
    BY <1>3, <1>5, <1>6, <1>7, <1>8, NameSteps

LEMMA InitAttached == Init => NoEntryCutOff
  <1> SUFFICES ASSUME Init, NEW n \in Nodes \ {Root}, There(n) PROVE There(Parent[n])
    BY DEF NoEntryCutOff
  <1>1. Parent[n] \in Nodes /\ name[n] # "absent"
    BY TreeAssumption, NameFacts DEF There
  <1>2. name[Parent[n]] = "own"
    BY <1>1 DEF Init
  <1> QED
    BY <1>2, NameFacts DEF There

LEMMA TreeAlways == Spec => [](WellFormed /\ Dirs /\ NoEntryCutOff)
  BY InitAttached, InitWellFormed, InitDirs, StepWellFormed, StepDirs, StepAttached, PTL DEF Spec

(* No walk removes a directory under an entry that another walk or another *)
(* program has just put there.                                             *)
THEOREM NothingCutOff == Spec => []NoEntryCutOff
  BY TreeAlways, PTL

-----------------------------------------------------------------------------
(***************************************************************************)
(* The preview.  While it is current, the files a call has erased and      *)
(* those that are left make up what the preview found; at the end none is  *)
(* left, for a directory is removed after everything in it.                *)
(***************************************************************************)
Accounted(w) ==
  /\ pc[w] = "idle" => erased[w] = {}
  /\ current[w] => erased[w] \cup {n \in Files : There(n)} = preview[w]
  /\ pc[w] = "ok" => ~There(Root)

PreviewInv == WellFormed /\ Dirs /\ NoEntryCutOff /\ \A w \in Walks : Accounted(w)

LEMMA NothingWithoutRoot ==
  ASSUME TypeOK, NoEntryCutOff, ~There(Root)
  PROVE  \A n \in Nodes : ~There(n)
  <1> DEFINE S == {n \in Nodes \ {Root} : There(n)}
  <1>1. S = {}
    <2> SUFFICES ASSUME S # {} PROVE FALSE
      OBVIOUS
    <2>1. PICK n \in S : Parent[n] \notin S
      BY TreeAssumption
    <2>2. Parent[n] \in Nodes /\ There(Parent[n])
      BY TreeAssumption DEF NoEntryCutOff
    <2> QED
      BY <2>1, <2>2
  <1> QED
    BY <1>1

LEMMA MovesCases ==
  ASSUME NEW w \in Walks, Moves(w), WellFormed
  PROVE  \/ DryRun(w) \/ RenameFile(w) \/ UnlinkFile(w) \/ RemoveDirectory(w)
         \/ UNCHANGED <<name, erased, preview, current>> /\ pc'[w] \notin {"idle", "ok"}
  <1> USE DEF WellFormed, TypeOK
  <1>1. ASSUME Return(w, "error") PROVE pc'[w] \notin {"idle", "ok"}
    BY <1>1 DEF Return, Goto
  <1>2. CASE Begin(w)
    BY <1>2 DEF Begin, Goto, treeVars, historyVars
  <1>3. CASE Refuse(w) \/ RenameFails(w) \/ UnlinkFails(w) \/ RemoveFails(w) \/ Fault(w)
    BY <1>1, <1>3 DEF Refuse, RenameFails, UnlinkFails, RemoveFails, Fault, treeVars, historyVars
  <1>4. ASSUME NEW e \in Upcoming(w), EnterDirectory(w, e) \/ PassOver(w, e) \/ StartFile(w, e)
        PROVE  UNCHANGED <<name, erased, preview, current>> /\ pc'[w] \notin {"idle", "ok"}
    <2>1. pc[w] = "walk"
      BY <1>4 DEF Upcoming
    <2> QED
      BY <1>4, <2>1 DEF EnterDirectory, PassOver, StartFile, Goto, treeVars, historyVars
  <1> QED
    BY <1>2, <1>3, <1>4 DEF Moves, Step

LEMMA StepPreview == ASSUME PreviewInv, [Next]_vars PROVE PreviewInv'
  <1> USE TreeAssumption, NameFacts DEF PreviewInv, WellFormed, TypeOK
  <1>1. WellFormed' /\ Dirs' /\ NoEntryCutOff'
    BY StepWellFormed, StepDirs, StepAttached
  <1>2. ~There(Root) => ~There(Root)'
    BY GoneStays
  <1> SUFFICES ASSUME NEW v \in Walks PROVE Accounted(v)'
    BY <1>1
  <1>3. ASSUME erased'[v] = erased[v], pc'[v] = pc[v],
               ~current'[v] \/ (UNCHANGED name /\ preview'[v] = preview[v] /\ current[v])
        PROVE  Accounted(v)'
    BY <1>2, <1>3 DEF Accounted, There
  <1>4. CASE UNCHANGED vars
    BY <1>3, <1>4 DEF vars, treeVars, walkVars, historyVars
  <1>5. CASE Meddles
    <2>1. /\ UNCHANGED <<pc, erased, preview>> /\ Disturb(Walks)
      BY <1>5 DEF Meddles, Create, Remove, Meddle, walkVars
    <2>2. ~current'[v]
      BY <2>1, Zenon DEF Disturb
    <2> QED
      BY <1>3, <2>1, <2>2
  <1>6. ASSUME NEW w \in Walks, Moves(w) PROVE Accounted(v)'
    <2>1. v # w => pc'[v] = pc[v] /\ erased'[v] = erased[v] /\ preview'[v] = preview[v]
      BY <1>6, OtherWalks
    <2>2. CASE DryRun(w)
      <3>1. /\ pc[w] = "idle" /\ preview' = [preview EXCEPT ![w] = {n \in Files : There(n)}]
            /\ current' = [current EXCEPT ![w] = TRUE] /\ UNCHANGED <<name, pc, erased>>
        BY <2>2 DEF DryRun, treeVars, walkVars
      <3>2. CASE v = w
        <4>1. /\ preview'[v] = {n \in Files : There(n)} /\ erased'[v] = {} /\ pc'[v] = "idle"
          BY <3>1, <3>2 DEF Accounted
        <4>2. {n \in Files : There(n)'} = {n \in Files : There(n)}
          BY <3>1 DEF There
        <4> QED
          BY <4>1, <4>2 DEF Accounted
      <3>3. CASE v # w
        BY <1>3, <2>1, <3>1, <3>3
      <3> QED
        BY <3>2, <3>3
    <2>3. CASE RenameFile(w) \/ UnlinkFile(w) \/ RemoveDirectory(w)
      <3>1. Disturb(Walks \ {w})
        BY <2>3 DEF RenameFile, UnlinkFile, Counted, RemoveDirectory
      <3>2. current'[v] <=> current[v] /\ v = w
        BY <3>1, Zenon DEF Disturb
      <3>3. CASE v # w
        BY <1>3, <2>1, <3>2, <3>3
      <3>4. CASE v = w /\ RenameFile(w)
        <4>1. /\ at[w] \in Files /\ name[at[w]] = seen[w] /\ name' = [name EXCEPT ![at[w]] = w]
              /\ pc'[w] = "unlink" /\ UNCHANGED <<erased, preview>>
          BY <3>4 DEF RenameFile, Goto, Shape
        <4>2. \A n \in Nodes : There(n)' <=> There(n)
          BY <4>1 DEF There, Names, Files
        <4> QED
          BY <3>2, <3>4, <4>1, <4>2 DEF Accounted, Files
      <3>5. CASE v = w /\ UnlinkFile(w)
        <4>1. /\ at[w] \in Files /\ name[at[w]] = w /\ name' = [name EXCEPT ![at[w]] = "gone"]
              /\ pc'[w] = "walk" /\ UNCHANGED preview
              /\ erased'[w] = erased[w] \cup {at[w]}
          BY <3>5 DEF UnlinkFile, Counted, Goto, Shape
        <4>2. \A n \in Nodes : There(n)' <=> There(n) /\ n # at[w]
          BY <4>1 DEF There, Names, Files
        <4>3. There(at[w])
          BY <4>1 DEF There, Names
        <4>4. {n \in Files : There(n)'} = {n \in Files : There(n)} \ {at[w]}
          BY <4>2 DEF Files
        <4>5. erased'[w] \cup {n \in Files : There(n)'} = erased[w] \cup {n \in Files : There(n)}
          BY <4>1, <4>3, <4>4
        <4> QED
          BY <3>2, <3>5, <4>1, <4>5 DEF Accounted
      <3>6. CASE v = w /\ RemoveDirectory(w)
        <4>1. /\ pc[w] = "walk" /\ name' = [name EXCEPT ![Top(w)] = "gone"]
              /\ UNCHANGED <<erased, preview>>
          BY <3>6 DEF RemoveDirectory, Exhausted
        <4>2. Top(w) \in Nodes /\ Kind[Top(w)] = "dir"
          <5>1. Running(w)
            BY <4>1 DEF Running, Done
          <5> QED
            BY <5>1, StackFacts DEF Dirs, Top
        <4>3. {n \in Files : There(n)'} = {n \in Files : There(n)}
          BY <4>1, <4>2 DEF There, Files
        <4>4. pc'[w] = "walk" \/ (pc'[w] = "ok" /\ ~There(Root)')
          BY <3>6, <4>1 DEF RemoveDirectory, Return, Goto, There
        <4> QED
          BY <3>2, <3>6, <4>1, <4>3, <4>4 DEF Accounted
      <3> QED
        BY <2>3, <3>3, <3>4, <3>5, <3>6
    <2>4. CASE UNCHANGED <<name, erased, preview, current>> /\ pc'[w] \notin {"idle", "ok"}
      <3>1. CASE v # w
        BY <1>3, <2>1, <2>4, <3>1
      <3>2. CASE v = w
        BY <2>4, <3>2 DEF Accounted, There
      <3> QED
        BY <3>1, <3>2
    <2> QED
      BY <1>6, <2>2, <2>3, <2>4, MovesCases
  <1> QED
    BY <1>4, <1>5, <1>6, NextCases

LEMMA PreviewAlways == Spec => []PreviewInv
  <1>1. Init => PreviewInv
    BY InitAttached, InitWellFormed, InitDirs DEF Init, Accounted, PreviewInv
  <1> QED
    BY <1>1, StepPreview, PTL DEF Spec

(* What a preview listed is what a call that nobody disturbs erases.       *)
THEOREM PreviewIsErased == Spec => []PreviewIsWhatIsErased
  <1>1. PreviewInv => PreviewIsWhatIsErased
    <2> SUFFICES ASSUME PreviewInv, NEW w \in Walks, pc[w] = "ok", current[w]
                 PROVE  erased[w] = preview[w]
      BY DEF PreviewIsWhatIsErased
    <2>1. ~There(Root)
      BY DEF PreviewInv, Accounted
    <2>2. {n \in Files : There(n)} = {}
      BY <2>1, NothingWithoutRoot DEF PreviewInv, WellFormed, Files
    <2> QED
      BY <2>2 DEF PreviewInv, Accounted
  <1> QED
    BY <1>1, PreviewAlways, PTL

-----------------------------------------------------------------------------
(***************************************************************************)
(* A call that nobody disturbs, when no call backfills.                    *)
(***************************************************************************)
Depths(w) == 1..Len(stack[w])

(* The directories on the stack are there, each the child of the one       *)
(* before, none twice.                                                     *)
Chained(w) ==
  /\ \A k \in Depths(w) : There(stack[w][k])
  /\ \A k \in Depths(w) : k + 1 \in Depths(w) =>
       stack[w][k + 1] # Root /\ Parent[stack[w][k + 1]] = stack[w][k]
  /\ \A j, k \in Depths(w) : stack[w][j] = stack[w][k] => j = k

(* The file in hand, if there is one.                                      *)
Hand(w) == IF pc[w] = "walk" THEN NoFile ELSE at[w]

(* What is listed is where it was listed, and still to be dealt with.      *)
Fresh(w) ==
  \A k \in Depths(w) : \A e \in left[w][stack[w][k]] :
    /\ e[1] # Root /\ Parent[e[1]] = stack[w][k] /\ name[e[1]] = e[2]
    /\ \A j \in Depths(w) : e[1] # stack[w][j]
    /\ e[1] # Hand(w)

(* What an open directory holds is being dealt with, listed, or no file.   *)
Accessible(w) ==
  \A k \in Depths(w) : \A n \in Content(stack[w][k]) :
    \/ k + 1 \in Depths(w) /\ n = stack[w][k + 1]
    \/ n = Hand(w)
    \/ <<n, name[n]>> \in left[w][stack[w][k]]
    \/ Kind[n] = "other"

Held(w) ==
  /\ pc[w] = "rename" => name[at[w]] = seen[w]
  /\ pc[w] = "unlink" => name[at[w]] = w

Calm(w) == Chained(w) /\ Fresh(w) /\ Accessible(w) /\ Held(w)

(* Why an undisturbed call may fail.                                       *)
Blocked == ~There(Root) \/ \E n \in Nodes : Kind[n] = "other" /\ There(n)

CalmInv ==
  /\ WellFormed /\ Dirs /\ filler = {}
  /\ \A w \in Walks : Running(w) /\ ~disturbed[w] => Calm(w)
  /\ \A w \in Walks : pc[w] = "error" /\ ~disturbed[w] => Blocked

LEMMA CalmStays ==
  ASSUME NEW w \in Walks, Calm(w), UNCHANGED name, UNCHANGED <<pc[w], stack[w], left[w], at[w], seen[w]>>
  PROVE  Calm(w)'
  BY DEF Calm, Chained, Fresh, Accessible, Held, Hand, Depths, Content, There

LEMMA BlockedStays ==
  ASSUME WellFormed, Dirs, Blocked, [Next]_vars
  PROVE  Blocked'
  <1>1. ~There(Root) => ~There(Root)'
    BY GoneStays, TreeAssumption
  <1>2. \A n \in Nodes : There(n) /\ Kind[n] = "other" => There(n)'
    BY GoneStays
  <1> QED
    BY <1>1, <1>2 DEF Blocked

LEMMA BeginCalm ==
  ASSUME WellFormed, NEW w \in Walks, Begin(w)
  PROVE  Calm(w)'
  <1> USE TreeAssumption DEF WellFormed, TypeOK
  <1>1. /\ stack' = [stack EXCEPT ![w] = Append(@, Root)]
        /\ left' = [left EXCEPT ![w][Root] = Listing(Root)]
        /\ pc' = [pc EXCEPT ![w] = "walk"] /\ pc[w] = "idle" /\ There(Root)
        /\ UNCHANGED <<name, at, seen>>
    BY DEF Begin, Push, Goto, treeVars
  <1>2. stack[w] = <<>>
    BY <1>1 DEF Shape, Running
  <1>3. Len(stack'[w]) = 1 /\ stack'[w][1] = Root
    BY <1>1, <1>2, Pushing
  <1>4. Depths(w)' = {1} /\ \A k \in Depths(w)' : stack'[w][k] = Root /\ k + 1 \notin Depths(w)'
    BY <1>3 DEF Depths
  <1>5. left'[w][Root] = Listing(Root)
    BY <1>1
  <1>6. Chained(w)'
    BY <1>1, <1>4 DEF Chained, There
  <1>7. \A n \in Content(Root) : n \in Nodes /\ n # Root /\ Parent[n] = Root
    BY DEF Content
  <1>8. \A e \in Listing(Root) : e[1] \in Content(Root) /\ name[e[1]] = e[2]
    BY DEF Listing
  <1>9. Hand(w)' = NoFile
    BY <1>1 DEF Hand
  <1>10. Fresh(w)'
    BY <1>1, <1>4, <1>5, <1>7, <1>8, <1>9 DEF Fresh
  <1>11. Accessible(w)'
    BY <1>1, <1>4, <1>5 DEF Accessible, Content, There, Listing
  <1>12. Held(w)'
    BY <1>1 DEF Held
  <1> QED
    BY <1>6, <1>10, <1>11, <1>12 DEF Calm

LEMMA EnterCalm ==
  ASSUME WellFormed, NEW w \in Walks, Running(w), Calm(w),
         NEW e \in Upcoming(w), EnterDirectory(w, e)
  PROVE  Calm(w)'
  <1>0. TypeOK /\ Shape(w)
    BY DEF WellFormed
  <1> DEFINE top == Len(stack[w])
             d == e[1]
  <1>1. /\ pc[w] = "walk" /\ e \in left[w][Top(w)] /\ Top(w) = stack[w][top]
        /\ top \in Nat \ {0} /\ top \in Depths(w) /\ Top(w) \in Nodes
        /\ \A k \in Depths(w) : stack[w][k] \in Nodes
    BY <1>0, StackFacts DEF Upcoming, Top, Depths
  <1>2. /\ d \in Nodes \ {Root} /\ Parent[d] = Top(w) /\ name[d] = e[2] /\ e[2] \in Names
        /\ e = <<d, name[d]>> /\ There(d)
        /\ \A k \in Depths(w) : d # stack[w][k]
    <2>1. e \in Nodes \X Names
      BY <1>0, <1>1 DEF TypeOK, Entries
    <2> QED
      BY <1>1, <2>1 DEF Calm, Fresh, There
  <1>3. /\ stack' = [stack EXCEPT ![w] = Append(@, d)] /\ UNCHANGED <<name, pc, at, seen>>
        /\ left' = [left EXCEPT ![w][Top(w)] = @ \ {e}, ![w][d] = Listing(d)]
    BY <1>2 DEF EnterDirectory, treeVars
  <1> HIDE DEF top, d
  <1>4. /\ Len(stack'[w]) = top + 1 /\ stack'[w][top + 1] = d
        /\ \A k \in Depths(w) : stack'[w][k] = stack[w][k]
    BY <1>0, <1>2, <1>3, Pushing DEF Depths, top
  <1>5. Depths(w)' = Depths(w) \cup {top + 1} /\ top + 1 \notin Depths(w)
    BY <1>1, <1>4 DEF Depths, top
  <1>6. Listing(d) \in SUBSET Entries
    BY <1>2, ListingType
  <1>7. /\ left'[w][d] = Listing(d)
        /\ \A k \in Nodes \ {d} :
             left'[w][k] = IF k = Top(w) THEN left[w][k] \ {e} ELSE left[w][k]
    <2> DEFINE t == Top(w)
               X == Listing(d)
    <2>1. t \in Nodes /\ d \in Nodes /\ X \in SUBSET Entries /\ TypeOK
      BY <1>0, <1>1, <1>2, <1>6
    <2>2. ListsOnEntering(w, t, d, e, X)
      BY <1>3 DEF ListsOnEntering
    <2> HIDE DEF t, X
    <2>3. ListsEntered(w, t, d, e, X)
      BY <2>1, <2>2, EnteredLists, Zenon
    <2> QED
      BY <2>3 DEF ListsEntered, t, X
  <1>8. \A k \in Depths(w) : stack[w][k] = Top(w) <=> k = top
    BY <1>1 DEF Calm, Chained
  <1>9. \A k \in Depths(w) :
          left'[w][stack[w][k]] = IF k = top THEN left[w][stack[w][k]] \ {e}
                                             ELSE left[w][stack[w][k]]
    BY <1>1, <1>2, <1>7, <1>8
  <1>10. Chained(w)'
    <2>1. \A k \in Depths(w)' : There(stack[w][k])'
      BY <1>2, <1>3, <1>4, <1>5 DEF Calm, Chained, There
    <2>2. ASSUME NEW k \in Depths(w)', k + 1 \in Depths(w)'
          PROVE  stack'[w][k + 1] # Root /\ Parent[stack'[w][k + 1]] = stack'[w][k]
      <3>1. CASE k + 1 \in Depths(w)
        <4>1. k \in Depths(w)
          BY <1>1, <1>5, <2>2, <3>1 DEF Depths
        <4> QED
          BY <1>4, <3>1, <4>1 DEF Calm, Chained
      <3>2. CASE k + 1 \notin Depths(w)
        <4>1. k = top
          <5>1. k + 1 = top + 1 /\ k \in Nat
            BY <1>5, <2>2, <3>2 DEF Depths
          <5> QED
            BY <1>1, <5>1
        <4> QED
          BY <1>1, <1>2, <1>4, <4>1
      <3> QED
        BY <3>1, <3>2
    <2>3. \A j, k \in Depths(w)' : stack'[w][j] = stack'[w][k] => j = k
      <3> SUFFICES ASSUME NEW j \in Depths(w)', NEW k \in Depths(w)',
                          stack'[w][j] = stack'[w][k]
                   PROVE  j = k
        OBVIOUS
      <3>1. CASE j \in Depths(w) /\ k \in Depths(w)
        BY <1>4, <3>1 DEF Calm, Chained
      <3>2. CASE j = top + 1 \/ k = top + 1
        BY <1>2, <1>4, <1>5, <3>2
      <3> QED
        BY <1>5, <3>1, <3>2
    <2> QED
      BY <2>1, <2>2, <2>3, Zenon DEF Chained
  <1>11. Hand(w)' = Hand(w) /\ Hand(w) = NoFile
    BY <1>1, <1>3 DEF Hand
  <1>12. ASSUME NEW k \in Depths(w), NEW f \in left'[w][stack[w][k]]
         PROVE  f \in left[w][stack[w][k]] /\ f[1] # d
    <2>1. f \in left[w][stack[w][k]]
      BY <1>9, <1>12
    <2>2. f \in Nodes \X Names
      <3>1. left[w] \in [Nodes -> SUBSET Entries] /\ stack[w][k] \in Nodes
        BY <1>0, <1>1 DEF TypeOK
      <3> QED
        BY <2>1, <3>1 DEF Entries
    <2>3. Parent[f[1]] = stack[w][k] /\ name[f[1]] = f[2]
      BY <2>1 DEF Calm, Fresh
    <2>4. f[1] = d => f = e /\ k = top
      BY <1>2, <1>8, <2>2, <2>3
    <2>5. k = top => f # e
      BY <1>9, <1>12
    <2> QED
      BY <2>1, <2>4, <2>5
  <1>13. Fresh(w)'
    <2>1. ASSUME NEW k \in Depths(w), NEW f \in left'[w][stack[w][k]]
          PROVE  /\ f[1] # Root /\ Parent[f[1]] = stack[w][k] /\ name[f[1]] = f[2]
                 /\ \A j \in Depths(w)' : f[1] # stack'[w][j]
                 /\ f[1] # Hand(w)
      BY <1>4, <1>5, <1>12, <2>1 DEF Calm, Fresh
    <2>2. ASSUME NEW f \in Listing(d)
          PROVE  /\ f[1] # Root /\ Parent[f[1]] = d /\ name[f[1]] = f[2]
                 /\ \A j \in Depths(w)' : f[1] # stack'[w][j]
                 /\ f[1] # Hand(w)
      <3>1. f[1] \in Nodes \ {Root} /\ Parent[f[1]] = d /\ name[f[1]] = f[2]
        BY <2>2 DEF Listing, Content
      <3>2. f[1] # d
        BY <1>1, <1>2, <3>1
      <3>3. ASSUME NEW j \in Depths(w), f[1] = stack[w][j] PROVE FALSE
        <4>1. stack[w][1] = Root
          BY <1>0 DEF Shape
        <4>2. j # 1 /\ j - 1 \in Depths(w) /\ (j - 1) + 1 = j
          BY <1>1, <3>1, <3>3, <4>1 DEF Depths
        <4>3. Parent[stack[w][j]] = stack[w][j - 1]
          BY <4>2 DEF Calm, Chained
        <4> QED
          BY <1>2, <3>1, <3>3, <4>2, <4>3
      <3> QED
        BY <1>4, <1>5, <1>11, <3>1, <3>2, <3>3, TreeAssumption
    <2> SUFFICES ASSUME NEW k \in Depths(w)', NEW f \in left'[w][stack'[w][k]]
                 PROVE  /\ f[1] # Root /\ Parent[f[1]] = stack'[w][k] /\ name'[f[1]] = f[2]
                        /\ \A j \in Depths(w)' : f[1] # stack'[w][j]
                        /\ f[1] # Hand(w)'
      BY Zenon DEF Fresh
    <2>3. CASE k \in Depths(w)
      <3>1. stack'[w][k] = stack[w][k] /\ name' = name
        BY <1>3, <1>4, <2>3
      <3>2. f \in left'[w][stack[w][k]]
        BY <3>1
      <3> QED
        BY <1>11, <2>1, <2>3, <3>1, <3>2
    <2>4. CASE k = top + 1
      <3>1. stack'[w][k] = d /\ name' = name
        BY <1>3, <1>4, <2>4
      <3>2. f \in Listing(d)
        BY <1>7, <3>1
      <3> QED
        BY <1>11, <2>2, <3>1, <3>2
    <2> QED
      BY <1>5, <2>3, <2>4
  <1>14. Accessible(w)'
    <2> SUFFICES ASSUME NEW k \in Depths(w)', NEW n \in Content(stack[w][k])'
                 PROVE  \/ k + 1 \in Depths(w)' /\ n = stack'[w][k + 1]
                        \/ n = Hand(w)'
                        \/ <<n, name'[n]>> \in left'[w][stack'[w][k]]
                        \/ Kind[n] = "other"
      BY Zenon DEF Accessible
    <2>1. Content(stack[w][k])' = Content(stack'[w][k])
      BY <1>3 DEF Content, There
    <2>2. CASE k = top + 1
      <3>1. stack'[w][k] = d /\ name' = name
        BY <1>3, <1>4, <2>2
      <3>2. <<n, name[n]>> \in Listing(d)
        BY <2>1, <3>1 DEF Listing
      <3> QED
        BY <1>7, <3>1, <3>2
    <2>3. CASE k \in Depths(w)
      <3>1. \/ k + 1 \in Depths(w) /\ n = stack[w][k + 1]
            \/ n = Hand(w)
            \/ <<n, name[n]>> \in left[w][stack[w][k]]
            \/ Kind[n] = "other"
        BY <1>4, <2>1, <2>3 DEF Calm, Accessible
      <3>2. CASE <<n, name[n]>> \in left[w][stack[w][k]]
        <4>1. CASE k = top /\ <<n, name[n]>> = e
          BY <1>2, <1>4, <1>5, <4>1
        <4>2. CASE ~(k = top /\ <<n, name[n]>> = e)
          <5>1. <<n, name[n]>> \in left'[w][stack[w][k]]
            BY <1>9, <2>3, <3>2, <4>2
          <5> QED
            BY <1>3, <1>4, <2>3, <5>1
        <4> QED
          BY <4>1, <4>2
      <3> QED
        BY <1>4, <1>5, <1>11, <3>1, <3>2
    <2> QED
      BY <1>5, <2>2, <2>3
  <1>15. Held(w)'
    BY <1>3 DEF Calm, Held
  <1> QED
    BY <1>10, <1>13, <1>14, <1>15 DEF Calm

(* An entry is taken off the list of the innermost directory.              *)
LEMMA TakenOff ==
  ASSUME WellFormed, NEW w \in Walks, Running(w), Calm(w), NEW e \in Upcoming(w),
         stack' = stack, left' = [left EXCEPT ![w][Top(w)] = @ \ {e}]
  PROVE  /\ e \in Nodes \X Names /\ e[1] # Root /\ Parent[e[1]] = Top(w) /\ name[e[1]] = e[2]
         /\ e[1] \in Nodes /\ e = <<e[1], name[e[1]]>> /\ pc[w] = "walk"
         /\ \A k \in Depths(w) : left'[w][stack[w][k]] \subseteq left[w][stack[w][k]] \ {e}
         /\ \A k \in Depths(w) : \A f \in left[w][stack[w][k]] :
              f = e \/ f \in left'[w][stack[w][k]]
         /\ \A k \in Depths(w) : stack[w][k] \in Nodes
         /\ \A k \in Depths(w) : left[w][stack[w][k]] \subseteq Nodes \X Names
  <1>0. TypeOK /\ Shape(w)
    BY DEF WellFormed
  <1>1. /\ pc[w] = "walk" /\ e \in left[w][Top(w)] /\ Top(w) \in Nodes
        /\ \A k \in Depths(w) : stack[w][k] \in Nodes
        /\ \E k \in Depths(w) : stack[w][k] = Top(w)
    BY <1>0, StackFacts DEF Upcoming, Top, Depths
  <1>2. left[w] \in [Nodes -> SUBSET (Nodes \X Names)]
    BY <1>0 DEF TypeOK, Entries
  <1>3. e \in Nodes \X Names
    BY <1>1, <1>2
  <1>4. e[1] # Root /\ Parent[e[1]] = Top(w) /\ name[e[1]] = e[2]
    BY <1>1 DEF Calm, Fresh
  <1>5. \A d \in Nodes : left'[w][d] = IF d = Top(w) THEN left[w][d] \ {e} ELSE left[w][d]
    BY <1>0, <1>1 DEF TypeOK
  <1>6. ASSUME NEW k \in Depths(w), NEW f \in left'[w][stack[w][k]]
        PROVE  f \in left[w][stack[w][k]] /\ f # e
    <2>1. f \in left[w][stack[w][k]] /\ (stack[w][k] = Top(w) => f # e)
      <3>1. stack[w][k] \in Nodes
        BY <1>1
      <3>2. left'[w][stack[w][k]] = IF stack[w][k] = Top(w) THEN left[w][stack[w][k]] \ {e}
                                                           ELSE left[w][stack[w][k]]
        BY <1>5, <3>1
      <3> QED
        BY <3>2
    <2>2. f \in Nodes \X Names
      BY <1>1, <1>2, <2>1
    <2>3. Parent[f[1]] = stack[w][k] /\ name[f[1]] = f[2]
      BY <2>1 DEF Calm, Fresh
    <2> QED
      BY <1>3, <1>4, <2>1, <2>2, <2>3
  <1>7. \A k \in Depths(w) : \A f \in left[w][stack[w][k]] :
          f = e \/ f \in left'[w][stack[w][k]]
    BY <1>1, <1>5
  <1>8. \A k \in Depths(w) : left[w][stack[w][k]] \subseteq Nodes \X Names
    BY <1>1, <1>2
  <1> QED
    BY <1>1, <1>3, <1>4, <1>6, <1>7, <1>8

LEMMA PassOverCalm ==
  ASSUME WellFormed, NEW w \in Walks, Running(w), Calm(w),
         NEW e \in Upcoming(w), PassOver(w, e)
  PROVE  Calm(w)'
  <1>1. /\ Kind[e[1]] = "other" /\ left' = [left EXCEPT ![w][Top(w)] = @ \ {e}]
        /\ stack' = stack /\ name' = name /\ pc' = pc /\ at' = at /\ seen' = seen
    BY DEF PassOver, treeVars
  <1>2. Depths(w)' = Depths(w) /\ Hand(w)' = Hand(w)
    BY <1>1 DEF Depths, Hand
  <1>3. Chained(w)' /\ Held(w)'
    BY <1>1, <1>2 DEF Calm, Chained, Held, There
  <1>4. Fresh(w)'
    BY <1>1, <1>2, TakenOff DEF Calm, Fresh
  <1>5. Accessible(w)'
    <2> SUFFICES ASSUME NEW k \in Depths(w), NEW n \in Content(stack[w][k])
                 PROVE  \/ k + 1 \in Depths(w) /\ n = stack[w][k + 1]
                        \/ n = Hand(w)
                        \/ <<n, name[n]>> \in left'[w][stack[w][k]]
                        \/ Kind[n] = "other"
      BY <1>1, <1>2 DEF Accessible, Content, There
    <2>1. <<n, name[n]>> = e => n = e[1]
      OBVIOUS
    <2> QED
      BY <1>1, <2>1, TakenOff DEF Calm, Accessible
  <1> QED
    BY <1>3, <1>4, <1>5 DEF Calm

LEMMA StartFileCalm ==
  ASSUME WellFormed, NEW w \in Walks, Running(w), Calm(w),
         NEW e \in Upcoming(w), StartFile(w, e)
  PROVE  Calm(w)'
  <1>1. /\ left' = [left EXCEPT ![w][Top(w)] = @ \ {e}]
        /\ stack' = stack /\ name' = name
        /\ pc'[w] = "rename" /\ at'[w] = e[1] /\ seen'[w] = e[2]
    BY DEF StartFile, treeVars, Goto, WellFormed, TypeOK
  <1>2. Depths(w)' = Depths(w) /\ Hand(w)' = e[1]
    BY <1>1 DEF Depths, Hand
  <1>3. pc[w] = "walk" /\ Hand(w) = NoFile
    BY DEF Upcoming, Hand
  <1>4. Chained(w)'
    BY <1>1, <1>2 DEF Calm, Chained, There
  <1>5. Held(w)'
    BY <1>1, TakenOff DEF Held
  <1>6. Fresh(w)'
    <2> SUFFICES ASSUME NEW k \in Depths(w), NEW f \in left'[w][stack[w][k]]
                 PROVE  /\ f[1] # Root /\ Parent[f[1]] = stack[w][k] /\ name[f[1]] = f[2]
                        /\ \A j \in Depths(w) : f[1] # stack[w][j]
                        /\ f[1] # e[1]
      BY <1>1, <1>2 DEF Fresh
    <2>1. f \in left[w][stack[w][k]] /\ f # e /\ e = <<e[1], name[e[1]]>>
      <3>1. left'[w][stack[w][k]] \subseteq left[w][stack[w][k]] \ {e}
        BY <1>1, TakenOff
      <3>2. e = <<e[1], name[e[1]]>>
        BY <1>1, TakenOff
      <3> QED
        BY <3>1, <3>2
    <2>2. f \in Nodes \X Names
      <3>1. left[w][stack[w][k]] \subseteq Nodes \X Names
        BY <1>1, TakenOff
      <3> QED
        BY <2>1, <3>1
    <2>3. name[f[1]] = f[2]
      BY <2>1 DEF Calm, Fresh
    <2>4. f[1] # e[1]
      BY <2>1, <2>2, <2>3
    <2> QED
      BY <2>1, <2>4 DEF Calm, Fresh
  <1>7. Accessible(w)'
    <2> SUFFICES ASSUME NEW k \in Depths(w), NEW n \in Content(stack[w][k])
                 PROVE  \/ k + 1 \in Depths(w) /\ n = stack[w][k + 1]
                        \/ n = e[1]
                        \/ <<n, name[n]>> \in left'[w][stack[w][k]]
                        \/ Kind[n] = "other"
      BY <1>1, <1>2 DEF Accessible, Content, There
    <2>1. <<n, name[n]>> = e => n = e[1]
      OBVIOUS
    <2>2. n # NoFile
      BY TreeAssumption DEF Content
    <2> QED
      BY <1>1, <1>3, <2>1, <2>2, TakenOff DEF Calm, Accessible
  <1> QED
    BY <1>4, <1>5, <1>6, <1>7 DEF Calm

LEMMA RenameCalm ==
  ASSUME WellFormed, NEW w \in Walks, Running(w), Calm(w), RenameFile(w)
  PROVE  Calm(w)'
  <1> USE TreeAssumption DEF WellFormed, TypeOK
  <1>1. /\ pc[w] = "rename" /\ name[at[w]] = seen[w] /\ name' = [name EXCEPT ![at[w]] = w]
        /\ pc'[w] = "unlink" /\ stack' = stack /\ left' = left /\ at' = at
    BY DEF RenameFile, Goto
  <1>2. at[w] \in Nodes
    BY <1>1 DEF Shape, Files
  <1>3. /\ name'[at[w]] = w /\ \A n \in Nodes \ {at[w]} : name'[n] = name[n]
        /\ \A n \in Nodes : There(n)' <=> There(n)
    BY <1>1, <1>2 DEF There, Names
  <1>4. Depths(w)' = Depths(w) /\ Hand(w)' = at[w] /\ Hand(w) = at[w]
    BY <1>1 DEF Depths, Hand
  <1>5. /\ \A k \in Depths(w) : stack[w][k] \in Nodes
        /\ \A k \in Depths(w) : left[w][stack[w][k]] \subseteq Nodes \X Names
    BY StackFacts DEF Depths, Entries
  <1> HIDE DEF WellFormed, TypeOK
  <1>6. Chained(w)'
    BY <1>1, <1>3, <1>4, <1>5 DEF Calm, Chained
  <1>7. Fresh(w)'
    <2> SUFFICES ASSUME NEW k \in Depths(w), NEW e \in left[w][stack[w][k]]
                 PROVE  /\ e[1] # Root /\ Parent[e[1]] = stack[w][k] /\ name'[e[1]] = e[2]
                        /\ \A j \in Depths(w) : e[1] # stack[w][j]
                        /\ e[1] # at[w]
      BY <1>1, <1>4 DEF Fresh
    <2>1. e \in Nodes \X Names
      BY <1>5
    <2> QED
      BY <1>3, <1>4, <2>1 DEF Calm, Fresh
  <1>8. Accessible(w)'
    <2> SUFFICES ASSUME NEW k \in Depths(w), NEW n \in Content(stack[w][k])
                 PROVE  \/ k + 1 \in Depths(w) /\ n = stack[w][k + 1]
                        \/ n = at[w]
                        \/ <<n, name'[n]>> \in left[w][stack[w][k]]
                        \/ Kind[n] = "other"
      BY <1>1, <1>3, <1>4 DEF Accessible, Content
    <2>1. n \in Nodes
      BY DEF Content
    <2> QED
      BY <1>3, <1>4, <2>1 DEF Calm, Accessible
  <1>9. Held(w)'
    BY <1>1, <1>3 DEF Held
  <1> QED
    BY <1>6, <1>7, <1>8, <1>9 DEF Calm

LEMMA UnlinkCalm ==
  ASSUME WellFormed, Dirs, NEW w \in Walks, Running(w), Calm(w), UnlinkFile(w)
  PROVE  Calm(w)'
  <1> USE TreeAssumption DEF WellFormed, TypeOK
  <1>1. /\ pc[w] = "unlink" /\ name' = [name EXCEPT ![at[w]] = "gone"]
        /\ pc'[w] = "walk" /\ stack' = stack /\ left' = left
    BY DEF UnlinkFile, Counted, Goto
  <1>2. at[w] \in Files /\ at[w] \in Nodes
    BY <1>1 DEF Shape, Files
  <1>3. /\ \A n \in Nodes \ {at[w]} : name'[n] = name[n]
        /\ \A n \in Nodes : There(n)' <=> There(n) /\ n # at[w]
    BY <1>1, <1>2, NameFacts DEF There
  <1>4. Depths(w)' = Depths(w) /\ Hand(w)' = NoFile /\ Hand(w) = at[w]
    BY <1>1 DEF Depths, Hand
  <1>5. /\ \A k \in Depths(w) : stack[w][k] \in Nodes
        /\ \A k \in Depths(w) : left[w][stack[w][k]] \subseteq Nodes \X Names
    BY StackFacts DEF Depths, Entries
  <1>6. \A k \in Depths(w) : stack[w][k] # at[w]
    BY <1>2 DEF Dirs, Depths, Files
  <1> HIDE DEF WellFormed, TypeOK
  <1>7. Chained(w)'
    BY <1>1, <1>3, <1>4, <1>5, <1>6 DEF Calm, Chained
  <1>8. Fresh(w)'
    <2> SUFFICES ASSUME NEW k \in Depths(w), NEW e \in left[w][stack[w][k]]
                 PROVE  /\ e[1] # Root /\ Parent[e[1]] = stack[w][k] /\ name'[e[1]] = e[2]
                        /\ \A j \in Depths(w) : e[1] # stack[w][j]
                        /\ e[1] # NoFile
      BY <1>1, <1>4 DEF Fresh
    <2>1. e \in Nodes \X Names
      BY <1>5
    <2> QED
      BY <1>3, <1>4, <2>1 DEF Calm, Fresh
  <1>9. Accessible(w)'
    <2> SUFFICES ASSUME NEW k \in Depths(w), NEW n \in Content(stack[w][k]), n # at[w]
                 PROVE  \/ k + 1 \in Depths(w) /\ n = stack[w][k + 1]
                        \/ n = NoFile
                        \/ <<n, name'[n]>> \in left[w][stack[w][k]]
                        \/ Kind[n] = "other"
      BY <1>1, <1>3, <1>4 DEF Accessible, Content
    <2>1. n \in Nodes
      BY DEF Content
    <2> QED
      BY <1>3, <1>4, <2>1 DEF Calm, Accessible
  <1>10. Held(w)'
    BY <1>1 DEF Held
  <1> QED
    BY <1>7, <1>8, <1>9, <1>10 DEF Calm

LEMMA RemoveCalm ==
  ASSUME WellFormed, NEW w \in Walks, Running(w), Calm(w), RemoveDirectory(w), Top(w) # Root
  PROVE  Calm(w)'
  <1> USE TreeAssumption DEF WellFormed, TypeOK
  <1> DEFINE top == Len(stack[w])
  <1>1. /\ pc[w] = "walk" /\ name' = [name EXCEPT ![Top(w)] = "gone"] /\ Pop(w)
        /\ pc' = pc /\ left' = left /\ at' = at
    BY DEF RemoveDirectory, Exhausted, Pop
  <1>2. /\ top \in Nat /\ Top(w) = stack[w][top] /\ Top(w) \in Nodes /\ top \in Depths(w)
        /\ \A k \in Depths(w) : stack[w][k] \in Nodes
        /\ \A k \in Depths(w) : left[w][stack[w][k]] \subseteq Nodes \X Names
    BY StackFacts DEF Depths, Entries, Top
  <1>3. /\ \A n \in Nodes \ {Top(w)} : name'[n] = name[n]
        /\ \A n \in Nodes : There(n)' <=> There(n) /\ n # Top(w)
    BY <1>1, <1>2, NameFacts DEF There
  <1>4. /\ Len(stack'[w]) = top - 1
        /\ \A k \in 1..(top - 1) : stack'[w][k] = stack[w][k]
    BY <1>1, Popping
  <1>5. /\ Depths(w)' = Depths(w) \ {top} /\ \A k \in Depths(w)' : stack'[w][k] = stack[w][k]
    BY <1>2, <1>4 DEF Depths
  <1>6. \A k \in Depths(w)' : k \in Depths(w) /\ stack[w][k] # Top(w)
    BY <1>2, <1>5 DEF Calm, Chained
  <1>7. Hand(w)' = Hand(w)
    BY <1>1 DEF Hand
  <1> HIDE DEF WellFormed, TypeOK, top
  <1>8. Chained(w)'
    BY <1>2, <1>3, <1>5, <1>6 DEF Calm, Chained
  <1>9. Fresh(w)'
    <2> SUFFICES ASSUME NEW k \in Depths(w)', NEW e \in left[w][stack[w][k]]
                 PROVE  /\ e[1] # Root /\ Parent[e[1]] = stack[w][k] /\ name'[e[1]] = e[2]
                        /\ \A j \in Depths(w)' : e[1] # stack[w][j]
                        /\ e[1] # Hand(w)
      BY <1>1, <1>5, <1>7 DEF Fresh
    <2>1. e \in Nodes \X Names
      BY <1>2, <1>6
    <2>2. e[1] # Top(w)
      BY <1>2, <1>6 DEF Calm, Fresh
    <2> QED
      BY <1>3, <1>6, <2>1, <2>2 DEF Calm, Fresh
  <1>10. Accessible(w)'
    <2> SUFFICES ASSUME NEW k \in Depths(w)', NEW n \in Content(stack[w][k]), n # Top(w)
                 PROVE  \/ k + 1 \in Depths(w)' /\ n = stack[w][k + 1]
                        \/ n = Hand(w)
                        \/ <<n, name'[n]>> \in left[w][stack[w][k]]
                        \/ Kind[n] = "other"
      BY <1>1, <1>3, <1>5, <1>7 DEF Accessible, Content
    <2>1. n \in Nodes
      BY DEF Content
    <2>2. k + 1 \in Depths(w) /\ n = stack[w][k + 1] => k + 1 \in Depths(w)'
      BY <1>2, <1>5
    <2> QED
      BY <1>3, <1>6, <2>1, <2>2 DEF Calm, Accessible
  <1>11. Held(w)'
    BY <1>1 DEF Held
  <1> QED
    BY <1>8, <1>9, <1>10, <1>11 DEF Calm

(* What an undisturbed call does next leaves it calm or says why it fails. *)
LEMMA OwnCalm ==
  ASSUME WellFormed, Dirs, filler = {}, NEW w \in Walks, Moves(w), ~disturbed'[w],
         Running(w) => Calm(w)
  PROVE  (Running(w)' => Calm(w)') /\ (pc'[w] = "error" /\ Running(w) => Blocked)
  <1>0. TypeOK /\ Shape(w)
    BY DEF WellFormed
  <1>1. ASSUME pc'[w] = "error", Blocked \/ ~Running(w)
        PROVE  (Running(w)' => Calm(w)') /\ (pc'[w] = "error" /\ Running(w) => Blocked)
    BY <1>1 DEF Running, Done
  <1>2. ASSUME NEW o, Return(w, o) PROVE pc'[w] = o
    BY <1>0, <1>2 DEF Return, Goto, TypeOK
  <1>3. CASE DryRun(w)
    BY <1>3 DEF DryRun, walkVars, Running, Done
  <1>4. CASE Begin(w)
    BY <1>0, <1>4, BeginCalm DEF Begin, Goto, TypeOK, Running
  <1>5. CASE Refuse(w)
    <2>1. pc[w] = "idle" /\ pc'[w] = "error"
      BY <1>2, <1>5 DEF Refuse
    <2> QED
      BY <1>1, <2>1 DEF Running
  <1>6. CASE Fault(w)
    BY <1>0, <1>6 DEF Fault, TypeOK
  <1>7. ASSUME NEW e \in Upcoming(w), EnterDirectory(w, e) \/ PassOver(w, e) \/ StartFile(w, e)
        PROVE  Running(w) /\ Calm(w)' /\ pc'[w] # "error"
    <2>1. pc[w] = "walk"
      BY DEF Upcoming
    <2>2. Running(w)
      BY <2>1 DEF Running, Done
    <2>3. pc'[w] # "error"
      BY <1>0, <1>7, <2>1 DEF EnterDirectory, PassOver, StartFile, Goto, TypeOK
    <2> QED
      BY <1>7, <2>2, <2>3, EnterCalm, PassOverCalm, StartFileCalm
  <1>8. CASE RenameFile(w) \/ UnlinkFile(w)
    <2>1. Running(w)
      BY <1>8 DEF RenameFile, UnlinkFile, Running, Done
    <2>2. pc'[w] # "error"
      BY <1>0, <1>8 DEF RenameFile, UnlinkFile, Counted, Goto, TypeOK
    <2> QED
      BY <1>8, <2>1, <2>2, RenameCalm, UnlinkCalm
  <1>9. CASE RenameFails(w) \/ UnlinkFails(w)
    <2>1. Running(w)
      BY <1>9 DEF RenameFails, UnlinkFails, Running, Done
    <2> QED
      BY <1>9, <2>1 DEF RenameFails, UnlinkFails, Calm, Held
  <1>10. CASE RemoveDirectory(w)
    <2>1. pc[w] = "walk" /\ Running(w)
      BY <1>10 DEF RemoveDirectory, Exhausted, Running, Done
    <2>2. CASE Top(w) = Root
      <3>1. pc'[w] = "ok"
        BY <1>2, <1>10, <2>2 DEF RemoveDirectory
      <3> QED
        BY <3>1 DEF Running, Done
    <2>3. CASE Top(w) # Root
      <3>1. pc'[w] = "walk"
        BY <1>10, <2>1, <2>3 DEF RemoveDirectory
      <3> QED
        BY <1>10, <2>1, <2>3, <3>1, RemoveCalm
    <2> QED
      BY <2>2, <2>3
  <1>11. CASE RemoveFails(w)
    <2>1. /\ pc[w] = "walk" /\ left[w][Top(w)] = {} /\ ~(There(Top(w)) /\ Empty(Top(w)))
          /\ pc'[w] = "error"
      BY <1>2, <1>11 DEF RemoveFails, Exhausted
    <2>2. Running(w) /\ Calm(w) /\ Hand(w) = NoFile
      BY <2>1 DEF Running, Done, Hand
    <2>3. /\ Len(stack[w]) \in Depths(w) /\ Top(w) = stack[w][Len(stack[w])]
          /\ Len(stack[w]) + 1 \notin Depths(w)
      BY <1>0, <2>2, StackFacts DEF Depths, Top
    <2>4. There(Top(w))
      BY <2>2, <2>3 DEF Calm, Chained
    <2>5. PICK n \in Content(Top(w)) : TRUE
      BY <2>1, <2>4 DEF Empty
    <2>6. n \in Nodes /\ n # NoFile /\ There(n)
      BY <2>5, TreeAssumption DEF Content
    <2>7. Kind[n] = "other"
      BY <2>1, <2>2, <2>3, <2>6 DEF Calm, Accessible
    <2> QED
      BY <1>1, <2>1, <2>6, <2>7 DEF Blocked
  <1> QED
    BY <1>3, <1>4, <1>5, <1>6, <1>7, <1>8, <1>9, <1>10, <1>11 DEF Moves, Step, Running, Done

LEMMA StepCalm ==
  ASSUME \A w \in Walks : ~Backfill[w], CalmInv, [Next]_vars
  PROVE  CalmInv'
  <1> USE DEF CalmInv
  <1>0. WellFormed' /\ Dirs' /\ TypeOK
    BY StepWellFormed, StepDirs DEF WellFormed
  <1>1. Blocked => Blocked'
    BY BlockedStays
  <1>2. filler' = {}
    <2>1. ASSUME NEW w \in Walks, Moves(w) PROVE filler' = filler
      <3>1. CASE UnlinkFile(w)
        BY <3>1 DEF UnlinkFile, Counted
      <3>2. CASE RemoveDirectory(w)
        BY <3>2 DEF RemoveDirectory
      <3>3. CASE RenameFile(w)
        BY <3>3 DEF RenameFile
      <3>4. CASE ~UnlinkFile(w) /\ ~RemoveDirectory(w) /\ ~RenameFile(w)
        BY <2>1, <3>4 DEF Moves, Step, DryRun, Begin, Refuse, Fault, EnterDirectory, PassOver,
           StartFile, RenameFails, UnlinkFails, RemoveFails, treeVars
      <3> QED
        BY <3>1, <3>2, <3>3, <3>4
    <2> QED
      BY <2>1, NextCases DEF vars, treeVars, Meddles, Create, Remove, Meddle
  <1> SUFFICES ASSUME NEW v \in Walks, ~disturbed'[v]
               PROVE  /\ Running(v)' => Calm(v)'
                      /\ pc'[v] = "error" => Blocked'
    BY <1>0, <1>2
  (* A step that is not v's own. *)
  <1>3. ASSUME UNCHANGED <<pc[v], stack[v], left[v], at[v], seen[v]>>, ~disturbed[v],
               Running(v) => UNCHANGED name
        PROVE  /\ Running(v)' => Calm(v)'
               /\ pc'[v] = "error" => Blocked'
    BY <1>1, <1>3, CalmStays DEF Running
  <1>4. ASSUME NEW others, Disturb(others), v \in others PROVE ~Running(v) /\ ~disturbed[v]
    BY <1>4, Zenon DEF Disturb
  <1>5. CASE UNCHANGED vars
    BY <1>3, <1>5 DEF vars, treeVars, walkVars, historyVars
  <1>6. CASE Meddles
    <2>1. UNCHANGED walkVars /\ Disturb(Walks)
      BY <1>6 DEF Meddles, Create, Remove, Meddle
    <2> QED
      BY <1>3, <1>4, <2>1 DEF walkVars
  <1>7. ASSUME NEW w \in Walks, Moves(w)
        PROVE  /\ Running(v)' => Calm(v)'
               /\ pc'[v] = "error" => Blocked'
    <2>1. CASE v # w
      <3>1. UNCHANGED <<pc[v], stack[v], left[v], at[v], seen[v]>>
        BY <1>0, <1>7, <2>1, OtherWalks
      <3>2. CASE RenameFile(w) \/ UnlinkFile(w) \/ RemoveDirectory(w)
        <4>1. Disturb(Walks \ {w})
          BY <3>2 DEF RenameFile, UnlinkFile, Counted, RemoveDirectory
        <4> QED
          BY <1>3, <1>4, <2>1, <3>1, <4>1
      <3>3. CASE ~(RenameFile(w) \/ UnlinkFile(w) \/ RemoveDirectory(w))
        <4>1. name' = name /\ disturbed'[v] = disturbed[v]
          <5>1. CASE Fault(w)
            BY <1>0, <2>1, <5>1 DEF Fault, treeVars, TypeOK
          <5>2. CASE ~Fault(w)
            BY <1>7, <3>3, <5>2 DEF Moves, Step, DryRun, Begin, Refuse, EnterDirectory,
               PassOver, StartFile, RenameFails, UnlinkFails, RemoveFails, treeVars, historyVars
          <5> QED
            BY <5>1, <5>2
        <4> QED
          BY <1>3, <3>1, <4>1
      <3> QED
        BY <3>2, <3>3
    <2>2. CASE v = w
      <3>1. ~disturbed[w]
        <4>1. CASE RenameFile(w) \/ UnlinkFile(w) \/ RemoveDirectory(w)
          <5>1. Disturb(Walks \ {w})
            BY <4>1 DEF RenameFile, UnlinkFile, Counted, RemoveDirectory
          <5> QED
            BY <2>2, <5>1, Zenon DEF Disturb
        <4>2. CASE Fault(w)
          BY <1>0, <2>2, <4>2 DEF Fault, TypeOK
        <4>3. CASE ~(RenameFile(w) \/ UnlinkFile(w) \/ RemoveDirectory(w) \/ Fault(w))
          BY <1>7, <2>2, <4>3 DEF Moves, Step, DryRun, Begin, Refuse, EnterDirectory,
             PassOver, StartFile, RenameFails, UnlinkFails, RemoveFails, historyVars
        <4> QED
          BY <4>1, <4>2, <4>3
      <3>2. (Running(w)' => Calm(w)') /\ (pc'[w] = "error" /\ Running(w) => Blocked)
        BY <1>7, <2>2, <3>1, OwnCalm
      <3>3. CASE ~Running(w) /\ pc'[w] = "error"
        <4>1. CASE pc[w] = "error"
          BY <1>1, <2>2, <3>1, <3>2, <4>1
        <4>2. CASE Refuse(w)
          BY <1>1, <4>2, <2>2, <3>2 DEF Refuse, Blocked
        <4>3. CASE ~Refuse(w) /\ pc[w] # "error"
          <5>1. pc[w] \in {"idle", "ok"}
            BY <1>0, <3>3, <4>3 DEF Running, Done, TypeOK
          <5>2. DryRun(w) \/ Begin(w)
            BY <1>7, <3>3, <4>3, <5>1 DEF Moves, Step, Fault, Upcoming, RenameFile, RenameFails,
               UnlinkFile, UnlinkFails, RemoveDirectory, RemoveFails, Exhausted
          <5>3. pc'[w] # "error"
            BY <1>0, <5>1, <5>2 DEF DryRun, Begin, Goto, walkVars, TypeOK
          <5> QED
            BY <3>3, <5>3
        <4> QED
          BY <4>1, <4>2, <4>3
      <3> QED
        BY <1>1, <2>2, <3>2, <3>3
    <2> QED
      BY <2>1, <2>2
  <1> QED
    BY <1>5, <1>6, <1>7, NextCases

(* Without backfilling, a call that no other program or call and no        *)
(* failing system call disturbs leaves no directory behind, unless the     *)
(* tree holds something that is not a regular file; a tree that earlier    *)
(* calls have left half erased is no exception.                            *)
THEOREM UndisturbedSucceeds ==
  ASSUME \A w \in Walks : ~Backfill[w]
  PROVE  Spec => []UndisturbedCallSucceeds
  <1>1. Init => CalmInv
    BY InitWellFormed, InitDirs DEF Init, CalmInv, Running
  <1>2. CalmInv /\ [Next]_vars => CalmInv'
    BY StepCalm
  <1>3. CalmInv => UndisturbedCallSucceeds
    BY DEF CalmInv, Blocked, UndisturbedCallSucceeds
  <1> QED
    BY <1>1, <1>2, <1>3, PTL DEF Spec
=============================================================================
