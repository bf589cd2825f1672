---------------------------- MODULE UiTreeProofs ----------------------------
(***************************************************************************)
(* What the walks over windows and elements list and find, for every       *)
(* forest, every depth and every order of the children.                    *)
(***************************************************************************)
EXTENDS UiTree, WellFoundedInduction, TLAPS

\* Unless a leaf names Zenon it is one for SMT; the limit leaves a slow machine its time.
USE SMTT(60)

LEMMA LeastNatural ==
    ASSUME NEW T, T \subseteq Nat, T # {}
    PROVE  \E i \in T : \A j \in T : i <= j
<1>1. PICK i \in T : \A j \in T : ~(<<j, i>> \in OpToRel(<, Nat))
  BY NatLessThanWellFounded, WFMin, ZenonT(60)
<1>2. \A j \in T : ~(j < i)
  BY <1>1, ZenonT(60) DEF OpToRel
<1> QED BY <1>2
-----------------------------------------------------------------------------
(* WalkInv below is inductive and carries what the walks over windows and  *)
(* elements promise when they return: the calls in progress are a path, a  *)
(* call has come to each child of its node, will come to it or is in it,   *)
(* and a call that has returned has left none out down to its depth.       *)

(* The nodes whose children a call can go through. *)
Tops == Nodes \cup {Root}

(* The forest has no cycles: a child is one level below its parent. *)
TreeInv ==
    /\ parent \in [Nodes -> Tops] /\ levels \in [Nodes -> Nat]
    /\ \A n \in Nodes : levels[n] = IF parent[n] = Root THEN 0 ELSE levels[parent[n]] + 1
    /\ call \in TreeCalls \cup WalkCalls \cup FindCalls

(* How deep the call for the children of h is. *)
DepthOf(h) == LevelOf(h) - LevelOf(call.top)

(* The calls in progress are a path down from the node asked for. *)
PathInv ==
    /\ stack \subseteq Tops /\ call.top \in stack /\ at \in stack
    /\ depth = DepthOf(at)
    /\ \A h \in stack : DepthOf(h) <= DepthOf(at)
    /\ \A g, h \in stack : DepthOf(g) = DepthOf(h) => g = h
    /\ \A h \in stack \ {call.top} :
          h \in Nodes /\ parent[h] \in stack /\ DepthOf(h) > 0 /\ ~TooDeep(DepthOf(h) - 1)

(* A child that a call has yet to come to is new to all calls. *)
TodoInv ==
    /\ todo \in [Tops -> SUBSET Nodes]
    /\ \A h \in Tops : \A c \in todo[h] :
          /\ h \in stack /\ parent[c] = h /\ ~TooDeep(DepthOf(h))
          /\ c \notin stack /\ c \notin visited /\ c \notin skipped

(* A call comes to all children, and when it returns all are done. *)
CoverInv ==
    /\ \A h \in stack : ~TooDeep(DepthOf(h)) =>
          ChildrenOf(h) \subseteq todo[h] \cup stack \cup visited \cup skipped
    /\ \A h \in visited : ~TooDeep(DepthOf(h)) => ChildrenOf(h) \subseteq visited \cup skipped

(* Nodes whose calls have returned hang from the path, and nothing was     *)
(* visited that was skipped.                                               *)
VisitedInv ==
    /\ visited \subseteq Nodes /\ skipped \subseteq Nodes
    /\ \A h \in visited :
          /\ h \notin stack /\ h \notin skipped
          /\ parent[h] \in visited \cup stack
          /\ DepthOf(h) > 0 /\ ~TooDeep(DepthOf(h) - 1)
    /\ \A s \in skipped : s \notin stack /\ parent[s] \in visited \cup stack
    /\ call.fn # "walk" => skipped = {}

(* A node is listed when its call has returned; no match has been passed. *)
ResultInv ==
    /\ times \in [Nodes -> Nat]
    /\ call.fn # "find" => \A n \in Nodes : times[n] = IF n \in visited THEN 1 ELSE 0
    /\ call.fn = "find" =>
          ~found /\ \A n \in visited \cup (stack \ {call.top}) : n \notin call.having

Walking == PathInv /\ TodoInv /\ CoverInv /\ VisitedInv /\ ResultInv

WalkInv ==
    /\ TreeInv
    /\ at # Finished => Walking
    /\ WindowTreeComplete /\ UiElementsToDepth /\ FakeFindExact

LEMMA ForestFacts ==
    ASSUME TreeInv
    PROVE  \A n \in Nodes :
              /\ parent[n] \in Tops /\ levels[n] \in Nat
              /\ levels[n] = IF parent[n] = Root THEN 0 ELSE levels[parent[n]] + 1
  BY ZenonT(60) DEF TreeInv

(* Levels are counted from the desktop, one for each step down. *)
LEMMA LevelFacts ==
    ASSUME TreeInv
    PROVE  /\ call.top \in Tops
           /\ \A h \in Tops : LevelOf(h) \in Int /\ DepthOf(h) \in Int
           /\ \A c \in Nodes : parent[c] \in Tops /\ DepthOf(c) = DepthOf(parent[c]) + 1
           /\ DepthOf(call.top) = 0
           /\ \A n \in Nodes : LevelsBelow(n) = DepthOf(n) - 1
           /\ call.top = Root => \A n \in Nodes : DepthOf(n) > 0
<1>1. call.top \in Tops
  BY DEF TreeInv, TreeCalls, WalkCalls, FindCalls, Tops
<1>2. \A h \in Tops : LevelOf(h) \in Int
  BY DEF TreeInv, LevelOf, Tops
<1>3. \A c \in Nodes : parent[c] \in Tops /\ LevelOf(c) = LevelOf(parent[c]) + 1
  BY UiTreeAssumption DEF TreeInv, LevelOf, Tops
<1>4. LevelOf(Root) = -1 /\ \A n \in Nodes : LevelOf(n) \in Nat
  BY UiTreeAssumption DEF TreeInv, LevelOf, Tops
<1> QED BY <1>1, <1>2, <1>3, <1>4 DEF DepthOf, LevelsBelow, Tops

(* What is below a node that is too deep is too deep. *)
LEMMA DeeperTooDeep ==
    ASSUME TreeInv, NEW d \in Int, TooDeep(d)
    PROVE  TooDeep(d + 1)
<1>1. CASE call.fn = "walk" /\ d > call.max_depth
  <2>1. call \in WalkCalls BY <1>1 DEF TreeInv, TreeCalls, FindCalls
  <2>2. call.max_depth \in MaxDepths BY <2>1 DEF WalkCalls
  <2>3. call.max_depth \in Int BY <2>2, UiTreeAssumption, ZenonT(60)
  <2> QED BY <1>1, <2>3 DEF TooDeep
<1>2. CASE call.fn = "win32_tree" /\ call.top = Root /\ d > 0
  BY <1>2 DEF TooDeep
<1> QED BY <1>1, <1>2 DEF TooDeep

(* A set whose nodes have their parents in it, up to the node asked for,   *)
(* is below that node.                                                     *)
LEMMA ChainsAreBelow ==
    ASSUME TreeInv, NEW V \in SUBSET (Nodes \ skipped),
           \A n \in V : parent[n] = call.top \/ parent[n] \in V
    PROVE  V \subseteq Below
<1> SUFFICES ASSUME NEW S \in SUBSET Nodes, Closed(S), NEW v \in V, v \notin S PROVE FALSE
  BY DEF Below
<1> DEFINE T == {levels[n] : n \in V \ S}
<1>1. T \subseteq Nat /\ T # {} BY DEF TreeInv
<1>2. \A n \in V \ S : levels[n] \in T OBVIOUS
<1>3. PICK n \in V \ S : \A j \in T : levels[n] <= j
  <2> HIDE DEF T
  <2>1. PICK i \in T : \A j \in T : i <= j BY <1>1, LeastNatural, ZenonT(60)
  <2> QED BY <2>1 DEF T
<1> HIDE DEF T
<1>4. parent[n] # call.top /\ parent[n] \notin S BY <1>3 DEF Closed
<1>5. parent[n] \in V \ S BY <1>3, <1>4
<1>6. levels[n] = levels[parent[n]] + 1
  BY <1>3, <1>5, UiTreeAssumption DEF TreeInv
<1>7. levels[n] <= levels[parent[n]] BY <1>2, <1>3, <1>5
<1>8. levels[parent[n]] \in Nat BY <1>5 DEF TreeInv
<1> QED BY <1>6, <1>7, <1>8

LEMMA WalkInit == UiTreeInit => WalkInv
<1> SUFFICES ASSUME UiTreeInit PROVE WalkInv
  OBVIOUS
<1>1. TreeInv
  BY UiTreeAssumption DEF UiTreeInit, TreeInv, IsForest, Tops
<1>2. call.top \in Tops /\ at = call.top /\ DepthOf(at) = 0 /\ at # Finished
  BY <1>1, LevelFacts, UiTreeAssumption DEF UiTreeInit, Tops, Root, Finished
<1>3. PathInv
  BY <1>2 DEF UiTreeInit, PathInv
<1>4. TodoInv
  <2>1. todo \in [Tops -> SUBSET Nodes]
    BY DEF UiTreeInit, Tops, ToVisit, ChildrenOf
  <2>2. ASSUME NEW h \in Tops, NEW c \in todo[h]
        PROVE  h = call.top /\ parent[c] = h /\ ~TooDeep(0) /\ c \in Nodes
    BY <2>2 DEF UiTreeInit, Tops, ToVisit, ChildrenOf
  <2>3. ASSUME NEW h \in Tops, NEW c \in todo[h] PROVE c # call.top
    BY <2>2, <2>3, <1>1, <1>2, LevelFacts
  <2>4. stack = {call.top} /\ visited = {} /\ skipped = {}
    BY DEF UiTreeInit
  <2> QED BY <1>2, <2>1, <2>2, <2>3, <2>4, ZenonT(60) DEF TodoInv
<1>5. CoverInv
  <2>1. stack = {call.top} /\ visited = {}
    BY DEF UiTreeInit
  <2>2. ~TooDeep(0) => todo[call.top] = ChildrenOf(call.top)
    BY <1>2 DEF UiTreeInit, ToVisit, Tops
  <2> QED BY <1>2, <2>1, <2>2, ZenonT(60) DEF CoverInv
<1>6. VisitedInv /\ ResultInv
  BY DEF UiTreeInit, VisitedInv, ResultInv
<1> QED BY <1>1, <1>2, <1>3, <1>4, <1>5, <1>6
  DEF WalkInv, Walking, WindowTreeComplete, UiElementsToDepth, FakeFindExact

(* A step leaves the forest and the call as they are. *)
LEMMA SameTree ==
    ASSUME TreeInv, UNCHANGED <<parent, levels, call>>
    PROVE  /\ TreeInv'
           /\ \A h : DepthOf(h)' = DepthOf(h) /\ ChildrenOf(h)' = ChildrenOf(h)
           /\ \A d : TooDeep(d)' = TooDeep(d)
  BY ZenonT(60) DEF TreeInv, DepthOf, LevelOf, ChildrenOf, TooDeep

(* What is known of a child that the innermost call comes to. *)
LEMMA NextChild ==
    ASSUME TreeInv, PathInv, TodoInv, VisitedInv, NEW c \in Nodes, c \in todo[at]
    PROVE  /\ at \in Tops /\ at \in stack /\ parent[c] = at /\ ~TooDeep(DepthOf(at))
           /\ c \notin stack /\ c \notin visited /\ c \notin skipped
           /\ DepthOf(at) \in Nat /\ DepthOf(c) = DepthOf(at) + 1
<1>1. at \in Tops /\ at \in stack BY DEF PathInv
<1>2. /\ parent[c] = at /\ ~TooDeep(DepthOf(at))
      /\ c \notin stack /\ c \notin visited /\ c \notin skipped
  BY <1>1 DEF TodoInv
<1>3. DepthOf(at) \in Nat
  BY <1>1, LevelFacts DEF PathInv
<1> QED BY <1>1, <1>2, <1>3, LevelFacts

LEMMA WalkDescend ==
    ASSUME TreeInv, Walking, NEW c \in Nodes, Descend(c)
    PROVE  Walking'
<1> USE DEF Walking
<1>0. TreeInv' /\ (\A h : DepthOf(h)' = DepthOf(h) /\ ChildrenOf(h)' = ChildrenOf(h))
                /\ \A d : TooDeep(d)' = TooDeep(d)
  BY SameTree DEF Descend
<1>1. /\ at \in Tops /\ at \in stack /\ parent[c] = at /\ ~TooDeep(DepthOf(at))
      /\ c \notin stack /\ c \notin visited /\ c \notin skipped
      /\ DepthOf(at) \in Nat /\ DepthOf(c) = DepthOf(at) + 1
  BY NextChild DEF Descend
<1>2. /\ stack' = stack \cup {c} /\ at' = c /\ depth' = depth + 1
      /\ UNCHANGED <<parent, levels, call, skipped, visited, times, found>>
  BY DEF Descend
<1>3. call.top \in Tops /\ (\A h \in Tops : DepthOf(h) \in Int) /\ DepthOf(call.top) = 0
  BY LevelFacts
<1>4. PathInv'
  BY <1>0, <1>1, <1>2, <1>3 DEF PathInv, Tops
<1>5. depth = DepthOf(at) BY DEF PathInv
<1>6. /\ todo' \in [Tops -> SUBSET Nodes]
      /\ todo'[at] = todo[at] \ {c} /\ todo'[c] = ToVisit(c, DepthOf(c))
      /\ \A h \in Tops \ {at, c} : todo'[h] = todo[h]
  BY <1>1, <1>5 DEF Descend, TodoInv, ToVisit, ChildrenOf, Tops
<1>7. TodoInv'
  <2>1. ASSUME NEW k \in todo'[c]
        PROVE  /\ parent[k] = c /\ ~TooDeep(DepthOf(c))
               /\ k \notin stack /\ k # c /\ k \notin visited /\ k \notin skipped
    <3>1. k \in Nodes /\ parent[k] = c /\ ~TooDeep(DepthOf(c))
      BY <2>1, <1>6 DEF ToVisit, ChildrenOf
    <3>2. DepthOf(k) = DepthOf(at) + 2 /\ DepthOf(k) \in Int
      BY <1>1, <3>1, LevelFacts
    <3>3. k \notin stack /\ k # c
      BY <1>1, <3>2 DEF PathInv
    <3>4. k \notin visited /\ k \notin skipped
      BY <1>1, <3>1 DEF VisitedInv
    <3> QED BY <3>1, <3>3, <3>4
  <2>2. ASSUME NEW h \in Tops, NEW k \in todo'[h], h # c
        PROVE  /\ h \in stack /\ parent[k] = h /\ ~TooDeep(DepthOf(h))
               /\ k \notin stack /\ k # c /\ k \notin visited /\ k \notin skipped
    BY <1>1, <1>6, <2>2 DEF TodoInv
  <2> QED BY <1>0, <1>2, <1>6, <2>1, <2>2 DEF TodoInv
<1>8. CoverInv'
  <2>1. \A h \in stack : h # c BY <1>1
  <2>2. ASSUME NEW h \in stack, ~TooDeep(DepthOf(h))
        PROVE  ChildrenOf(h) \subseteq todo'[h] \cup stack' \cup visited \cup skipped
    BY <1>1, <1>2, <1>6, <2>1, <2>2 DEF CoverInv, PathInv
  <2>3. ~TooDeep(DepthOf(c)) => ChildrenOf(c) \subseteq todo'[c]
    BY <1>6 DEF ToVisit
  <2> QED BY <1>0, <1>2, <2>2, <2>3 DEF CoverInv
<1>9. VisitedInv'
  BY <1>0, <1>1, <1>2 DEF VisitedInv
<1>10. ResultInv'
  BY <1>1, <1>2 DEF ResultInv, Descend, Matches
<1> QED BY <1>4, <1>7, <1>8, <1>9, <1>10

LEMMA WalkSkip ==
    ASSUME TreeInv, Walking, NEW c \in Nodes, Skip(c)
    PROVE  Walking'
<1> USE DEF Walking
<1>0. TreeInv' /\ (\A h : DepthOf(h)' = DepthOf(h) /\ ChildrenOf(h)' = ChildrenOf(h))
                /\ \A d : TooDeep(d)' = TooDeep(d)
  BY SameTree DEF Skip
<1>1. at \in Tops /\ at \in stack /\ parent[c] = at /\ c \notin stack /\ c \notin visited
  BY NextChild DEF Skip
<1>2. /\ skipped' = skipped \cup {c} /\ call.fn = "walk"
      /\ UNCHANGED <<parent, levels, call, at, depth, stack, visited, times, found>>
  BY DEF Skip
<1>3. /\ todo' \in [Tops -> SUBSET Nodes] /\ todo'[at] = todo[at] \ {c}
      /\ \A h \in Tops \ {at} : todo'[h] = todo[h]
  BY <1>1 DEF Skip, TodoInv
<1>4. PathInv' BY <1>0, <1>2 DEF PathInv
<1>5. TodoInv'
  <2>1. ASSUME NEW h \in Tops, NEW k \in todo'[h] PROVE k \in todo[h] /\ k # c
    BY <1>1, <1>3, <2>1 DEF TodoInv
  <2> QED BY <1>0, <1>2, <1>3, <2>1 DEF TodoInv
<1>6. CoverInv'
  <2>1. ASSUME NEW h \in stack, ~TooDeep(DepthOf(h))
        PROVE  ChildrenOf(h) \subseteq todo'[h] \cup stack \cup visited \cup skipped'
    BY <1>1, <1>2, <1>3, <2>1 DEF CoverInv, PathInv
  <2> QED BY <1>0, <1>2, <2>1 DEF CoverInv
<1>7. VisitedInv' BY <1>0, <1>1, <1>2 DEF VisitedInv
<1>8. ResultInv' BY <1>2 DEF ResultInv
<1> QED BY <1>4, <1>5, <1>6, <1>7, <1>8

LEMMA WalkAscend ==
    ASSUME TreeInv, Walking, Ascend
    PROVE  Walking'
<1> USE DEF Walking
<1> DEFINE p == parent[at]
<1>0. TreeInv' /\ (\A h : DepthOf(h)' = DepthOf(h) /\ ChildrenOf(h)' = ChildrenOf(h))
                /\ \A d : TooDeep(d)' = TooDeep(d)
  BY SameTree DEF Ascend
<1>1. /\ at \in Nodes /\ at \in stack /\ at # call.top /\ todo[at] = {}
      /\ p \in stack /\ DepthOf(at) > 0 /\ ~TooDeep(DepthOf(at) - 1)
      /\ stack \subseteq Tops
  BY DEF Ascend, PathInv
<1>2. /\ stack' = stack \ {at} /\ visited' = visited \cup {at}
      /\ at' = p /\ depth' = depth - 1
      /\ UNCHANGED <<parent, levels, call, todo, skipped, found>>
  BY DEF Ascend
<1>3. /\ call.top \in Tops /\ DepthOf(call.top) = 0
      /\ \A h \in Tops : DepthOf(h) \in Int
      /\ \A n \in Nodes : DepthOf(n) = DepthOf(parent[n]) + 1
  BY LevelFacts
<1>4. p # at /\ DepthOf(p) = DepthOf(at) - 1 /\ DepthOf(at) \in Int /\ at \in Tops
  BY <1>1, <1>3 DEF Tops
<1>5. ASSUME NEW n \in Nodes, parent[n] = at PROVE n \notin stack
  BY <1>1, <1>3, <1>4, <1>5 DEF PathInv
<1>6. PathInv'
  <2>1. \A h \in stack' : DepthOf(h) <= DepthOf(p)
    BY <1>1, <1>2, <1>3, <1>4 DEF PathInv
  <2> QED BY <1>0, <1>1, <1>2, <1>4, <1>5, <2>1 DEF PathInv
<1>7. TodoInv'
  BY <1>0, <1>1, <1>2 DEF TodoInv
<1>8. CoverInv'
  <2>1. ~TooDeep(DepthOf(at)) => ChildrenOf(at) \subseteq visited \cup skipped
    BY <1>1, <1>5 DEF CoverInv, ChildrenOf
  <2> QED BY <1>0, <1>2, <2>1 DEF CoverInv
<1>9. VisitedInv'
  BY <1>0, <1>1, <1>2, <1>4 DEF VisitedInv
<1>10. ResultInv'
  <2>1. at \notin visited BY <1>1 DEF VisitedInv
  <2>2. CASE call.fn = "find"
    BY <1>1, <1>2, <2>2 DEF ResultInv, Ascend
  <2>3. CASE call.fn # "find"
    BY <1>1, <1>2, <2>1, <2>3 DEF ResultInv, Ascend, Put
  <2> QED BY <2>2, <2>3
<1> QED BY <1>6, <1>7, <1>8, <1>9, <1>10

(* When the outermost call returns it has visited what is below its node   *)
(* down to the depth where it stops.                                       *)
LEMMA VisitedAtReturn ==
    ASSUME TreeInv, Walking, at = call.top, todo[at] = {}
    PROVE  visited = {n \in Below : ~TooDeep(LevelsBelow(n))}
<1> USE DEF Walking
<1>1. /\ call.top \in Tops /\ DepthOf(call.top) = 0
      /\ \A h \in Tops : DepthOf(h) \in Int
      /\ \A n \in Nodes : DepthOf(n) = DepthOf(parent[n]) + 1 /\ parent[n] \in Tops
      /\ \A n \in Nodes : LevelsBelow(n) = DepthOf(n) - 1
  BY LevelFacts
<1>2. stack = {call.top}
  BY <1>1 DEF PathInv
<1>3. visited \subseteq Below
  <2>1. visited \in SUBSET (Nodes \ skipped)
    BY DEF VisitedInv
  <2>2. \A n \in visited : parent[n] = call.top \/ parent[n] \in visited
    BY <1>2 DEF VisitedInv
  <2> QED BY <2>1, <2>2, ChainsAreBelow
<1>4. \A n \in visited : ~TooDeep(LevelsBelow(n))
  <2>1. ASSUME NEW n \in visited
        PROVE  ~TooDeep(DepthOf(n) - 1) /\ LevelsBelow(n) = DepthOf(n) - 1
    BY <1>1 DEF VisitedInv
  <2> QED BY <2>1, ZenonT(60)
<1> DEFINE S == {n \in Nodes : n \in visited \/ TooDeep(LevelsBelow(n))}
<1>5. Closed(S)
  <2> SUFFICES ASSUME NEW c \in Nodes \ skipped, parent[c] = call.top \/ parent[c] \in S,
                      ~TooDeep(LevelsBelow(c))
               PROVE  c \in visited
    BY DEF Closed
  <2>1. LevelsBelow(c) = DepthOf(parent[c]) BY <1>1
  <2>2. c \in ChildrenOf(parent[c]) BY DEF ChildrenOf
  <2>3. CASE parent[c] = call.top
    <3>1. c # call.top BY <1>1, <2>3
    <3> QED BY <1>1, <1>2, <2>1, <2>2, <2>3, <3>1 DEF CoverInv
  <2>4. CASE parent[c] \in visited
    BY <2>1, <2>2, <2>4 DEF CoverInv
  <2>5. CASE parent[c] \in Nodes /\ TooDeep(LevelsBelow(parent[c]))
    <3>1. /\ LevelsBelow(parent[c]) \in Int
          /\ LevelsBelow(c) = LevelsBelow(parent[c]) + 1
      BY <1>1, <2>5 DEF Tops
    <3> QED BY <2>5, <3>1, DeeperTooDeep
  <2> QED BY <2>3, <2>4, <2>5
<1>6. \A n \in Below : n \in S
  BY <1>5 DEF Below
<1> QED BY <1>3, <1>4, <1>6

(* From the desktop everything is below. *)
LEMMA AllBelowDesktop ==
    ASSUME TreeInv, VisitedInv, call.top = Root, call.fn # "walk"
    PROVE  Below = Nodes
<1>1. skipped = {} BY DEF VisitedInv
<1>2. \A n \in Nodes : parent[n] = call.top \/ parent[n] \in Nodes
  BY ForestFacts, ZenonT(60) DEF Tops
<1>3. Nodes \subseteq Below BY <1>1, <1>2, ChainsAreBelow
<1> QED BY <1>3 DEF Below

(* An element that matches is below the window. *)
LEMMA WalkMatch ==
    ASSUME TreeInv, Walking, NEW c \in Nodes, Match(c)
    PROVE  WindowTreeComplete' /\ UiElementsToDepth' /\ FakeFindExact'
<1> USE DEF Walking
<1> DEFINE V == (stack \ {call.top}) \cup {c}
<1>1. call.fn = "find" /\ c \in call.having /\ found' = TRUE /\ call' = call
  BY DEF Match, Matches
<1>2. at \in stack /\ parent[c] = at /\ c \notin skipped
  BY NextChild DEF Match
<1>3. V \in SUBSET (Nodes \ skipped)
  BY <1>2 DEF PathInv, VisitedInv
<1>4. \A n \in V : parent[n] = call.top \/ parent[n] \in V
  BY <1>2 DEF PathInv
<1> HIDE DEF V
<1>5. V \subseteq Below BY <1>3, <1>4, ChainsAreBelow
<1>6. c \in Below BY <1>5 DEF V
<1>7. Below' = Below
  BY ZenonT(60) DEF Match, Below, Closed
<1>8. call'.fn = "find" /\ c \in call'.having BY <1>1
<1> QED BY <1>1, <1>6, <1>7, <1>8 DEF WindowTreeComplete, UiElementsToDepth, FakeFindExact

LEMMA WalkReturn ==
    ASSUME TreeInv, Walking, Return
    PROVE  WindowTreeComplete' /\ UiElementsToDepth' /\ FakeFindExact'
<1> USE DEF Walking
<1>1. /\ at = call.top /\ todo[at] = {}
      /\ UNCHANGED <<parent, levels, call, skipped, visited, found>>
  BY DEF Return
<1>2. visited = {n \in Below : ~TooDeep(LevelsBelow(n))}
  BY <1>1, VisitedAtReturn
<1>3. Below \subseteq Nodes BY DEF Below
<1>4. /\ Below' = Below
      /\ \A n : LevelsBelow(n)' = LevelsBelow(n) /\ ChildrenOf(n)' = ChildrenOf(n)
  BY <1>1, ZenonT(60) DEF Below, Closed, LevelsBelow, LevelOf, ChildrenOf
<1>5. /\ call.top \in Tops /\ DepthOf(call.top) = 0
      /\ \A n \in Nodes : LevelsBelow(n) = DepthOf(n) - 1 /\ DepthOf(n) \in Int
  BY LevelFacts DEF Tops
<1>6. WindowTreeComplete'
  <2>1. CASE call.fn \in {"fake_tree", "win32_tree"} /\ call.top # Root
    <3>1. visited = Below BY <1>2, <2>1 DEF TooDeep
    <3>2. call.top \in Nodes /\ call.top \notin visited
      BY <1>5, <2>1 DEF VisitedInv, Tops
    <3>3. times' = [times EXCEPT ![call.top] = @ + 1]
      BY <1>1, <2>1 DEF Return, HasRoot, Put
    <3>4. \A n \in Nodes : times'[n] = IF n \in Below \cup {call.top} THEN 1 ELSE 0
      BY <2>1, <3>1, <3>2, <3>3 DEF ResultInv
    <3> QED BY <1>1, <1>4, <2>1, <3>4 DEF WindowTreeComplete, ListsExactly
  <2>2. CASE call.fn \in {"fake_tree", "win32_tree"} /\ call.top = Root
    <3>1. \A n \in Nodes : times'[n] = IF n \in visited THEN 1 ELSE 0
      BY <2>2 DEF Return, HasRoot, ResultInv
    <3>2. Below = Nodes BY <2>2, AllBelowDesktop
    <3>3. call.fn = "fake_tree" => visited = Nodes
      BY <1>2, <3>2 DEF TooDeep
    <3>4. call.fn = "win32_tree" => visited = ChildrenOf(Root)
      <4>1. \A n \in Nodes : /\ parent[n] \in Tops /\ DepthOf(parent[n]) \in Int
                             /\ DepthOf(n) = DepthOf(parent[n]) + 1
        BY LevelFacts, ZenonT(60)
      <4>2. DepthOf(Root) = 0 /\ \A n \in Nodes : DepthOf(n) > 0
        BY <2>2, LevelFacts, ZenonT(60)
      <4>3. ASSUME NEW n \in Nodes PROVE ~(LevelsBelow(n) > 0) <=> parent[n] = Root
        <5>1. LevelsBelow(n) = DepthOf(parent[n]) BY <1>5, <4>1
        <5>2. parent[n] = Root \/ parent[n] \in Nodes BY <4>1, ZenonT(60) DEF Tops
        <5>3. parent[n] \in Nodes => parent[n] # Root BY UiTreeAssumption, ZenonT(60)
        <5>4. parent[n] = Root => LevelsBelow(n) = 0 BY <4>2, <5>1, ZenonT(60)
        <5>5. parent[n] \in Nodes => LevelsBelow(n) > 0 BY <4>2, <5>1, ZenonT(60)
        <5> QED BY <5>2, <5>3, <5>4, <5>5
      <4> QED BY <1>2, <2>2, <3>2, <4>3 DEF TooDeep, ChildrenOf
    <3> QED BY <1>1, <1>4, <2>2, <3>1, <3>3, <3>4 DEF WindowTreeComplete, ListsExactly
  <2>3. CASE call.fn \notin {"fake_tree", "win32_tree"}
    BY <1>1, <2>3 DEF WindowTreeComplete
  <2> QED BY <2>1, <2>2, <2>3
<1>7. UiElementsToDepth'
  <2> SUFFICES ASSUME call.fn = "walk"
               PROVE  (ListsExactly({n \in Below : LevelsBelow(n) <= call.max_depth}))'
    BY <1>1 DEF UiElementsToDepth
  <2>1. call.max_depth \in Int
    <3>1. call \in WalkCalls BY DEF TreeInv, TreeCalls, FindCalls
    <3>2. call.max_depth \in MaxDepths BY <3>1 DEF WalkCalls
    <3> QED BY <3>2, UiTreeAssumption, ZenonT(60)
  <2>2. visited = {n \in Below : LevelsBelow(n) <= call.max_depth}
    BY <1>2, <1>3, <1>5, <2>1 DEF TooDeep
  <2>3. \A n \in Nodes : times'[n] = IF n \in visited THEN 1 ELSE 0
    BY DEF Return, HasRoot, ResultInv
  <2> QED BY <1>1, <1>4, <2>2, <2>3 DEF ListsExactly
<1>8. FakeFindExact'
  <2> SUFFICES ASSUME call.fn = "find" PROVE ~found' /\ call'.having \cap Below' = {}
    BY <1>1 DEF FakeFindExact
  <2>1. visited = Below BY <1>2 DEF TooDeep
  <2>2. ~found /\ call.having \cap Below = {} BY <2>1 DEF ResultInv
  <2> QED BY <1>1, <1>4, <2>2
<1> QED BY <1>6, <1>7, <1>8

LEMMA WalkStep == WalkInv /\ [UiTreeNext]_uiTree => WalkInv'
<1> SUFFICES ASSUME WalkInv, [UiTreeNext]_uiTree PROVE WalkInv'
  OBVIOUS
<1>1. CASE UNCHANGED uiTree
  <2>1. UNCHANGED <<parent, levels, call, at, depth, stack, todo, skipped, visited,
                    times, found>>
    BY <1>1 DEF uiTree
  <2>2. /\ TreeInv
        /\ at # Finished => PathInv /\ TodoInv /\ CoverInv /\ VisitedInv /\ ResultInv
        /\ WindowTreeComplete /\ UiElementsToDepth /\ FakeFindExact
    BY DEF WalkInv, Walking
  <2>3. TreeInv' BY <2>1, <2>2, SameTree
  <2>4. /\ (at # Finished => PathInv)'
        /\ (at # Finished => TodoInv)'
    <3>1. (at # Finished => PathInv)'
      BY <2>1, <2>2, ZenonT(60) DEF PathInv, DepthOf, LevelOf, TooDeep
    <3>2. (at # Finished => TodoInv)'
      BY <2>1, <2>2, ZenonT(60) DEF TodoInv, DepthOf, LevelOf, TooDeep
    <3> QED BY <3>1, <3>2
  <2>5. /\ (at # Finished => CoverInv)'
        /\ (at # Finished => VisitedInv)'
    <3>1. (at # Finished => CoverInv)'
      BY <2>1, <2>2, ZenonT(60) DEF CoverInv, DepthOf, LevelOf, TooDeep, ChildrenOf
    <3>2. (at # Finished => VisitedInv)'
      BY <2>1, <2>2, ZenonT(60) DEF VisitedInv, DepthOf, LevelOf, TooDeep
    <3> QED BY <3>1, <3>2
  <2>6. (at # Finished => ResultInv)'
    BY <2>1, <2>2, ZenonT(60) DEF ResultInv
  <2>7. WindowTreeComplete'
    BY <2>1, <2>2, ZenonT(60) DEF WindowTreeComplete, ListsExactly, Below, Closed, ChildrenOf
  <2>8. UiElementsToDepth'
    BY <2>1, <2>2, ZenonT(60)
       DEF UiElementsToDepth, ListsExactly, Below, Closed, LevelsBelow, LevelOf
  <2>9. FakeFindExact'
    BY <2>1, <2>2, ZenonT(60) DEF FakeFindExact, Below, Closed
  <2> QED BY <2>3, <2>4, <2>5, <2>6, <2>7, <2>8, <2>9 DEF WalkInv, Walking
<1>2. ASSUME UiTreeNext PROVE TreeInv /\ Walking /\ TreeInv'
  <2>1. at # Finished
    BY <1>2, UiTreeAssumption, LevelFacts
       DEF UiTreeNext, Descend, Skip, Match, Ascend, Return, WalkInv, Tops, Root, Finished
  <2>2. UNCHANGED <<parent, levels, call>>
    BY <1>2 DEF UiTreeNext, Descend, Skip, Match, Ascend, Return
  <2> QED BY <2>1, <2>2, SameTree DEF WalkInv, Walking
<1>3. ASSUME UiTreeNext, Walking', at' # Finished PROVE WalkInv'
  BY <1>2, <1>3 DEF WalkInv, Walking, WindowTreeComplete, UiElementsToDepth, FakeFindExact
<1>4. ASSUME UiTreeNext, WindowTreeComplete', UiElementsToDepth', FakeFindExact', at' = Finished
      PROVE  WalkInv'
  BY <1>2, <1>4 DEF WalkInv
<1>5. ASSUME UiTreeNext, Walking' PROVE at' # Finished
  BY <1>5, <1>2, UiTreeAssumption DEF Walking, PathInv, Tops, Root, Finished
<1>6. ASSUME NEW c \in Nodes, Descend(c) PROVE WalkInv'
  <2>1. UiTreeNext BY <1>6 DEF UiTreeNext
  <2> QED BY <1>2, <1>3, <1>5, <1>6, <2>1, WalkDescend
<1>7. ASSUME NEW c \in Nodes, Skip(c) PROVE WalkInv'
  <2>1. UiTreeNext BY <1>7 DEF UiTreeNext
  <2> QED BY <1>2, <1>3, <1>5, <1>7, <2>1, WalkSkip
<1>8. ASSUME NEW c \in Nodes, Match(c) PROVE WalkInv'
  <2>1. UiTreeNext /\ at' = Finished BY <1>8 DEF UiTreeNext, Match
  <2> QED BY <1>2, <1>4, <1>8, <2>1, WalkMatch
<1>9. CASE Ascend
  <2>1. UiTreeNext BY <1>9 DEF UiTreeNext
  <2> QED BY <1>2, <1>3, <1>5, <1>9, <2>1, WalkAscend
<1>10. CASE Return
  <2>1. UiTreeNext /\ at' = Finished BY <1>10 DEF UiTreeNext, Return
  <2> QED BY <1>2, <1>4, <1>10, <2>1, WalkReturn
<1> QED BY <1>1, <1>6, <1>7, <1>8, <1>9, <1>10 DEF UiTreeNext

LEMMA WalkInvariant == UiTreeSpec => []WalkInv
  BY WalkInit, WalkStep, PTL DEF UiTreeSpec

(* The window tree of both backends lists each window under the one asked  *)
(* for, and that one, exactly once; of the desktop the fake backend lists  *)
(* all windows and the win32 one the top-level windows.                    *)
THEOREM WindowTreesComplete == UiTreeSpec => []WindowTreeComplete
<1>1. WalkInv => WindowTreeComplete BY DEF WalkInv
<1> QED BY <1>1, WalkInvariant, PTL

(* ui.inspect lists the elements down to uia_depth, each once, whatever    *)
(* elements of the tree could not be got.                                  *)
THEOREM ElementsToDepth == UiTreeSpec => []UiElementsToDepth
<1>1. WalkInv => UiElementsToDepth BY DEF WalkInv
<1> QED BY <1>1, WalkInvariant, PTL

(* The fake backend's find_and_invoke returns true exactly when an element *)
(* below the window has the automation id.                                 *)
THEOREM FakeFindIsExact == UiTreeSpec => []FakeFindExact
<1>1. WalkInv => FakeFindExact BY DEF WalkInv
<1> QED BY <1>1, WalkInvariant, PTL
=============================================================================
