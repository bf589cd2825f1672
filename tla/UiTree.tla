------------------------------- MODULE UiTree -------------------------------
(***************************************************************************)
(* The recursions over the windows and elements of the desktop:            *)
(* get_window_tree of both backends, walk_uia_tree, and find_and_invoke of *)
(* the fake backend.  Nodes are windows or elements; the call that goes    *)
(* through the children of a node was made by the one that goes through    *)
(* the children of its parent, so that the stack of calls is a set.  The   *)
(* children come in any order, and do not change while they are walked.    *)
(***************************************************************************)
EXTENDS Integers

CONSTANTS
    Nodes,
    Forests,    \* of every node the parent, Root for a top-level one, and the level
    MaxDepths   \* values of uia_depth_

Root == 0
Finished == -1

(* What a parent function and levels are for a forest. *)
IsForest(f) ==
    /\ f.parent \in [Nodes -> Nodes \cup {Root}]
    /\ f.levels \in [Nodes -> Nat]
    /\ \A n \in Nodes :
          f.levels[n] = IF f.parent[n] = Root THEN 0 ELSE f.levels[f.parent[n]] + 1

ASSUME UiTreeAssumption ==
    /\ Root \notin Nodes /\ Finished \notin Nodes
    /\ \A f \in Forests : IsForest(f)
    /\ MaxDepths \subseteq Int

VARIABLES
    parent, levels,
    call,       \* what is called, and with which arguments
    at,         \* the node whose children the innermost call goes through
    depth,      \* depth of the innermost call
    stack,      \* the nodes whose children some call goes through
    todo,       \* of each of them, the children it has not come to
    skipped,    \* the elements that could not be got
    visited,    \* the nodes for whose children a call has returned
    times,      \* how often each node was put into the result
    found       \* what find_and_invoke returned

uiTree ==
    <<parent, levels, call, at, depth, stack, todo, skipped, visited, times, found>>

(* get_window_tree, walk_uia_tree and find_and_invoke.  Root is the        *)
(* desktop or, for elements, the window; several elements may have the     *)
(* automation id that is looked for.                                       *)
TreeCalls == [fn : {"fake_tree", "win32_tree"}, top : Nodes \cup {Root}]
WalkCalls == [fn : {"walk"}, top : Nodes \cup {Root}, max_depth : MaxDepths]
FindCalls == [fn : {"find"}, top : Nodes \cup {Root}, having : SUBSET Nodes]

ChildrenOf(h) == {c \in Nodes : parent[c] = h}

(* The last level is not listed. *)
TooDeepSlip(d) == call.fn = "walk" /\ d >= call.max_depth

(* Of the desktop the Win32 backend lists the top-level windows only. *)
TooDeep(d) ==
    \/ call.fn = "walk" /\ d > call.max_depth
    \/ call.fn = "win32_tree" /\ call.top = Root /\ d > 0

ToVisit(h, d) == IF TooDeep(d) THEN {} ELSE ChildrenOf(h)

UiTreeInit ==
    /\ \E f \in Forests : parent = f.parent /\ levels = f.levels
    /\ call \in TreeCalls \cup WalkCalls \cup FindCalls
    /\ at = call.top /\ depth = 0 /\ stack = {call.top}
    /\ todo = [h \in Nodes \cup {Root} |-> IF h = call.top THEN ToVisit(h, 0) ELSE {}]
    /\ skipped = {} /\ visited = {} /\ times = [n \in Nodes |-> 0] /\ found = FALSE

Matches(c) == call.fn = "find" /\ c \in call.having

(* The recursive call for a child. *)
Descend(c) ==
    /\ at # Finished /\ c \in todo[at] /\ ~Matches(c)
    /\ todo' = [todo EXCEPT ![at] = @ \ {c}, ![c] = ToVisit(c, depth + 1)]
    /\ at' = c
    /\ depth' = depth + 1
    /\ stack' = stack \cup {c}
    /\ UNCHANGED <<parent, levels, call, skipped, visited, times, found>>

(* GetElement fails; when FindAll does, or there is no element for the     *)
(* window, it is as if it failed for all.                                  *)
Skip(c) ==
    /\ at # Finished /\ c \in todo[at] /\ call.fn = "walk"
    /\ todo' = [todo EXCEPT ![at] = @ \ {c}]
    /\ skipped' = skipped \cup {c}
    /\ UNCHANGED <<parent, levels, call, at, depth, stack, visited, times, found>>

(* What the recursive call returns is lost. *)
MatchSlip(c) ==
    /\ at # Finished /\ c \in todo[at] /\ Matches(c)
    /\ found' = (at = call.top)
    /\ at' = Finished
    /\ UNCHANGED <<parent, levels, call, depth, stack, todo, skipped, visited, times>>

(* Every call on the stack returns true. *)
Match(c) ==
    /\ at # Finished /\ c \in todo[at] /\ Matches(c)
    /\ found' = TRUE
    /\ at' = Finished
    /\ UNCHANGED <<parent, levels, call, depth, stack, todo, skipped, visited, times>>

Put(n) == times' = [times EXCEPT ![n] = @ + 1]

(* The call returns, and its caller puts the node into its list. *)
Ascend ==
    /\ at \in Nodes /\ at # call.top /\ todo[at] = {}
    /\ IF call.fn = "find" THEN UNCHANGED times ELSE Put(at)
    /\ at' = parent[at]
    /\ depth' = depth - 1
    /\ stack' = stack \ {at}
    /\ visited' = visited \cup {at}
    /\ UNCHANGED <<parent, levels, call, todo, skipped, found>>

(* One backend lists only what is under the window. *)
HasRootSlip == call.fn = "fake_tree" /\ call.top # Root

(* A window tree has its root in it, unless that is the desktop. *)
HasRoot == call.fn \in {"fake_tree", "win32_tree"} /\ call.top # Root

Return ==
    /\ at = call.top /\ todo[at] = {}
    /\ IF HasRoot THEN Put(at) ELSE UNCHANGED times
    /\ at' = Finished
    /\ UNCHANGED <<parent, levels, call, depth, stack, todo, skipped, visited, found>>

UiTreeNext ==
    \/ \E c \in Nodes : Descend(c) \/ Skip(c) \/ Match(c)
    \/ Ascend \/ Return

UiTreeSpec == UiTreeInit /\ [][UiTreeNext]_uiTree

-----------------------------------------------------------------------------
(* What is below the node asked for: in every set that has its children    *)
(* and with a node the children of it, as far as they could be got.        *)
Closed(S) ==
    \A c \in Nodes \ skipped : parent[c] = call.top \/ parent[c] \in S => c \in S

Below == {n \in Nodes : \A S \in SUBSET Nodes : Closed(S) => n \in S}

(* How many levels a node is below the children of the one asked for. *)
LevelOf(h) == IF h = Root THEN -1 ELSE levels[h]
LevelsBelow(n) == LevelOf(n) - LevelOf(call.top) - 1

ListsExactly(S) == \A n \in Nodes : times[n] = IF n \in S THEN 1 ELSE 0

(* A window tree lists the window asked for and every window under it      *)
(* exactly once; for the desktop, the fake backend lists all windows and   *)
(* the win32 one the top-level windows.                                    *)
WindowTreeComplete ==
    at = Finished =>
        /\ call.fn \in {"fake_tree", "win32_tree"} /\ call.top # Root
              => ListsExactly(Below \cup {call.top})
        /\ call.fn = "fake_tree" /\ call.top = Root => ListsExactly(Nodes)
        /\ call.fn = "win32_tree" /\ call.top = Root => ListsExactly(ChildrenOf(Root))

(* ui.inspect lists the elements at most uia_depth levels below the        *)
(* children of the window, each once; what could not be got is missing     *)
(* with everything below it, and nothing else.                             *)
UiElementsToDepth ==
    at = Finished /\ call.fn = "walk" =>
        ListsExactly({n \in Below : LevelsBelow(n) <= call.max_depth})

(* The fake backend's search, find_and_invoke, finds an automation id      *)
(* exactly when an element below the window has it, at whatever level.     *)
(* (The Win32 backend leaves the search to UI Automation, which looks at   *)
(* the window too, and the element must support being invoked: that is     *)
(* not modelled.)                                                          *)
FakeFindExact ==
    at = Finished /\ call.fn = "find" => (found <=> call.having \cap Below # {})
=============================================================================
