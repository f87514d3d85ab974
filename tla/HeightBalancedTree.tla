--------------------------- MODULE HeightBalancedTree ---------------------------
(***************************************************************************)
(* The height balanced tree of parflow_lib/hbt.c, which stores the input   *)
(* database.  A tree is the head structure HBT: root, height, num, and the *)
(* elements reachable from it, here a function from keys to elements.  An  *)
(* element never changes its key, so a pointer to an element is its key    *)
(* and compare is the order of the keys.  The two mirrored branches of the *)
(* code (LEFT and RIGHT) are one definition with a direction.              *)
(***************************************************************************)
EXTENDS Integers, SequencesExt

NULL  == 0             \* keys are positive integers
FAULT == -1            \* root of a tree in which a null pointer was followed

UNBALANCED_LEFT  == -1
BALANCED         == 0
UNBALANCED_RIGHT == 1

\* calloc in HBT_new: the empty tree.
HBT_new == [root |-> NULL, height |-> 0, num |-> 0, node |-> << >>]

\* _new_HBT_element
NewElement(obj) ==
  [obj |-> obj, balance |-> BALANCED, son |-> [d \in {-1, 1} |-> NULL]]

Son(t, x, dir) == t.node[x].son[dir]
B(t, x)        == t.node[x].balance
Dir(k, x)      == IF k < x THEN UNBALANCED_LEFT ELSE UNBALANCED_RIGHT

SetSon(t, x, dir, y) == [t EXCEPT !.node[x].son[dir] = y]
SetB(t, x, b)        == [t EXCEPT !.node[x].balance = b]

\* Point the father of a subtree, at place i of the path, at its new root.
SetSubtree(t, path, dirs, i, x) ==
  IF i = 1 THEN [t EXCEPT !.root = x] ELSE SetSon(t, path[i - 1], dirs[i - 1], x)

\* What a pointer to an element may hold.
Pointers(t) == DOMAIN t.node \cup {NULL}

\* The elements compared with k on the way down from x, k itself included.
Descend(t, k, x) ==
  LET down[y \in Pointers(t)] ==
        IF y = NULL THEN << >>
        ELSE IF y = k THEN <<y>>
        ELSE <<y>> \o down[Son(t, y, Dir(k, y))]
  IN  down[x]

Path(t, k) == Descend(t, k, t.root)

Leftmost(t, x) ==
  LET down[y \in DOMAIN t.node] ==
        LET left == Son(t, y, UNBALANCED_LEFT)
        IN  IF left = NULL THEN y ELSE down[left]
  IN  down[x]

\* Key of the object found, NULL when there is none.
HBT_lookup(t, k) == IF k \in Range(Path(t, k)) THEN k ELSE NULL
--------------------------------------------------------------------------------
\* The rotations shared by insertion and deletion: x is too high in direction d.
\* Only links change.
SingleRotation(t, x, d) ==
  LET son == Son(t, x, d)
  IN  SetSon(SetSon(t, x, d, Son(t, son, -d)), son, -d, x)

DoubleRotation(t, x, d) ==
  LET son      == Son(t, x, d)
      grandson == Son(t, son, -d)
      t1 == SetSon(t, son, -d, Son(t, grandson, d))
      t2 == SetSon(t1, x, d, Son(t, grandson, -d))
  IN  SetSon(SetSon(t2, grandson, d, son), grandson, -d, x)

\* Balance factors of the elements that insertion rotates twice; seeded fault: the
\* factors of the element and of its son exchanged.
InsertBalancesSwapped(t, x, son, grandson, d) ==
  LET b == B(t, grandson)
  IN  SetB(SetB(SetB(t, son, IF b = d THEN -d ELSE BALANCED),
                x, IF b = -d THEN d ELSE BALANCED),
           grandson, BALANCED)

InsertBalances(t, x, son, grandson, d) ==
  LET b == B(t, grandson)
  IN  SetB(SetB(SetB(t, x, IF b = d THEN -d ELSE BALANCED),
                son, IF b = -d THEN d ELSE BALANCED),
           grandson, BALANCED)

\* Place on the path from which balances change: the last element that was not
\* balanced, or the root.
RebalancePlace(t, path) ==
  CHOOSE i \in 1..Len(path) :
    /\ i = 1 \/ B(t, path[i]) # BALANCED
    /\ \A j \in (i + 1)..Len(path) : B(t, path[j]) = BALANCED

Rebalanced(t, path, dirs, i) ==
  LET x == path[i]
      d == dirs[i]
      son == Son(t, x, d)
      grandson == Son(t, son, -d)
  IN  CASE B(t, x) = BALANCED -> [SetB(t, x, d) EXCEPT !.height = t.height + 1]
        [] B(t, x) = -d -> SetB(t, x, BALANCED)
        [] B(t, x) = d /\ B(t, son) = d ->
             SetSubtree(SetB(SetB(SingleRotation(t, x, d), x, BALANCED),
                             son, BALANCED),
                        path, dirs, i, son)
        [] OTHER ->
             SetSubtree(InsertBalances(DoubleRotation(t, x, d), x, son, grandson, d),
                        path, dirs, i, grandson)

\* HBT_insert: an object whose key is in the tree is not added (HBT_FOUND).
HBT_insert(t, k, obj) ==
  LET path == Path(t, k)
      dirs == [i \in DOMAIN path |-> Dir(k, path[i])]
      i    == RebalancePlace(t, path)
      grown == SetSon([t EXCEPT !.num = @ + 1,
                                !.node = [x \in DOMAIN @ \cup {k} |->
                                   IF x = k THEN NewElement(obj) ELSE @[x]]],
                      Last(path), Last(dirs), k)
      unbalanced == [grown EXCEPT !.node =
                       [x \in DOMAIN @ |->
                          IF \E j \in (i + 1)..Len(path) : path[j] = x
                          THEN [@[x] EXCEPT !.balance = Dir(k, x)] ELSE @[x]]]
  IN  IF t.root = NULL
      THEN [root |-> k, height |-> 1, num |-> 1,
            node |-> [x \in {k} |-> NewElement(obj)]]
      ELSE IF k \in Range(path) THEN t
      ELSE Rebalanced(unbalanced, path, dirs, i)
--------------------------------------------------------------------------------
\* One turn of the loop of HBT_delete, at place top of the stack of elements and
\* directions: the tree it leaves, and whether the loop goes on upward.
ShrinkAt(t, stack, dirs, top) ==
  LET current == stack[top]
      dir     == dirs[top]
      son     == Son(t, current, -dir)
      grandson == Son(t, son, dir)
      stop(u) == [tree |-> u, upward |-> FALSE]
      up(u)   == [tree |-> IF top = 1 THEN [u EXCEPT !.height = @ - 1] ELSE u,
                  upward |-> TRUE]
      link(u, x) == SetSubtree(u, stack, dirs, top, x)
  IN  IF B(t, current) = BALANCED THEN stop(SetB(t, current, -dir))
      ELSE IF B(t, current) = dir THEN up(SetB(t, current, BALANCED))
      ELSE IF son = NULL THEN stop([t EXCEPT !.root = FAULT])
      ELSE IF B(t, son) = BALANCED
           THEN stop(link(SetB(SingleRotation(t, current, -dir), son, dir), son))
      ELSE IF B(t, son) = -dir
           THEN up(link(SetB(SetB(SingleRotation(t, current, -dir),
                                  current, BALANCED), son, BALANCED), son))
      ELSE IF grandson = NULL THEN stop([t EXCEPT !.root = FAULT])
      ELSE LET b == B(t, grandson)
           IN  up(link(SetB(SetB(DoubleRotation(t, current, -dir),
                                 son, IF b = dir THEN -dir ELSE BALANCED),
                            current, IF b = -dir THEN dir ELSE BALANCED),
                       grandson))

\* The loop, from the top of the stack until a turn stops it or the stack is empty.
Shrunk(t, stack, dirs) ==
  LET after[n \in 0..Len(stack)] ==
        IF n = 0 THEN [tree |-> t, upward |-> TRUE]
        ELSE IF after[n - 1].upward
             THEN ShrinkAt(after[n - 1].tree, stack, dirs, Len(stack) - n + 1)
             ELSE after[n - 1]
  IN  after[Len(stack)].tree

\* The chain of left sons from x down to the father of the leftmost element.
LeftSpine(t, x) ==
  LET spine[y \in DOMAIN t.node] ==
        LET left == Son(t, y, UNBALANCED_LEFT)
        IN  IF Son(t, left, UNBALANCED_LEFT) = NULL THEN <<y>>
            ELSE <<y>> \o spine[left]
  IN  spine[x]

\* The son that takes the place of an element with one son or none; seeded fault:
\* the right one whatever.
OnlySonRight(left, right) == right

OnlySon(left, right) == IF right = NULL THEN left ELSE right

\* HBT_delete: the element goes, its successor takes its place if it has two
\* sons, and the tree is rebalanced up the stack.  When the successor is not the
\* son of the element, the stack holds the son in the element's place and with
\* the element's direction, and the successor is not on it.
HBT_delete(t, k) ==
  LET path   == Path(t, k)
      above  == Front(path)
      dirs   == [i \in DOMAIN above |-> Dir(k, above[i])]
      left   == Son(t, k, UNBALANCED_LEFT)
      right  == Son(t, k, UNBALANCED_RIGHT)
      replace(u, x) == SetSubtree(u, path, dirs, Len(path), x)
      drop(u) == [u EXCEPT !.num = @ - 1,
                           !.node = Restrict(@, DOMAIN @ \ {k})]
      successor == Leftmost(t, right)
      spine  == LeftSpine(t, right)
      t1 == SetSon(t, successor, UNBALANCED_LEFT, left)
      t2 == SetSon(SetSon(t1, Last(spine), UNBALANCED_LEFT,
                          Son(t, successor, UNBALANCED_RIGHT)),
                   successor, UNBALANCED_RIGHT, right)
      without == replace(t, OnlySon(left, right))
  IN  IF k \notin Range(path) THEN t
      ELSE IF right = NULL \/ left = NULL
           THEN drop(Shrunk(IF above = << >>
                            THEN [without EXCEPT !.height = @ - 1] ELSE without,
                            above, dirs))
      ELSE IF successor = right
           THEN drop(Shrunk(SetB(replace(t1, right), right, B(t, k)),
                            Append(above, right), Append(dirs, UNBALANCED_RIGHT)))
      ELSE drop(Shrunk(SetB(replace(t2, successor), successor, B(t, k)),
                       above \o spine,
                       dirs \o [i \in DOMAIN spine |->
                                  IF i = 1 THEN UNBALANCED_RIGHT
                                           ELSE UNBALANCED_LEFT]))
--------------------------------------------------------------------------------
\* The last element on the path to k that was left to the left.
LastGreaterAbove(path, k) == path[Max({i \in DOMAIN path : k < path[i]})]

\* HBT_successor; the key NULL asks for the first object.
HBT_successor(t, k) ==
  LET path  == Path(t, k)
      right == Son(t, k, UNBALANCED_RIGHT)
  IN  IF t.root = NULL THEN NULL
      ELSE IF k = NULL THEN Leftmost(t, t.root)
      ELSE IF k \notin Range(path) THEN NULL
      ELSE IF right # NULL THEN Leftmost(t, right)
      ELSE IF \A i \in DOMAIN path : path[i] <= k THEN NULL
      ELSE LastGreaterAbove(path, k)

\* _HBT_printf: the keys in the order in which the objects are printed.
PrintFrom(t, x) ==
  LET printed[y \in Pointers(t)] ==
        IF y = NULL THEN << >>
        ELSE printed[Son(t, y, UNBALANCED_LEFT)] \o <<y>>
               \o printed[Son(t, y, UNBALANCED_RIGHT)]
  IN  printed[x]

HBT_printf(t) == PrintFrom(t, t.root)
--------------------------------------------------------------------------------
\* Reference definitions.
HeightOf(t, x) ==
  LET height[y \in Pointers(t)] ==
        IF y = NULL THEN 0
        ELSE 1 + Max({height[Son(t, y, d)] : d \in {-1, 1}})
  IN  height[x]

HeightBalanced(t) ==
  /\ t.height = HeightOf(t, t.root)
  /\ \A x \in DOMAIN t.node :
       /\ B(t, x) \in -1..1
       /\ B(t, x) = HeightOf(t, Son(t, x, 1)) - HeightOf(t, Son(t, x, -1))

\* The least key greater than k, NULL when there is none.
NextKey(t, k) ==
  LET greater == {x \in DOMAIN t.node : x > k}
  IN  IF greater = {} \/ (k # NULL /\ k \notin DOMAIN t.node)
      THEN NULL ELSE Min(greater)
================================================================================
