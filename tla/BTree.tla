-------------------------------- MODULE BTree -------------------------------
(***************************************************************************)
(* BTree of app/simpleBtree: insertion that splits full nodes on the way   *)
(* down, deletion that fills thin nodes on the way down.  Both descend     *)
(* without coming back up, so one action is one level of the descent.      *)
(*                                                                         *)
(* A node has the arrays of the code, entries past key_num included: they  *)
(* keep what was there.  NULL is the null pointer; malloc takes the lowest *)
(* free number.                                                            *)
(***************************************************************************)
EXTENDS Integers, Sequences, FiniteSetsExt, TLC

CONSTANTS
  M,             \* the degree
  Keys, Nodes, NULL,
  Workloads,     \* orders in which callers insert
  Late,          \* bound: they delete once at most Late insertions are to come
  AbsentDeletes  \* whether del is called for a key that is not there

VARIABLES
  node,    \* the nodes that are allocated
  roots,
  cursor,  \* the call under way: what it does, where it is, and its target
  btree_node_num,
  inTree,  \* ghost: how often a key was inserted and not deleted
  todo     \* the keys still to be inserted

vars == <<node, roots, cursor, btree_node_num, inTree, todo>>

KeyIdx == 0 .. 2 * M - 2
ChildIdx == 0 .. 2 * M - 1
NoCall == [op |-> "none", at |-> NULL, target |-> 0]

\* The loops that move f[from .. to - 1] up by one, f[from + 1 .. to] down.
ShiftUp(f, from, to) ==
  [i \in DOMAIN f |-> IF from < i /\ i <= to THEN f[i - 1] ELSE f[i]]
ShiftDown(f, from, to) ==
  [i \in DOMAIN f |-> IF from <= i /\ i < to THEN f[i + 1] ELSE f[i]]

btree_node_new == [k |-> [i \in KeyIdx |-> 0], p |-> [i \in ChildIdx |-> NULL],
                   key_num |-> 0, is_leaf |-> TRUE]

Malloc(h) == Min(Nodes \ DOMAIN h)
Free(h, x) == [y \in DOMAIN h \ {x} |-> h[y]]

\* The upper keys and children of child go to a new node, its middle key and
\* the new node into the parent.
btree_split_child(h, parent, pos, child, new) ==
  LET c == h[child]
      q == h[parent]
  IN  [h EXCEPT
         ![child].key_num = M - 1,
         ![parent] =
           [q EXCEPT !.p = [ShiftUp(@, pos + 1, q.key_num + 1) EXCEPT ![pos + 1] = new],
                     !.k = [ShiftUp(@, pos, q.key_num) EXCEPT ![pos] = c.k[M - 1]],
                     !.key_num = @ + 1]]
      @@ new :> [k |-> [i \in KeyIdx |-> IF i < M - 1 THEN c.k[i + M] ELSE 0],
                 p |-> [i \in ChildIdx |->
                          IF i < M /\ ~c.is_leaf THEN c.p[i + M] ELSE NULL],
                 key_num |-> M - 1, is_leaf |-> c.is_leaf]

\* root->k[pos] and all of z go to the end of y.
btree_merge_child(h, root, pos, y, z) ==
  LET r == h[root]
      merged ==
        [h EXCEPT
           ![y] = [@ EXCEPT
              !.key_num = 2 * M - 1,
              !.k = [i \in KeyIdx |-> CASE i >= M -> h[z].k[i - M]
                                        [] i = M - 1 -> r.k[pos]
                                        [] OTHER -> @[i]],
              !.p = [i \in ChildIdx |->
                       IF i >= M /\ ~h[z].is_leaf THEN h[z].p[i - M] ELSE @[i]]],
           ![root] = [@ EXCEPT !.k = ShiftDown(@, pos, r.key_num - 1),
                               !.p = ShiftDown(@, pos + 1, r.key_num),
                               !.key_num = @ - 1]]
  IN  Free(merged, z)

\* z borrows from its left neighbour y through root->k[pos].
btree_shift_to_right_child(h, root, pos, y, z) ==
  [h EXCEPT
     ![z] = [@ EXCEPT
        !.key_num = @ + 1,
        !.k = [ShiftUp(@, 0, h[z].key_num) EXCEPT ![0] = h[root].k[pos]],
        !.p = IF h[z].is_leaf THEN @
              ELSE [ShiftUp(@, 0, h[z].key_num + 1) EXCEPT ![0] = h[y].p[h[y].key_num]]],
     ![root].k[pos] = h[y].k[h[y].key_num - 1],
     ![y].key_num = @ - 1]

\* y borrows from its right neighbour z.
btree_shift_to_left_child(h, root, pos, y, z) ==
  [h EXCEPT
     ![y] = [@ EXCEPT
        !.key_num = @ + 1,
        !.k[h[y].key_num] = h[root].k[pos],
        !.p[h[y].key_num + 1] = IF h[z].is_leaf THEN @ ELSE h[z].p[0]],
     ![root].k[pos] = h[z].k[0],
     ![z] = [@ EXCEPT
        !.k = ShiftDown(@, 0, h[z].key_num - 1),
        !.p = IF h[z].is_leaf THEN @ ELSE ShiftDown(@, 0, h[z].key_num),
        !.key_num = @ - 1]]

\* Following the last, or the first, child down to a leaf.
Descend(h, x, Child(_)) ==
  LET at[d \in 0 .. Cardinality(Nodes)] ==
        IF d = 0 THEN x
        ELSE IF h[at[d - 1]].is_leaf THEN at[d - 1] ELSE h[at[d - 1]].p[Child(h[at[d - 1]])]
  IN  at[Cardinality(Nodes)]

btree_search_predecessor(h, x) ==
  LET y == h[Descend(h, x, LAMBDA n : n.key_num)] IN y.k[y.key_num - 1]
btree_search_successor(h, x) == h[Descend(h, x, LAMBDA n : 0)].k[0]

\* How far the loops of insertion, from the right, and of deletion and find,
\* from the left, go.
InsertPos(n, t) == Max({0} \cup {i \in 1 .. n.key_num : t >= n.k[i - 1]})
DeletePos(n, t) == Min({n.key_num} \cup {i \in 0 .. n.key_num - 1 : t <= n.k[i]})
FindPos(n, t) == Min({n.key_num} \cup {i \in 0 .. n.key_num - 1 : t < n.k[i]})

\* find: the nodes on the way down, and whether one of them has the key.
find(key) ==
  LET NextNode(x) ==
        LET n == node[x] IN IF key < n.k[0] THEN n.p[0] ELSE n.p[FindPos(n, key)]
      Here(x) ==
        LET n == node[x]
            i == FindPos(n, key)
        IN  ~(key < n.k[0]) /\ i > 0 /\ n.k[i - 1] = key
      at[d \in 0 .. Cardinality(Nodes)] ==
        IF d = 0 THEN roots ELSE IF at[d - 1] = NULL THEN NULL ELSE NextNode(at[d - 1])
  IN  \E d \in 0 .. Cardinality(Nodes) : at[d] # NULL /\ Here(at[d])

-----------------------------------------------------------------------------

Init ==
  /\ roots = Min(Nodes)
  /\ node = (roots :> btree_node_new)
  /\ cursor = NoCall
  /\ btree_node_num = 0
  /\ inTree = [t \in Keys |-> 0]
  /\ todo \in Workloads

Call(op, x, t) == cursor' = [op |-> op, at |-> x, target |-> t]

\* A full root is split under a new one.  top and new are what btree_node_new
\* returns, should it be called.
btree_insert(t, top, new) ==
  /\ cursor = NoCall
  /\ inTree' = [inTree EXCEPT ![t] = @ + 1]
  /\ IF node[roots].key_num = 2 * M - 1
     THEN LET grown == top :> [btree_node_new EXCEPT !.is_leaf = FALSE, !.p[0] = roots]
                       @@ node
          IN  /\ node' = btree_split_child(grown, top, 0, roots, new)
              /\ roots' = top
              /\ Call("insert", top, t)
     ELSE Call("insert", roots, t) /\ UNCHANGED <<node, roots>>
  /\ UNCHANGED btree_node_num

\* The descent stays in the left half of the child that was split.
LeftHalf(n, pos, t) == n.p[pos]

\* It goes on in the half in whose range the target is.
ProperHalf(n, pos, t) == n.p[IF t > n.k[pos] THEN pos + 1 ELSE pos]

\* follows: whether this version of the code looks at the range at all.
btree_insert_nonfull(new, follows) ==
  LET x == cursor.at
      t == cursor.target
      n == node[x]
      pos == InsertPos(n, t)
  IN  /\ cursor.op = "insert"
      /\ IF n.is_leaf
         THEN /\ node' = [node EXCEPT ![x] = [@ EXCEPT
                   !.k = [ShiftUp(@, pos, n.key_num) EXCEPT ![pos] = t],
                   !.key_num = @ + 1]]
              /\ btree_node_num' = btree_node_num + 1
              /\ cursor' = NoCall
         ELSE /\ IF node[n.p[pos]].key_num = 2 * M - 1
                 THEN /\ node' = btree_split_child(node, x, pos, n.p[pos], new)
                      /\ Call("insert", IF follows THEN ProperHalf(node'[x], pos, t)
                                        ELSE LeftHalf(node'[x], pos, t), t)
                 ELSE Call("insert", n.p[pos], t) /\ UNCHANGED node
              /\ UNCHANGED btree_node_num
      /\ UNCHANGED <<roots, inTree>>

\* A root with one key and two thin children is merged away.
btree_delete(t) ==
  LET r == node[roots]
      y == r.p[0]
      z == r.p[1]
  IN  /\ cursor = NoCall
      /\ AbsentDeletes \/ inTree[t] > 0
      /\ inTree' = [inTree EXCEPT ![t] = IF @ = 0 THEN 0 ELSE @ - 1]
      /\ IF /\ r.key_num = 1 /\ y # NULL /\ z # NULL
            /\ node[y].key_num = M - 1 /\ node[z].key_num = M - 1
         THEN /\ node' = Free(btree_merge_child(node, roots, 0, y, z), roots)
              /\ roots' = y
              /\ Call("delete", y, t)
         ELSE Call("delete", roots, t) /\ UNCHANGED <<node, roots>>
      /\ UNCHANGED btree_node_num

\* The key at i of a leaf is compared without asking whether i < key_num;
\* past the array the comparison can have either outcome.
LeafHas(n, i, t, b) == IF i \in KeyIdx THEN b = (n.k[i] = t) ELSE b \in BOOLEAN

DeleteFromLeaf(x, t) ==
  LET n == node[x]
      i == DeletePos(n, t)
  IN  \E has \in BOOLEAN :
        /\ LeafHas(n, i, t, has)
        /\ node' = IF has THEN [node EXCEPT ![x] = [@ EXCEPT
                                  !.k = ShiftDown(@, i, 2 * M - 2), !.key_num = @ - 1]]
                   ELSE node
        /\ btree_node_num' = btree_node_num - (IF has THEN 1 ELSE 0)
        /\ cursor' = NoCall

\* The target is in an inner node: cases 2a, 2b, 2c.
DeleteFromInner(x, i, t) ==
  LET y == node[x].p[i]
      z == node[x].p[i + 1]
      pre == btree_search_predecessor(node, y)
      succ == btree_search_successor(node, z)
  IN  CASE node[y].key_num > M - 1 ->
             node' = [node EXCEPT ![x].k[i] = pre] /\ Call("delete", y, pre)
        [] node[y].key_num <= M - 1 /\ node[z].key_num > M - 1 ->
             node' = [node EXCEPT ![x].k[i] = succ] /\ Call("delete", z, succ)
        [] OTHER ->
             node' = btree_merge_child(node, x, i, y, z) /\ Call("delete", y, t)

\* The target is below a thin child: cases 3a, 3b, 3c.
FillChild(x, i, t) ==
  LET n == node[x]
      y == n.p[i]
      Rich(j) == j \in 0 .. n.key_num /\ node[n.p[j]].key_num > M - 1
  IN  CASE Rich(i - 1) ->
             /\ node' = btree_shift_to_right_child(node, x, i - 1, n.p[i - 1], y)
             /\ Call("delete", y, t)
        [] ~Rich(i - 1) /\ Rich(i + 1) ->
             /\ node' = btree_shift_to_left_child(node, x, i, y, n.p[i + 1])
             /\ Call("delete", y, t)
        [] ~Rich(i - 1) /\ ~Rich(i + 1) /\ i > 0 ->
             /\ node' = btree_merge_child(node, x, i - 1, n.p[i - 1], y)
             /\ Call("delete", n.p[i - 1], t)
        [] OTHER ->
             /\ node' = btree_merge_child(node, x, i, y, n.p[i + 1])
             /\ Call("delete", y, t)

\* In case 2c the code calls btree_delete for y, which has 2M - 1 keys: for
\* M > 1 that is the call of btree_delete_nonone.
btree_delete_nonone ==
  LET x == cursor.at
      t == cursor.target
      n == node[x]
      i == DeletePos(n, t)
      here == i < n.key_num /\ n.k[i] = t
  IN  /\ cursor.op = "delete"
      /\ IF n.is_leaf THEN DeleteFromLeaf(x, t)
         ELSE /\ CASE here -> DeleteFromInner(x, i, t)
                   [] ~here /\ node[n.p[i]].key_num = M - 1 -> FillChild(x, i, t)
                   [] OTHER -> Call("delete", n.p[i], t) /\ UNCHANGED node
              /\ UNCHANGED btree_node_num
      /\ UNCHANGED <<roots, inTree>>

insert ==
  LET top == Malloc(node)
      new == Min((Nodes \ DOMAIN node) \ {top})
  IN  todo # <<>> /\ btree_insert(Head(todo), top, new) /\ todo' = Tail(todo)
InsertStep == btree_insert_nonfull(Malloc(node), TRUE) /\ UNCHANGED todo
del(t) == Len(todo) <= Late /\ btree_delete(t) /\ UNCHANGED todo
DeleteStep == btree_delete_nonone /\ UNCHANGED todo

Next == insert \/ InsertStep \/ (\E t \in Keys : del(t)) \/ DeleteStep

Spec == Init /\ [][Next]_vars

-----------------------------------------------------------------------------

Stored(t) == {<<x, i>> \in (DOMAIN node) \X KeyIdx : i < node[x].key_num /\ node[x].k[i] = t}

\* Between calls the tree is the bag of keys it was given: find finds exactly
\* the keys inserted and not deleted as often, every one of them is stored and
\* counted in btree_node_num, and no node is off the tree, or thinner than
\* M - 1 keys, whichever splits, borrows and merges the calls went through.
TreeIsItsKeys ==
  cursor = NoCall =>
    /\ \A t \in Keys :
         /\ find(t) <=> inTree[t] > 0
         /\ Cardinality(Stored(t)) = inTree[t]
    /\ btree_node_num = MapThenSumSet(LAMBDA t : inTree[t], Keys)
    /\ \A x \in DOMAIN node \ {roots} :
         /\ node[x].key_num \in M - 1 .. 2 * M - 1
         /\ \E y \in DOMAIN node : \E i \in 0 .. node[y].key_num : node[y].p[i] = x
=============================================================================
