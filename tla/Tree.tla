-------------------------------- MODULE Tree --------------------------------
(***************************************************************************)
(* The AVL tree of src/containers/binary_search_tree.h, as pure operators  *)
(* over a tree value.  A tree is a record                                  *)
(*   root : the root node, or Nil                                          *)
(*   node : the node heap, a sequence indexed by node address (pointer);   *)
(*          each slot is [live, key, val, parent, left, right, height],    *)
(*          and a deleted node keeps its last contents with live = FALSE   *)
(*          (what a stale pointer reads)                                   *)
(*   size : _size                                                          *)
(* Values are opaque here (pointers chosen by the user module).  The       *)
(* code's recursive member functions are RECURSIVE operators that take the *)
(* tree and return the updated tree.                                       *)
(***************************************************************************)
EXTENDS Integers, Sequences, FiniteSets, TLC

CONSTANT NodeIds        \* the heap addresses a tree node may occupy

ASSUME NodeIds = 1..Cardinality(NodeIds)

Nil      == 0           \* nullptr
Dangling == -1          \* a link to no node (see Settle)

FreeSlot == [live |-> FALSE, key |-> 0, val |-> Nil, parent |-> Nil,
             left |-> Nil, right |-> Nil, height |-> 0]

RECURSIVE Slots(_)
Slots(n) == IF n = 0 THEN <<>> ELSE Slots(n - 1) \o <<FreeSlot>>

EmptyTree == [root |-> Nil, node |-> Slots(Cardinality(NodeIds)), size |-> 0]

\* Op applied to the value of e, which is computed once: a value that a
\* code path computes and then reads several times.
Then(e, Op(_)) == CHOOSE r \in {Op(x) : x \in {e}} : TRUE

Live(t) == {n \in NodeIds : t.node[n].live}

\* A node read through a pointer, live or not.
At(t, n) == t.node[n]

Height(t, n) == IF n = Nil THEN 0 ELSE t.node[n].height

\* node::update_height, lines 118-128 (a null child counts as height 0).
UpdateHeight(t, n) ==
  [t EXCEPT !.node[n].height = 1 + LET hl == Height(t, t.node[n].left)
                                       hr == Height(t, t.node[n].right)
                                   IN IF hl > hr THEN hl ELSE hr]

\* node::balance, lines 105-115.
BalanceOf(t, n) == Height(t, t.node[n].left) - Height(t, t.node[n].right)

\* Point the parent's link that held `old` (or root) at `new`: the tail of
\* rotate_right/rotate_left, lines 571-581 and 602-612.
Relink(t, parent, old, new) ==
  IF parent = Nil THEN [t EXCEPT !.root = new]
  ELSE IF t.node[parent].left = old THEN [t EXCEPT !.node[parent].left = new]
  ELSE [t EXCEPT !.node[parent].right = new]

\* rotate_right, lines 557-585.
RotateRight(t, n) ==
  LET p  == t.node[n].parent
      l  == t.node[n].left
      lr == t.node[l].right
      t1 == [t EXCEPT !.node[l].right = n, !.node[n].left = lr,
                      !.node[l].parent = p, !.node[n].parent = l]
      t2 == IF lr # Nil THEN [t1 EXCEPT !.node[lr].parent = n] ELSE t1
  IN Then(UpdateHeight(Relink(t2, p, n, l), n), LAMBDA t3 : UpdateHeight(t3, l))

\* rotate_left, lines 588-616.
RotateLeft(t, n) ==
  LET p  == t.node[n].parent
      r  == t.node[n].right
      rl == t.node[r].left
      t1 == [t EXCEPT !.node[r].left = n, !.node[n].right = rl,
                      !.node[r].parent = p, !.node[n].parent = r]
      t2 == IF rl # Nil THEN [t1 EXCEPT !.node[rl].parent = n] ELSE t1
  IN Then(UpdateHeight(Relink(t2, p, n, r), n), LAMBDA t3 : UpdateHeight(t3, r))

\* rebalance, lines 537-554: refresh the height, then a single or double
\* rotation when the balance leaves -1..1.
Rebalance(t, n) ==
  Then(UpdateHeight(t, n), LAMBDA t1 :
    LET b == BalanceOf(t1, n)
        l == t1.node[n].left
        r == t1.node[n].right
    IN CASE b > 1  -> Then(IF l # Nil /\ BalanceOf(t1, l) < 0
                           THEN RotateLeft(t1, l) ELSE t1, LAMBDA t2 : RotateRight(t2, n))
         [] b < -1 -> Then(IF r # Nil /\ BalanceOf(t1, r) > 0
                           THEN RotateRight(t1, r) ELSE t1, LAMBDA t2 : RotateLeft(t2, n))
         [] OTHER  -> t1)

RECURSIVE Leftmost(_, _), Rightmost(_, _)
Leftmost(t, n)  == IF At(t, n).left = Nil THEN n ELSE Leftmost(t, At(t, n).left)
Rightmost(t, n) == IF At(t, n).right = Nil THEN n ELSE Rightmost(t, At(t, n).right)

\* A successor that only looks right: a node with just a left subtree
\* counts as a leaf.
SuccessorRightOnly(t, n) ==
  IF t.node[n].right # Nil THEN Leftmost(t, t.node[n].right) ELSE Nil

\* node::successor, lines 131-151: the leftmost node on the right, else the
\* rightmost node on the left (the predecessor), else none.
Successor(t, n) ==
  IF t.node[n].right # Nil THEN Leftmost(t, t.node[n].right)
  ELSE IF t.node[n].left # Nil THEN Rightmost(t, t.node[n].left)
  ELSE Nil

\* node::unlink, lines 176-185, then `delete`: the parent's link is cleared
\* and the node's memory keeps its last contents.
UnlinkDelete(t, n) ==
  LET p  == t.node[n].parent
      t1 == IF p = Nil THEN t
            ELSE IF t.node[p].left = n THEN [t EXCEPT !.node[p].left = Nil]
            ELSE [t EXCEPT !.node[p].right = Nil]
  IN [t1 EXCEPT !.node[n].live = FALSE]

\* `new node(this, key, val)` linked under parent on `side` (or as root);
\* _size++ (add_rec, lines 419-421, 432-435, 446-449, 464-467).
Attach(t, parent, side, k, v) ==
  LET id == CHOOSE i \in NodeIds : ~t.node[i].live
      t1 == [t EXCEPT !.node[id] = [live |-> TRUE, key |-> k, val |-> v, parent |-> parent,
                                    left |-> Nil, right |-> Nil, height |-> 1],
                      !.size = @ + 1]
  IN IF parent = Nil THEN [t1 EXCEPT !.root = id]
     ELSE [t1 EXCEPT !.node[parent][side] = id]

\* A tree that still has a free node slot: `new` succeeds.
HasRoom(t) == \E i \in NodeIds : ~t.node[i].live

\* add_rec, lines 415-472: descend left on a smaller key and right on a
\* greater or equal one (duplicates go right; node_added is always false
\* on the way down, so the early return of line 456 is never taken), hang
\* a new node on the empty side, and rebalance every node on the way back.
RECURSIVE AddRec(_, _, _, _)
AddRec(t, cur, k, v) ==
  IF t.root = Nil
  THEN LET t1 == Attach(t, Nil, "left", k, v) IN Rebalance(t1, t1.root)
  ELSE LET side  == IF t.node[cur].key > k THEN "left" ELSE "right"
           child == t.node[cur][side]
       IN Then(IF child # Nil THEN AddRec(t, child, k, v)
               ELSE Attach(t, cur, side, k, v), LAMBDA t1 : Rebalance(t1, cur))

\* insert(key, val), lines 208-213.
Insert(t, k, v) == AddRec(t, t.root, k, v)

\* search_rec, lines 389-412: the node holding key, else the last node on
\* the search path, else Nil for an empty tree.
RECURSIVE SearchFrom(_, _, _)
SearchFrom(t, cur, k) ==
  LET c == t.node[cur] IN
  CASE c.key > k -> IF c.left = Nil THEN cur ELSE SearchFrom(t, c.left, k)
    [] c.key < k -> IF c.right = Nil THEN cur ELSE SearchFrom(t, c.right, k)
    [] OTHER     -> cur

SearchRec(t, k) == IF t.root = Nil THEN Nil ELSE SearchFrom(t, t.root, k)

\* contains, lines 243-250.
Contains(t, k) == LET n == SearchRec(t, k) IN n # Nil /\ t.node[n].key = k

\* get, lines 223-230, where the caller has checked contains first.
Get(t, k) == t.node[SearchRec(t, k)].val

\* node::replace, lines 154-173: take the key and value of `other`, then
\* fill `other` from its own successor, down to a node without one, which
\* is unlinked and deleted; the parent of each step is rebalanced.
RECURSIVE Replace(_, _, _)
Replace(t, n, o) ==
  LET t1 == [t EXCEPT !.node[n].key = t.node[o].key, !.node[n].val = t.node[o].val]
      s  == Successor(t1, o)
  IN IF s = Nil
     THEN Then(UnlinkDelete(t1, o), LAMBDA t2 : Rebalance(t2, t1.node[o].parent))
     ELSE Then(Replace(t1, o, s), LAMBDA t2 : Rebalance(t2, t1.node[s].parent))

\* A remove_rec whose leaf branch forgets _size--.
RECURSIVE RemoveRecLeafKeepsSize(_, _, _)
RemoveRecLeafKeepsSize(t, cur, k) ==
  IF cur = Nil THEN t
  ELSE LET c == t.node[cur] IN
  CASE c.key > k -> Then(RemoveRecLeafKeepsSize(t, c.left, k), LAMBDA t1 : Rebalance(t1, cur))
    [] c.key < k -> Then(RemoveRecLeafKeepsSize(t, c.right, k), LAMBDA t1 : Rebalance(t1, cur))
    [] OTHER ->
       LET s == Successor(t, cur) IN
       IF s = Nil
       THEN Then(UnlinkDelete(IF t.root = cur THEN [t EXCEPT !.root = Nil] ELSE t, cur),
                 LAMBDA t1 : IF c.parent # Nil THEN Rebalance(t1, c.parent) ELSE t1)
       ELSE Then(Replace(t, cur, s), LAMBDA t1 :
              Then(Rebalance(t1, t.node[s].parent), LAMBDA t2 :
                Rebalance([t2 EXCEPT !.size = @ - 1], cur)))

\* remove_rec, lines 475-515: find the first node with the key on the
\* search path; a node without successor is unlinked and deleted (root
\* cleared), otherwise it is refilled by replace; _size-- either way; each
\* surviving node on the path is rebalanced.  A missing key changes nothing
\* but the heights on the path.
RECURSIVE RemoveRec(_, _, _)
RemoveRec(t, cur, k) ==
  IF cur = Nil THEN t
  ELSE LET c == t.node[cur] IN
  CASE c.key > k -> Then(RemoveRec(t, c.left, k), LAMBDA t1 : Rebalance(t1, cur))
    [] c.key < k -> Then(RemoveRec(t, c.right, k), LAMBDA t1 : Rebalance(t1, cur))
    [] OTHER ->
       LET s == Successor(t, cur) IN
       IF s = Nil
       THEN Then(UnlinkDelete(IF t.root = cur THEN [t EXCEPT !.root = Nil] ELSE t, cur),
                 LAMBDA t1 : [IF c.parent # Nil THEN Rebalance(t1, c.parent) ELSE t1
                              EXCEPT !.size = @ - 1])
       ELSE Then(Replace(t, cur, s), LAMBDA t1 :
              Then(Rebalance(t1, t.node[s].parent), LAMBDA t2 :
                Rebalance([t2 EXCEPT !.size = @ - 1], cur)))

\* remove(key), lines 216-220.
Delete(t, k) == RemoveRec(t, t.root, k)

\* begin(), lines 289-301.
Begin(t) == IF t.root = Nil THEN Nil ELSE Leftmost(t, t.root)

\* tree_iterator::operator++, lines 655-686, reading through the pointer
\* whatever the node holds now, live or freed.
RECURSIVE Climb(_, _)
Climb(t, p) ==
  LET q == At(t, p).parent IN
  IF q = Nil THEN Nil
  ELSE IF At(t, q).left = p THEN q
  ELSE Climb(t, q)

Advance(t, p) ==
  IF At(t, p).right # Nil THEN Leftmost(t, At(t, p).right) ELSE Climb(t, p)

\* The live nodes in iteration order (begin() to end()), and their keys.
RECURSIVE NodesFrom(_, _)
NodesFrom(t, p) == IF p = Nil THEN <<>> ELSE <<p>> \o NodesFrom(t, Advance(t, p))

InOrderNodes(t) == NodesFrom(t, Begin(t))

InOrder(t) == LET ns == InOrderNodes(t) IN [i \in 1..Len(ns) |-> t.node[ns[i]].key]

\* The same tree with its live nodes moved to the addresses 1, 2, ... in
\* iteration order (live nodes iteration cannot reach come after; a link
\* to a dead node becomes Dangling) and the dead slots cleared.  No node
\* address outlives a syscall -- iterators and search results are locals
\* -- so trees equal up to this renaming behave alike.
AddressOf(all, n) ==
  IF n = Nil THEN Nil
  ELSE IF \E k \in 1..Len(all) : all[k] = n THEN CHOOSE k \in 1..Len(all) : all[k] = n
  ELSE Dangling

RECURSIVE Moved(_, _, _)
Moved(t, all, i) ==
  IF i = 0 THEN <<>>
  ELSE Moved(t, all, i - 1) \o
       <<IF i > Len(all) THEN FreeSlot
         ELSE [t.node[all[i]] EXCEPT !.parent = AddressOf(all, @),
                                     !.left = AddressOf(all, @),
                                     !.right = AddressOf(all, @)]>>

Settle(t) ==
  LET ns  == InOrderNodes(t)
      all == ns \o SelectSeq([i \in 1..Cardinality(NodeIds) |-> i],
                              LAMBDA n : t.node[n].live /\ \A i \in 1..Len(ns) : ns[i] # n)
  IN [root |-> AddressOf(all, t.root),
      node |-> Moved(t, all, Cardinality(NodeIds)),
      size |-> t.size]
=============================================================================
