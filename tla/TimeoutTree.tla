---------------------------- MODULE TimeoutTree ----------------------------
(***************************************************************************)
(* The tree of sessions in use, http_session_rbtree_used: the red-black    *)
(* tree of rbtree.c under the operations of HttpSessionTimeoutTree.c.      *)
(*                                                                         *)
(* The two rotations, and the two halves of every rebalancing loop, are    *)
(* mirror images: one operator with the side as a parameter stands for     *)
(* both.  One turn of a rebalancing loop is one action; the worker is      *)
(* single threaded, so nothing else happens between two turns.             *)
(***************************************************************************)
EXTENDS Integers, Sequences, FiniteSets

CONSTANTS
  Session,   \* the sessions of the pool, each with its timeout_rbnode
  Stamp,     \* values of timeout_timestamp
  Null       \* the null pointer

ASSUME TreeAssumption == Stamp \subseteq Int /\ Null \notin Session

VARIABLES
  tree,      \* root, and rb_left, rb_right, parent and colour of each node
  stamp,     \* timeout_timestamp of every session
  pc,        \* "idle", or the loop that runs: "insert", "erase"; "add": the
             \* second half of UpdateHttpSessionTimeoutTreeNode
  node,      \* the loops' local variable node
  parent,    \* __rb_erase_color's local variable parent
  pending    \* <<session, new timestamp>> of the update under way, or <<>>

vars == <<tree, stamp, pc, node, parent, pending>>

Side == {"left", "right"}
Other(d) == IF d = "left" THEN "right" ELSE "left"
SideOf(t, p, n) == IF t.child["left"][p] = n THEN "left" ELSE "right"

IsRed(t, n) == n # Null /\ n \in t.red

Paint(t, reds, blacks) == [t EXCEPT !.red = (@ \ blacks) \cup reds]

(* rb_set_parent, for a child that may be missing.                         *)
SetParent(t, n, p) == IF n = Null THEN t ELSE [t EXCEPT !.up[n] = p]

(* The link that pointed to `old', in its parent or in the root, points to *)
(* `new' instead.                                                          *)
Replace(t, p, old, new) ==
  IF p = Null THEN [t EXCEPT !.root = new]
  ELSE [t EXCEPT !.child[SideOf(t, p, old)][p] = new]

(* Mutant: the inner grandchild keeps its old parent.                      *)
RotateForgetsParent(t, n, d) ==
  LET top   == t.child[Other(d)][n]
      inner == t.child[d][top]
      above == t.up[n]
      t1 == [t EXCEPT !.child[Other(d)][n] = inner, !.child[d][top] = n]
      t2 == Replace(SetParent(t1, top, above), above, n, top)
  IN  SetParent(t2, n, top)

(* Mutant: the two subtrees of the raised node change places.              *)
RotateSwapsSubtrees(t, n, d) ==
  LET top   == t.child[Other(d)][n]
      inner == t.child[d][top]
      outer == t.child[Other(d)][top]
      above == t.up[n]
      t1 == SetParent([t EXCEPT !.child[Other(d)][n] = outer,
                                !.child[Other(d)][top] = inner,
                                !.child[d][top] = n], outer, n)
      t2 == Replace(SetParent(t1, top, above), above, n, top)
  IN  SetParent(t2, n, top)

(* __rb_rotate_left for d = "left", __rb_rotate_right for d = "right": the *)
(* node goes down to side d and its child on the other side takes its      *)
(* place.                                                                  *)
Rotate(t, n, d) ==
  LET top   == t.child[Other(d)][n]
      inner == t.child[d][top]
      above == t.up[n]
      t1 == SetParent([t EXCEPT !.child[Other(d)][n] = inner], inner, n)
      t2 == SetParent([t1 EXCEPT !.child[d][top] = n], top, above)
  IN  SetParent(Replace(t2, above, n, top), n, top)
----------------------------------------------------------------------------
(* The end of the chain of links to side d below n.                        *)
Extreme(t, d, n) ==
  LET End[m \in Session] ==
        IF t.child[d][m] = Null THEN m ELSE End[t.child[d][m]]
  IN  End[n]

(* rb_first for d = "left", rb_last for d = "right".                       *)
EndOf(t, d) == IF t.root = Null THEN Null ELSE Extreme(t, d, t.root)

(* Mutant: with no subtree on that side, the parent is taken.              *)
StepUpOnce(t, n, d) ==
  IF t.child[d][n] # Null THEN Extreme(t, Other(d), t.child[d][n]) ELSE t.up[n]

(* rb_next for d = "right", rb_prev for d = "left": down into the subtree  *)
(* on that side or, with none, up to the first ancestor on that side.      *)
Step(t, n, d) ==
  LET Up[m \in Session] ==
        IF t.up[m] # Null /\ t.child[d][t.up[m]] = m THEN Up[t.up[m]]
        ELSE t.up[m]
  IN  IF t.child[d][n] # Null THEN Extreme(t, Other(d), t.child[d][n])
      ELSE Up[n]

(* The session whose deadline has passed, or Null.                         *)
GetExpireHttpSessionTimeoutTreeNode(t, now) ==
  LET first == EndOf(t, "left")
  IN  IF first # Null /\ stamp[first] - now <= 0 THEN first ELSE Null
----------------------------------------------------------------------------
(* Mutant: equal timestamps go to the right.                               *)
DescendsRightOnEqual(d, n) == IF d < stamp[n] THEN "left" ELSE "right"

(* Which way the descent of AddHttpSessionTimeoutTreeNode leaves node n.   *)
Descends(d, n) == IF d <= stamp[n] THEN "left" ELSE "right"

(* Where the descent from n ends: a node, and the side it has no child on. *)
Slot(d, n) ==
  LET Below[m \in Session] ==
        LET side == Descends(d, m)
        IN  IF tree.child[side][m] = Null THEN <<m, side>>
            ELSE Below[tree.child[side][m]]
  IN  Below[n]

(* The descent to a missing child, then rb_link_node: a red leaf.          *)
Link(s, d) ==
  LET leaf == [tree EXCEPT !.child["left"][s] = Null,
                           !.child["right"][s] = Null,
                           !.red = @ \cup {s}]
  IN  /\ IF tree.root = Null
           THEN tree' = [leaf EXCEPT !.root = s, !.up[s] = Null]
           ELSE LET slot == Slot(d, tree.root)
                IN tree' = [leaf EXCEPT !.child[slot[2]][slot[1]] = s,
                                        !.up[s] = slot[1]]
      /\ stamp' = [stamp EXCEPT ![s] = d]
      /\ pc' = "insert"
      /\ node' = s
      /\ UNCHANGED parent

Linked == {s \in Session : s = tree.root \/ tree.up[s] # Null}

AddHttpSessionTimeoutTreeNode(s, d) ==
  /\ pc = "idle" /\ s \notin Linked
  /\ Link(s, d)
  /\ UNCHANGED pending

(* A parent that is black, or missing, ends the loop of rb_insert_color.   *)
InsertDone ==
  /\ pc = "insert" /\ ~IsRed(tree, tree.up[node])
  /\ tree' = Paint(tree, {}, {tree.root})
  /\ pc' = "idle"
  /\ node' = Null
  /\ UNCHANGED <<stamp, parent, pending>>

(* Both the parent and the uncle are red: black both, go on two levels up. *)
InsertRecolour ==
  /\ pc = "insert" /\ IsRed(tree, tree.up[node])
  /\ LET p == tree.up[node]
         g == tree.up[p]
         uncle == tree.child[Other(SideOf(tree, g, p))][g]
     IN  /\ IsRed(tree, uncle)
         /\ tree' = Paint(tree, {g}, {uncle, p})
         /\ node' = g
  /\ UNCHANGED <<stamp, pc, parent, pending>>

(* The uncle is black: an inner grandchild is rotated to the outside (and  *)
(* changes roles with its parent), then the parent above the grandparent.  *)
InsertRotate ==
  /\ pc = "insert" /\ IsRed(tree, tree.up[node])
  /\ LET p == tree.up[node]
         g == tree.up[p]
         d == SideOf(tree, g, p)
         inner == tree.child[Other(d)][p] = node
         t1 == IF inner THEN Rotate(tree, p, d) ELSE tree
         top == IF inner THEN node ELSE p
     IN  /\ ~IsRed(tree, tree.child[Other(d)][g])
         /\ tree' = Rotate(Paint(t1, {g}, {top}), g, Other(d))
         /\ node' = IF inner THEN p ELSE node
  /\ UNCHANGED <<stamp, pc, parent, pending>>
----------------------------------------------------------------------------
(* The links and the colour of a node taken out are never read again:      *)
(* rb_link_node writes all of them.                                        *)
Forget(t, s) ==
  [t EXCEPT !.child["left"][s] = Null, !.child["right"][s] = Null,
            !.up[s] = Null, !.red = @ \ {s}]

(* rb_erase of a node with at most one child: the child takes its place.   *)
SpliceOut(s) ==
  LET kid == IF tree.child["left"][s] = Null THEN tree.child["right"][s]
             ELSE tree.child["left"][s]
      above == tree.up[s]
  IN  [tree   |-> Forget(Replace(SetParent(tree, kid, above), above, s, kid), s),
       node   |-> kid,
       parent |-> above,
       black  |-> ~IsRed(tree, s)]

(* Mutant: the heir keeps the colour it had.                               *)
KeepColour(t, heir, s) == t

(* The heir of a node taken out gets its colour (line 253).                *)
TakeColour(t, heir, s) ==
  IF IsRed(t, s) THEN Paint(t, {heir}, {}) ELSE Paint(t, {}, {heir})

(* rb_erase of a node with two children: its successor takes its place,    *)
(* its colour and its children, and the successor's place is what is lost. *)
SwapOut(s) ==
  LET heir  == Extreme(tree, "left", tree.child["right"][s])
      kid   == tree.child["right"][heir]
      near  == tree.up[heir] = s
      above == tree.up[heir]
      t1 == Replace(tree, tree.up[s], s, heir)
      t2 == IF near THEN t1
            ELSE SetParent([t1 EXCEPT !.child["left"][above] = kid,
                                      !.child["right"][heir] = tree.child["right"][s],
                                      !.up[tree.child["right"][s]] = heir],
                           kid, above)
      t3 == [t2 EXCEPT !.up[heir] = tree.up[s],
                       !.child["left"][heir] = tree.child["left"][s],
                       !.up[tree.child["left"][s]] = heir]
  IN  [tree   |-> Forget(TakeColour(t3, heir, s), s),
       node   |-> kid,
       parent |-> IF near THEN heir ELSE above,
       black  |-> ~IsRed(tree, heir)]

Resting(p) == IF p = <<>> THEN "idle" ELSE "add"

(* rb_erase up to the rebalancing, which only a lost black node needs.     *)
Unlink(s) ==
  LET out == IF Null \in {tree.child[d][s] : d \in Side} THEN SpliceOut(s)
             ELSE SwapOut(s)
  IN  /\ tree' = out.tree
      /\ pc' = IF out.black THEN "erase" ELSE Resting(pending')
      /\ node' = IF out.black THEN out.node ELSE Null
      /\ parent' = IF out.black THEN out.parent ELSE Null
      /\ UNCHANGED stamp

RemoveHttpSessionTimeoutTreeNode(s) ==
  /\ pc = "idle" /\ s \in Linked
  /\ pending' = <<>>
  /\ Unlink(s)

(* The removal; Relink adds the session again under its new timestamp.     *)
UpdateHttpSessionTimeoutTreeNode(s, d) ==
  /\ pc = "idle" /\ s \in Linked
  /\ pending' = <<s, d>>
  /\ Unlink(s)

Relink ==
  /\ pc = "add"
  /\ Link(pending[1], pending[2])
  /\ pending' = <<>>

(* The node is red, or the root: painted black it makes up for the loss.   *)
EraseDone ==
  /\ pc = "erase" /\ (IsRed(tree, node) \/ node = tree.root)
  /\ tree' = Paint(tree, {}, {node})
  /\ pc' = Resting(pending)
  /\ node' = Null /\ parent' = Null
  /\ UNCHANGED <<stamp, pending>>

(* The tree once a red sibling has been rotated above the parent.          *)
BlackSibling ==
  LET d   == SideOf(tree, parent, node)
      sib == tree.child[Other(d)][parent]
  IN  IF IsRed(tree, sib) THEN Rotate(Paint(tree, {parent}, {sib}), parent, d)
      ELSE tree

ErasePending == pc = "erase" /\ ~IsRed(tree, node) /\ node # tree.root

(* Two black nephews: the sibling turns red, go on one level up.           *)
EraseRecolour ==
  /\ ErasePending
  /\ LET d   == SideOf(tree, parent, node)
         t1  == BlackSibling
         sib == t1.child[Other(d)][parent]
     IN  /\ \A e \in Side : ~IsRed(t1, t1.child[e][sib])
         /\ tree' = Paint(t1, {sib}, {})
         /\ node' = parent
         /\ parent' = t1.up[parent]
  /\ UNCHANGED <<stamp, pc, pending>>

(* A red nephew: brought to the outside if it is the inner one, it lends   *)
(* its black to the side that lost one.  The loop ends.                    *)
EraseRotate ==
  /\ ErasePending
  /\ LET d    == SideOf(tree, parent, node)
         o    == Other(d)
         t1   == BlackSibling
         sib  == t1.child[o][parent]
         t2   == IF IsRed(t1, t1.child[o][sib]) THEN t1
                 ELSE Rotate(Paint(t1, {sib}, {t1.child[d][sib]}), sib, o)
         top  == t2.child[o][parent]
         keep == IF IsRed(t2, parent) THEN {top} ELSE {}
         t3   == Paint(t2, keep, {top, parent, t2.child[o][top]} \ keep)
     IN  /\ \E e \in Side : IsRed(t1, t1.child[e][sib])
         /\ tree' = Rotate(t3, parent, d)
         /\ node' = tree'.root
  /\ UNCHANGED <<stamp, pc, parent, pending>>
----------------------------------------------------------------------------
EmptyTree ==
  [root  |-> Null,
   child |-> [d \in Side |-> [s \in Session |-> Null]],
   up    |-> [s \in Session |-> Null],
   red   |-> {}]

Init ==
  /\ tree = EmptyTree
  /\ stamp \in [Session -> Stamp]
  /\ pc = "idle"
  /\ node = Null /\ parent = Null
  /\ pending = <<>>

Next ==
  \/ \E s \in Session : \/ RemoveHttpSessionTimeoutTreeNode(s)
                        \/ \E d \in Stamp : \/ AddHttpSessionTimeoutTreeNode(s, d)
                                            \/ UpdateHttpSessionTimeoutTreeNode(s, d)
  \/ InsertDone \/ InsertRecolour \/ InsertRotate
  \/ EraseDone \/ EraseRecolour \/ EraseRotate \/ Relink

Spec == Init /\ [][Next]_vars
----------------------------------------------------------------------------
(* The nodes of t from the left to the right.                              *)
InOrder(t) ==
  LET Under[n \in Session \cup {Null}] ==
        IF n = Null THEN <<>>
        ELSE Under[t.child["left"][n]] \o <<n>> \o Under[t.child["right"][n]]
  IN  Under[t.root]

(* Black nodes on the paths from the root of t down to a missing child.    *)
BlackHeights(t) ==
  LET Heights[n \in Session \cup {Null}] ==
        IF n = Null THEN {0}
        ELSE {h + (IF IsRed(t, n) THEN 0 ELSE 1) :
                h \in UNION {Heights[t.child[d][n]] : d \in Side}}
  IN  Heights[t.root]

(* Types, and the double links: c is a child of p, on one side only, iff p *)
(* is the parent of c.                                                     *)
TreeTypeOK ==
  /\ tree.root \in Session \cup {Null}
  /\ tree.child \in [Side -> [Session -> Session \cup {Null}]]
  /\ tree.up \in [Session -> Session \cup {Null}]
  /\ tree.red \subseteq Linked
  /\ stamp \in [Session -> Stamp]
  /\ pc \in {"idle", "insert", "erase", "add"}
  /\ {node, parent} \subseteq Linked \cup {Null}
  /\ pending \in {<<>>} \cup (Session \X Stamp)
  /\ tree.root # Null => tree.up[tree.root] = Null
  /\ \A p, c \in Session :
       (tree.up[c] = p) <=> \E d \in Side : tree.child[d][p] = c
                                            /\ tree.child[Other(d)][p] # c

(* Between two operations the tree is a red-black tree: the root is black, *)
(* a red node has no red child, every path down has as many black nodes.   *)
(* This is what bounds the work per event by the logarithm of the sessions *)
(* (rb_insert_color, rb_erase).                                            *)
RedBlack ==
  pc = "idle" =>
    /\ ~IsRed(tree, tree.root)
    /\ \A n \in tree.red : ~IsRed(tree, tree.up[n])
    /\ Cardinality(BlackHeights(tree)) = 1

(* Walking with rb_next from rb_first, and with rb_prev from rb_last, one  *)
(* meets every node once, in opposite orders.                              *)
WalksAgree ==
  pc = "idle" =>
    LET q == InOrder(tree)
        n == Len(q)
    IN  /\ n = Cardinality(Linked)
        /\ EndOf(tree, "left") = IF n = 0 THEN Null ELSE q[1]
        /\ EndOf(tree, "right") = IF n = 0 THEN Null ELSE q[n]
        /\ \A i \in 1..n :
             /\ Step(tree, q[i], "right") = IF i = n THEN Null ELSE q[i + 1]
             /\ Step(tree, q[i], "left") = IF i = 1 THEN Null ELSE q[i - 1]

(* GetExpireHttpSessionTimeoutTreeNode overlooks no session that is due,   *)
(* names none that is not, and names one that has waited longest: the      *)
(* worker may stop looking as soon as it returns nothing.                  *)
ExpiryExact ==
  pc = "idle" =>
    \A now \in Stamp :
      LET s == GetExpireHttpSessionTimeoutTreeNode(tree, now)
      IN  IF s = Null THEN \A x \in Linked : stamp[x] > now
          ELSE /\ s \in Linked /\ stamp[s] <= now
               /\ \A x \in Linked : stamp[s] <= stamp[x]

(* The tree is the queue of TimeoutQueue: linking a node inserts, taking   *)
(* one out deletes, and no turn of a rebalancing loop changes the order.   *)
Queue == INSTANCE TimeoutQueue WITH queue <- InOrder(tree), due <- stamp

IsTimeoutQueue == Queue!QueueSpec
=============================================================================
