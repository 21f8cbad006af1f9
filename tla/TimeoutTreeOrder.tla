-------------------------- MODULE TimeoutTreeOrder --------------------------
(***************************************************************************)
(* The timeout tree as a list.  A tree is described by the order q of its  *)
(* nodes, their positions, and for every node the interval of positions    *)
(* below it (Shape).  Shown here: a rotation changes intervals and leaves  *)
(* q, linking a node inserts into q, taking one out deletes from it, and   *)
(* the walks and descents of the model return what q says.                 *)
(*                                                                         *)
(* The recursive functions are well-founded because a way down has ever    *)
(* smaller intervals and a way up ever larger ones, within the length of   *)
(* q: nothing is assumed of the number of sessions.                        *)
(***************************************************************************)
EXTENDS TimeoutTree, TLAPS, WellFoundedInduction, SequenceTheorems

(* The next position to side d.                                            *)
Way(d) == IF d = "left" THEN -1 ELSE 1

(* The trees: TreeTypeOK for any tree, not only the variable.              *)
TreeType ==
  [root  : Session \cup {Null},
   child : [Side -> [Session -> Session \cup {Null}]],
   up    : [Session -> Session \cup {Null}],
   red   : SUBSET Session]

(* The nodes linked in t; LinkedIs: Linked is Nodes(tree).                 *)
Nodes(t) == {s \in Session : s = t.root \/ t.up[s] # Null}

(* The links of a tree: a child has its parent as parent, a parent has its *)
(* child as child, only nodes that are linked have children or a colour.   *)
Linking(t) ==
  /\ t \in TreeType
  /\ \A n \in Session, d \in Side :
       t.child[d][n] # Null => n \in Nodes(t) /\ t.up[t.child[d][n]] = n
  /\ \A n \in Session :
       t.up[n] # Null => \E d \in Side : t.child[d][t.up[n]] = n
  /\ t.root # Null => t.up[t.root] = Null
  /\ t.root = Null => Nodes(t) = {}
  /\ t.red \subseteq Nodes(t)

(* q lists the members of L, each once, and pos says where.                *)
Order(q, pos, L) ==
  /\ q \in Seq(Session)
  /\ pos \in [Session -> Int]
  /\ \A i \in 1..Len(q) : q[i] \in L /\ pos[q[i]] = i
  /\ \A n \in L : pos[n] \in 1..Len(q) /\ q[pos[n]] = n

(* The subtree of n is the open interval of positions between              *)
(* bnd["left"][n] and bnd["right"][n]: the root has them all, a child has  *)
(* what is on its side of its parent, and a missing child nothing.         *)
Bounded(t, pos, bnd, N) ==
  /\ bnd \in [Side -> [Session -> Int]]
  /\ \A n \in Nodes(t) : /\ 0 <= bnd["left"][n] /\ bnd["left"][n] < pos[n]
                         /\ pos[n] < bnd["right"][n] /\ bnd["right"][n] <= N + 1
  /\ \A n \in Nodes(t), d \in Side :
       IF t.child[d][n] = Null THEN bnd[d][n] = pos[n] + Way(d)
       ELSE /\ bnd[d][t.child[d][n]] = bnd[d][n]
            /\ bnd[Other(d)][t.child[d][n]] = pos[n]
  /\ t.root # Null => bnd["left"][t.root] = 0 /\ bnd["right"][t.root] = N + 1

(* There are two sides.                                                    *)
LEMMA Sides == \A d \in Side : Other(d) \in Side /\ Other(d) # d /\ Other(Other(d)) = d
                 /\ \A e \in Side : e = d \/ e = Other(d)
BY DEF Side, Other

(* A child has one parent, on one side, and lies to that side of it.       *)
LEMMA ChildFacts ==
  ASSUME NEW t, Linking(t), NEW pos, NEW bnd, NEW N \in Nat, NEW q, Order(q, pos, Nodes(t)), Bounded(t, pos, bnd, N),
         NEW n \in Session, NEW d \in Side, t.child[d][n] # Null
  PROVE  /\ n \in Nodes(t) /\ t.child[d][n] \in Nodes(t) /\ t.child[d][n] \in Session
         /\ t.up[t.child[d][n]] = n /\ t.child[d][n] # n
         /\ d = "left" => pos[t.child[d][n]] < pos[n]
         /\ d = "right" => pos[t.child[d][n]] > pos[n]
         /\ t.child[Other(d)][n] # t.child[d][n]
         /\ t.child[d][n] # t.root
<1>1. t.child[d][n] \in Session /\ Null \notin Session
  BY TreeAssumption DEF Linking, TreeType
<1>2. n \in Nodes(t) /\ t.up[t.child[d][n]] = n
  BY DEF Linking
<1>3. t.child[d][n] \in Nodes(t)
  BY <1>1, <1>2 DEF Nodes
<1>4. /\ bnd[d][t.child[d][n]] = bnd[d][n]
      /\ bnd[Other(d)][t.child[d][n]] = pos[n]
      /\ pos[n] \in Int /\ pos[t.child[d][n]] \in Int
  BY <1>1, <1>2 DEF Bounded, Order
<1>5. /\ d = "left" => pos[t.child[d][n]] < pos[n]
      /\ d = "right" => pos[t.child[d][n]] > pos[n]
  BY <1>2, <1>3, <1>4, Sides DEF Bounded, Other, Side
<1>6. t.child[Other(d)][n] # t.child[d][n]
  <2> SUFFICES ASSUME t.child[Other(d)][n] = t.child[d][n] PROVE FALSE
    OBVIOUS
  <2>1. bnd[d][t.child[d][n]] = pos[n]
    BY <1>2, Sides DEF Bounded
  <2>2. bnd[d][n] # pos[n]
    BY <1>2 DEF Bounded, Side
  <2> QED
    BY <2>1, <2>2, <1>4
<1>7. t.child[d][n] # t.root
  BY <1>1, <1>2 DEF Linking
<1> QED
  BY <1>1, <1>2, <1>3, <1>4, <1>5, <1>6, <1>7, Sides DEF Side

(* What Rotate changes, link by link.                                      *)
LEMMA RotateFields ==
  ASSUME NEW t \in TreeType, NEW n \in Session, NEW d \in Side,
         NEW top, top = t.child[Other(d)][n], top \in Session,
         NEW inner, inner = t.child[d][top], inner # n, inner # top, top # n,
         NEW above, above = t.up[n], above # n, above # top, above # inner \/ above = Null,
         NEW u, u = Rotate(t, n, d)
  PROVE  /\ u \in TreeType
         /\ u.red = t.red
         /\ u.root = IF above = Null THEN top ELSE t.root
         /\ \A x \in Session, e \in Side :
              u.child[e][x] = IF x = n THEN IF e = d THEN t.child[e][n] ELSE inner
                              ELSE IF x = top THEN IF e = d THEN n ELSE t.child[e][top]
                              ELSE IF x = above /\ e = SideOf(t, above, n) THEN top
                              ELSE t.child[e][x]
         /\ \A x \in Session :
              u.up[x] = IF x = n THEN top ELSE IF x = top THEN above
                        ELSE IF x = inner THEN n ELSE t.up[x]
<1> DEFINE o == Other(d)
           t0 == [t EXCEPT !.child[o][n] = inner]
           t1 == SetParent(t0, inner, n)
           t2 == [t1 EXCEPT !.child[d][top] = n]
           t3 == SetParent(t2, top, above)
           t4 == Replace(t3, above, n, top)
           t5 == SetParent(t4, n, top)
<1>1. u = t5
  BY DEF Rotate
<1>2. inner \in Session \cup {Null} /\ above \in Session \cup {Null} /\ o \in Side /\ d # o
      /\ Null \notin Session
  BY Sides, TreeAssumption DEF TreeType
<1>3. /\ t0 \in TreeType /\ t0.red = t.red /\ t0.root = t.root /\ t0.up = t.up
      /\ t0.child = [t.child EXCEPT ![o][n] = inner]
  BY <1>2 DEF TreeType
<1> HIDE DEF t0
<1>4. /\ t1 \in TreeType /\ t1.red = t.red /\ t1.root = t.root
      /\ t1.child = [t.child EXCEPT ![o][n] = inner]
      /\ t1.up = IF inner = Null THEN t.up ELSE [t.up EXCEPT ![inner] = n]
  BY <1>2, <1>3 DEF TreeType, SetParent
<1> HIDE DEF t1
<1>5. /\ t2 \in TreeType /\ t2.red = t.red /\ t2.root = t.root
      /\ t2.child = [[t.child EXCEPT ![o][n] = inner] EXCEPT ![d][top] = n]
      /\ t2.up = IF inner = Null THEN t.up ELSE [t.up EXCEPT ![inner] = n]
  BY <1>2, <1>4 DEF TreeType
<1> HIDE DEF t2
<1>6. /\ t3 \in TreeType /\ t3.red = t.red /\ t3.root = t.root
      /\ t3.child = t2.child
      /\ t3.up = [t2.up EXCEPT ![top] = above]
  BY <1>2, <1>5 DEF TreeType, SetParent
<1> HIDE DEF t3
<1>7. above # Null => SideOf(t3, above, n) = SideOf(t, above, n) /\ SideOf(t, above, n) \in Side
  BY <1>2, <1>5, <1>6 DEF SideOf, Side, TreeType
<1>8. /\ t4 \in TreeType /\ t4.red = t.red
      /\ t4.root = IF above = Null THEN top ELSE t.root
      /\ t4.child = IF above = Null THEN t3.child ELSE [t3.child EXCEPT ![SideOf(t, above, n)][above] = top]
      /\ t4.up = t3.up
  BY <1>2, <1>6, <1>7 DEF TreeType, Replace
<1> HIDE DEF t4
<1>9. /\ t5 \in TreeType /\ t5.red = t.red /\ t5.root = t4.root /\ t5.child = t4.child
      /\ t5.up = [t4.up EXCEPT ![n] = top]
  BY <1>2, <1>8 DEF TreeType, SetParent
<1> HIDE DEF t5
<1>10. \A x \in Session, e \in Side :
              t5.child[e][x] = IF x = n THEN IF e = d THEN t.child[e][n] ELSE inner
                              ELSE IF x = top THEN IF e = d THEN n ELSE t.child[e][top]
                              ELSE IF x = above /\ e = SideOf(t, above, n) THEN top
                              ELSE t.child[e][x]
  <2>1. \A x \in Session, e \in Side :
          t2.child[e][x] = IF x = n /\ e = o THEN inner ELSE IF x = top /\ e = d THEN n ELSE t.child[e][x]
    BY <1>2, <1>5 DEF TreeType
  <2>2. \A x \in Session, e \in Side :
          t4.child[e][x] = IF above # Null /\ x = above /\ e = SideOf(t, above, n) THEN top ELSE t2.child[e][x]
    <3>1. CASE above = Null
      BY <1>6, <1>8, <3>1
    <3>2. CASE above # Null
      <4> DEFINE w == SideOf(t, above, n)
      <4>1. w \in Side /\ above \in Session
        BY <1>2, <1>7, <3>2
      <4> HIDE DEF w
      <4>2. t4.child = [t2.child EXCEPT ![w][above] = top]
        BY <1>6, <1>8, <3>2 DEF w
      <4>3. t2.child \in [Side -> [Session -> Session \cup {Null}]]
        BY <1>5 DEF TreeType
      <4> QED
        BY <3>2, <4>1, <4>2, <4>3 DEF w
    <3> QED
      BY <3>1, <3>2
  <2>3. t5.child = t4.child
    BY <1>9
  <2>4. ASSUME NEW x \in Session, NEW e \in Side
        PROVE  t5.child[e][x] = IF x = n THEN IF e = d THEN t.child[e][n] ELSE inner
                              ELSE IF x = top THEN IF e = d THEN n ELSE t.child[e][top]
                              ELSE IF x = above /\ e = SideOf(t, above, n) THEN top
                              ELSE t.child[e][x]
    <3> DEFINE w == SideOf(t, above, n)
               c2 == t2.child[e][x]
               c4 == t4.child[e][x]
    <3> HIDE DEF w, c2, c4
    <3>1. c2 = IF x = n /\ e = o THEN inner ELSE IF x = top /\ e = d THEN n ELSE t.child[e][x]
      BY <2>1 DEF c2
    <3>2. c4 = IF above # Null /\ x = above /\ e = w THEN top ELSE c2
      BY <2>2 DEF c2, c4, w
    <3>3. t5.child[e][x] = c4
      BY <2>3 DEF c4
    <3>4. e = d \/ e = o
      BY Sides
    <3> QED
      BY <1>2, <3>1, <3>2, <3>3, <3>4 DEF w
  <2> QED
    BY <2>4
<1>11. \A x \in Session :
              t5.up[x] = IF x = n THEN top ELSE IF x = top THEN above
                        ELSE IF x = inner THEN n ELSE t.up[x]
  <2> DEFINE h == t2.up
  <2>1. /\ h \in [Session -> Session \cup {Null}]
        /\ \A x \in Session : h[x] = IF x = inner THEN n ELSE t.up[x]
    <3>1. t.up \in [Session -> Session \cup {Null}]
      BY DEF TreeType
    <3>2. CASE inner = Null
      BY <1>2, <1>5, <3>1, <3>2
    <3>3. CASE inner # Null
      BY <1>2, <1>5, <3>1, <3>3
    <3> QED
      BY <3>2, <3>3
  <2>2. t5.up = [[h EXCEPT ![top] = above] EXCEPT ![n] = top]
    BY <1>6, <1>8, <1>9
  <2> HIDE DEF h
  <2> QED
    BY <1>2, <2>1, <2>2
<1>12. t5 \in TreeType /\ t5.red = t.red /\ t5.root = IF above = Null THEN top ELSE t.root
  BY <1>8, <1>9
<1>13. u \in TreeType /\ u.red = t.red /\ u.root = IF above = Null THEN top ELSE t.root
  BY <1>1, <1>12
<1> QED
  BY <1>1, <1>10, <1>11, <1>13

(* t is a search tree whose nodes are q from the left to the right.  What  *)
(* the recursive operators of the tree return is stated with q.            *)
Shape(t, q, pos, bnd) ==
  Linking(t) /\ Order(q, pos, Nodes(t)) /\ Bounded(t, pos, bnd, Len(q))

(* What Shape says, and the types that follow.                             *)
LEMMA ShapeFacts ==
  ASSUME NEW t, NEW q, NEW pos, NEW bnd, Shape(t, q, pos, bnd)
  PROVE  /\ t \in TreeType
         /\ Len(q) \in Nat
         /\ Linking(t) /\ Order(q, pos, Nodes(t)) /\ Bounded(t, pos, bnd, Len(q))
         /\ \A x \in Session : pos[x] \in Int
         /\ \A x \in Session, e \in Side : bnd[e][x] \in Int
         /\ \A x \in Session, e \in Side : t.child[e][x] \in Session \cup {Null}
         /\ \A x \in Session : t.up[x] \in Session \cup {Null}
         /\ t.root \in Session \cup {Null}
         /\ Null \notin Session
<1>1. Linking(t) /\ Order(q, pos, Nodes(t)) /\ Bounded(t, pos, bnd, Len(q))
  BY DEF Shape
<1>2. t \in TreeType
  BY <1>1 DEF Linking
<1>3. q \in Seq(Session) /\ pos \in [Session -> Int] /\ bnd \in [Side -> [Session -> Int]]
  BY <1>1 DEF Order, Bounded
<1>4. Len(q) \in Nat
  BY <1>3
<1> QED
  BY <1>1, <1>2, <1>3, <1>4, TreeAssumption DEF TreeType

(* The parent of a node lies just outside the interval below the node.     *)
LEMMA ParentFacts ==
  ASSUME NEW t, NEW q, NEW pos, NEW bnd, Shape(t, q, pos, bnd),
         NEW n \in Session, t.up[n] # Null
  PROVE  /\ t.up[n] \in Nodes(t) /\ t.up[n] \in Session /\ n # t.root
         /\ SideOf(t, t.up[n], n) \in Side
         /\ t.child[SideOf(t, t.up[n], n)][t.up[n]] = n
         /\ \A e \in Side : t.child[e][t.up[n]] = n => e = SideOf(t, t.up[n], n)
         /\ bnd[SideOf(t, t.up[n], n)][n] = bnd[SideOf(t, t.up[n], n)][t.up[n]]
         /\ bnd[Other(SideOf(t, t.up[n], n))][n] = pos[t.up[n]]
<1> DEFINE p == t.up[n]
           w == SideOf(t, p, n)
<1>1. p \in Session /\ n # t.root
  BY ShapeFacts DEF Linking
<1>2. PICK e \in Side : t.child[e][p] = n
  BY ShapeFacts DEF Linking
<1>3. n # Null
  BY TreeAssumption
<1>4. t.child[Other(e)][p] # n /\ p \in Nodes(t)
  BY <1>1, <1>2, <1>3, ShapeFacts, ChildFacts
<1>5. w = e
  BY <1>2, <1>4 DEF SideOf, Side, Other
<1>6. \A f \in Side : t.child[f][p] = n => f = e
  BY <1>4, Sides
<1>7. bnd[e][n] = bnd[e][p] /\ bnd[Other(e)][n] = pos[p]
  BY <1>2, <1>3, <1>4, ShapeFacts DEF Bounded
<1> HIDE DEF w
<1> QED
  BY <1>1, <1>2, <1>4, <1>5, <1>6, <1>7 DEF w

(* Inside its own bounds.                                                  *)
Between(bnd, n, x) == bnd["left"][n] < x /\ x < bnd["right"][n]

(* A node lies inside its interval, its parent outside.                    *)
LEMMA BoundFacts ==
  ASSUME NEW t, NEW q, NEW pos, NEW bnd, Shape(t, q, pos, bnd), NEW n \in Nodes(t)
  PROVE  /\ Between(bnd, n, pos[n])
         /\ 0 <= bnd["left"][n] /\ bnd["right"][n] <= Len(q) + 1
         /\ pos[n] \in 1..Len(q) /\ q[pos[n]] = n
         /\ n \in Session
         /\ t.up[n] = Null => n = t.root
         /\ t.up[n] # Null => ~ Between(bnd, n, pos[t.up[n]])
<1>1. n \in Session /\ (t.up[n] = Null => n = t.root)
  BY DEF Nodes
<1>2. /\ Between(bnd, n, pos[n])
      /\ 0 <= bnd["left"][n] /\ bnd["right"][n] <= Len(q) + 1
  BY ShapeFacts DEF Bounded, Between
<1>3. pos[n] \in 1..Len(q) /\ q[pos[n]] = n
  BY ShapeFacts DEF Order
<1>4. ASSUME t.up[n] # Null PROVE ~ Between(bnd, n, pos[t.up[n]])
  <2>1. \E e \in Side : bnd[e][n] = pos[t.up[n]]
    BY <1>1, <1>4, ParentFacts, Sides
  <2>2. pos[t.up[n]] \in Int
    BY <1>1, <1>4, ParentFacts, ShapeFacts
  <2> QED
    BY <2>1, <2>2 DEF Between, Side
<1> QED
  BY <1>1, <1>2, <1>3, <1>4

(* A child lies inside the bounds of its parent, on its side of it.        *)
LEMMA KidFacts ==
  ASSUME NEW t, NEW q, NEW pos, NEW bnd, Shape(t, q, pos, bnd),
         NEW n \in Nodes(t), NEW d \in Side, NEW c, c = t.child[d][n], c # Null
  PROVE  /\ c \in Nodes(t) /\ c \in Session /\ t.up[c] = n /\ c # n /\ c # t.root
         /\ t.child[Other(d)][n] # c
         /\ bnd[d][c] = bnd[d][n] /\ bnd[Other(d)][c] = pos[n]
         /\ Between(bnd, n, pos[c])
         /\ \A x \in Int : Between(bnd, c, x) => Between(bnd, n, x)
         /\ ~ Between(bnd, c, pos[n])
<1>0. n \in Session
  BY DEF Nodes
<1>1. /\ c \in Nodes(t) /\ c \in Session /\ t.up[c] = n /\ c # n /\ c # t.root
      /\ t.child[Other(d)][n] # c
  BY <1>0, ShapeFacts, ChildFacts
<1>2. bnd[d][c] = bnd[d][n] /\ bnd[Other(d)][c] = pos[n]
  BY ShapeFacts DEF Bounded
<1>3. \A e \in Side : bnd[e][n] \in Int /\ bnd[e][c] \in Int /\ pos[n] \in Int /\ pos[c] \in Int
  BY <1>0, <1>1, ShapeFacts
<1>4. Between(bnd, n, pos[n]) /\ Between(bnd, c, pos[c])
  BY <1>1, BoundFacts
<1> QED
  BY <1>1, <1>2, <1>3, <1>4 DEF Between, Side, Other

(* The two nodes of a rotation and their neighbours are different.         *)
LEMMA RotateNodes ==
  ASSUME NEW t, NEW q, NEW pos, NEW bnd, Shape(t, q, pos, bnd),
         NEW n \in Nodes(t), NEW d \in Side,
         NEW top, top = t.child[Other(d)][n], top # Null,
         NEW inner, inner = t.child[d][top], NEW above, above = t.up[n]
  PROVE  /\ n \in Session /\ top \in Session /\ top \in Nodes(t)
         /\ inner \in Session \cup {Null} /\ above \in Session \cup {Null}
         /\ inner # n /\ inner # top /\ top # n /\ above # n /\ above # top
         /\ above # inner \/ above = Null
<1>1. n \in Session /\ Other(d) \in Side /\ Null \notin Session
  BY Sides, TreeAssumption DEF Nodes
<1>2. /\ top \in Session /\ top \in Nodes(t) /\ top # n
      /\ Between(bnd, n, pos[top]) /\ ~ Between(bnd, top, pos[n])
      /\ \A x \in Int : Between(bnd, top, x) => Between(bnd, n, x)
  BY <1>1, KidFacts
<1>3. /\ inner \in Session \cup {Null} /\ above \in Session \cup {Null}
      /\ \A x \in Session : pos[x] \in Int
  BY <1>1, <1>2, ShapeFacts
<1>4. inner # Null => inner # top /\ Between(bnd, top, pos[inner])
  BY <1>2, KidFacts
<1>5. above # Null => ~ Between(bnd, n, pos[above])
  BY BoundFacts
<1>6. Between(bnd, n, pos[n])
  BY BoundFacts
<1> QED
  BY <1>1, <1>2, <1>3, <1>4, <1>5, <1>6

(* Rotating keeps the links paired and the same nodes linked.              *)
LEMMA RotateLinking ==
  ASSUME NEW t, NEW q, NEW pos, NEW bnd, Shape(t, q, pos, bnd),
         NEW n \in Nodes(t), NEW d \in Side, t.child[Other(d)][n] # Null,
         NEW u, u = Rotate(t, n, d)
  PROVE  Nodes(u) = Nodes(t) /\ Linking(u)
<1> DEFINE top   == t.child[Other(d)][n]
           inner == t.child[d][top]
           above == t.up[n]
           w     == SideOf(t, above, n)
<1>1. /\ n \in Session /\ top \in Session /\ top \in Nodes(t)
      /\ inner \in Session \cup {Null} /\ above \in Session \cup {Null}
      /\ inner # n /\ inner # top /\ top # n /\ above # n /\ above # top
      /\ above # inner \/ above = Null
  BY RotateNodes
<1>2. t \in TreeType /\ Null \notin Session
  BY ShapeFacts
<1>3. /\ u \in TreeType
      /\ u.red = t.red
      /\ u.root = IF above = Null THEN top ELSE t.root
      /\ \A x \in Session, e \in Side :
           u.child[e][x] = IF x = n THEN IF e = d THEN t.child[e][n] ELSE inner
                           ELSE IF x = top THEN IF e = d THEN n ELSE t.child[e][top]
                           ELSE IF x = above /\ e = w THEN top
                           ELSE t.child[e][x]
      /\ \A x \in Session :
           u.up[x] = IF x = n THEN top ELSE IF x = top THEN above
                     ELSE IF x = inner THEN n ELSE t.up[x]
  BY <1>1, <1>2, RotateFields
<1>4. /\ \A x \in Session, e \in Side :
           t.child[e][x] # Null => x \in Nodes(t) /\ t.up[t.child[e][x]] = x
      /\ \A x \in Session : t.up[x] # Null => \E e \in Side : t.child[e][t.up[x]] = x
      /\ t.root # Null => t.up[t.root] = Null
      /\ t.root = Null => Nodes(t) = {}
      /\ t.red \subseteq Nodes(t)
      /\ \A x \in Session, e \in Side : t.child[e][x] \in Session \cup {Null}
      /\ \A x \in Session : t.up[x] \in Session \cup {Null}
  BY ShapeFacts DEF Linking
<1>5. /\ above = Null => n = t.root
      /\ above # Null => /\ n # t.root /\ w \in Side /\ t.child[w][above] = n
                         /\ \A e \in Side : t.child[e][above] = n => e = w
  BY <1>1, BoundFacts, ParentFacts
<1>6. /\ top # t.root /\ t.up[top] = n
      /\ inner # Null => t.up[inner] = top /\ inner # t.root /\ inner \in Nodes(t)
      /\ t.child[d][n] # top
  BY <1>1, <1>2, Sides, KidFacts
<1> HIDE DEF top, inner, above, w
<1>7. Nodes(u) = Nodes(t)
  <2>1. ASSUME NEW x \in Session PROVE x \in Nodes(u) <=> x \in Nodes(t)
    BY <1>1, <1>2, <1>3, <1>5, <1>6 DEF Nodes
  <2> QED
    BY <2>1 DEF Nodes
<1>8. ASSUME NEW x \in Session, NEW e \in Side, u.child[e][x] # Null
      PROVE  x \in Nodes(t) /\ u.up[u.child[e][x]] = x
  <2>1. CASE x = n
    <3>1. CASE e = d
      <4>1. u.child[e][x] = t.child[d][n]
        BY <1>3, <2>1, <3>1
      <4>2. t.child[d][n] # n /\ t.child[d][n] # top /\ t.child[d][n] # inner
        BY <1>1, <1>4, <1>6, <3>1, <4>1, <1>8, <1>2, KidFacts
      <4> QED
        BY <1>1, <1>3, <1>4, <1>8, <2>1, <3>1, <4>1, <4>2
    <3>2. CASE e # d
      BY <1>1, <1>3, <1>6, <1>8, <2>1, <3>2
    <3> QED
      BY <3>1, <3>2
  <2>2. CASE x = top
    <3>1. CASE e = d
      BY <1>1, <1>3, <2>2, <3>1
    <3>2. CASE e # d
      <4>1. u.child[e][x] = t.child[e][top]
        BY <1>1, <1>3, <2>2, <3>2
      <4>2. t.child[e][top] # n /\ t.child[e][top] # top /\ (t.child[e][top] # inner \/ inner = Null)
        <5>1. e = Other(d) /\ d = Other(e)
          BY <3>2, Sides
        <5>2. t.up[t.child[e][top]] = top /\ t.child[e][top] # Null
          BY <1>1, <1>4, <1>8, <4>1
        <5>3. t.up[n] # top
          BY <1>1 DEF above
        <5>4. t.child[e][top] # top /\ t.child[d][top] # t.child[e][top]
          BY <5>1, <5>2, <1>1, KidFacts
        <5> QED
          BY <5>2, <5>3, <5>4 DEF inner
      <4> QED
        BY <1>1, <1>3, <1>4, <1>8, <2>2, <4>1, <4>2
    <3> QED
      BY <3>1, <3>2
  <2>3. CASE x = above /\ e = w
    BY <1>1, <1>2, <1>3, <1>4, <1>5, <1>8, <2>3
  <2>4. CASE x # n /\ x # top /\ ~(x = above /\ e = w)
    <3>1. u.child[e][x] = t.child[e][x]
      BY <1>3, <2>4
    <3>2. t.child[e][x] # n /\ t.child[e][x] # top /\ (t.child[e][x] # inner \/ inner = Null)
      BY <1>1, <1>2, <1>4, <1>5, <1>6, <1>8, <2>4, <3>1 DEF above
    <3> QED
      BY <1>1, <1>3, <1>4, <1>8, <3>1, <3>2
  <2> QED
    BY <2>1, <2>2, <2>3, <2>4
<1>9. ASSUME NEW x \in Session, u.up[x] # Null
      PROVE  \E e \in Side : u.child[e][u.up[x]] = x
  <2>1. CASE x = n
    BY <1>1, <1>3, <2>1
  <2>2. CASE x = top
    BY <1>1, <1>2, <1>3, <1>5, <1>9, <2>2
  <2>3. CASE x = inner
    <3>1. u.up[x] = n
      BY <1>1, <1>3, <2>3
    <3>2. u.child[Other(d)][n] = inner
      BY <1>1, <1>3, Sides
    <3> QED
      BY <2>3, <3>1, <3>2, Sides
  <2>4. CASE x # n /\ x # top /\ x # inner
    <3>1. u.up[x] = t.up[x]
      BY <1>3, <2>4
    <3>2. PICK e \in Side : t.child[e][t.up[x]] = x
      BY <1>4, <1>9, <3>1
    <3>3. t.up[x] = n => e = d
      BY <3>2, <2>4, Sides DEF top
    <3>4. t.up[x] = top => e # d
      BY <3>2, <2>4 DEF inner
    <3>5. ~(t.up[x] = above /\ e = w /\ above # Null)
      BY <3>2, <1>5, <2>4
    <3>6. t.up[x] \in Session
      BY <1>4, <1>9, <3>1
    <3>7. u.child[e][t.up[x]] = x
      <4> DEFINE y == t.up[x]
      <4> HIDE DEF y
      <4>1. y \in Session /\ t.child[e][y] = x /\ y # Null
        BY <3>2, <3>6, <1>9, <3>1 DEF y
      <4>2. (y = n => e = d) /\ (y = top => e # d) /\ ~(y = above /\ e = w)
        BY <3>3, <3>4, <3>5, <1>9, <3>1 DEF y
      <4>3. u.child[e][y] = x
        BY <1>3, <4>1, <4>2
      <4> QED
        BY <4>3 DEF y
    <3> QED
      BY <3>1, <3>7
  <2> QED
    BY <2>1, <2>2, <2>3, <2>4
<1>10. (u.root # Null => u.up[u.root] = Null) /\ (u.root = Null => Nodes(u) = {})
  <2>1. t.root \in Session \cup {Null} /\ t.root # Null
    BY <1>2, <1>4 DEF TreeType
  <2> QED
    BY <1>1, <1>2, <1>3, <1>4, <1>5, <1>6, <1>7, <2>1
<1> QED
  BY <1>3, <1>4, <1>7, <1>8, <1>9, <1>10 DEF Linking

(* No rotation changes the order of the nodes.                             *)
LEMMA RotateShape ==
  ASSUME NEW t, NEW q, NEW pos, NEW bnd, Shape(t, q, pos, bnd),
         NEW n \in Nodes(t), NEW d \in Side, t.child[Other(d)][n] # Null
  PROVE  /\ Nodes(Rotate(t, n, d)) = Nodes(t)
         /\ \E b \in [Side -> [Session -> Int]] : Shape(Rotate(t, n, d), q, pos, b)
<1> DEFINE o     == Other(d)
           top   == t.child[o][n]
           inner == t.child[d][top]
           above == t.up[n]
           w     == SideOf(t, above, n)
           u     == Rotate(t, n, d)
           b     == [e \in Side |-> [x \in Session |->
                       IF x = n /\ e = o THEN pos[top]
                       ELSE IF x = top /\ e = d THEN bnd[d][n] ELSE bnd[e][x]]]
<1>1. /\ n \in Session /\ top \in Session /\ top \in Nodes(t)
      /\ inner \in Session \cup {Null} /\ above \in Session \cup {Null}
      /\ inner # n /\ inner # top /\ top # n /\ above # n /\ above # top
      /\ above # inner \/ above = Null
  BY RotateNodes
<1>2. t \in TreeType /\ Null \notin Session
  BY ShapeFacts
<1>3. /\ u.root = IF above = Null THEN top ELSE t.root
      /\ \A x \in Session, e \in Side :
           u.child[e][x] = IF x = n THEN IF e = d THEN t.child[e][n] ELSE inner
                           ELSE IF x = top THEN IF e = d THEN n ELSE t.child[e][top]
                           ELSE IF x = above /\ e = w THEN top
                           ELSE t.child[e][x]
  BY <1>1, <1>2, RotateFields
<1>4. Nodes(u) = Nodes(t) /\ Linking(u)
  BY RotateLinking
<1>5. /\ above = Null => n = t.root
      /\ above # Null => /\ n # t.root /\ w \in Side /\ t.child[w][above] = n
                         /\ \A e \in Side : t.child[e][above] = n => e = w
                         /\ bnd[w][n] = bnd[w][above] /\ bnd[Other(w)][n] = pos[above]
  BY <1>1, BoundFacts, ParentFacts
<1>6. /\ \A x \in Nodes(t) : /\ 0 <= bnd["left"][x] /\ bnd["left"][x] < pos[x]
                             /\ pos[x] < bnd["right"][x] /\ bnd["right"][x] <= Len(q) + 1
      /\ \A x \in Nodes(t), e \in Side :
           IF t.child[e][x] = Null THEN bnd[e][x] = pos[x] + Way(e)
           ELSE /\ bnd[e][t.child[e][x]] = bnd[e][x]
                /\ bnd[Other(e)][t.child[e][x]] = pos[x]
      /\ t.root # Null => bnd["left"][t.root] = 0 /\ bnd["right"][t.root] = Len(q) + 1
      /\ \A x \in Session : pos[x] \in Int
      /\ \A x \in Session, e \in Side : bnd[e][x] \in Int
      /\ \A x \in Session, e \in Side :
           t.child[e][x] # Null => x \in Nodes(t) /\ t.up[t.child[e][x]] = x
      /\ \A x \in Session, e \in Side : t.child[e][x] \in Session \cup {Null}
      /\ Len(q) \in Nat
      /\ Nodes(t) \subseteq Session
  <2>1. Linking(t) /\ Bounded(t, pos, bnd, Len(q)) /\ Len(q) \in Nat
    BY ShapeFacts
  <2>2. /\ \A x \in Session : pos[x] \in Int
        /\ \A x \in Session, e \in Side : bnd[e][x] \in Int
        /\ \A x \in Session, e \in Side : t.child[e][x] \in Session \cup {Null}
    BY ShapeFacts
  <2>3. Nodes(t) \subseteq Session
    BY DEF Nodes
  <2>4. \A x \in Session, e \in Side :
           t.child[e][x] # Null => x \in Nodes(t) /\ t.up[t.child[e][x]] = x
    BY <2>1 DEF Linking
  <2> QED
    BY <2>1, <2>2, <2>3, <2>4 DEF Bounded
<1>7. b \in [Side -> [Session -> Int]]
  BY <1>1, <1>6
<1>8. \A x \in Session, e \in Side :
        b[e][x] = IF x = n /\ e = o THEN pos[top]
                  ELSE IF x = top /\ e = d THEN bnd[d][n] ELSE bnd[e][x]
  OBVIOUS
<1>o. o \in Side /\ d # o /\ Other(o) = d /\ (\A e \in Side : e = d \/ e = o) /\ Way(o) = 0 - Way(d)
      /\ Way(d) \in Int
  BY Sides DEF Way, Side, Other
<1>9. /\ bnd[o][top] = bnd[o][n] /\ bnd[d][top] = pos[n]
      /\ inner = Null => pos[n] = pos[top] + Way(d)
      /\ inner # Null => bnd[d][inner] = pos[n] /\ bnd[o][inner] = pos[top]
      /\ t.up[top] = n /\ top # t.root /\ (inner # Null => t.up[inner] = top)
  <2>1. bnd[o][top] = bnd[o][n] /\ bnd[d][top] = pos[n]
    BY <1>6, <1>o, <1>1, <1>2
  <2>2. inner = Null => pos[n] = pos[top] + Way(d)
    BY <1>6, <1>1, <2>1
  <2>3. inner # Null => bnd[d][inner] = pos[n] /\ bnd[o][inner] = pos[top]
    BY <1>6, <1>1, <2>1
  <2>4. t.up[top] = n /\ (inner # Null => t.up[inner] = top)
    BY <1>6, <1>1, <1>o, <1>2
  <2>5. top # t.root
    BY <1>1, <1>2, <1>o, KidFacts
  <2> QED
    BY <2>1, <2>2, <2>3, <2>4, <2>5
<1> HIDE DEF b, u, w, above, inner, top, o
<1>10. \A x \in Nodes(t) : /\ 0 <= b["left"][x] /\ b["left"][x] < pos[x]
                           /\ pos[x] < b["right"][x] /\ b["right"][x] <= Len(q) + 1
  <2>1. CASE d = "left"
    <3>1. o = "right"
      BY <2>1 DEF o, Other
    <3> QED
      BY <1>1, <1>6, <1>8, <1>9, <2>1, <3>1 DEF Side
  <2>2. CASE d = "right"
    <3>1. o = "left"
      BY <2>2 DEF o, Other
    <3> QED
      BY <1>1, <1>6, <1>8, <1>9, <2>2, <3>1 DEF Side
  <2> QED
    BY <2>1, <2>2 DEF Side
<1>11. ASSUME NEW x \in Nodes(t), NEW e \in Side
       PROVE IF u.child[e][x] = Null THEN b[e][x] = pos[x] + Way(e)
             ELSE /\ b[e][u.child[e][x]] = b[e][x]
                  /\ b[Other(e)][u.child[e][x]] = pos[x]
  <2>0. x \in Session /\ Other(e) \in Side /\ Other(e) # e /\ (e = d => Other(e) = o) /\ (e = o => Other(e) = d)
        /\ Way(e) \in Int
    BY <1>6, Sides, <1>o DEF Way
  <2>1. CASE x = n /\ e = d
    <3>1. u.child[e][x] = t.child[d][n]
      BY <1>3, <2>1, <2>0
    <3>2. b[e][x] = bnd[d][n]
      BY <1>8, <2>1, <1>1, <1>o
    <3>3. t.child[d][n] # n /\ t.child[d][n] # top
      BY <1>1, <1>6, <1>9, <1>o, KidFacts, <1>2 DEF top, o
    <3>4. t.child[d][n] # Null => /\ b[d][t.child[d][n]] = bnd[d][t.child[d][n]]
                                  /\ b[o][t.child[d][n]] = bnd[o][t.child[d][n]]
      BY <3>3, <1>8, <1>1, <1>o, <1>6
    <3> QED
      BY <3>1, <3>2, <3>4, <1>6, <2>0, <2>1
  <2>2. CASE x = n /\ e = o
    <3>1. u.child[e][x] = inner
      BY <1>3, <2>2, <2>0, <1>o
    <3>2. b[e][x] = pos[top]
      BY <1>8, <2>2, <1>1, <1>o
    <3>3. inner # Null => b[o][inner] = bnd[o][inner] /\ b[d][inner] = bnd[d][inner]
      BY <1>8, <1>1, <1>o
    <3> QED
      BY <3>1, <3>2, <3>3, <1>1, <1>6, <1>9, <1>o, <2>0, <2>2
  <2>3. CASE x = top /\ e = d
    <3>1. u.child[e][x] = n
      BY <1>3, <2>3, <2>0, <1>o, <1>1
    <3> QED
      BY <3>1, <1>8, <1>1, <1>2, <1>o, <2>0, <2>3
  <2>4. CASE x = top /\ e = o
    <3>1. u.child[e][x] = t.child[o][top] /\ b[e][x] = bnd[o][top]
      BY <1>3, <1>8, <2>4, <2>0, <1>o, <1>1
    <3>2. t.child[o][top] # Null => t.child[o][top] # top /\ t.child[o][top] # n
      BY <1>1, <1>o, <1>6, KidFacts DEF above
    <3>3. t.child[o][top] # Null => b[o][t.child[o][top]] = bnd[o][t.child[o][top]] /\ b[d][t.child[o][top]] = bnd[d][t.child[o][top]]
      BY <3>2, <1>1, <1>8, <1>6, <1>o
    <3> QED
      BY <3>1, <3>3, <1>1, <1>6, <2>0, <2>4
  <2>5. CASE x = above /\ e = w
    <3>1. u.child[e][x] = top /\ b[e][x] = bnd[w][above] /\ top # Null /\ x # n /\ x # top
      BY <1>3, <1>8, <2>5, <2>0, <1>o, <1>1, <1>2
    <3>2. bnd[w][n] = bnd[w][above] /\ bnd[Other(w)][n] = pos[above]
      BY <1>5, <2>5, <2>0, <1>2
    <3>3. b[d][top] = bnd[d][n] /\ b[o][top] = bnd[o][n]
      BY <1>8, <1>9, <1>1, <1>o
    <3> QED
      BY <3>1, <3>2, <3>3, <2>0, <2>5, <1>o
  <2>6. CASE x # n /\ x # top /\ ~(x = above /\ e = w)
    <3>1. u.child[e][x] = t.child[e][x] /\ b[e][x] = bnd[e][x]
      BY <1>3, <1>8, <2>0, <2>6
    <3>2. t.child[e][x] # Null => t.child[e][x] # n /\ t.child[e][x] # top
      <4> SUFFICES ASSUME t.child[e][x] # Null PROVE t.child[e][x] # n /\ t.child[e][x] # top
        OBVIOUS
      <4>1. t.up[t.child[e][x]] = x
        BY <1>6, <2>0
      <4>2. t.child[e][x] # top
        BY <4>1, <1>9, <2>6
      <4>3. ASSUME t.child[e][x] = n PROVE FALSE
        <5>1. above = x /\ above # Null
          BY <4>1, <4>3, <2>0, <1>2 DEF above
        <5> QED
          BY <5>1, <4>3, <1>5, <2>6
      <4> QED
        BY <4>2, <4>3
    <3>3. t.child[e][x] # Null => b[e][t.child[e][x]] = bnd[e][t.child[e][x]]
            /\ b[Other(e)][t.child[e][x]] = bnd[Other(e)][t.child[e][x]]
      BY <3>2, <1>8, <2>0, <1>6
    <3> QED
      BY <3>1, <3>3, <1>6
  <2> QED
    BY <2>1, <2>2, <2>3, <2>4, <2>5, <2>6, <1>o
<1>12. u.root # Null => b["left"][u.root] = 0 /\ b["right"][u.root] = Len(q) + 1
  <2>1. CASE above = Null
    <3>1. u.root = top /\ b[d][top] = bnd[d][n] /\ b[o][top] = bnd[o][n] /\ n = t.root
      BY <1>3, <1>5, <1>8, <1>9, <1>1, <1>o, <2>1
    <3>2. bnd["left"][n] = 0 /\ bnd["right"][n] = Len(q) + 1
      BY <3>1, <1>6, <1>1, <1>2
    <3> QED
      BY <3>1, <3>2, <1>o DEF Side
  <2>2. CASE above # Null
    <3>1. u.root = t.root /\ t.root # n /\ t.root # top
      BY <1>3, <1>5, <1>9, <2>2
    <3>2. t.root # Null => t.root \in Session
      BY <1>2 DEF TreeType
    <3>3. t.root # Null => b["left"][t.root] = bnd["left"][t.root] /\ b["right"][t.root] = bnd["right"][t.root]
      BY <1>8, <3>1, <3>2 DEF Side
    <3> QED
      BY <3>1, <3>3, <1>6
  <2> QED
    BY <2>1, <2>2
<1>13. Bounded(u, pos, b, Len(q))
  BY <1>4, <1>7, <1>10, <1>11, <1>12 DEF Bounded
<1>14. Order(q, pos, Nodes(u))
  BY <1>4, ShapeFacts
<1>15. Shape(u, q, pos, b)
  BY <1>4, <1>13, <1>14 DEF Shape
<1> QED
  BY <1>4, <1>7, <1>15 DEF u
----------------------------------------------------------------------------
(* A set each member of which has a smaller one is empty.                  *)
LEMMA NoDescent ==
  ASSUME NEW S, NEW mu, \A x \in S : mu[x] \in Nat /\ \E y \in S : mu[y] < mu[x]
  PROVE  S = {}
<1> SUFFICES ASSUME S # {} PROVE FALSE
  OBVIOUS
<1> DEFINE T == {mu[x] : x \in S}
           R == OpToRel(<, Nat)
<1>1. T \subseteq Nat /\ T # {}
  OBVIOUS
<1>2. PICK m \in T : \A y \in T : ~ (<<y, m>> \in R)
  <2> HIDE DEF T, R
  <2>1. IsWellFoundedOn(R, Nat)
    BY NatLessThanWellFounded DEF R
  <2> QED
    BY <1>1, <2>1, WFMin
<1>3. PICK x \in S : m = mu[x]
  BY <1>2
<1>4. PICK y \in S : mu[y] < mu[x]
  OBVIOUS
<1>5. mu[y] \in Nat /\ mu[x] \in Nat
  OBVIOUS
<1>6. <<mu[y], mu[x]>> \in R
  BY <1>4, <1>5 DEF OpToRel
<1> QED
  BY <1>2, <1>3, <1>4, <1>6

(* No way down the tree goes on for ever.                                  *)
LEMMA WayDownEnds ==
  ASSUME NEW t, NEW q, NEW pos, NEW bnd, Shape(t, q, pos, bnd),
         NEW S \in SUBSET Nodes(t),
         \A x \in S : \E e \in Side : t.child[e][x] \in S
  PROVE  S = {}
<1> DEFINE mu == [x \in S |-> bnd["right"][x] - bnd["left"][x]]
<1>1. ASSUME NEW x \in S PROVE mu[x] \in Nat
  <2>1. Between(bnd, x, pos[x]) /\ x \in Session
    BY BoundFacts
  <2>2. bnd["right"][x] \in Int /\ bnd["left"][x] \in Int /\ pos[x] \in Int
    BY <2>1, ShapeFacts DEF Side
  <2> QED
    BY <2>1, <2>2 DEF Between
<1>2. ASSUME NEW x \in S PROVE \E y \in S : mu[y] < mu[x]
  <2>1. PICK e \in Side : t.child[e][x] \in S
    OBVIOUS
  <2> DEFINE y == t.child[e][x]
  <2>2. y \in Session /\ x \in Session /\ x \in Nodes(t) /\ Null \notin Session
    BY <2>1, TreeAssumption DEF Nodes
  <2>3. bnd[e][y] = bnd[e][x] /\ bnd[Other(e)][y] = pos[x]
    BY <2>2, KidFacts
  <2>4. Between(bnd, x, pos[x])
    BY BoundFacts
  <2>5. bnd["right"][x] \in Int /\ bnd["left"][x] \in Int /\ pos[x] \in Int
    BY <2>2, ShapeFacts DEF Side
  <2>6. bnd["right"][y] - bnd["left"][y] < bnd["right"][x] - bnd["left"][x]
    <3>1. CASE e = "left"
      BY <2>3, <2>4, <2>5, <3>1 DEF Between, Other
    <3>2. CASE e = "right"
      BY <2>3, <2>4, <2>5, <3>2 DEF Between, Other
    <3> QED
      BY <3>1, <3>2 DEF Side
  <2> QED
    BY <2>1, <2>6
<1> HIDE DEF mu
<1> QED
  BY <1>1, <1>2, NoDescent

(* No way up goes on for ever.                                             *)
LEMMA WayUpEnds ==
  ASSUME NEW t, NEW q, NEW pos, NEW bnd, Shape(t, q, pos, bnd),
         NEW S \in SUBSET Nodes(t), \A x \in S : t.up[x] \in S
  PROVE  S = {}
<1> DEFINE mu == [x \in S |-> Len(q) + 1 - (bnd["right"][x] - bnd["left"][x])]
<1>1. ASSUME NEW x \in S PROVE mu[x] \in Nat
  <2>1. 0 <= bnd["left"][x] /\ bnd["right"][x] <= Len(q) + 1 /\ x \in Session
    BY BoundFacts
  <2>2. bnd["right"][x] \in Int /\ bnd["left"][x] \in Int /\ Len(q) \in Nat
    BY <2>1, ShapeFacts DEF Side
  <2> QED
    BY <2>1, <2>2
<1>2. ASSUME NEW x \in S PROVE \E y \in S : mu[y] < mu[x]
  <2> DEFINE y == t.up[x]
             e == SideOf(t, y, x)
  <2>1. y \in S /\ y \in Nodes(t) /\ x \in Nodes(t)
    OBVIOUS
  <2>2. y \in Session /\ x \in Session /\ y # Null
    BY <2>1, TreeAssumption DEF Nodes
  <2>3. e \in Side /\ bnd[e][x] = bnd[e][y] /\ bnd[Other(e)][x] = pos[y]
    BY <2>2, ParentFacts
  <2>4. Between(bnd, y, pos[y])
    BY <2>1, BoundFacts
  <2>5. /\ bnd["right"][x] \in Int /\ bnd["left"][x] \in Int /\ pos[y] \in Int
        /\ bnd["right"][y] \in Int /\ bnd["left"][y] \in Int /\ Len(q) \in Nat
    BY <2>2, ShapeFacts DEF Side
  <2> HIDE DEF e
  <2>6. bnd["right"][x] - bnd["left"][x] < bnd["right"][y] - bnd["left"][y]
    <3>1. CASE e = "left"
      BY <2>3, <2>4, <2>5, <3>1 DEF Between, Other
    <3>2. CASE e = "right"
      BY <2>3, <2>4, <2>5, <3>2 DEF Between, Other
    <3> QED
      BY <3>1, <3>2, <2>3 DEF Side
  <2>7. mu[y] < mu[x]
    BY <2>1, <2>5, <2>6
  <2> QED
    BY <2>1, <2>7
<1> HIDE DEF mu
<1> QED
  BY <1>1, <1>2, NoDescent

(* Of two neighbours in the order one has the other below it, and so a     *)
(* child on that side.                                                     *)
LEMMA Neighbours ==
  ASSUME NEW t, NEW q, NEW pos, NEW bnd, Shape(t, q, pos, bnd),
         NEW i \in 1..Len(q), i + 1 <= Len(q)
  PROVE  t.child["right"][q[i]] # Null \/ t.child["left"][q[i + 1]] # Null
<1> SUFFICES ASSUME t.child["right"][q[i]] = Null, t.child["left"][q[i + 1]] = Null
             PROVE  FALSE
  OBVIOUS
<1> DEFINE S == {x \in Nodes(t) : Between(bnd, x, i) /\ Between(bnd, x, i + 1)}
<1>1. /\ Len(q) \in Nat /\ i \in Nat /\ i + 1 \in 1..Len(q)
      /\ q[i] \in Nodes(t) /\ q[i + 1] \in Nodes(t) /\ pos[q[i]] = i /\ pos[q[i + 1]] = i + 1
  BY ShapeFacts DEF Order
<1>2. t.root \in S
  <2>1. t.root \in Nodes(t) /\ t.root # Null
    BY <1>1, ShapeFacts DEF Nodes, Linking
  <2>2. bnd["left"][t.root] = 0 /\ bnd["right"][t.root] = Len(q) + 1
    BY <2>1, ShapeFacts DEF Bounded
  <2> QED
    BY <1>1, <2>1, <2>2 DEF Between
<1>3. ASSUME NEW x \in S PROVE \E e \in Side : t.child[e][x] \in S
  <2>1. /\ x \in Nodes(t) /\ x \in Session /\ pos[x] \in Int
        /\ bnd["left"][x] \in Int /\ bnd["right"][x] \in Int
    BY ShapeFacts DEF Nodes, Side
  <2>2. Between(bnd, x, i) /\ Between(bnd, x, i + 1) /\ Between(bnd, x, pos[x])
    BY BoundFacts
  <2>3. ASSUME NEW e \in Side, t.child[e][x] = Null PROVE bnd[e][x] = pos[x] + Way(e)
    BY <2>1, <2>3, ShapeFacts DEF Bounded
  <2>4. /\ pos[x] <= i => t.child["right"][x] # Null
        /\ pos[x] > i => t.child["left"][x] # Null
    BY <1>1, <2>1, <2>2, <2>3 DEF Between, Side, Way
  <2>5. pos[x] # i /\ pos[x] # i + 1
    <3>1. q[pos[x]] = x
      BY BoundFacts
    <3> QED
      BY <1>1, <2>1, <2>4, <3>1
  <2>6. CASE pos[x] <= i
    <3> DEFINE y == t.child["right"][x]
    <3>1. /\ y \in Nodes(t) /\ bnd["right"][y] = bnd["right"][x]
          /\ bnd["left"][y] = pos[x]
      BY <2>1, <2>4, <2>6, KidFacts DEF Side, Other
    <3>2. y \in S
      BY <1>1, <2>1, <2>2, <2>5, <2>6, <3>1 DEF Between
    <3> QED
      BY <3>2 DEF Side
  <2>7. CASE pos[x] > i
    <3> DEFINE y == t.child["left"][x]
    <3>1. /\ y \in Nodes(t) /\ bnd["left"][y] = bnd["left"][x]
          /\ bnd["right"][y] = pos[x]
      BY <2>1, <2>4, <2>7, KidFacts DEF Side, Other
    <3>2. y \in S
      BY <1>1, <2>1, <2>2, <2>5, <2>7, <3>1 DEF Between
    <3> QED
      BY <3>2 DEF Side
  <2> QED
    BY <2>1, <2>6, <2>7
<1> HIDE DEF S
<1>4. S \in SUBSET Nodes(t)
  BY DEF S
<1> QED
  BY <1>2, <1>3, <1>4, WayDownEnds
----------------------------------------------------------------------------
(* The definition of the function that Extreme applies.                    *)
IsExtreme(t, d, f) ==
  f = [m \in Session |-> IF t.child[d][m] = Null THEN m ELSE f[t.child[d][m]]]

(* Below n the last node to side d is the one just inside the bound of n.  *)
LEMMA ExtremeIs ==
  ASSUME NEW t, NEW q, NEW pos, NEW bnd, Shape(t, q, pos, bnd),
         NEW n \in Nodes(t), NEW d \in Side
  PROVE  /\ bnd[d][n] - Way(d) \in 1..Len(q)
         /\ Extreme(t, d, n) = q[bnd[d][n] - Way(d)]
         /\ t.child[d][Extreme(t, d, n)] = Null
<1> DEFINE g == [m \in Session |-> IF m \in Nodes(t) THEN q[bnd[d][m] - Way(d)] ELSE m]
           f == CHOOSE h : IsExtreme(t, d, h)
<1>1. ASSUME NEW m \in Nodes(t) PROVE bnd[d][m] - Way(d) \in 1..Len(q)
  <2>1. /\ Between(bnd, m, pos[m]) /\ 0 <= bnd["left"][m] /\ bnd["right"][m] <= Len(q) + 1
        /\ m \in Session
    BY BoundFacts
  <2>2. /\ bnd["left"][m] \in Int /\ bnd["right"][m] \in Int /\ pos[m] \in Int /\ Len(q) \in Nat
    BY <2>1, ShapeFacts DEF Side
  <2> QED
    BY <2>1, <2>2 DEF Between, Way, Side
<1>2. ASSUME NEW m \in Nodes(t), t.child[d][m] = Null PROVE q[bnd[d][m] - Way(d)] = m
  <2>1. bnd[d][m] = pos[m] + Way(d)
    BY <1>2, ShapeFacts DEF Bounded
  <2>2. q[pos[m]] = m /\ pos[m] \in Int
    BY BoundFacts
  <2>3. bnd[d][m] - Way(d) = pos[m]
    BY <2>1, <2>2 DEF Way
  <2> QED
    BY <2>2, <2>3
<1>3. ASSUME NEW m \in Session, t.child[d][m] # Null
      PROVE  /\ m \in Nodes(t) /\ t.child[d][m] \in Nodes(t) /\ t.child[d][m] \in Session
             /\ bnd[d][t.child[d][m]] = bnd[d][m]
  <2>1. m \in Nodes(t)
    BY <1>3, ShapeFacts DEF Linking
  <2> QED
    BY <1>3, <2>1, KidFacts
<1>4. IsExtreme(t, d, g)
  <2>1. ASSUME NEW m \in Session
        PROVE  g[m] = IF t.child[d][m] = Null THEN m ELSE g[t.child[d][m]]
    BY <1>2, <1>3
  <2> HIDE DEF g
  <2>2. g = [m \in Session |-> g[m]]
    BY DEF g
  <2> QED
    BY <2>1, <2>2 DEF IsExtreme
<1>5. IsExtreme(t, d, f)
  <2> HIDE DEF g
  <2> QED
    BY <1>4
<1>6. Extreme(t, d, n) = f[n]
  BY DEF Extreme, IsExtreme
<1> HIDE DEF f
<1>7. \A m \in Session : f[m] = IF t.child[d][m] = Null THEN m ELSE f[t.child[d][m]]
  BY <1>5 DEF IsExtreme
<1> DEFINE S == {m \in Nodes(t) : f[m] # q[bnd[d][m] - Way(d)]}
<1>8. ASSUME NEW m \in S PROVE t.child[d][m] \in S
  <2>1. m \in Session /\ m \in Nodes(t) /\ f[m] # q[bnd[d][m] - Way(d)]
    BY DEF Nodes
  <2>2. t.child[d][m] # Null
    BY <1>2, <1>7, <2>1
  <2> QED
    BY <1>3, <1>7, <2>1, <2>2
<1>9. S = {}
  <2> HIDE DEF S
  <2>1. S \in SUBSET Nodes(t)
    BY DEF S
  <2> QED
    BY <1>8, <2>1, WayDownEnds
<1>10. {m \in Nodes(t) : t.child[d][f[m]] # Null} = {}
  <2> DEFINE U == {m \in Nodes(t) : t.child[d][f[m]] # Null}
  <2>1. ASSUME NEW m \in U PROVE t.child[d][m] \in U
    <3>1. m \in Session /\ m \in Nodes(t) /\ t.child[d][f[m]] # Null
      BY DEF Nodes
    <3>2. t.child[d][m] # Null
      BY <1>7, <3>1
    <3> QED
      BY <1>3, <1>7, <3>1, <3>2
  <2>2. U \in SUBSET Nodes(t)
    OBVIOUS
  <2> HIDE DEF U
  <2>3. U = {}
    BY <2>1, <2>2, WayDownEnds
  <2> QED
    BY <2>3 DEF U
<1> QED
  BY <1>1, <1>6, <1>9, <1>10

(* The interval of the root is everything.                                 *)
LEMMA RootFacts ==
  ASSUME NEW t, NEW q, NEW pos, NEW bnd, Shape(t, q, pos, bnd), t.root # Null
  PROVE  t.root \in Nodes(t) /\ bnd["left"][t.root] = 0 /\ bnd["right"][t.root] = Len(q) + 1
<1>1. t.root \in Nodes(t)
  BY ShapeFacts DEF Nodes
<1>2. bnd["left"][t.root] = 0 /\ bnd["right"][t.root] = Len(q) + 1
  BY ShapeFacts DEF Bounded
<1> QED
  BY <1>1, <1>2

(* rb_first and rb_last return the ends of the order.                      *)
LEMMA EndOfIs ==
  ASSUME NEW t, NEW q, NEW pos, NEW bnd, Shape(t, q, pos, bnd)
  PROVE  /\ EndOf(t, "left") = IF Len(q) = 0 THEN Null ELSE q[1]
         /\ EndOf(t, "right") = IF Len(q) = 0 THEN Null ELSE q[Len(q)]
         /\ t.root = Null <=> Len(q) = 0
<1>1. Len(q) \in Nat
  BY ShapeFacts
<1>2. CASE t.root = Null
  <2>1. Nodes(t) = {}
    BY <1>2, ShapeFacts DEF Linking
  <2>2. Len(q) = 0
    BY <1>1, <2>1, ShapeFacts DEF Order
  <2> QED
    BY <1>2, <2>2 DEF EndOf
<1>3. CASE t.root # Null
  <2>1. t.root \in Nodes(t)
    BY <1>3, RootFacts
  <2>2. bnd["left"][t.root] = 0 /\ bnd["right"][t.root] = Len(q) + 1
    BY <1>3, RootFacts
  <2>3. pos[t.root] \in 1..Len(q)
    BY <2>1, BoundFacts
  <2>4. bnd["left"][t.root] - Way("left") = 1 /\ bnd["right"][t.root] - Way("right") = Len(q)
    BY <1>1, <2>2 DEF Way
  <2>5. \A d \in Side : Extreme(t, d, t.root) = q[bnd[d][t.root] - Way(d)]
    BY <2>1, ExtremeIs
  <2>6. "left" \in Side /\ "right" \in Side
    BY DEF Side
  <2>7. Extreme(t, "left", t.root) = q[1]
    BY <2>4, <2>5, <2>6
  <2>8. Extreme(t, "right", t.root) = q[Len(q)]
    BY <2>4, <2>5, <2>6
  <2> QED
    BY <1>1, <1>3, <2>3, <2>7, <2>8 DEF EndOf
<1> QED
  BY <1>2, <1>3

(* The definition of the function that Step applies.                       *)
IsUp(t, d, f) ==
  f = [m \in Session |-> IF t.up[m] # Null /\ t.child[d][t.up[m]] = m THEN f[t.up[m]] ELSE t.up[m]]

(* Position i of q, or Null beyond the ends.                               *)
At(q, i) == IF i \in 1..Len(q) THEN q[i] ELSE Null

(* Step takes a node to its neighbour in the order.                        *)
LEMMA StepIs ==
  ASSUME NEW t, NEW q, NEW pos, NEW bnd, Shape(t, q, pos, bnd),
         NEW n \in Nodes(t), NEW d \in Side
  PROVE  Step(t, n, d) = At(q, pos[n] + Way(d))
<1> DEFINE g == [m \in Session |-> IF m \in Nodes(t) THEN At(q, bnd[d][m]) ELSE Null]
           f == CHOOSE h : IsUp(t, d, h)
<1>0. n \in Session /\ Other(d) \in Side /\ Null \notin Session /\ pos[n] \in Int /\ Len(q) \in Nat
  BY Sides, ShapeFacts DEF Nodes
<1>1. CASE t.child[d][n] # Null
  <2> DEFINE c == t.child[d][n]
  <2>1. c \in Nodes(t) /\ bnd[Other(d)][c] = pos[n]
    BY <1>0, <1>1, KidFacts
  <2>2. Way(Other(d)) = 0 - Way(d)
    BY DEF Way, Other, Side
  <2>3. pos[n] - Way(Other(d)) = pos[n] + Way(d)
    BY <1>0, <2>2 DEF Way
  <2>4. pos[n] - Way(Other(d)) \in 1..Len(q) /\ Extreme(t, Other(d), c) = q[pos[n] - Way(Other(d))]
    <3> HIDE DEF c
    <3> QED
      BY <1>0, <2>1, ExtremeIs
  <2>5. Step(t, n, d) = Extreme(t, Other(d), c)
    BY <1>1 DEF Step
  <2> QED
    BY <2>3, <2>4, <2>5 DEF At
<1>2. ASSUME NEW m \in Nodes(t), t.up[m] = Null PROVE At(q, bnd[d][m]) = Null
  <2>1. m = t.root /\ m # Null
    BY <1>0, <1>2, BoundFacts
  <2>2. bnd["left"][m] = 0 /\ bnd["right"][m] = Len(q) + 1
    BY <2>1, ShapeFacts DEF Bounded
  <2> QED
    BY <1>0, <2>2 DEF At, Side
<1>3. ASSUME NEW m \in Session, t.up[m] # Null
      PROVE  /\ m \in Nodes(t) /\ t.up[m] \in Nodes(t) /\ t.up[m] \in Session
             /\ t.child[d][t.up[m]] = m => At(q, bnd[d][m]) = At(q, bnd[d][t.up[m]])
             /\ t.child[d][t.up[m]] # m => At(q, bnd[d][m]) = t.up[m]
  <2> DEFINE p == t.up[m]
             w == SideOf(t, p, m)
  <2>1. /\ p \in Nodes(t) /\ p \in Session /\ w \in Side /\ t.child[w][p] = m
        /\ t.child[d][p] = m => d = w
        /\ bnd[w][m] = bnd[w][p] /\ bnd[Other(w)][m] = pos[p]
    BY <1>3, ParentFacts
  <2>2. q[pos[p]] = p /\ pos[p] \in 1..Len(q)
    BY <2>1, BoundFacts
  <2>3. m \in Nodes(t)
    BY <1>3 DEF Nodes
  <2> HIDE DEF w
  <2>4. d # w => d = Other(w)
    BY <2>1, Sides
  <2> QED
    BY <2>1, <2>2, <2>3, <2>4 DEF At
<1>4. IsUp(t, d, g)
  <2>1. ASSUME NEW m \in Session
        PROVE  g[m] = IF t.up[m] # Null /\ t.child[d][t.up[m]] = m THEN g[t.up[m]] ELSE t.up[m]
    BY <1>2, <1>3
  <2> HIDE DEF g
  <2>2. g = [m \in Session |-> g[m]]
    BY DEF g
  <2> QED
    BY <2>1, <2>2 DEF IsUp
<1>5. IsUp(t, d, f)
  <2> HIDE DEF g
  <2> QED
    BY <1>4
<1>6. t.child[d][n] = Null => Step(t, n, d) = f[n]
  BY DEF Step, IsUp
<1> HIDE DEF f
<1>7. \A m \in Session : f[m] = IF t.up[m] # Null /\ t.child[d][t.up[m]] = m THEN f[t.up[m]] ELSE t.up[m]
  BY <1>5 DEF IsUp
<1> DEFINE S == {m \in Nodes(t) : f[m] # At(q, bnd[d][m])}
<1>8. ASSUME NEW m \in S PROVE t.up[m] \in S
  <2>1. m \in Session /\ m \in Nodes(t) /\ f[m] # At(q, bnd[d][m])
    BY DEF Nodes
  <2>2. t.up[m] # Null /\ t.child[d][t.up[m]] = m
    BY <1>2, <1>3, <1>7, <2>1
  <2> QED
    BY <1>3, <1>7, <2>1, <2>2
<1>9. S = {}
  <2> HIDE DEF S
  <2>1. S \in SUBSET Nodes(t)
    BY DEF S
  <2> QED
    BY <1>8, <2>1, WayUpEnds
<1>10. t.child[d][n] = Null => bnd[d][n] = pos[n] + Way(d)
  BY ShapeFacts DEF Bounded
<1> QED
  BY <1>1, <1>6, <1>9, <1>10

(* The definition of the function that InOrder applies.                    *)
IsUnder(t, f) ==
  f = [n \in Session \cup {Null} |->
         IF n = Null THEN <<>>
         ELSE f[t.child["left"][n]] \o <<n>> \o f[t.child["right"][n]]]

(* The part of q between two positions.                                    *)
Slice(q, i, j) == SubSeq(q, i + 1, j - 1)

LEMMA JoinAssociative ==
  \A a, y, c \in Seq(Session) : a \o (y \o c) = (a \o y) \o c
BY ConcatAssociative

(* A slice is what is before k, k, and what is behind.                     *)
LEMMA SliceJoin ==
  ASSUME NEW q \in Seq(Session), NEW i \in Int, NEW k \in Int, NEW j \in Int,
         0 <= i, i < k, k < j, j <= Len(q) + 1
  PROVE  Slice(q, i, j) = Slice(q, i, k) \o <<q[k]>> \o Slice(q, k, j)
<1>0. Len(q) \in Nat
  OBVIOUS
<1>1. SubSeq(q, i + 1, k - 1) \o SubSeq(q, k, j - 1) = SubSeq(q, i + 1, j - 1)
  <2>1. i + 1 \in 1..Len(q)+1 /\ k - 1 \in (i + 1) - 1..Len(q) /\ j - 1 \in k - 1..Len(q)
    BY <1>0
  <2>2. SubSeq(q, i + 1, k - 1) \o SubSeq(q, (k - 1) + 1, j - 1) = SubSeq(q, i + 1, j - 1)
    BY <2>1, ConcatAdjacentSubSeq
  <2>3. (k - 1) + 1 = k
    OBVIOUS
  <2> QED
    BY <2>2, <2>3
<1>2. SubSeq(q, k, j - 1) = <<q[k]>> \o SubSeq(q, k + 1, j - 1)
  <2>1. k \in 1..Len(q) /\ j - 1 \in k..Len(q)
    BY <1>0
  <2> QED
    BY <2>1, SubSeqRecursiveFirst
<1>3. SubSeq(q, i + 1, k - 1) \in Seq(Session) /\ SubSeq(q, k + 1, j - 1) \in Seq(Session) /\ <<q[k]>> \in Seq(Session)
  <2>1. \A x \in 1..Len(q) : q[x] \in Session
    OBVIOUS
  <2>2. (\A x \in i+1 .. k-1 : q[x] \in Session) /\ (\A x \in k+1 .. j-1 : q[x] \in Session) /\ q[k] \in Session
    BY <1>0, <2>1
  <2> QED
    BY <2>2, SubSeqProperties
<1> DEFINE a == SubSeq(q, i + 1, k - 1)
           c == SubSeq(q, k + 1, j - 1)
<1>4. \A y \in Seq(Session) : a \o (y \o c) = (a \o y) \o c
  <2>1. a \in Seq(Session) /\ c \in Seq(Session)
    BY <1>3
  <2> HIDE DEF a, c
  <2> QED
    BY <2>1, JoinAssociative, Zenon
<1> QED
  BY <1>1, <1>2, <1>3, <1>4 DEF Slice

(* InOrder is the order.                                                   *)
LEMMA InOrderIs ==
  ASSUME NEW t, NEW q, NEW pos, NEW bnd, Shape(t, q, pos, bnd)
  PROVE  InOrder(t) = q
<1> DEFINE sl(m) == Slice(q, bnd["left"][m], bnd["right"][m])
           own(m) == IF m \in Nodes(t) THEN sl(m) ELSE IF m = Null THEN <<>> ELSE <<>> \o <<m>> \o <<>>
           g == [m \in Session \cup {Null} |-> own(m)]
           f == CHOOSE h : IsUnder(t, h)
           L(m) == t.child["left"][m]
           R(m) == t.child["right"][m]
<1>0. Len(q) \in Nat /\ q \in Seq(Session) /\ Null \notin Session /\ Null \notin Nodes(t)
  BY ShapeFacts DEF Order, Nodes
<1>1. ASSUME NEW m \in Nodes(t)
      PROVE  /\ L(m) = Null \/ L(m) \in Nodes(t)
             /\ R(m) = Null \/ R(m) \in Nodes(t)
             /\ sl(m) = (IF L(m) = Null THEN <<>> ELSE sl(L(m))) \o <<m>>
                         \o (IF R(m) = Null THEN <<>> ELSE sl(R(m)))
  <2>1. /\ Between(bnd, m, pos[m]) /\ 0 <= bnd["left"][m] /\ bnd["right"][m] <= Len(q) + 1
        /\ m \in Session /\ q[pos[m]] = m
    BY BoundFacts
  <2>2. bnd["left"][m] \in Int /\ bnd["right"][m] \in Int /\ pos[m] \in Int
    BY <2>1, ShapeFacts DEF Side
  <2> DEFINE a == bnd["left"][m]
             b == bnd["right"][m]
             k == pos[m]
  <2>3. Slice(q, a, b) = Slice(q, a, k) \o <<q[k]>> \o Slice(q, k, b)
    <3>1. a \in Int /\ b \in Int /\ k \in Int /\ 0 <= a /\ a < k /\ k < b /\ b <= Len(q) + 1
      BY <2>1, <2>2 DEF Between
    <3> HIDE DEF a, b, k
    <3> QED
      BY <1>0, <3>1, SliceJoin
  <2>4. (L(m) = Null \/ L(m) \in Nodes(t)) /\ Slice(q, a, k) = IF L(m) = Null THEN <<>> ELSE sl(L(m))
    <3>1. CASE L(m) = Null
      <4>1. a = k + Way("left")
        BY <3>1, ShapeFacts DEF Bounded, Side
      <4>2. a + 1 \in Int /\ k - 1 \in Int /\ k - 1 < a + 1
        BY <2>2, <4>1 DEF Way
      <4> HIDE DEF a, k
      <4>3. Slice(q, a, k) = <<>>
        BY <4>2, SubSeqEmpty DEF Slice
      <4> QED
        BY <3>1, <4>3
    <3>2. CASE L(m) # Null
      <4>1. L(m) \in Nodes(t) /\ bnd["left"][L(m)] = a /\ bnd["right"][L(m)] = k
        BY <3>2, KidFacts DEF Side, Other
      <4> QED
        BY <3>2, <4>1
    <3> QED
      BY <3>1, <3>2
  <2>5. (R(m) = Null \/ R(m) \in Nodes(t)) /\ Slice(q, k, b) = IF R(m) = Null THEN <<>> ELSE sl(R(m))
    <3>1. CASE R(m) = Null
      <4>1. b = k + Way("right")
        BY <3>1, ShapeFacts DEF Bounded, Side
      <4>2. k + 1 \in Int /\ b - 1 \in Int /\ b - 1 < k + 1
        BY <2>2, <4>1 DEF Way
      <4> HIDE DEF b, k
      <4>3. Slice(q, k, b) = <<>>
        BY <4>2, SubSeqEmpty DEF Slice
      <4> QED
        BY <3>1, <4>3
    <3>2. CASE R(m) # Null
      <4>1. R(m) \in Nodes(t) /\ bnd["right"][R(m)] = b /\ bnd["left"][R(m)] = k
        BY <3>2, KidFacts DEF Side, Other
      <4> QED
        BY <3>2, <4>1
    <3> QED
      BY <3>1, <3>2
  <2> HIDE DEF L, R, a, b, k, sl
  <2>6. sl(m) = Slice(q, a, b) /\ q[k] = m
    BY <2>1 DEF a, b, k, sl
  <2> QED
    BY <2>3, <2>4, <2>5, <2>6
<1>2. ASSUME NEW m \in Session, m \notin Nodes(t) PROVE L(m) = Null /\ R(m) = Null
  BY <1>2, ShapeFacts DEF Linking, Side
<1>3. IsUnder(t, g)
  <2>1. ASSUME NEW m \in Session \cup {Null}
        PROVE  g[m] = IF m = Null THEN <<>> ELSE g[L(m)] \o <<m>> \o g[R(m)]
    <3>1. CASE m = Null
      BY <1>0, <3>1
    <3>2. CASE m \in Nodes(t)
      <4>1. m \in Session /\ m # Null /\ L(m) \in Session \cup {Null} /\ R(m) \in Session \cup {Null}
        BY <1>0, <3>2, ShapeFacts DEF Nodes, Side
      <4> HIDE DEF L, R, sl
      <4>2. /\ g[L(m)] = IF L(m) = Null THEN <<>> ELSE sl(L(m))
            /\ g[R(m)] = IF R(m) = Null THEN <<>> ELSE sl(R(m))
            /\ g[m] = sl(m)
        BY <1>0, <1>1, <3>2, <4>1
      <4> QED
        BY <1>1, <3>2, <4>1, <4>2
    <3>3. CASE m # Null /\ m \notin Nodes(t)
      <4>1. m \in Session /\ L(m) = Null /\ R(m) = Null
        BY <1>2, <3>3
      <4>2. g[m] = <<>> \o <<m>> \o <<>> /\ g[Null] = <<>>
        BY <1>0, <3>3
      <4> HIDE DEF g, L, R
      <4> QED
        BY <3>3, <4>1, <4>2
    <3> QED
      BY <3>1, <3>2, <3>3
  <2> HIDE DEF g
  <2>2. g = [m \in Session \cup {Null} |-> g[m]]
    BY DEF g
  <2> QED
    BY <2>1, <2>2 DEF IsUnder
<1>4. IsUnder(t, f)
  <2> HIDE DEF g
  <2> QED
    BY <1>3
<1>5. InOrder(t) = f[t.root]
  BY DEF InOrder, IsUnder
<1> HIDE DEF f
<1>6. \A m \in Session \cup {Null} : f[m] = IF m = Null THEN <<>> ELSE f[L(m)] \o <<m>> \o f[R(m)]
  BY <1>4 DEF IsUnder
<1> DEFINE S == {m \in Nodes(t) : f[m] # sl(m)}
<1>7. ASSUME NEW m \in S PROVE \E e \in Side : t.child[e][m] \in S
  <2>1. m \in Session /\ m \in Nodes(t) /\ f[m] # sl(m) /\ m # Null
    BY <1>0 DEF Nodes
  <2> HIDE DEF sl
  <2>2. f[Null] = <<>> /\ f[m] = f[L(m)] \o <<m>> \o f[R(m)]
    BY <1>6, <2>1
  <2>3. L(m) \in S \/ R(m) \in S
    <3> HIDE DEF L, R
    <3> SUFFICES ASSUME L(m) \notin S, R(m) \notin S PROVE FALSE
      OBVIOUS
    <3>1. /\ f[L(m)] = IF L(m) = Null THEN <<>> ELSE sl(L(m))
          /\ f[R(m)] = IF R(m) = Null THEN <<>> ELSE sl(R(m))
      BY <1>1, <2>1, <2>2
    <3> QED
      BY <1>1, <2>1, <2>2, <3>1
  <2> QED
    BY <2>3 DEF Side
<1>8. S = {}
  <2> HIDE DEF S
  <2>1. S \in SUBSET Nodes(t)
    BY DEF S
  <2> QED
    BY <1>7, <2>1, WayDownEnds
<1>9. CASE t.root = Null
  <2>1. f[t.root] = <<>>
    BY <1>6, <1>9
  <2>2. Len(q) = 0
    BY <1>9, EndOfIs
  <2>3. q = <<>>
    BY <1>0, <2>2
  <2> QED
    BY <1>5, <2>1, <2>3
<1>10. CASE t.root # Null
  <2>1. t.root \in Nodes(t) /\ bnd["left"][t.root] = 0 /\ bnd["right"][t.root] = Len(q) + 1
    BY <1>10, RootFacts
  <2>2. f[t.root] = SubSeq(q, 0 + 1, Len(q) + 1 - 1)
    BY <1>8, <2>1 DEF Slice
  <2>3. 0 + 1 = 1 /\ Len(q) + 1 - 1 = Len(q)
    BY <1>0
  <2>4. SubSeq(q, 1, Len(q)) = q
    BY <1>0, SubSeqFull
  <2> QED
    BY <1>5, <2>2, <2>3, <2>4
<1> QED
  BY <1>9, <1>10
----------------------------------------------------------------------------
(* q with s inserted at k, as TimeoutQueue inserts.                        *)
Insertion(q, k, s) ==
  [i \in 1..(Len(q) + 1) |->
     CASE i < k -> q[i] [] i = k -> s [] i > k -> q[i - 1]]

(* The positions once s is inserted at k.                                  *)
MovedUp(pos, pos2, k, s) ==
  /\ pos2 \in [Session -> Int]
  /\ \A x \in Session : pos2[x] = IF x = s THEN k
                                   ELSE IF pos[x] >= k THEN pos[x] + 1 ELSE pos[x]

(* An insertion lists one more.                                            *)
LEMMA InsertOrder ==
  ASSUME NEW q, NEW pos, NEW L, L \subseteq Session, Order(q, pos, L),
         NEW s \in Session, s \notin L, NEW k \in 1..Len(q)+1, NEW pos2, MovedUp(pos, pos2, k, s)
  PROVE  /\ Order(Insertion(q, k, s), pos2, L \cup {s})
         /\ Len(Insertion(q, k, s)) = Len(q) + 1
<1> DEFINE r == Insertion(q, k, s)
           N == Len(q)
<1>1. /\ q \in Seq(Session) /\ N \in Nat
      /\ \A i \in 1..N : q[i] \in L /\ pos[q[i]] = i
      /\ \A n \in L : pos[n] \in 1..N /\ q[pos[n]] = n
  BY DEF Order
<1> pos2 \in [Session -> Int]
  BY DEF MovedUp
<1> \A x \in Session : pos2[x] = IF x = s THEN k ELSE IF pos[x] >= k THEN pos[x] + 1 ELSE pos[x]
  BY DEF MovedUp
<1>2. \A i \in 1..N+1 : /\ i < k => r[i] = q[i] /\ i \in 1..N
                        /\ i = k => r[i] = s
                        /\ i > k => r[i] = q[i - 1] /\ i - 1 \in 1..N
  BY <1>1 DEF Insertion
<1>3. r \in Seq(Session) /\ Len(r) = N + 1
  <2>1. \A i \in 1..N+1 : r[i] \in Session
    <3>1. \A i \in 1..N : q[i] \in Session
      BY <1>1
    <3> HIDE DEF r, N
    <3> QED
      BY <1>2, <3>1
  <2>2. r = [i \in 1..N+1 |-> r[i]]
    BY DEF Insertion
  <2>3. r \in [1..N+1 -> Session] /\ N + 1 \in Nat
    <3> HIDE DEF r
    <3> QED
      BY <1>1, <2>1, <2>2
  <2> HIDE DEF r
  <2>4. r \in Seq(Session)
    BY <2>3, SeqDef
  <2> QED
    BY <2>3, <2>4, LenProperties
<1>4. ASSUME NEW i \in 1..N+1 PROVE r[i] \in L \cup {s} /\ pos2[r[i]] = i
  <2>1. CASE i < k
    BY <1>1, <1>2, <2>1
  <2>2. CASE i = k
    BY <1>2, <2>2
  <2>3. CASE i > k
    <3>1. r[i] = q[i - 1] /\ i - 1 \in 1..N
      BY <1>2, <2>3
    <3>2. q[i - 1] \in L /\ pos[q[i - 1]] = i - 1
      BY <1>1, <3>1
    <3> QED
      BY <2>3, <3>1, <3>2
  <2> QED
    BY <2>1, <2>2, <2>3
<1>5. ASSUME NEW n \in L \cup {s} PROVE pos2[n] \in 1..N+1 /\ r[pos2[n]] = n
  <2>1. CASE n = s
    BY <1>2, <2>1
  <2>2. CASE n # s /\ pos[n] >= k
    <3>1. pos2[n] = pos[n] + 1 /\ pos[n] \in 1..N /\ q[pos[n]] = n
      BY <1>1, <2>2
    <3>2. pos2[n] \in 1..N+1 /\ pos2[n] > k /\ pos2[n] - 1 = pos[n]
      BY <2>2, <3>1
    <3> QED
      BY <1>2, <3>1, <3>2
  <2>3. CASE n # s /\ ~(pos[n] >= k)
    <3>1. pos2[n] = pos[n] /\ pos[n] \in 1..N /\ q[pos[n]] = n
      BY <1>1, <2>3
    <3> QED
      BY <1>2, <2>3, <3>1
  <2> QED
    BY <2>1, <2>2, <2>3
<1> HIDE DEF r, N
<1> QED
  BY <1>3, <1>4, <1>5 DEF Order, r, N

(* A leaf linked to a node that has no child on that side.                 *)
LEMMA LinkBelow ==
  ASSUME NEW t, NEW q, NEW pos, NEW bnd, Shape(t, q, pos, bnd),
         NEW s \in Session, s \notin Nodes(t),
         NEW p \in Nodes(t), NEW e \in Side, t.child[e][p] = Null,
         NEW k, k = IF e = "left" THEN pos[p] ELSE pos[p] + 1,
         NEW u \in TreeType, u.root = t.root, u.red = t.red \cup {s},
         \A x \in Session, f \in Side :
           u.child[f][x] = IF x = p /\ f = e THEN s ELSE t.child[f][x],
         \A x \in Session : u.up[x] = IF x = s THEN p ELSE t.up[x]
  PROVE  /\ k \in 1..Len(q) + 1
         /\ Nodes(u) = Nodes(t) \cup {s}
         /\ \E pos2, b : Shape(u, Insertion(q, k, s), pos2, b)
<1> DEFINE sh(v) == IF v >= k THEN v + 1 ELSE v
           pos2 == [x \in Session |-> IF x = s THEN k ELSE sh(pos[x])]
           b == [f \in Side |-> [x \in Session |-> IF x = s THEN k + Way(f) ELSE sh(bnd[f][x])]]
           N == Len(q)
<1>1. /\ t \in TreeType /\ N \in Nat /\ Null \notin Session /\ p \in Session /\ s # p
      /\ \A x \in Session : pos[x] \in Int
      /\ \A x \in Session, f \in Side : bnd[f][x] \in Int
      /\ Nodes(t) \subseteq Session
      /\ t.root # Null
  BY ShapeFacts DEF Nodes, Linking
<1>2. /\ \A x \in Session, f \in Side :
           t.child[f][x] # Null => x \in Nodes(t) /\ t.up[t.child[f][x]] = x
      /\ \A x \in Session : t.up[x] # Null => \E f \in Side : t.child[f][t.up[x]] = x
      /\ t.up[t.root] = Null
      /\ t.red \subseteq Nodes(t)
      /\ \A x \in Session, f \in Side : t.child[f][x] \in Session \cup {Null}
      /\ \A x \in Session : t.up[x] \in Session \cup {Null}
  BY <1>1, ShapeFacts DEF Linking
<1>3. pos[p] \in 1..N /\ q[pos[p]] = p /\ k \in 1..N+1
  BY <1>1, BoundFacts
<1>4. s # t.root /\ t.up[s] = Null /\ (\A f \in Side : t.child[f][s] = Null)
      /\ (\A f \in Side, x \in Session : t.child[f][x] # s)
  <2>1. s # t.root /\ t.up[s] = Null /\ (\A f \in Side : t.child[f][s] = Null)
    BY <1>2 DEF Nodes
  <2>2. ASSUME NEW f \in Side, NEW x \in Session, t.child[f][x] = s PROVE FALSE
    BY <1>1, <1>2, <2>1, <2>2
  <2> QED
    BY <2>1, <2>2
<1>5. Nodes(u) = Nodes(t) \cup {s}
  BY <1>1, <1>4 DEF Nodes
<1>6. Linking(u)
  <2>1. ASSUME NEW x \in Session, NEW f \in Side, u.child[f][x] # Null
        PROVE  x \in Nodes(u) /\ u.up[u.child[f][x]] = x
    BY <1>1, <1>2, <1>4, <1>5, <2>1
  <2>2. ASSUME NEW x \in Session, u.up[x] # Null
        PROVE  \E f \in Side : u.child[f][u.up[x]] = x
    <3>1. CASE x = s
      BY <1>1, <3>1
    <3>2. CASE x # s
      <4>1. PICK f \in Side : t.child[f][t.up[x]] = x
        BY <1>2, <2>2, <3>2
      <4>2. t.up[x] \in Session /\ u.up[x] = t.up[x] /\ ~(t.up[x] = p /\ f = e)
        BY <1>1, <1>2, <2>2, <3>2, <4>1
      <4> QED
        BY <4>1, <4>2
    <3> QED
      BY <3>1, <3>2
  <2>3. u.up[u.root] = Null /\ u.root # Null
    BY <1>1, <1>2, <1>4 DEF TreeType
  <2>4. u.red \subseteq Nodes(u)
    BY <1>2, <1>5
  <2> QED
    BY <2>1, <2>2, <2>3, <2>4 DEF Linking
<1>7. /\ pos2 \in [Session -> Int] /\ b \in [Side -> [Session -> Int]]
      /\ \A x \in Session : pos2[x] = IF x = s THEN k ELSE sh(pos[x])
      /\ \A x \in Session, f \in Side : b[f][x] = IF x = s THEN k + Way(f) ELSE sh(bnd[f][x])
  BY <1>1, <1>3 DEF Way
<1>8. Order(Insertion(q, k, s), pos2, Nodes(u)) /\ Len(Insertion(q, k, s)) = N + 1
  <2> HIDE DEF pos2
  <2>1. MovedUp(pos, pos2, k, s)
    BY <1>7 DEF MovedUp
  <2>2. Order(q, pos, Nodes(t)) /\ Nodes(t) \subseteq Session /\ k \in 1..Len(q)+1
    BY <1>1, <1>3, ShapeFacts
  <2>3. Order(Insertion(q, k, s), pos2, Nodes(t) \cup {s}) /\ Len(Insertion(q, k, s)) = Len(q) + 1
    BY <2>1, <2>2, InsertOrder
  <2> QED
    BY <1>5, <2>3
<1> HIDE DEF pos2, b
<1>9. /\ bnd[e][p] = pos[p] + Way(e)
      /\ \A x \in Nodes(t), f \in Side : t.child[f][x] = Null => bnd[f][x] = pos[x] + Way(f)
      /\ \A x \in Nodes(t), f \in Side : t.child[f][x] # Null =>
           bnd[f][t.child[f][x]] = bnd[f][x] /\ bnd[Other(f)][t.child[f][x]] = pos[x]
      /\ \A x \in Nodes(t) : /\ 0 <= bnd["left"][x] /\ bnd["left"][x] < pos[x]
                             /\ pos[x] < bnd["right"][x] /\ bnd["right"][x] <= N + 1
      /\ bnd["left"][t.root] = 0 /\ bnd["right"][t.root] = N + 1
  BY <1>1, ShapeFacts DEF Bounded
<1>10. \A x \in Nodes(u) : /\ 0 <= b["left"][x] /\ b["left"][x] < pos2[x]
                           /\ pos2[x] < b["right"][x] /\ b["right"][x] <= N + 2
  <2>1. "left" \in Side /\ "right" \in Side /\ Way("left") = 0-1 /\ Way("right") = 1
    BY DEF Side, Way
  <2>2. ASSUME NEW x \in Nodes(t), x # s
        PROVE  /\ 0 <= b["left"][x] /\ b["left"][x] < pos2[x]
               /\ pos2[x] < b["right"][x] /\ b["right"][x] <= N + 2
    <3>1. /\ pos2[x] = sh(pos[x]) /\ b["left"][x] = sh(bnd["left"][x]) /\ b["right"][x] = sh(bnd["right"][x])
          /\ bnd["left"][x] \in Int /\ bnd["right"][x] \in Int /\ pos[x] \in Int
      BY <1>1, <1>7, <2>1, <2>2
    <3>2. /\ 0 <= bnd["left"][x] /\ bnd["left"][x] < pos[x]
          /\ pos[x] < bnd["right"][x] /\ bnd["right"][x] <= N + 1
      BY <1>9, <2>2
    <3>3. k \in Int /\ N \in Int /\ 1 <= k
      BY <1>1, <1>3
    <3> HIDE DEF b, pos2, N
    <3> QED
      BY <3>1, <3>2, <3>3
  <2>3. pos2[s] = k /\ b["left"][s] = k - 1 /\ b["right"][s] = k + 1
    BY <1>3, <1>7, <2>1
  <2> QED
    BY <1>1, <1>3, <1>5, <2>2, <2>3
<1>11. ASSUME NEW x \in Nodes(u), NEW f \in Side
       PROVE IF u.child[f][x] = Null THEN b[f][x] = pos2[x] + Way(f)
             ELSE /\ b[f][u.child[f][x]] = b[f][x]
                  /\ b[Other(f)][u.child[f][x]] = pos2[x]
  <2>0. x \in Session /\ Other(f) \in Side
    BY Sides DEF Nodes
  <2>1. CASE x = s
    <3>1. u.child[f][s] = t.child[f][s] /\ t.child[f][s] = Null
      BY <1>1, <1>4
    <3>2. b[f][s] = k + Way(f) /\ pos2[s] = k
      BY <1>7
    <3> QED
      BY <2>1, <3>1, <3>2
  <2>2. CASE x = p /\ f = e
    <3>1. u.child[f][x] = s /\ s # Null
      BY <1>1, <2>0, <2>2
    <3>2. /\ b[f][s] = k + Way(f) /\ b[Other(f)][s] = k + Way(Other(f)) /\ b[f][x] = sh(pos[p] + Way(e))
          /\ pos2[x] = sh(pos[p])
      BY <1>1, <1>7, <1>9, <2>0, <2>2
    <3>3. CASE e = "left"
      BY <1>1, <1>3, <2>2, <3>1, <3>2, <3>3 DEF Way, Other
    <3>4. CASE e = "right"
      BY <1>1, <1>3, <2>2, <3>1, <3>2, <3>4 DEF Way, Other
    <3> QED
      BY <3>3, <3>4 DEF Side
  <2>3. CASE x # s /\ ~(x = p /\ f = e) /\ t.child[f][x] = Null
    <3>1. /\ u.child[f][x] = Null /\ b[f][x] = sh(pos[x] + Way(f)) /\ pos2[x] = sh(pos[x]) /\ x \in Nodes(t)
          /\ q[pos[x]] = x /\ pos[x] \in 1..N
      <4>1. x \in Nodes(t)
        BY <1>5, <2>3
      <4> QED
        <5>1. q[pos[x]] = x /\ pos[x] \in 1..N
          BY <4>1, BoundFacts
        <5>2. bnd[f][x] = pos[x] + Way(f)
          BY <1>9, <2>3, <4>1
        <5>3. u.child[f][x] = Null
          BY <2>0, <2>3
        <5>4. b[f][x] = sh(bnd[f][x]) /\ pos2[x] = sh(pos[x])
          BY <1>7, <2>0, <2>3
        <5> QED
          BY <4>1, <5>1, <5>2, <5>3, <5>4
    <3>2. f = "right" => pos[x] # k - 1
      <4> SUFFICES ASSUME f = "right", pos[x] = k - 1 PROVE FALSE
        OBVIOUS
      <4>1. CASE e = "left"
        <5>1. q[k] = p /\ q[k - 1] = x /\ k - 1 \in 1..N /\ k - 1 + 1 = k /\ k - 1 + 1 <= N
          BY <1>1, <1>3, <3>1, <4>1
        <5> QED
          BY <2>3, <4>1, <5>1, Neighbours
      <4>2. CASE e = "right"
        <5>1. q[k - 1] = p /\ q[k - 1] = x
          BY <1>1, <1>3, <3>1, <4>2
        <5> QED
          BY <2>3, <4>2, <5>1
      <4> QED
        BY <4>1, <4>2 DEF Side
    <3>3. f = "left" => pos[x] # k
      <4> SUFFICES ASSUME f = "left", pos[x] = k PROVE FALSE
        OBVIOUS
      <4>1. CASE e = "right"
        <5>1. q[k - 1] = p /\ q[k] = x /\ k - 1 \in 1..N /\ k - 1 + 1 = k /\ k - 1 + 1 <= N
          BY <1>1, <1>3, <3>1, <4>1
        <5> QED
          BY <2>3, <4>1, <5>1, Neighbours
      <4>2. CASE e = "left"
        <5>1. q[k] = p /\ q[k] = x
          BY <1>1, <1>3, <3>1, <4>2
        <5> QED
          BY <2>3, <4>2, <5>1
      <4> QED
        BY <4>1, <4>2 DEF Side
    <3>4. sh(pos[x] + Way(f)) = sh(pos[x]) + Way(f)
      <4>1. pos[x] \in Int /\ k \in Int
        BY <1>1, <1>3, <3>1
      <4>2. CASE f = "left"
        <5>1. Way(f) = -1 /\ pos[x] # k
          BY <3>3, <4>2 DEF Way
        <5> QED
          BY <4>1, <5>1
      <4>3. CASE f = "right"
        <5>1. Way(f) = 1 /\ pos[x] # k - 1
          BY <3>2, <4>3 DEF Way
        <5> QED
          BY <4>1, <5>1
      <4> QED
        BY <4>2, <4>3 DEF Side
    <3> QED
      BY <3>1, <3>4
  <2>4. CASE x # s /\ ~(x = p /\ f = e) /\ t.child[f][x] # Null
    <3>1. u.child[f][x] = t.child[f][x] /\ t.child[f][x] \in Session /\ t.child[f][x] # s
      BY <1>2, <1>4, <2>0, <2>4
    <3>2. x \in Nodes(t)
      BY <1>5, <2>4
    <3>3. bnd[f][t.child[f][x]] = bnd[f][x] /\ bnd[Other(f)][t.child[f][x]] = pos[x]
      BY <1>9, <2>4, <3>2
    <3> DEFINE c == t.child[f][x]
    <3> HIDE DEF c
    <3>4. b[f][c] = sh(bnd[f][c]) /\ b[Other(f)][c] = sh(bnd[Other(f)][c]) /\ b[f][x] = sh(bnd[f][x]) /\ pos2[x] = sh(pos[x])
      BY <1>7, <2>0, <2>4, <3>1 DEF c
    <3> QED
      BY <2>4, <3>1, <3>3, <3>4 DEF c
  <2> QED
    BY <2>1, <2>2, <2>3, <2>4
<1>12. b["left"][u.root] = 0 /\ b["right"][u.root] = (N + 1) + 1
  <2>1. u.root \in Session /\ u.root # s /\ "left" \in Side /\ "right" \in Side
    BY <1>1, <1>4 DEF TreeType, Side
  <2> QED
    <3> DEFINE r == t.root
    <3>1. r \in Session /\ r # s /\ bnd["left"][r] = 0 /\ bnd["right"][r] = N + 1 /\ u.root = r
      BY <1>9, <2>1
    <3> HIDE DEF r
    <3>2. b["left"][r] = sh(0) /\ b["right"][r] = sh(N + 1)
      BY <1>7, <2>1, <3>1
    <3>3. sh(0) = 0 /\ sh(N + 1) = (N + 1) + 1
      BY <1>1, <1>3
    <3> QED
      BY <3>1, <3>2, <3>3
<1>13. Bounded(u, pos2, b, N + 1)
  <2>1. N + 1 + 1 = N + 2
    BY <1>1
  <2> QED
    BY <1>7, <1>10, <1>11, <1>12, <2>1 DEF Bounded
<1>14. Shape(u, Insertion(q, k, s), pos2, b)
  BY <1>6, <1>8, <1>13 DEF Shape
<1> QED
  BY <1>3, <1>5, <1>14

(* The first leaf is the root.                                             *)
LEMMA LinkFirst ==
  ASSUME NEW t, NEW q, NEW pos, NEW bnd, Shape(t, q, pos, bnd), t.root = Null,
         NEW s \in Session,
         NEW u \in TreeType, u.root = s, u.red = t.red \cup {s},
         \A x \in Session, f \in Side : u.child[f][x] = IF x = s THEN Null ELSE t.child[f][x],
         \A x \in Session : u.up[x] = IF x = s THEN Null ELSE t.up[x]
  PROVE  /\ Len(q) = 0
         /\ Nodes(u) = {s} /\ Nodes(t) = {}
         /\ \E pos2, b : Shape(u, Insertion(q, 1, s), pos2, b)
<1> DEFINE pos2 == [x \in Session |-> IF x = s THEN 1
                                      ELSE IF pos[x] >= 1 THEN pos[x] + 1 ELSE pos[x]]
           b == [f \in Side |-> [x \in Session |-> 1 + Way(f)]]
<1>1. /\ Len(q) = 0 /\ Nodes(t) = {} /\ Order(q, pos, Nodes(t)) /\ Linking(t)
      /\ \A x \in Session : pos[x] \in Int
      /\ Null \notin Session
  BY EndOfIs, ShapeFacts DEF Linking
<1>2. \A x \in Session, f \in Side : t.child[f][x] = Null /\ t.up[x] = Null
  BY <1>1 DEF Linking, Nodes
<1>3. Nodes(u) = {s}
  <2>1. ASSUME NEW x \in Session PROVE x \in Nodes(u) <=> x = s
    <3>1. t.up[x] = Null
      BY <1>2 DEF Side
    <3>2. u.up[x] = Null
      BY <3>1
    <3> QED
      BY <3>2 DEF Nodes
  <2> QED
    BY <2>1 DEF Nodes
<1>4. Linking(u)
  BY <1>1, <1>2, <1>3 DEF Linking
<1>5. pos2 \in [Session -> Int]
  BY <1>1
<1>6. Order(Insertion(q, 1, s), pos2, Nodes(u)) /\ Len(Insertion(q, 1, s)) = 1
  <2>1. 1 \in 1..Len(q)+1 /\ Len(q) + 1 = 1 /\ Nodes(t) \in SUBSET Session /\ s \in Session \ Nodes(t)
        /\ Nodes(u) = Nodes(t) \cup {s}
    BY <1>1, <1>3
  <2>2. \A x \in Session : pos2[x] = IF x = s THEN 1 ELSE IF pos[x] >= 1 THEN pos[x] + 1 ELSE pos[x]
    OBVIOUS
  <2> HIDE DEF pos2
  <2>3. /\ Order(Insertion(q, 1, s), pos2, Nodes(t) \cup {s})
        /\ Len(Insertion(q, 1, s)) = Len(q) + 1
    <3>1. MovedUp(pos, pos2, 1, s)
      BY <1>5, <2>2 DEF MovedUp
    <3>2. Order(q, pos, Nodes(t)) /\ Nodes(t) \subseteq Session /\ s \notin Nodes(t) /\ 1 \in 1..Len(q)+1
      BY <1>1
    <3> QED
      BY <3>1, <3>2, InsertOrder
  <2> QED
    BY <2>1, <2>3
<1>7. Bounded(u, pos2, b, 1)
  <2>1. pos2[s] = 1 /\ b["left"][s] = 0 /\ b["right"][s] = 2 /\ \A f \in Side : b[f][s] = 1 + Way(f)
    BY DEF Way, Side
  <2>2. b \in [Side -> [Session -> Int]]
    BY DEF Way
  <2> HIDE DEF b, pos2
  <2> QED
    BY <1>1, <1>2, <1>3, <2>1, <2>2 DEF Bounded
<1> HIDE DEF b, pos2
<1>8. Shape(u, Insertion(q, 1, s), pos2, b)
  BY <1>4, <1>6, <1>7 DEF Shape
<1> QED
  BY <1>1, <1>3, <1>8
----------------------------------------------------------------------------
(* q without its k-th, as TimeoutQueue deletes.                            *)
Deletion(q, k) == [i \in 1..(Len(q) - 1) |-> IF i < k THEN q[i] ELSE q[i + 1]]

(* The positions once the one at k is taken out.                           *)
MovedDown(pos, pos2, k) ==
  /\ pos2 \in [Session -> Int]
  /\ \A x \in Session : pos2[x] = IF pos[x] > k THEN pos[x] - 1 ELSE pos[x]

(* A deletion lists one less.                                              *)
LEMMA DeleteOrder ==
  ASSUME NEW q, NEW pos, NEW L, L \subseteq Session, Order(q, pos, L),
         NEW s, s \in L, NEW pos2, MovedDown(pos, pos2, pos[s])
  PROVE  /\ Order(Deletion(q, pos[s]), pos2, L \ {s})
         /\ Len(Deletion(q, pos[s])) = Len(q) - 1
<1> DEFINE r == Deletion(q, pos[s])
           N == Len(q)
           k == pos[s]
<1>1. /\ q \in Seq(Session) /\ N \in Nat
      /\ \A i \in 1..N : q[i] \in L /\ pos[q[i]] = i
      /\ \A n \in L : pos[n] \in 1..N /\ q[pos[n]] = n
      /\ k \in 1..N /\ q[k] = s
  BY DEF Order
<1> /\ pos2 \in [Session -> Int]
    /\ \A x \in Session : pos2[x] = IF pos[x] > k THEN pos[x] - 1 ELSE pos[x]
  BY DEF MovedDown
<1> HIDE DEF k, N
<1>2. \A i \in 1..N-1 : /\ i < k => r[i] = q[i]
                        /\ i >= k => r[i] = q[i + 1]
                        /\ i \in 1..N /\ i + 1 \in 1..N
  BY <1>1 DEF Deletion, k, N
<1>3. r \in Seq(Session) /\ Len(r) = N - 1
  <2>1. \A i \in 1..N-1 : r[i] \in Session
    <3> TAKE i \in 1..N-1
    <3>1. r[i] = q[i] \/ r[i] = q[i + 1]
      BY <1>1, <1>2
    <3> QED
      BY <1>1, <1>2, <3>1
  <2>2. r = [i \in 1..N-1 |-> r[i]]
    BY DEF Deletion, N
  <2>3. r \in [1..N-1 -> Session] /\ N - 1 \in Nat
    <3> HIDE DEF r
    <3> QED
      BY <1>1, <2>1, <2>2
  <2> HIDE DEF r
  <2>4. r \in Seq(Session)
    BY <2>3, SeqDef
  <2> QED
    BY <2>3, <2>4, LenProperties
<1>4. ASSUME NEW i \in 1..N-1 PROVE r[i] \in L \ {s} /\ pos2[r[i]] = i
  <2>1. CASE i < k
    <3>1. r[i] = q[i] /\ q[i] \in L /\ pos[q[i]] = i /\ q[i] # s
      BY <1>1, <1>2, <2>1
    <3> QED
      BY <1>1, <2>1, <3>1
  <2>2. CASE i >= k
    <3>1. r[i] = q[i + 1] /\ q[i + 1] \in L /\ pos[q[i + 1]] = i + 1
      BY <1>1, <1>2, <2>2
    <3>2. q[i + 1] # s /\ i + 1 > k
      BY <1>1, <2>2, <3>1 DEF k
    <3> QED
      BY <1>1, <2>2, <3>1, <3>2
  <2> QED
    BY <1>1, <2>1, <2>2
<1>5. ASSUME NEW n \in L \ {s} PROVE pos2[n] \in 1..N-1 /\ r[pos2[n]] = n
  <2>0. pos[n] \in 1..N /\ q[pos[n]] = n /\ pos[n] # k
    BY <1>1
  <2>1. CASE pos[n] > k
    <3>1. pos2[n] = pos[n] - 1
      BY <2>1
    <3>2. pos2[n] \in 1..N-1 /\ pos2[n] >= k /\ pos2[n] + 1 = pos[n]
      BY <1>1, <2>0, <2>1, <3>1
    <3> QED
      BY <1>2, <2>0, <3>2
  <2>2. CASE ~(pos[n] > k)
    <3>1. pos2[n] = pos[n] /\ pos[n] < k
      BY <1>1, <2>0, <2>2
    <3> QED
      BY <1>1, <1>2, <2>0, <3>1
  <2> QED
    BY <2>1, <2>2
<1> HIDE DEF r
<1> QED
  BY <1>3, <1>4, <1>5 DEF Order, r, N, k

(* What SpliceOut changes, link by link.                                   *)
LEMMA SpliceFields ==
  ASSUME NEW t \in TreeType, NEW s \in Session,
         NEW kid \in Session \cup {Null}, kid # s,
         NEW above, above = t.up[s], above # s,
         NEW u, u = Forget(Replace(SetParent(t, kid, above), above, s, kid), s)
  PROVE  /\ u \in TreeType
         /\ u.red = t.red \ {s}
         /\ u.root = IF above = Null THEN kid ELSE t.root
         /\ \A x \in Session, e \in Side :
              u.child[e][x] = IF x = s THEN Null
                              ELSE IF x = above /\ e = SideOf(t, above, s) THEN kid
                              ELSE t.child[e][x]
         /\ \A x \in Session :
              u.up[x] = IF x = s THEN Null ELSE IF x = kid THEN above ELSE t.up[x]
<1> DEFINE t1 == SetParent(t, kid, above)
           t2 == Replace(t1, above, s, kid)
           t3 == Forget(t2, s)
           w  == SideOf(t, above, s)
<1>1. above \in Session \cup {Null} /\ Null \notin Session
  BY TreeAssumption DEF TreeType
<1>2. /\ t1 \in TreeType /\ t1.red = t.red /\ t1.root = t.root /\ t1.child = t.child
      /\ t1.up = IF kid = Null THEN t.up ELSE [t.up EXCEPT ![kid] = above]
  BY <1>1 DEF TreeType, SetParent
<1> HIDE DEF t1
<1>3. SideOf(t1, above, s) = w /\ w \in Side
  BY <1>2 DEF SideOf, Side
<1> HIDE DEF w
<1>4. /\ t2 \in TreeType /\ t2.red = t.red
      /\ t2.root = IF above = Null THEN kid ELSE t.root
      /\ t2.child = IF above = Null THEN t.child ELSE [t.child EXCEPT ![w][above] = kid]
      /\ t2.up = t1.up
  BY <1>1, <1>2, <1>3 DEF TreeType, Replace
<1> HIDE DEF t2
<1>5. "left" \in Side /\ "right" \in Side
  BY DEF Side
<1>6. /\ t3 \in TreeType /\ t3.red = t.red \ {s} /\ t3.root = t2.root
      /\ t3.up = [t2.up EXCEPT ![s] = Null]
      /\ t3.child = [t2.child EXCEPT !["left"][s] = Null, !["right"][s] = Null]
  BY <1>1, <1>4, <1>5 DEF TreeType, Forget
<1> HIDE DEF t3
<1>7. \A x \in Session, e \in Side :
        t2.child[e][x] = IF above # Null /\ x = above /\ e = w THEN kid ELSE t.child[e][x]
  <2>1. CASE above = Null
    BY <1>4, <2>1
  <2>2. CASE above # Null
    <3>1. t2.child = [t.child EXCEPT ![w][above] = kid] /\ above \in Session
      BY <1>1, <1>4, <2>2
    <3>2. t.child \in [Side -> [Session -> Session \cup {Null}]]
      BY DEF TreeType
    <3> QED
      BY <1>3, <2>2, <3>1, <3>2
  <2> QED
    BY <2>1, <2>2
<1>8. \A x \in Session, e \in Side : t3.child[e][x] = IF x = s THEN Null ELSE t2.child[e][x]
  <2>1. t2.child \in [Side -> [Session -> Session \cup {Null}]]
    BY <1>4 DEF TreeType
  <2> QED
    BY <1>6, <2>1 DEF Side
<1>9. \A x \in Session : t3.up[x] = IF x = s THEN Null ELSE IF x = kid THEN above ELSE t.up[x]
  BY <1>1, <1>2, <1>4, <1>6 DEF TreeType
<1>10. u = t3
  BY DEF t3, t2, t1
<1>11. \A x \in Session, e \in Side :
              t3.child[e][x] = IF x = s THEN Null
                              ELSE IF x = above /\ e = w THEN kid
                              ELSE t.child[e][x]
  BY <1>1, <1>7, <1>8
<1>12. u \in TreeType /\ u.red = t.red \ {s} /\ u.root = IF above = Null THEN kid ELSE t.root
  BY <1>4, <1>6, <1>10
<1>13. \A x \in Session, e \in Side :
         u.child[e][x] = IF x = s THEN Null
                         ELSE IF x = above /\ e = SideOf(t, above, s) THEN kid
                         ELSE t.child[e][x]
  BY <1>10, <1>11 DEF w
<1>14. \A x \in Session :
         u.up[x] = IF x = s THEN Null ELSE IF x = kid THEN above ELSE t.up[x]
  BY <1>9, <1>10
<1> QED
  BY <1>12, <1>13, <1>14

(* The tree that SpliceOut leaves.                                         *)
SpliceTree(t, s, kid) ==
  Forget(Replace(SetParent(t, kid, t.up[s]), t.up[s], s, kid), s)

(* The child of s on the one side is missing, the one on the other is kid. *)
OneKid(t, s, m, kid) == t.child[m][s] = Null /\ t.child[Other(m)][s] = kid

(* A node with a child missing: the other child takes its place.           *)
LEMMA SpliceLinking ==
  ASSUME NEW t, NEW q, NEW pos, NEW bnd, Shape(t, q, pos, bnd),
         NEW s \in Nodes(t), NEW m \in Side, NEW kid, OneKid(t, s, m, kid)
  PROVE  Nodes(SpliceTree(t, s, kid)) = Nodes(t) \ {s} /\ Linking(SpliceTree(t, s, kid))
<1> DEFINE above == t.up[s]
           w == SideOf(t, above, s)
           u == SpliceTree(t, s, kid)
<1>1. /\ t \in TreeType /\ Null \notin Session /\ s \in Session /\ Other(m) \in Side
      /\ (\A f \in Side : f = m \/ f = Other(m))
      /\ kid \in Session \cup {Null} /\ above \in Session \cup {Null}
      /\ t.root \in Session \cup {Null}
  BY ShapeFacts, Sides DEF Nodes, OneKid
<1>2. /\ above = Null => s = t.root
      /\ above # Null => /\ s # t.root /\ w \in Side /\ t.child[w][above] = s /\ above \in Nodes(t)
                         /\ \A e \in Side : t.child[e][above] = s => e = w
      /\ above # s
  BY <1>1, BoundFacts, ParentFacts
<1>3. /\ kid # s /\ (kid # above \/ kid = Null)
      /\ kid # Null => t.up[kid] = s /\ kid # t.root /\ kid \in Nodes(t)
  <2> SUFFICES ASSUME kid # Null
               PROVE  kid # s /\ kid # above /\ t.up[kid] = s /\ kid # t.root /\ kid \in Nodes(t)
    BY <1>1
  <2>1. /\ kid # s /\ t.up[kid] = s /\ kid # t.root /\ kid \in Nodes(t) /\ kid \in Session
        /\ Between(bnd, s, pos[kid])
    BY <1>1, KidFacts DEF OneKid
  <2>2. above # Null => ~ Between(bnd, s, pos[above])
    BY BoundFacts
  <2> QED
    BY <2>1, <2>2, <1>1
<1>4. kid # s
  BY <1>1, <1>3
<1>5. /\ u \in TreeType
      /\ u.red = t.red \ {s}
      /\ u.root = IF above = Null THEN kid ELSE t.root
      /\ \A x \in Session, e \in Side :
           u.child[e][x] = IF x = s THEN Null
                           ELSE IF x = above /\ e = w THEN kid ELSE t.child[e][x]
      /\ \A x \in Session :
           u.up[x] = IF x = s THEN Null ELSE IF x = kid THEN above ELSE t.up[x]
  BY <1>1, <1>2, <1>4, SpliceFields DEF SpliceTree
<1>6. /\ \A x \in Session, e \in Side :
           t.child[e][x] # Null => x \in Nodes(t) /\ t.up[t.child[e][x]] = x
      /\ \A x \in Session : t.up[x] # Null => \E e \in Side : t.child[e][t.up[x]] = x
      /\ t.root # Null /\ t.up[t.root] = Null
      /\ t.red \subseteq Nodes(t)
      /\ \A x \in Session, e \in Side : t.child[e][x] \in Session \cup {Null}
      /\ \A x \in Session : t.up[x] \in Session \cup {Null}
  BY <1>1, ShapeFacts DEF Linking
<1>k. t.child[m][s] = Null /\ t.child[Other(m)][s] = kid
  BY DEF OneKid
<1> HIDE DEF above, w, u
<1>7. \A x \in Session : t.up[x] = s => x = kid
  BY <1>1, <1>6, <1>k
<1>8. Nodes(u) = Nodes(t) \ {s}
  <2>1. ASSUME NEW x \in Session PROVE x \in Nodes(u) <=> x \in Nodes(t) /\ x # s
    <3>1. CASE x = s
      <4>1. u.up[s] = Null
        BY <1>1, <1>5
      <4>2. u.root # s
        BY <1>2, <1>4, <1>5
      <4> QED
        BY <3>1, <4>1, <4>2 DEF Nodes
    <3>2. CASE x = kid
      BY <1>1, <1>2, <1>3, <1>4, <1>5, <3>2 DEF Nodes
    <3>3. CASE x # s /\ x # kid
      <4>1. u.up[x] = t.up[x]
        BY <1>5, <3>3
      <4>2. u.root = x <=> t.root = x
        BY <1>2, <1>5, <3>3
      <4> QED
        BY <3>3, <4>1, <4>2 DEF Nodes
    <3> QED
      BY <3>1, <3>2, <3>3
  <2> QED
    BY <2>1 DEF Nodes
<1>9. ASSUME NEW x \in Session, NEW e \in Side, u.child[e][x] # Null
      PROVE  x \in Nodes(u) /\ u.up[u.child[e][x]] = x
  <2>1. x # s
    BY <1>5, <1>9
  <2>2. CASE x = above /\ e = w
    <3>1. u.child[e][x] = kid
      BY <1>5, <2>1, <2>2
    <3>2. kid # Null /\ kid \in Session
      BY <1>1, <1>9, <3>1
    <3>3. u.up[kid] = above
      BY <1>4, <1>5, <3>2
    <3>4. above # Null
      BY <1>1, <2>2
    <3>5. x \in Nodes(u)
      BY <1>2, <1>8, <2>1, <2>2, <3>4
    <3> QED
      BY <2>2, <3>1, <3>3, <3>5
  <2>3. CASE ~(x = above /\ e = w)
    <3>1. u.child[e][x] = t.child[e][x]
      BY <1>5, <2>1, <2>3
    <3>2. x \in Nodes(t) /\ t.up[t.child[e][x]] = x /\ t.child[e][x] \in Session
      BY <1>6, <1>9, <3>1
    <3>3. t.child[e][x] # kid
      BY <1>1, <1>3, <2>1, <3>2
    <3>4. t.child[e][x] # s
      <4> SUFFICES ASSUME t.child[e][x] = s PROVE FALSE
        OBVIOUS
      <4>1. x = above
        BY <3>2 DEF above
      <4>2. e = w
        BY <1>1, <1>2, <4>1
      <4> QED
        BY <2>3, <4>1, <4>2
    <3> QED
      BY <1>5, <1>8, <2>1, <3>1, <3>2, <3>3, <3>4
  <2> QED
    BY <2>2, <2>3
<1>10. ASSUME NEW x \in Session, u.up[x] # Null
       PROVE  \E e \in Side : u.child[e][u.up[x]] = x
  <2>1. x # s
    BY <1>5, <1>10
  <2>2. CASE x = kid
    <3>1. u.up[x] = above
      BY <1>5, <2>1, <2>2
    <3> QED
      BY <1>1, <1>2, <1>5, <1>10, <2>2, <3>1
  <2>3. CASE x # kid
    <3>1. u.up[x] = t.up[x]
      BY <1>5, <2>1, <2>3
    <3> DEFINE y == t.up[x]
    <3>2. PICK e \in Side : t.child[e][y] = x
      BY <1>6, <1>10, <3>1
    <3>3. y \in Session /\ y # s
      BY <1>6, <1>7, <1>10, <2>3, <3>1
    <3> HIDE DEF y
    <3>4. ~(y = above /\ e = w)
      BY <1>1, <1>2, <2>1, <3>2, <3>3
    <3>5. u.child[e][y] = x
      BY <1>5, <3>2, <3>3, <3>4
    <3> QED
      BY <3>1, <3>5 DEF y
  <2> QED
    BY <2>2, <2>3
<1>11. /\ u.root # Null => u.up[u.root] = Null
       /\ u.root = Null => Nodes(u) = {}
  <2>1. CASE above = Null
    <3>1. u.root = kid
      BY <1>5, <2>1
    <3>2. kid # Null => u.up[kid] = Null
      BY <1>1, <1>4, <1>5, <2>1
    <3>3. ASSUME kid = Null PROVE Nodes(u) = {}
      <4>1. \A e \in Side : t.child[e][s] = Null
        BY <1>1, <1>k, <3>3
      <4>2. \A e \in Side : bnd[e][s] = pos[s] + Way(e)
        BY <4>1, ShapeFacts DEF Bounded
      <4>3. bnd["left"][s] = 0 /\ bnd["right"][s] = Len(q) + 1
        BY <1>1, <1>2, <2>1, RootFacts
      <4>4. pos[s] \in Int /\ Len(q) \in Nat
        BY <1>1, ShapeFacts
      <4>5. Len(q) = 1
        <5>1. bnd["left"][s] = pos[s] - 1 /\ bnd["right"][s] = pos[s] + 1
          <6>1. bnd["left"][s] = pos[s] + Way("left") /\ bnd["right"][s] = pos[s] + Way("right")
            BY <4>2 DEF Side
          <6> QED
            BY <4>4, <6>1 DEF Way
        <5>2. pos[s] - 1 = 0 /\ pos[s] + 1 = Len(q) + 1
          BY <4>3, <5>1
        <5>3. \A i, j \in Int : i - 1 = 0 /\ i + 1 = j + 1 => j = 1
          OBVIOUS
        <5>4. pos[s] \in Int /\ Len(q) \in Int
          BY <4>4
        <5> QED
          BY <5>2, <5>3, <5>4
      <4>6. \A x \in Nodes(t) : x = s
        <5>1. \A x \in Nodes(t) : pos[x] \in 1..1 /\ q[pos[x]] = x
          BY <4>5, BoundFacts
        <5> QED
          BY <5>1
      <4> QED
        BY <1>8, <4>6
    <3> QED
      BY <3>1, <3>2, <3>3
  <2>2. CASE above # Null
    <3>1. u.root = t.root /\ t.root # s /\ t.root # kid
      BY <1>2, <1>3, <1>5, <1>6, <2>2
    <3> QED
      BY <1>1, <1>5, <1>6, <3>1
  <2> QED
    BY <2>1, <2>2
<1>12. u.red \subseteq Nodes(u)
  BY <1>5, <1>6, <1>8
<1> QED
  BY <1>5, <1>8, <1>9, <1>10, <1>11, <1>12 DEF Linking, u

(* How a position moves when the one at k is taken out; a bound that was k *)
(* becomes its neighbour on the other side than m.                         *)
Closed(m, k, v) == IF v > k \/ (m = "left" /\ v = k) THEN v - 1 ELSE v

(* Closing the gap keeps the order of positions.                           *)
LEMMA ClosedFacts ==
  ASSUME NEW m \in Side, NEW k \in Int
  PROVE  /\ \A v \in Int : Closed(m, k, v) \in Int
         /\ \A v, w \in Int : v <= w => Closed(m, k, v) <= Closed(m, k, w)
         /\ \A v, w \in Int : v < w /\ ~(m = "left" /\ v = k - 1 /\ w = k)
                              /\ ~(m = "right" /\ v = k /\ w = k + 1)
                                => Closed(m, k, v) < Closed(m, k, w)
         /\ \A v \in Int, f \in Side :
              v # k /\ ~(f = Other(m) /\ v = k - Way(f)) =>
                Closed(m, k, v + Way(f)) = Closed(m, k, v) + Way(f)
<1>1. CASE m = "left"
  BY <1>1 DEF Closed, Way, Side, Other
<1>2. CASE m = "right"
  BY <1>2 DEF Closed, Way, Side, Other
<1> QED
  BY <1>1, <1>2 DEF Side

(* With no child on side m, the neighbour on that side is above s, and     *)
(* nobody's interval ends between the two.                                 *)
LEMMA SpliceGap ==
  ASSUME NEW t, NEW q, NEW pos, NEW bnd, Shape(t, q, pos, bnd),
         NEW s \in Nodes(t), NEW m \in Side, t.child[m][s] = Null,
         NEW x \in Nodes(t), pos[x] = pos[s] + Way(m)
  PROVE  t.child[Other(m)][x] # Null /\ bnd[Other(m)][x] # pos[s]
<1>1. /\ pos[s] \in 1..Len(q) /\ q[pos[s]] = s /\ pos[x] \in 1..Len(q) /\ q[pos[x]] = x
      /\ Len(q) \in Nat /\ x \in Session /\ pos[s] \in Int /\ pos[x] \in Int
      /\ Other(m) \in Side
  BY BoundFacts, ShapeFacts, Sides
<1>2. t.child[Other(m)][x] # Null
  <2>1. CASE m = "left"
    <3>1. pos[x] = pos[s] - 1 /\ pos[x] + 1 = pos[s] /\ pos[x] + 1 <= Len(q) /\ q[pos[x] + 1] = s
      BY <1>1, <2>1 DEF Way
    <3>2. t.child["right"][q[pos[x]]] # Null \/ t.child["left"][q[pos[x] + 1]] # Null
      BY <1>1, <3>1, Neighbours
    <3> QED
      BY <1>1, <2>1, <3>1, <3>2 DEF Other
  <2>2. CASE m = "right"
    <3>1. pos[x] = pos[s] + 1 /\ pos[s] + 1 <= Len(q) /\ q[pos[s] + 1] = x
      BY <1>1, <2>2 DEF Way
    <3>2. t.child["right"][q[pos[s]]] # Null \/ t.child["left"][q[pos[s] + 1]] # Null
      BY <1>1, <3>1, Neighbours
    <3> QED
      BY <1>1, <2>2, <3>1, <3>2 DEF Other
  <2> QED
    BY <2>1, <2>2 DEF Side
<1> DEFINE c == t.child[Other(m)][x]
<1>3. /\ bnd[Other(m)][c] = bnd[Other(m)][x] /\ bnd[Other(Other(m))][c] = pos[x]
      /\ c \in Nodes(t) /\ c \in Session
  BY <1>1, <1>2, KidFacts
<1>4. Between(bnd, c, pos[c]) /\ pos[c] \in Int /\ bnd["left"][c] \in Int /\ bnd["right"][c] \in Int
  BY <1>3, BoundFacts, ShapeFacts DEF Side
<1>5. bnd[m][c] = pos[x]
  BY <1>3, Sides
<1> HIDE DEF c
<1>6. bnd[Other(m)][c] # pos[s]
  <2>1. CASE m = "left"
    BY <1>1, <1>4, <1>5, <2>1 DEF Between, Other, Way
  <2>2. CASE m = "right"
    BY <1>1, <1>4, <1>5, <2>2 DEF Between, Other, Way
  <2> QED
    BY <2>1, <2>2 DEF Side
<1> QED
  BY <1>2, <1>3, <1>6

(* Taking out a node that lacks a child deletes it from the order and      *)
(* leaves the rest as it is.                                               *)
LEMMA SpliceShape ==
  ASSUME NEW t, NEW q, NEW pos, NEW bnd, Shape(t, q, pos, bnd),
         NEW s \in Nodes(t), NEW m \in Side, NEW kid, OneKid(t, s, m, kid)
  PROVE  /\ Nodes(SpliceTree(t, s, kid)) = Nodes(t) \ {s}
         /\ \E pos2, b : Shape(SpliceTree(t, s, kid), Deletion(q, pos[s]), pos2, b)
<1> DEFINE above == t.up[s]
           u == SpliceTree(t, s, kid)
           w == SideOf(t, above, s)
           k == pos[s]
           N == Len(q)
           pos2 == [x \in Session |-> IF pos[x] > k THEN pos[x] - 1 ELSE pos[x]]
           b == [f \in Side |-> [x \in Session |-> Closed(m, k, bnd[f][x])]]
<1>1. /\ t \in TreeType /\ Null \notin Session /\ s \in Session /\ Other(m) \in Side
      /\ (\A f \in Side : f = m \/ f = Other(m))
      /\ kid \in Session \cup {Null} /\ above \in Session \cup {Null}
      /\ t.root \in Session \cup {Null}
      /\ N \in Nat /\ k \in 1..N /\ q[k] = s
      /\ Nodes(t) \subseteq Session
  <2>1. k \in 1..N /\ q[k] = s /\ s \in Session /\ Nodes(t) \subseteq Session
    BY BoundFacts DEF Nodes
  <2>2. Other(m) \in Side /\ (\A f \in Side : f = m \/ f = Other(m))
    BY Sides
  <2>3. /\ t \in TreeType /\ Null \notin Session /\ N \in Nat
        /\ \A x \in Session, e \in Side : t.child[e][x] \in Session \cup {Null}
        /\ \A x \in Session : t.up[x] \in Session \cup {Null}
        /\ t.root \in Session \cup {Null}
    BY ShapeFacts
  <2> QED
    BY <2>1, <2>2, <2>3 DEF OneKid
<1>e. t.child[m][s] = Null /\ t.child[Other(m)][s] = kid
  BY DEF OneKid
<1>2. /\ above = Null => s = t.root
      /\ above # Null => /\ s # t.root /\ w \in Side /\ t.child[w][above] = s /\ above \in Nodes(t)
                         /\ \A e \in Side : t.child[e][above] = s => e = w
                         /\ bnd[w][s] = bnd[w][above] /\ bnd[Other(w)][s] = pos[above]
      /\ above # s
  BY <1>1, BoundFacts, ParentFacts
<1>3. /\ kid # s
      /\ kid # Null => /\ kid # above /\ kid # t.root /\ kid \in Nodes(t) /\ kid \in Session
                       /\ bnd[Other(m)][kid] = bnd[Other(m)][s] /\ bnd[m][kid] = k
  <2>1. kid # Null => /\ kid # t.root /\ kid \in Nodes(t) /\ kid \in Session /\ kid # s
                      /\ bnd[Other(m)][kid] = bnd[Other(m)][s] /\ bnd[m][kid] = k
                      /\ Between(bnd, s, pos[kid])
    <3> SUFFICES ASSUME kid # Null
                 PROVE  /\ kid # t.root /\ kid \in Nodes(t) /\ kid \in Session /\ kid # s
                        /\ bnd[Other(m)][kid] = bnd[Other(m)][s] /\ bnd[m][kid] = k
                        /\ Between(bnd, s, pos[kid])
      OBVIOUS
    <3>1. /\ kid # t.root /\ kid \in Nodes(t) /\ kid \in Session /\ kid # s
          /\ bnd[Other(m)][kid] = bnd[Other(m)][s] /\ bnd[Other(Other(m))][kid] = k
          /\ Between(bnd, s, pos[kid])
      BY <1>1, <1>e, KidFacts
    <3> QED
      BY <3>1, Sides
  <2>2. above # Null => ~ Between(bnd, s, pos[above])
    BY BoundFacts
  <2> QED
    BY <1>1, <2>1, <2>2
<1>4. /\ u.root = IF above = Null THEN kid ELSE t.root
      /\ \A x \in Session, e \in Side :
           u.child[e][x] = IF x = s THEN Null
                           ELSE IF x = above /\ e = w THEN kid ELSE t.child[e][x]
  BY <1>1, <1>2, <1>3, SpliceFields DEF SpliceTree
<1> HIDE DEF u
<1>5. Nodes(u) = Nodes(t) \ {s} /\ Linking(u)
  BY SpliceLinking DEF u
<1>6. /\ \A x \in Session : pos[x] \in Int
      /\ \A x \in Session, e \in Side : bnd[e][x] \in Int
      /\ k \in Int
  BY <1>1, ShapeFacts
<1>7. /\ \A v \in Int : Closed(m, k, v) \in Int
      /\ \A x, y \in Int : x <= y => Closed(m, k, x) <= Closed(m, k, y)
      /\ \A x, y \in Int : x < y /\ ~(m = "left" /\ x = k - 1 /\ y = k)
                              /\ ~(m = "right" /\ x = k /\ y = k + 1)
                                => Closed(m, k, x) < Closed(m, k, y)
      /\ \A v \in Int, f \in Side :
              v # k /\ ~(f = Other(m) /\ v = k - Way(f)) =>
                Closed(m, k, v + Way(f)) = Closed(m, k, v) + Way(f)
  BY <1>6, ClosedFacts
<1>8. /\ pos2 \in [Session -> Int] /\ b \in [Side -> [Session -> Int]]
      /\ \A x \in Session : pos2[x] = IF pos[x] > k THEN pos[x] - 1 ELSE pos[x]
      /\ \A x \in Session, f \in Side : b[f][x] = Closed(m, k, bnd[f][x])
  BY <1>6, <1>7
<1>9. Order(Deletion(q, k), pos2, Nodes(u)) /\ Len(Deletion(q, k)) = N - 1
  <2>1. MovedDown(pos, pos2, k)
    BY <1>8 DEF MovedDown
  <2>2. Order(q, pos, Nodes(t))
    BY ShapeFacts
  <2>3. Order(Deletion(q, k), pos2, Nodes(t) \ {s}) /\ Len(Deletion(q, k)) = Len(q) - 1
    BY <1>1, <2>1, <2>2, DeleteOrder
  <2> QED
    BY <1>5, <2>3
<1> HIDE DEF pos2, b, above, w, N
<1>10. ASSUME NEW x \in Nodes(t), x # s PROVE pos2[x] = Closed(m, k, pos[x]) /\ pos[x] # k /\ x \in Session
  <2>1. q[pos[x]] = x /\ x \in Session
    BY BoundFacts
  <2> QED
    BY <1>1, <1>6, <1>8, <1>10, <2>1 DEF Closed
<1>11. /\ \A x \in Nodes(t), f \in Side : t.child[f][x] = Null => bnd[f][x] = pos[x] + Way(f)
       /\ \A x \in Nodes(t), f \in Side : t.child[f][x] # Null =>
            bnd[f][t.child[f][x]] = bnd[f][x] /\ bnd[Other(f)][t.child[f][x]] = pos[x]
       /\ \A x \in Nodes(t) : /\ 0 <= bnd["left"][x] /\ bnd["left"][x] < pos[x]
                              /\ pos[x] < bnd["right"][x] /\ bnd["right"][x] <= N + 1
       /\ t.root # Null => bnd["left"][t.root] = 0 /\ bnd["right"][t.root] = N + 1
       /\ \A x \in Session, f \in Side : t.child[f][x] \in Session \cup {Null}
  BY <1>1, ShapeFacts DEF Bounded, N
<1>12. Closed(m, k, 0) = 0 /\ Closed(m, k, N + 1) = N
  BY <1>1 DEF Closed
<1>13. ASSUME NEW x \in Nodes(u)
       PROVE  /\ 0 <= b["left"][x] /\ b["left"][x] < pos2[x]
              /\ pos2[x] < b["right"][x] /\ b["right"][x] <= (N - 1) + 1
  <2>1. x \in Nodes(t) /\ x # s /\ x \in Session /\ pos2[x] = Closed(m, k, pos[x]) /\ pos[x] # k /\ pos[x] \in Int
    BY <1>5, <1>6, <1>10, <1>1
  <2> DEFINE lo == bnd["left"][x]
             hi == bnd["right"][x]
  <2>2. /\ lo \in Int /\ hi \in Int /\ b["left"][x] = Closed(m, k, lo) /\ b["right"][x] = Closed(m, k, hi)
        /\ 0 <= lo /\ lo < pos[x] /\ pos[x] < hi /\ hi <= N + 1
    BY <1>6, <1>8, <1>11, <2>1 DEF Side
  <2>3. /\ ~(m = "left" /\ pos[x] = k - 1 /\ hi = k)
        /\ ~(m = "right" /\ lo = k /\ pos[x] = k + 1)
    <3>1. ~(pos[x] = k + Way(m) /\ bnd[Other(m)][x] = k)
      BY <1>e, <2>1, SpliceGap
    <3> QED
      BY <3>1, <1>6 DEF Way, Other
  <2> HIDE DEF lo, hi
  <2>4. Closed(m, k, lo) < Closed(m, k, pos[x]) /\ Closed(m, k, pos[x]) < Closed(m, k, hi)
    BY <1>7, <2>1, <2>2, <2>3
  <2>5. Closed(m, k, 0) <= Closed(m, k, lo) /\ Closed(m, k, hi) <= Closed(m, k, N + 1)
    BY <1>1, <1>7, <2>2
  <2>6. (N - 1) + 1 = N
    BY <1>1
  <2> QED
    BY <1>12, <2>1, <2>2, <2>4, <2>5, <2>6
<1>14. kid # Null => \A f \in Side : b[f][kid] = Closed(m, k, bnd[f][s])
  <2> SUFFICES ASSUME kid # Null, NEW f \in Side PROVE b[f][kid] = Closed(m, k, bnd[f][s])
    OBVIOUS
  <2>1. b[f][kid] = Closed(m, k, bnd[f][kid])
    BY <1>3, <1>8
  <2>2. CASE f = Other(m)
    BY <1>3, <2>1, <2>2
  <2>3. CASE f = m
    <3>1. bnd[f][kid] = k /\ bnd[f][s] = k + Way(m)
      BY <1>e, <1>3, <1>11, <2>3
    <3>2. Closed(m, k, k) = Closed(m, k, k + Way(m))
      BY <1>6 DEF Closed, Way, Side
    <3> QED
      BY <2>1, <3>1, <3>2
  <2> QED
    BY <1>1, <2>2, <2>3
<1>15. ASSUME NEW x \in Nodes(u), NEW f \in Side
       PROVE IF u.child[f][x] = Null THEN b[f][x] = pos2[x] + Way(f)
             ELSE /\ b[f][u.child[f][x]] = b[f][x]
                  /\ b[Other(f)][u.child[f][x]] = pos2[x]
  <2>0. /\ x \in Nodes(t) /\ x # s /\ x \in Session /\ pos2[x] = Closed(m, k, pos[x]) /\ pos[x] # k
        /\ pos[x] \in Int /\ Other(f) \in Side
        /\ b[f][x] = Closed(m, k, bnd[f][x])
    BY <1>5, <1>6, <1>8, <1>10, <1>1, Sides
  <2>1. CASE x = above /\ f = w
    <3>1. u.child[f][x] = kid /\ bnd[f][s] = bnd[f][x] /\ bnd[Other(f)][s] = pos[x]
      BY <1>1, <1>2, <1>4, <2>0, <2>1
    <3>2. CASE kid # Null
      BY <1>14, <2>0, <3>1, <3>2
    <3>3. CASE kid = Null
      <4>1. bnd[f][s] = k + Way(f) /\ bnd[Other(f)][s] = k + Way(Other(f))
        <5>1. \A e \in Side : t.child[e][s] = Null
          BY <1>e, <1>1, <3>3
        <5> QED
          BY <1>11, <2>0, <5>1
      <4>2. Closed(m, k, k + Way(f)) = Closed(m, k, k + Way(Other(f))) + Way(f)
        BY <1>6 DEF Closed, Way, Other, Side
      <4> QED
        BY <2>0, <3>1, <3>3, <4>1, <4>2
    <3> QED
      BY <3>2, <3>3
  <2>2. CASE ~(x = above /\ f = w) /\ t.child[f][x] = Null
    <3>1. u.child[f][x] = Null /\ bnd[f][x] = pos[x] + Way(f)
      BY <1>4, <1>11, <2>0, <2>2
    <3>2. ~(f = Other(m) /\ pos[x] = k - Way(f))
      <4>1. k - Way(Other(m)) = k + Way(m)
        BY <1>6 DEF Way, Other, Side
      <4> QED
        BY <1>e, <2>0, <2>2, <4>1, SpliceGap
    <3> QED
      BY <1>7, <2>0, <3>1, <3>2
  <2>3. CASE ~(x = above /\ f = w) /\ t.child[f][x] # Null
    <3> DEFINE c == t.child[f][x]
    <3>1. u.child[f][x] = c /\ bnd[f][c] = bnd[f][x] /\ bnd[Other(f)][c] = pos[x] /\ c \in Session
      BY <1>4, <1>11, <2>0, <2>3
    <3> HIDE DEF c
    <3>2. b[f][c] = Closed(m, k, bnd[f][c]) /\ b[Other(f)][c] = Closed(m, k, bnd[Other(f)][c])
      BY <1>8, <2>0, <3>1
    <3> QED
      BY <1>1, <2>0, <3>1, <3>2
  <2> QED
    BY <2>1, <2>2, <2>3
<1>16. u.root # Null => b["left"][u.root] = 0 /\ b["right"][u.root] = (N - 1) + 1
  <2>0. (N - 1) + 1 = N /\ "left" \in Side /\ "right" \in Side
    BY <1>1 DEF Side
  <2>1. CASE above = Null /\ kid # Null
    <3>1. u.root = kid /\ bnd["left"][s] = 0 /\ bnd["right"][s] = N + 1
      BY <1>1, <1>2, <1>4, <1>11, <2>1
    <3>2. b["left"][kid] = Closed(m, k, bnd["left"][s]) /\ b["right"][kid] = Closed(m, k, bnd["right"][s])
      BY <1>14, <2>0, <2>1
    <3> QED
      BY <1>12, <2>0, <3>1, <3>2
  <2>2. CASE above = Null /\ kid = Null
    BY <1>4, <2>2
  <2>3. CASE above # Null
    <3> SUFFICES ASSUME t.root # Null PROVE b["left"][t.root] = 0 /\ b["right"][t.root] = N
      BY <1>4, <2>0, <2>3
    <3>1. /\ b["left"][t.root] = Closed(m, k, bnd["left"][t.root])
          /\ b["right"][t.root] = Closed(m, k, bnd["right"][t.root])
      BY <1>1, <1>8, <2>0
    <3> QED
      BY <1>11, <1>12, <3>1
  <2> QED
    BY <2>1, <2>2, <2>3
<1>17. Bounded(u, pos2, b, N - 1)
  BY <1>8, <1>13, <1>15, <1>16 DEF Bounded
<1>18. Shape(u, Deletion(q, k), pos2, b)
  BY <1>5, <1>9, <1>17 DEF Shape
<1> QED
  BY <1>5, <1>18 DEF u
----------------------------------------------------------------------------
(* h for s, and everything else as it is.                                  *)
Ren(s, h, y) == IF y = s THEN h ELSE y

(* A node that is linked nowhere takes the place of one that is.           *)
LEMMA SubstShape ==
  ASSUME NEW t, NEW q, NEW pos, NEW bnd, Shape(t, q, pos, bnd),
         NEW s \in Nodes(t), NEW h \in Session, h \notin Nodes(t),
         NEW u \in TreeType, u.red \subseteq (Nodes(t) \ {s}) \cup {h},
         u.root = Ren(s, h, t.root),
         \A x \in Session, e \in Side :
           u.child[e][x] = IF x = s THEN Null
                           ELSE Ren(s, h, t.child[e][Ren(h, s, x)]),
         \A x \in Session :
           u.up[x] = IF x = s THEN Null ELSE Ren(s, h, t.up[Ren(h, s, x)])
  PROVE  /\ Nodes(u) = (Nodes(t) \ {s}) \cup {h}
         /\ \E pos2, b : Shape(u, [q EXCEPT ![pos[s]] = h], pos2, b)
<1> DEFINE k == pos[s]
           N == Len(q)
           r == [q EXCEPT ![k] = h]
           pos2 == [x \in Session |-> pos[Ren(h, s, x)]]
           b == [f \in Side |-> [x \in Session |-> bnd[f][Ren(h, s, x)]]]
<1>1. /\ t \in TreeType /\ Null \notin Session /\ N \in Nat /\ t.root \in Session
      /\ \A x \in Session : pos[x] \in Int
      /\ \A x \in Session, e \in Side : bnd[e][x] \in Int
      /\ q \in Seq(Session)
      /\ s \in Session /\ s # h /\ Nodes(t) \subseteq Session
      /\ t.root # h
  <2>1. t.root # Null
    BY ShapeFacts DEF Linking
  <2> QED
    BY <2>1, ShapeFacts DEF Nodes, Order
<1>2. /\ k \in 1..N /\ q[k] = s
  BY BoundFacts
<1>3. /\ \A x \in Session, f \in Side :
           t.child[f][x] # Null => /\ x \in Nodes(t) /\ t.up[t.child[f][x]] = x
                                   /\ t.child[f][x] \in Nodes(t)
      /\ \A x \in Session : t.up[x] # Null => \E f \in Side : t.child[f][t.up[x]] = x
      /\ t.up[t.root] = Null
      /\ \A x \in Session, f \in Side : t.child[f][x] \in Session \cup {Null}
      /\ \A x \in Session : t.up[x] \in Session \cup {Null}
      /\ \A x \in Session : t.up[x] # Null => t.up[x] \in Nodes(t) /\ x \in Nodes(t)
  <2>1. /\ \A x \in Session, f \in Side :
             t.child[f][x] # Null => x \in Nodes(t) /\ t.up[t.child[f][x]] = x
        /\ \A x \in Session : t.up[x] # Null => \E f \in Side : t.child[f][t.up[x]] = x
        /\ t.up[t.root] = Null
        /\ \A x \in Session, f \in Side : t.child[f][x] \in Session \cup {Null}
        /\ \A x \in Session : t.up[x] \in Session \cup {Null}
    BY <1>1, ShapeFacts DEF Linking
  <2>2. \A x \in Session : t.up[x] # Null => t.up[x] \in Nodes(t) /\ x \in Nodes(t)
    BY ParentFacts DEF Nodes
  <2>3. ASSUME NEW x \in Session, NEW f \in Side, t.child[f][x] # Null
        PROVE  t.child[f][x] \in Nodes(t)
    BY <1>1, <2>1, <2>3 DEF Nodes
  <2> QED
    BY <2>1, <2>2, <2>3
<1>4. Nodes(u) = (Nodes(t) \ {s}) \cup {h}
  <2>1. ASSUME NEW x \in Session PROVE x \in Nodes(u) <=> x \in (Nodes(t) \ {s}) \cup {h}
    <3>1. CASE x = s
      BY <1>1, <3>1 DEF Nodes, Ren
    <3>2. CASE x = h
      <4>1. s = t.root \/ t.up[s] # Null
        BY DEF Nodes
      <4> QED
        BY <1>1, <3>2, <4>1 DEF Nodes, Ren
    <3>3. CASE x # s /\ x # h
      BY <1>1, <3>3 DEF Nodes, Ren
    <3> QED
      BY <3>1, <3>2, <3>3
  <2> QED
    BY <1>1, <2>1 DEF Nodes
<1>5. \A x \in Nodes(u) : /\ Ren(h, s, x) \in Nodes(t) /\ Ren(s, h, Ren(h, s, x)) = x /\ x # s
                          /\ x \in Session
  BY <1>1, <1>4 DEF Ren
<1>6. \A y \in Nodes(t) : /\ Ren(s, h, y) \in Nodes(u) /\ Ren(h, s, Ren(s, h, y)) = y
                          /\ Ren(s, h, y) # Null /\ Ren(s, h, y) # s /\ Ren(s, h, y) \in Session
  BY <1>1, <1>4 DEF Ren
<1>7. Ren(s, h, Null) = Null
  BY <1>1 DEF Ren
<1>8. \A x \in Session : x \notin Nodes(u) =>
        u.up[x] = Null /\ \A e \in Side : u.child[e][x] = Null
  <2> SUFFICES ASSUME NEW x \in Session, x \notin Nodes(u), x # s
               PROVE  u.up[x] = Null /\ \A e \in Side : u.child[e][x] = Null
    OBVIOUS
  <2>1. Ren(h, s, x) = x /\ x \notin Nodes(t)
    BY <1>4 DEF Ren
  <2>2. t.up[x] = Null /\ \A e \in Side : t.child[e][x] = Null
    BY <1>3, <2>1
  <2> QED
    BY <1>7, <2>1, <2>2
<1>9. Linking(u)
  <2>1. ASSUME NEW x \in Session, NEW e \in Side, u.child[e][x] # Null
        PROVE  x \in Nodes(u) /\ u.up[u.child[e][x]] = x
    <3> DEFINE y == Ren(h, s, x)
               c == t.child[e][y]
    <3>1. x \in Nodes(u) /\ y \in Nodes(t) /\ y \in Session /\ Ren(s, h, y) = x
      BY <1>1, <1>5, <1>8, <2>1
    <3>2. u.child[e][x] = Ren(s, h, c)
      BY <1>5, <3>1
    <3> HIDE DEF y
    <3>3. c # Null /\ c \in Nodes(t) /\ t.up[c] = y
      BY <1>3, <1>7, <2>1, <3>1, <3>2
    <3> HIDE DEF c
    <3>4. u.up[Ren(s, h, c)] = Ren(s, h, t.up[Ren(h, s, Ren(s, h, c))])
      BY <1>6, <3>3
    <3> QED
      BY <1>6, <3>1, <3>2, <3>3, <3>4
  <2>2. ASSUME NEW x \in Session, u.up[x] # Null
        PROVE  \E e \in Side : u.child[e][u.up[x]] = x
    <3> DEFINE y == Ren(h, s, x)
               p == t.up[y]
    <3>1. x \in Nodes(u) /\ y \in Nodes(t) /\ y \in Session /\ Ren(s, h, y) = x
      BY <1>1, <1>5, <1>8, <2>2
    <3>2. u.up[x] = Ren(s, h, p)
      BY <1>5, <3>1
    <3> HIDE DEF y
    <3>3. p # Null /\ p \in Nodes(t)
      BY <1>3, <1>7, <2>2, <3>1, <3>2
    <3>4. PICK e \in Side : t.child[e][p] = y
      BY <1>3, <3>1, <3>3
    <3> HIDE DEF p
    <3>5. u.child[e][Ren(s, h, p)] = Ren(s, h, t.child[e][Ren(h, s, Ren(s, h, p))])
      BY <1>6, <3>3
    <3> QED
      BY <1>6, <3>1, <3>2, <3>3, <3>4, <3>5
  <2>3. u.root # Null /\ u.up[u.root] = Null
    <3>1. t.root \in Nodes(t)
      BY <1>1 DEF Nodes
    <3>2. u.up[Ren(s, h, t.root)] = Ren(s, h, t.up[Ren(h, s, Ren(s, h, t.root))])
      BY <1>6, <3>1
    <3> QED
      BY <1>3, <1>6, <1>7, <3>1, <3>2
  <2> QED
    BY <1>4, <2>1, <2>2, <2>3 DEF Linking
<1>10. /\ pos2 \in [Session -> Int] /\ b \in [Side -> [Session -> Int]]
       /\ \A x \in Session : pos2[x] = pos[Ren(h, s, x)]
       /\ \A x \in Session, f \in Side : b[f][x] = bnd[f][Ren(h, s, x)]
  BY <1>1 DEF Ren
<1>11. Order(r, pos2, Nodes(u)) /\ Len(r) = N
  <2>1. r \in Seq(Session) /\ Len(r) = N /\ \A i \in 1..N : r[i] = IF i = k THEN h ELSE q[i]
    BY <1>1, <1>2
  <2> HIDE DEF r, pos2, k
  <2>2. /\ \A i \in 1..N : q[i] \in Nodes(t) /\ pos[q[i]] = i
        /\ \A n \in Nodes(t) : pos[n] \in 1..N /\ q[pos[n]] = n
    BY ShapeFacts DEF Order
  <2>3. ASSUME NEW i \in 1..N PROVE r[i] \in Nodes(u) /\ pos2[r[i]] = i
    <3>1. CASE i = k
      BY <1>1, <1>4, <1>10, <2>1, <3>1 DEF Ren, k
    <3>2. CASE i # k
      <4>1. r[i] = q[i] /\ q[i] \in Nodes(t) /\ pos[q[i]] = i /\ q[i] # s /\ q[i] # h
        BY <2>1, <2>2, <3>2 DEF k
      <4> QED
        BY <1>1, <1>4, <1>10, <4>1 DEF Ren
    <3> QED
      BY <3>1, <3>2
  <2>4. ASSUME NEW x \in Nodes(u) PROVE pos2[x] \in 1..N /\ r[pos2[x]] = x
    <3> DEFINE y == Ren(h, s, x)
    <3>1. y \in Nodes(t) /\ pos2[x] = pos[y] /\ (y = s <=> x = h) /\ (y # s => y = x)
      BY <1>4, <1>5, <1>10 DEF Ren
    <3> HIDE DEF y
    <3>2. pos[y] \in 1..N /\ q[pos[y]] = y /\ (pos[y] = k => y = s)
      BY <1>2, <2>2, <3>1 DEF k
    <3> QED
      BY <2>1, <3>1, <3>2 DEF k
  <2> QED
    BY <1>10, <2>1, <2>3, <2>4 DEF Order
<1> HIDE DEF pos2, b, r
<1>12. ASSUME NEW x \in Nodes(u)
       PROVE  /\ 0 <= b["left"][x] /\ b["left"][x] < pos2[x]
              /\ pos2[x] < b["right"][x] /\ b["right"][x] <= N + 1
  <2> DEFINE y == Ren(h, s, x)
  <2>1. y \in Nodes(t) /\ x \in Session
    BY <1>5
  <2>2. b["left"][x] = bnd["left"][y] /\ b["right"][x] = bnd["right"][y] /\ pos2[x] = pos[y]
    BY <1>10, <2>1 DEF Side
  <2> HIDE DEF y
  <2> QED
    BY <2>1, <2>2, BoundFacts DEF Between
<1>13. ASSUME NEW x \in Nodes(u), NEW f \in Side
       PROVE IF u.child[f][x] = Null THEN b[f][x] = pos2[x] + Way(f)
             ELSE /\ b[f][u.child[f][x]] = b[f][x]
                  /\ b[Other(f)][u.child[f][x]] = pos2[x]
  <2> DEFINE y == Ren(h, s, x)
             c == t.child[f][y]
  <2>1. /\ y \in Nodes(t) /\ x \in Session /\ x # s /\ y \in Session /\ Other(f) \in Side
        /\ u.child[f][x] = Ren(s, h, c)
        /\ b[f][x] = bnd[f][y] /\ pos2[x] = pos[y]
    BY <1>1, <1>5, <1>10, Sides
  <2> HIDE DEF y
  <2>2. CASE c = Null
    <3>1. bnd[f][y] = pos[y] + Way(f)
      BY <2>1, <2>2, ShapeFacts DEF Bounded
    <3> QED
      BY <1>7, <2>1, <2>2, <3>1
  <2>3. CASE c # Null
    <3>1. bnd[f][c] = bnd[f][y] /\ bnd[Other(f)][c] = pos[y] /\ c \in Nodes(t)
      BY <2>1, <2>3, KidFacts
    <3> HIDE DEF c
    <3>2. b[f][Ren(s, h, c)] = bnd[f][c] /\ b[Other(f)][Ren(s, h, c)] = bnd[Other(f)][c] /\ Ren(s, h, c) # Null
      BY <1>6, <1>10, <2>1, <3>1
    <3> QED
      BY <2>1, <3>1, <3>2
  <2> QED
    BY <2>2, <2>3
<1>14. b["left"][u.root] = 0 /\ b["right"][u.root] = N + 1
  <2>1. t.root \in Nodes(t) /\ bnd["left"][t.root] = 0 /\ bnd["right"][t.root] = N + 1
    BY <1>1, RootFacts
  <2> DEFINE y == Ren(s, h, t.root)
  <2>2. y \in Session /\ Ren(h, s, y) = t.root /\ u.root = y
    BY <1>6, <2>1
  <2> HIDE DEF y
  <2>3. b["left"][y] = bnd["left"][t.root] /\ b["right"][y] = bnd["right"][t.root]
    BY <1>10, <2>2 DEF Side
  <2> QED
    BY <2>1, <2>2, <2>3
<1>15. Bounded(u, pos2, b, N)
  BY <1>10, <1>12, <1>13, <1>14 DEF Bounded
<1>16. Shape(u, r, pos2, b)
  BY <1>9, <1>11, <1>15 DEF Shape
<1> QED
  BY <1>4, <1>16 DEF r

(* The nodes around s, which has two children, and around its heir.        *)
Around(t, s, l, r, heir, kid, above, p) ==
  /\ l = t.child["left"][s] /\ l # Null /\ r = t.child["right"][s] /\ r # Null
  /\ heir = Extreme(t, "left", r) /\ kid = t.child["right"][heir]
  /\ above = t.up[heir] /\ p = t.up[s]

(* A node with two children: its heir is the next one in the order, with   *)
(* no left child; it is the right child itself, or the left child of       *)
(* another node below it.                                                  *)
LEMMA SwapNodes ==
  ASSUME NEW t, NEW q, NEW pos, NEW bnd, Shape(t, q, pos, bnd),
         NEW s \in Nodes(t), NEW l, NEW r, NEW heir, NEW kid, NEW above, NEW p,
         Around(t, s, l, r, heir, kid, above, p)
  PROVE  /\ s \in Session /\ l \in Session /\ r \in Session /\ heir \in Session
         /\ heir \in Nodes(t) /\ l \in Nodes(t)
         /\ kid \in Session \cup {Null} /\ above \in Session /\ p \in Session \cup {Null}
         /\ pos[heir] = pos[s] + 1 /\ t.child["left"][heir] = Null
         /\ heir # s /\ heir # l /\ l # s /\ l # r /\ r # s
         /\ kid # s /\ kid # heir /\ kid # l
         /\ p # s /\ p # heir /\ above # heir
         /\ t.up[l] = s /\ t.up[r] = s
         /\ \/ above = s /\ r = heir /\ SideOf(t, above, heir) = "right"
            \/ /\ above # s /\ above # p /\ r # heir /\ r # kid
               /\ SideOf(t, above, heir) = "left" /\ t.child["left"][above] = heir
<1>e. /\ t.child["left"][s] = l /\ l # Null /\ t.child["right"][s] = r /\ r # Null
      /\ Extreme(t, "left", r) = heir /\ t.child["right"][heir] = kid
      /\ t.up[heir] = above /\ t.up[s] = p
  BY DEF Around
<1>1. /\ s \in Session /\ Null \notin Session /\ p \in Session \cup {Null} /\ "left" \in Side /\ "right" \in Side
      /\ Other("left") = "right" /\ Other("right") = "left"
      /\ \A x \in Session : pos[x] \in Int
      /\ \A x \in Session : bnd["left"][x] \in Int /\ bnd["right"][x] \in Int
  BY <1>e, ShapeFacts DEF Nodes, Side, Other
<1> DEFINE k == pos[s]
<1>2. /\ l \in Session /\ l \in Nodes(t) /\ l # s /\ t.up[l] = s /\ bnd["right"][l] = k
  BY <1>e, <1>1, KidFacts
<1>3. /\ r \in Session /\ r \in Nodes(t) /\ r # s /\ t.up[r] = s /\ bnd["left"][r] = k
      /\ bnd["right"][r] = bnd["right"][s]
  BY <1>e, <1>1, KidFacts
<1>4. bnd["left"][r] - Way("left") = k + 1
  BY <1>1, <1>3 DEF Way
<1>5. k + 1 \in 1..Len(q) /\ heir = q[k + 1] /\ t.child["left"][heir] = Null
  BY <1>e, <1>1, <1>3, <1>4, ExtremeIs
<1>6. heir \in Nodes(t) /\ heir \in Session /\ pos[heir] = k + 1
  BY <1>5, ShapeFacts DEF Order, Nodes
<1>7. bnd["left"][heir] = k
  <2>1. bnd["left"][heir] = pos[heir] + Way("left")
    BY <1>1, <1>5, <1>6, ShapeFacts DEF Bounded
  <2> QED
    BY <1>1, <1>6, <2>1 DEF Way
<1>8. pos[l] < k /\ pos[r] > k /\ bnd["right"][s] > k + 1
  <2>1. Between(bnd, l, pos[l]) /\ Between(bnd, r, pos[r])
    BY <1>2, <1>3, BoundFacts
  <2>2. pos[l] < k /\ pos[r] > k /\ bnd["right"][s] > pos[r]
    BY <1>2, <1>3, <2>1 DEF Between
  <2> QED
    BY <1>1, <1>3, <2>2
<1>9. heir # s /\ heir # l /\ l # r
  <2>1. pos[l] \in Int /\ pos[r] \in Int /\ k \in Int
    BY <1>1, <1>2, <1>3
  <2>2. heir # s
    BY <1>6, <2>1
  <2>3. pos[l] # pos[heir] /\ pos[l] # pos[r]
    BY <1>6, <1>8, <2>1
  <2> QED
    BY <2>2, <2>3
<1>10. p # Null => ~ Between(bnd, s, pos[p])
  BY <1>e, BoundFacts
<1>11. Between(bnd, s, k) /\ Between(bnd, s, k + 1)
  <2>1. Between(bnd, s, k)
    BY BoundFacts
  <2> QED
    BY <1>1, <1>8, <2>1 DEF Between
<1>12. p # s /\ p # heir
  BY <1>1, <1>6, <1>10, <1>11
<1>13. /\ kid \in Session \cup {Null} /\ kid # heir
       /\ kid # Null => t.up[kid] = heir /\ pos[kid] > k + 1
  <2>1. kid \in Session \cup {Null}
    BY <1>e, <1>1, <1>6, ShapeFacts
  <2> SUFFICES ASSUME kid # Null PROVE kid # heir /\ t.up[kid] = heir /\ pos[kid] > k + 1
    BY <1>1, <1>6, <2>1
  <2>2. /\ kid # heir /\ t.up[kid] = heir /\ bnd["left"][kid] = k + 1 /\ kid \in Nodes(t)
    BY <1>e, <1>1, <1>6, KidFacts
  <2>3. Between(bnd, kid, pos[kid])
    BY <2>2, BoundFacts
  <2> QED
    BY <2>2, <2>3 DEF Between
<1>14. kid # s /\ kid # l /\ (heir # r => kid # r)
  BY <1>e, <1>1, <1>3, <1>8, <1>9, <1>13
<1>15. above # Null
  <2> SUFFICES ASSUME above = Null PROVE FALSE
    OBVIOUS
  <2>1. heir = t.root
    BY <1>e, <1>6 DEF Nodes
  <2>2. bnd["left"][heir] = 0
    BY <1>1, <1>6, <2>1, RootFacts
  <2>3. k >= 1
    BY BoundFacts
  <2> QED
    BY <1>7, <2>2, <2>3
<1> DEFINE w == SideOf(t, above, heir)
<1>16. /\ above \in Nodes(t) /\ above \in Session /\ w \in Side /\ t.child[w][above] = heir
       /\ bnd[w][heir] = bnd[w][above] /\ bnd[Other(w)][heir] = pos[above]
  BY <1>e, <1>6, <1>15, ParentFacts
<1>17. above # heir /\ q[pos[above]] = above
  <2>1. ~ Between(bnd, heir, pos[above]) /\ Between(bnd, heir, pos[heir])
    BY <1>e, <1>6, <1>15, BoundFacts
  <2> QED
    BY <1>16, <2>1, BoundFacts
<1> HIDE DEF w
<1>18. CASE w = "right"
  <2>1. pos[above] = k
    BY <1>1, <1>7, <1>16, <1>18
  <2>2. above = s
    <3>1. q[k] = s
      BY BoundFacts
    <3> QED
      BY <1>17, <2>1, <3>1
  <2>3. r = heir
    <3>1. t.child["right"][above] = heir
      BY <1>16, <1>18
    <3> QED
      BY <1>e, <2>2, <3>1
  <2> QED
    BY <1>1, <1>2, <1>3, <1>5, <1>6, <1>9, <1>12, <1>13, <1>14, <1>16, <1>17, <1>18, <2>2, <2>3 DEF w
<1>19. CASE w = "left"
  <2>1. pos[above] = bnd["right"][heir] /\ pos[above] > k + 1
    <3>1. Between(bnd, heir, pos[heir])
      BY <1>6, BoundFacts
    <3>2. pos[above] = bnd["right"][heir]
      BY <1>1, <1>16, <1>19
    <3>3. bnd["right"][heir] > k + 1
      BY <1>6, <3>1 DEF Between
    <3> QED
      BY <3>2, <3>3
  <2>2. above # s
    BY <1>1, <2>1
  <2>3. r # heir
    BY <1>e, <1>3, <2>2
  <2>4. above # p
    <3> SUFFICES ASSUME above = p PROVE FALSE
      OBVIOUS
    <3>1. p # Null /\ p \in Session
      BY <1>15, <1>16
    <3>2. PICK v \in Side : t.child[v][p] = s /\ bnd[Other(v)][s] = pos[p]
      BY <1>e, <1>1, <3>1, ParentFacts
    <3>3. v # "left"
      BY <1>9, <1>16, <1>19, <3>2
    <3>4. bnd["left"][s] = pos[p]
      BY <1>1, <3>2, <3>3 DEF Side
    <3>5. pos[p] < k
      BY <1>11, <3>4 DEF Between
    <3> QED
      BY <1>1, <2>1, <3>1, <3>5
  <2> QED
    BY <1>1, <1>2, <1>3, <1>5, <1>6, <1>9, <1>12, <1>13, <1>14, <1>16, <1>17, <1>19, <2>2, <2>3, <2>4 DEF w
<1> QED
  BY <1>16, <1>18, <1>19 DEF Side

(* One link written.                                                       *)
WithChild(t, e, y, z) == [t EXCEPT !.child[e][y] = z]
(* One parent written.                                                     *)
WithUp(t, y, z) == [t EXCEPT !.up[y] = z]

(* The fields that the writes of a link leave.                             *)
SameShape(t, u) == u \in TreeType /\ u.root = t.root /\ u.red = t.red

(* u is t with the child of y on side e being z.                           *)
ChildSet(t, u, e, y, z) ==
  /\ SameShape(t, u)
  /\ \A x \in Session : u.up[x] = t.up[x]
  /\ \A x \in Session, f \in Side :
       u.child[f][x] = IF x = y /\ f = e THEN z ELSE t.child[f][x]

(* u is t with z as the parent of y.                                       *)
UpSet(t, u, y, z) ==
  /\ SameShape(t, u)
  /\ \A x \in Session : u.up[x] = IF x = y THEN z ELSE t.up[x]
  /\ \A x \in Session, f \in Side : u.child[f][x] = t.child[f][x]

(* u is t with new on side w of p, or as the root.                         *)
Replaced(t, u, p, w, new) ==
  /\ u \in TreeType /\ u.red = t.red /\ u.root = IF p = Null THEN new ELSE t.root
  /\ \A x \in Session : u.up[x] = t.up[x]
  /\ \A x \in Session, f \in Side :
       u.child[f][x] = IF x = p /\ f = w THEN new ELSE t.child[f][x]

(* u is t with the writes of PutDown.                                      *)
HeirDown(t, u, heir, kid, above, r) ==
  /\ SameShape(t, u)
  /\ \A x \in Session : u.up[x] = IF x = kid THEN above ELSE IF x = r THEN heir ELSE t.up[x]
  /\ \A x \in Session, e \in Side :
       u.child[e][x] = IF x = heir /\ e = "right" THEN r
                       ELSE IF x = above /\ e = "left" THEN kid ELSE t.child[e][x]

(* u is t with the writes of PutIn.                                        *)
HeirIn(t, u, heir, p, l) ==
  /\ SameShape(t, u)
  /\ \A x \in Session : u.up[x] = IF x = l THEN heir ELSE IF x = heir THEN p ELSE t.up[x]
  /\ \A x \in Session, e \in Side :
       u.child[e][x] = IF x = heir /\ e = "left" THEN l ELSE t.child[e][x]

(* rb_left or rb_right of a node written.                                  *)
LEMMA SetChild ==
  ASSUME NEW t \in TreeType, NEW e \in Side, NEW y \in Session, NEW z \in Session \cup {Null}
  PROVE  ChildSet(t, WithChild(t, e, y, z), e, y, z)
<1> DEFINE u == WithChild(t, e, y, z)
<1>1. t.child \in [Side -> [Session -> Session \cup {Null}]]
  BY DEF TreeType
<1>2. u.child = [t.child EXCEPT ![e][y] = z] /\ u.root = t.root /\ u.red = t.red /\ u.up = t.up
  BY DEF TreeType, WithChild
<1>3. u \in TreeType
  BY <1>1 DEF TreeType, WithChild
<1> HIDE DEF u
<1>4. \A x \in Session, f \in Side :
        u.child[f][x] = IF x = y /\ f = e THEN z ELSE t.child[f][x]
  BY <1>1, <1>2
<1>5. ChildSet(t, u, e, y, z)
  BY <1>2, <1>3, <1>4 DEF ChildSet, SameShape
<1> QED
  BY <1>5 DEF u

(* The parent of a node written.                                           *)
LEMMA SetUp ==
  ASSUME NEW t \in TreeType, NEW y \in Session, NEW z \in Session \cup {Null}
  PROVE  UpSet(t, WithUp(t, y, z), y, z)
<1> DEFINE u == WithUp(t, y, z)
<1>1. t.up \in [Session -> Session \cup {Null}]
  BY DEF TreeType
<1>2. u.up = [t.up EXCEPT ![y] = z] /\ u.root = t.root /\ u.red = t.red /\ u.child = t.child
  BY DEF TreeType, WithUp
<1>3. u \in TreeType
  BY <1>1 DEF TreeType, WithUp
<1> HIDE DEF u
<1>4. \A x \in Session : u.up[x] = IF x = y THEN z ELSE t.up[x]
  BY <1>1, <1>2
<1>5. UpSet(t, u, y, z)
  BY <1>2, <1>3, <1>4 DEF UpSet, SameShape
<1> QED
  BY <1>5 DEF u

(* rb_set_parent writes the parent of a node that is there.                *)
LEMMA SetParentFields ==
  ASSUME NEW t \in TreeType, NEW y \in Session \cup {Null}, NEW z \in Session \cup {Null}
  PROVE  UpSet(t, SetParent(t, y, z), y, z)
<1>1. CASE y = Null
  <2>1. SetParent(t, y, z) = t /\ \A x \in Session : x # y
    BY <1>1, TreeAssumption DEF SetParent
  <2>2. UpSet(t, t, y, z)
    BY <2>1 DEF UpSet, SameShape
  <2> QED
    BY <2>1, <2>2
<1>2. CASE y # Null
  <2>1. SetParent(t, y, z) = WithUp(t, y, z) /\ y \in Session
    BY <1>2 DEF SetParent, WithUp
  <2> QED
    BY <2>1, SetUp
<1> QED
  BY <1>1, <1>2

(* The link from above is redirected, and nothing else.                    *)
LEMMA ReplaceFields ==
  ASSUME NEW t \in TreeType, NEW p \in Session \cup {Null}, NEW old, NEW new \in Session \cup {Null}
  PROVE  Replaced(t, Replace(t, p, old, new), p, SideOf(t, p, old), new)
<1> DEFINE u == Replace(t, p, old, new)
<1> HIDE DEF u
<1>1. CASE p = Null
  <2>1. u = [t EXCEPT !.root = new]
    BY <1>1 DEF Replace, u
  <2>2. u \in TreeType /\ u.red = t.red /\ u.root = new /\ u.up = t.up /\ u.child = t.child
    BY <2>1 DEF TreeType
  <2>3. Replaced(t, u, p, SideOf(t, p, old), new)
    BY <1>1, <2>2, TreeAssumption DEF Replaced
  <2> QED
    BY <2>3 DEF u
<1>2. CASE p # Null
  <2>1. u = WithChild(t, SideOf(t, p, old), p, new) /\ p \in Session /\ SideOf(t, p, old) \in Side
    BY <1>2 DEF Replace, SideOf, Side, WithChild, u
  <2>2. ChildSet(t, u, SideOf(t, p, old), p, new)
    BY <2>1, SetChild
  <2>3. Replaced(t, u, p, SideOf(t, p, old), new)
    BY <1>2, <2>2 DEF ChildSet, SameShape, Replaced
  <2> QED
    BY <2>3 DEF u
<1> QED
  BY <1>1, <1>2

(* The heir's child goes to the heir's place, and the heir gets the right  *)
(* subtree.                                                                *)
PutDown(t, heir, kid, above, r) ==
  SetParent(WithUp(WithChild(WithChild(t, "left", above, kid), "right", heir, r),
                   r, heir),
            kid, above)

(* The heir gets the parent and the left subtree.                          *)
PutIn(t, heir, p, l) ==
  WithUp(WithChild(WithUp(t, heir, p), "left", heir, l), l, heir)

(* What PutDown changes, link by link.                                     *)
LEMMA PutDownFields ==
  ASSUME NEW t \in TreeType, NEW heir \in Session, NEW kid \in Session \cup {Null},
         NEW above \in Session, NEW r \in Session
  PROVE  HeirDown(t, PutDown(t, heir, kid, above, r), heir, kid, above, r)
<1> DEFINE u == PutDown(t, heir, kid, above, r)
<1> DEFINE a == WithChild(t, "left", above, kid)
           b == WithChild(a, "right", heir, r)
           c == WithUp(b, r, heir)
<1>0. "left" \in Side /\ "right" \in Side
  BY DEF Side
<1>1. u = SetParent(c, kid, above)
  BY DEF PutDown
<1> HIDE DEF u
<1>2. ChildSet(t, a, "left", above, kid)
  BY <1>0, SetChild
<1> HIDE DEF a
<1>3. ChildSet(a, b, "right", heir, r)
  <2>1. a \in TreeType
    BY <1>2 DEF ChildSet, SameShape
  <2> QED
    BY <1>0, <2>1, SetChild
<1> HIDE DEF b
<1>4. UpSet(b, c, r, heir)
  <2>1. b \in TreeType
    BY <1>3 DEF ChildSet, SameShape
  <2> QED
    BY <2>1, SetUp
<1> HIDE DEF c
<1>5. UpSet(c, u, kid, above)
  <2>1. c \in TreeType
    BY <1>4 DEF UpSet, SameShape
  <2> QED
    BY <1>1, <2>1, SetParentFields
<1>6. \A x \in Session : u.up[x] = IF x = kid THEN above ELSE IF x = r THEN heir ELSE t.up[x]
  BY <1>2, <1>3, <1>4, <1>5 DEF UpSet, ChildSet
<1>7. \A x \in Session, e \in Side :
        u.child[e][x] = IF x = heir /\ e = "right" THEN r
                        ELSE IF x = above /\ e = "left" THEN kid ELSE t.child[e][x]
  BY <1>2, <1>3, <1>4, <1>5 DEF UpSet, ChildSet
<1>8. u \in TreeType /\ u.red = t.red /\ u.root = t.root
  BY <1>2, <1>3, <1>4, <1>5 DEF UpSet, ChildSet, SameShape
<1>9. HeirDown(t, u, heir, kid, above, r)
  BY <1>6, <1>7, <1>8 DEF HeirDown, SameShape
<1> QED
  BY <1>9 DEF u

(* What PutIn changes, link by link.                                       *)
LEMMA PutInFields ==
  ASSUME NEW t \in TreeType, NEW heir \in Session, NEW p \in Session \cup {Null},
         NEW l \in Session, l # heir
  PROVE  HeirIn(t, PutIn(t, heir, p, l), heir, p, l)
<1> DEFINE u == PutIn(t, heir, p, l)
<1> DEFINE a == WithUp(t, heir, p)
           b == WithChild(a, "left", heir, l)
<1>0. "left" \in Side
  BY DEF Side
<1>1. u = WithUp(b, l, heir)
  BY DEF PutIn
<1> HIDE DEF u
<1>2. UpSet(t, a, heir, p)
  BY SetUp
<1> HIDE DEF a
<1>3. ChildSet(a, b, "left", heir, l)
  <2>1. a \in TreeType
    BY <1>2 DEF UpSet, SameShape
  <2> QED
    BY <1>0, <2>1, SetChild
<1> HIDE DEF b
<1>4. UpSet(b, u, l, heir)
  <2>1. b \in TreeType
    BY <1>3 DEF ChildSet, SameShape
  <2> QED
    BY <1>1, <2>1, SetUp
<1>6. \A x \in Session : u.up[x] = IF x = l THEN heir ELSE IF x = heir THEN p ELSE t.up[x]
  BY <1>2, <1>3, <1>4 DEF UpSet, ChildSet
<1>7. \A x \in Session, e \in Side :
        u.child[e][x] = IF x = heir /\ e = "left" THEN l ELSE t.child[e][x]
  BY <1>2, <1>3, <1>4 DEF UpSet, ChildSet
<1>8. u \in TreeType /\ u.red = t.red /\ u.root = t.root
  BY <1>2, <1>3, <1>4 DEF UpSet, ChildSet, SameShape
<1>9. HeirIn(t, u, heir, p, l)
  BY <1>6, <1>7, <1>8 DEF HeirIn, SameShape
<1> QED
  BY <1>9 DEF u

(* Every field of t3 as SwapFields says.                                   *)
Swapped(t, t3, s, l, r, heir, kid, above, p) ==
  /\ t3 \in TreeType
  /\ t3.root = IF p = Null THEN heir ELSE t.root
  /\ \A x \in Session, e \in Side :
       t3.child[e][x] =
         IF x = heir THEN IF e = "left" THEN l ELSE IF above = s THEN kid ELSE r
         ELSE IF x = p /\ e = SideOf(t, p, s) THEN heir
         ELSE IF above # s /\ x = above /\ e = "left" THEN kid
         ELSE t.child[e][x]
  /\ \A x \in Session :
       t3.up[x] =
         IF x = heir THEN p
         ELSE IF x = l \/ (above # s /\ x = r) THEN heir
         ELSE IF above # s /\ x = kid THEN above
         ELSE t.up[x]

(* The nodes around s and its heir, and what is different about them.      *)
SwapPlaces(t, s, l, r, heir, kid, above, p) ==
  /\ {s, l, r, heir, above} \subseteq Session /\ {kid, p} \subseteq Session \cup {Null}
  /\ l = t.child["left"][s] /\ r = t.child["right"][s] /\ kid = t.child["right"][heir]
  /\ above = t.up[heir] /\ p = t.up[s]
  /\ heir # s /\ heir # l /\ l # s /\ l # r /\ r # s /\ kid # s /\ kid # heir /\ kid # l
  /\ p # s /\ p # heir /\ above # heir
  /\ \/ above = s /\ r = heir
     \/ above # s /\ above # p /\ r # heir /\ r # kid

(* The writes of SwapOut, from t over t1 and t2 to t3.                     *)
SwapWrites(t, s, l, r, heir, kid, above, p, t1, t2, t3) ==
  /\ t1 = Replace(t, p, s, heir)
  /\ t2 = IF above = s THEN t1 ELSE PutDown(t1, heir, kid, above, r)
  /\ t3 = PutIn(t2, heir, p, l)

(* What SwapOut changes, link by link.                                     *)
LEMMA SwapFields ==
  ASSUME NEW t \in TreeType, NEW s, NEW l, NEW r, NEW heir, NEW kid, NEW above, NEW p,
         SwapPlaces(t, s, l, r, heir, kid, above, p), NEW t1, NEW t2, NEW t3,
         SwapWrites(t, s, l, r, heir, kid, above, p, t1, t2, t3)
  PROVE  Swapped(t, t3, s, l, r, heir, kid, above, p) /\ t3.red = t.red
<1>0. /\ s \in Session /\ l \in Session /\ r \in Session /\ heir \in Session /\ above \in Session
      /\ kid \in Session \cup {Null} /\ p \in Session \cup {Null}
      /\ heir # l /\ p # heir /\ above # heir /\ kid # l /\ kid # heir /\ l # r
      /\ above = s => r = heir
      /\ above # s => above # p /\ r # heir /\ r # kid
  BY DEF SwapPlaces
<1> DEFINE w == SideOf(t, p, s)
<1>1. w \in Side /\ Null \notin Session /\ "left" \in Side /\ "right" \in Side
      /\ t.child \in [Side -> [Session -> Session \cup {Null}]]
      /\ t.up \in [Session -> Session \cup {Null}]
      /\ \A e \in Side : e = "left" \/ e = "right"
  BY TreeAssumption DEF SideOf, Side, TreeType
<1> HIDE DEF w
<1>a. Replaced(t, t1, p, w, heir)
  BY <1>0, ReplaceFields DEF w, SwapWrites
<1>2. /\ t1 \in TreeType /\ t1.red = t.red /\ t1.root = IF p = Null THEN heir ELSE t.root
      /\ \A x \in Session : t1.up[x] = t.up[x]
      /\ \A x \in Session, e \in Side :
           t1.child[e][x] = IF x = p /\ e = w THEN heir ELSE t.child[e][x]
  BY <1>a DEF Replaced
<1>3. /\ t2 \in TreeType /\ t2.red = t.red /\ t2.root = t1.root
      /\ \A x \in Session, e \in Side :
           t2.child[e][x] = IF above # s /\ x = heir /\ e = "right" THEN r
                            ELSE IF above # s /\ x = above /\ e = "left" THEN kid
                            ELSE t1.child[e][x]
      /\ \A x \in Session :
           t2.up[x] = IF above # s /\ x = kid THEN above
                      ELSE IF above # s /\ x = r THEN heir ELSE t.up[x]
  <2>1. CASE above = s
    <3>1. t2 = t1
      BY <2>1 DEF SwapWrites
    <3> QED
      BY <1>2, <2>1, <3>1
  <2>2. CASE above # s
    <3>1. t2 = PutDown(t1, heir, kid, above, r)
      BY <2>2 DEF SwapWrites
    <3>a. HeirDown(t1, t2, heir, kid, above, r)
      BY <1>0, <1>2, <3>1, PutDownFields
    <3>2. /\ t2 \in TreeType /\ t2.red = t1.red /\ t2.root = t1.root
          /\ \A x \in Session : t2.up[x] = IF x = kid THEN above ELSE IF x = r THEN heir ELSE t1.up[x]
          /\ \A x \in Session, e \in Side :
               t2.child[e][x] = IF x = heir /\ e = "right" THEN r
                                ELSE IF x = above /\ e = "left" THEN kid ELSE t1.child[e][x]
      BY <3>a DEF HeirDown, SameShape
    <3>3. /\ \A x \in Session, e \in Side :
           t2.child[e][x] = IF above # s /\ x = heir /\ e = "right" THEN r
                            ELSE IF above # s /\ x = above /\ e = "left" THEN kid
                            ELSE t1.child[e][x]
      BY <2>2, <3>2
    <3>4. /\ \A x \in Session :
           t2.up[x] = IF above # s /\ x = kid THEN above
                      ELSE IF above # s /\ x = r THEN heir ELSE t.up[x]
      BY <1>2, <2>2, <3>2
    <3> QED
      BY <1>2, <3>2, <3>3, <3>4
  <2> QED
    BY <2>1, <2>2
<1>b. HeirIn(t2, t3, heir, p, l)
  BY <1>0, <1>3, PutInFields DEF SwapWrites
<1>6. /\ t3 \in TreeType /\ t3.red = t2.red /\ t3.root = t2.root
      /\ \A x \in Session : t3.up[x] = IF x = l THEN heir ELSE IF x = heir THEN p ELSE t2.up[x]
      /\ \A x \in Session, e \in Side :
           t3.child[e][x] = IF x = heir /\ e = "left" THEN l ELSE t2.child[e][x]
  BY <1>b DEF HeirIn, SameShape
<1>10. ASSUME NEW x \in Session, NEW e \in Side
       PROVE  t3.child[e][x] =
                IF x = heir THEN IF e = "left" THEN l ELSE IF above = s THEN kid ELSE r
                ELSE IF x = p /\ e = w THEN heir
                ELSE IF above # s /\ x = above /\ e = "left" THEN kid
                ELSE t.child[e][x]
  <2> DEFINE c1 == t1.child[e][x]
             c2 == t2.child[e][x]
             c3 == t3.child[e][x]
  <2>1. c1 = IF x = p /\ e = w THEN heir ELSE t.child[e][x]
    BY <1>2
  <2>2. c2 = IF above # s /\ x = heir /\ e = "right" THEN r
             ELSE IF above # s /\ x = above /\ e = "left" THEN kid ELSE c1
    BY <1>3
  <2>3. c3 = IF x = heir /\ e = "left" THEN l ELSE c2
    BY <1>6
  <2> HIDE DEF c1, c2, c3
  <2>4. c3 = IF x = heir THEN IF e = "left" THEN l ELSE IF above = s THEN kid ELSE r
             ELSE IF x = p /\ e = w THEN heir
             ELSE IF above # s /\ x = above /\ e = "left" THEN kid
             ELSE t.child[e][x]
    <3>1. CASE x = heir /\ e = "left"
      BY <2>3, <3>1
    <3>2. CASE x = heir /\ e # "left"
      <4>1. c3 = c2 /\ e = "right"
        BY <2>3, <3>2 DEF Side
      <4>2. CASE above = s
        <5>1. c2 = c1
          BY <2>2, <4>2
        <5>2. c1 = t.child[e][x]
          BY <1>0, <2>1, <3>2
        <5>3. t.child[e][x] = kid
          BY <3>2, <4>1 DEF SwapPlaces
        <5> QED
          BY <3>2, <4>1, <4>2, <5>1, <5>2, <5>3
      <4>3. CASE above # s
        <5>1. c2 = r
          BY <2>2, <3>2, <4>1, <4>3
        <5> QED
          BY <3>2, <4>1, <4>3, <5>1
      <4> QED
        BY <4>2, <4>3
    <3>3. CASE x # heir
      <4>1. c3 = c2
        BY <2>3, <3>3
      <4> QED
        BY <1>0, <2>1, <2>2, <3>3, <4>1
    <3> QED
      BY <3>1, <3>2, <3>3
  <2> QED
    BY <2>4 DEF c3
<1>11. \A x \in Session :
              t3.up[x] =
                IF x = heir THEN p
                ELSE IF x = l \/ (above # s /\ x = r) THEN heir
                ELSE IF above # s /\ x = kid THEN above
                ELSE t.up[x]
  <2> TAKE x \in Session
  <2> DEFINE u2 == t2.up[x]
             u3 == t3.up[x]
  <2>1. u2 = IF above # s /\ x = kid THEN above
             ELSE IF above # s /\ x = r THEN heir ELSE t.up[x]
    BY <1>3
  <2>2. u3 = IF x = l THEN heir ELSE IF x = heir THEN p ELSE u2
    BY <1>6
  <2> HIDE DEF u2, u3
  <2>3. u3 = IF x = heir THEN p
                ELSE IF x = l \/ (above # s /\ x = r) THEN heir
                ELSE IF above # s /\ x = kid THEN above
                ELSE t.up[x]
    BY <1>0, <2>1, <2>2
  <2> QED
    BY <2>3 DEF u3
<1>12. t3.root = IF p = Null THEN heir ELSE t.root
  BY <1>2, <1>3, <1>6
<1> QED
  BY <1>3, <1>6, <1>10, <1>11, <1>12 DEF w, Swapped

(* What Forget changes.                                                    *)
LEMMA ForgetFields ==
  ASSUME NEW t \in TreeType, NEW s \in Session, NEW u, u = Forget(t, s)
  PROVE  /\ u \in TreeType /\ u.root = t.root /\ u.red = t.red \ {s}
         /\ \A x \in Session, e \in Side : u.child[e][x] = IF x = s THEN Null ELSE t.child[e][x]
         /\ \A x \in Session : u.up[x] = IF x = s THEN Null ELSE t.up[x]
<1> DEFINE a == WithChild(t, "left", s, Null)
           b == WithChild(a, "right", s, Null)
           c == WithUp(b, s, Null)
<1>0. "left" \in Side /\ "right" \in Side /\ \A e \in Side : e = "left" \/ e = "right"
  BY DEF Side
<1>1. u = [c EXCEPT !.red = @ \ {s}]
  BY DEF Forget, WithChild, WithUp
<1>2. ChildSet(t, a, "left", s, Null)
  BY <1>0, SetChild
<1> HIDE DEF a
<1>3. ChildSet(a, b, "right", s, Null)
  <2>1. a \in TreeType
    BY <1>2 DEF ChildSet, SameShape
  <2> QED
    BY <1>0, <2>1, SetChild
<1> HIDE DEF b
<1>4. UpSet(b, c, s, Null)
  <2>1. b \in TreeType
    BY <1>3 DEF ChildSet, SameShape
  <2> QED
    BY <2>1, SetUp
<1> HIDE DEF c
<1>5. /\ c \in TreeType /\ c.root = t.root /\ c.red = t.red
      /\ \A x \in Session, e \in Side : c.child[e][x] = IF x = s THEN Null ELSE t.child[e][x]
      /\ \A x \in Session : c.up[x] = IF x = s THEN Null ELSE t.up[x]
  <2>1. /\ c \in TreeType /\ c.root = t.root /\ c.red = t.red
    BY <1>2, <1>3, <1>4 DEF ChildSet, UpSet, SameShape
  <2>2. \A x \in Session, e \in Side : c.child[e][x] = IF x = s THEN Null ELSE t.child[e][x]
    BY <1>0, <1>2, <1>3, <1>4 DEF ChildSet, UpSet
  <2>3. \A x \in Session : c.up[x] = IF x = s THEN Null ELSE t.up[x]
    BY <1>2, <1>3, <1>4 DEF ChildSet, UpSet
  <2> QED
    BY <2>1, <2>2, <2>3
<1>6. u \in TreeType /\ u.root = c.root /\ u.red = c.red \ {s} /\ u.child = c.child /\ u.up = c.up
  BY <1>1, <1>5 DEF TreeType
<1> QED
  BY <1>5, <1>6

(* u is t with s linked nowhere.                                           *)
Forgotten(t, u, s) ==
  /\ u \in TreeType /\ u.root = t.root /\ u.red = t.red \ {s}
  /\ \A x \in Session, e \in Side : u.child[e][x] = IF x = s THEN Null ELSE t.child[e][x]
  /\ \A x \in Session : u.up[x] = IF x = s THEN Null ELSE t.up[x]

(* The same as a predicate.                                                *)
LEMMA ForgetIs ==
  ASSUME NEW t \in TreeType, NEW s \in Session
  PROVE  Forgotten(t, Forget(t, s), s)
<1> DEFINE u == Forget(t, s)
<1>1. u = Forget(t, s)
  OBVIOUS
<1> HIDE DEF u
<1>2. Forgotten(t, u, s)
  BY <1>1, ForgetFields DEF Forgotten
<1> QED
  BY <1>1, <1>2

(* u is t with kid in the place of s.                                      *)
Spliced(t, u, s, kid, above) ==
  /\ u \in TreeType
  /\ u.root = IF above = Null THEN kid ELSE t.root
  /\ \A x \in Session, e \in Side :
       u.child[e][x] = IF x = s THEN Null
                       ELSE IF x = above /\ e = SideOf(t, above, s) THEN kid
                       ELSE t.child[e][x]
  /\ \A x \in Session :
       u.up[x] = IF x = s THEN Null ELSE IF x = kid THEN above ELSE t.up[x]

(* SpliceFields as a predicate.                                            *)
LEMMA SpliceIs ==
  ASSUME NEW t \in TreeType, NEW s \in Session,
         NEW kid \in Session \cup {Null}, kid # s,
         NEW above, above = t.up[s], above # s
  PROVE  Spliced(t, Forget(Replace(SetParent(t, kid, above), above, s, kid), s), s, kid, above)
<1> DEFINE u == Forget(Replace(SetParent(t, kid, above), above, s, kid), s)
<1>1. u = Forget(Replace(SetParent(t, kid, above), above, s, kid), s)
  OBVIOUS
<1> HIDE DEF u
<1>2. Spliced(t, u, s, kid, above)
  BY <1>1, SpliceFields DEF Spliced
<1> QED
  BY <1>1, <1>2

(* A deletion is shorter by one.                                           *)
LEMMA DeletionLen ==
  ASSUME NEW q \in Seq(Session), NEW k \in 1..Len(q)
  PROVE  Len(Deletion(q, k)) = Len(q) - 1
<1>1. Len(q) \in Nat /\ Len(q) >= 1
  OBVIOUS
<1>2. \A i \in 1..(Len(q) - 1) : (IF i < k THEN q[i] ELSE q[i + 1]) \in Session
  <2> TAKE i \in 1..(Len(q) - 1)
  <2>1. i \in 1..Len(q) /\ i + 1 \in 1..Len(q)
    BY <1>1
  <2> QED
    BY <2>1
<1>3. Deletion(q, k) \in [1..(Len(q) - 1) -> Session] /\ Len(q) - 1 \in Nat
  BY <1>1, <1>2 DEF Deletion
<1> QED
  BY <1>3

(* u is v with h in the place of s.                                        *)
Renamed(v, u, s, h) ==
  /\ u.root = Ren(s, h, v.root)
  /\ \A x \in Session, e \in Side :
       u.child[e][x] = IF x = s THEN Null ELSE Ren(s, h, v.child[e][Ren(h, s, x)])
  /\ \A x \in Session :
       u.up[x] = IF x = s THEN Null ELSE Ren(s, h, v.up[Ren(h, s, x)])

(* The heir is the next in the order and has no left child; the tree       *)
(* without the heir, with the heir in the place of s, is what the links of *)
(* SwapOut make.                                                           *)
LEMMA SwapRen ==
  ASSUME NEW t, NEW q, NEW pos, NEW bnd, Shape(t, q, pos, bnd),
         NEW s \in Nodes(t), NEW l, NEW r, NEW heir, NEW kid, NEW above, NEW p,
         Around(t, s, l, r, heir, kid, above, p),
         NEW t3, Swapped(t, t3, s, l, r, heir, kid, above, p), t3.red \subseteq Nodes(t)
  PROVE  /\ heir \in Nodes(t) /\ pos[heir] = pos[s] + 1 /\ t.child["left"][heir] = Null
         /\ Forgotten(t3, Forget(t3, s), s)
         /\ Renamed(SpliceTree(t, heir, kid), Forget(t3, s), s, heir)
<1> DEFINE k == pos[s]
           v == SpliceTree(t, heir, kid)
           w == SideOf(t, above, heir)
           ws == SideOf(t, p, s)
           u == Forget(t3, s)
<1>1. /\ s \in Session /\ l \in Session /\ r \in Session /\ heir \in Session
      /\ heir \in Nodes(t) /\ l \in Nodes(t)
      /\ kid \in Session \cup {Null} /\ above \in Session /\ p \in Session \cup {Null}
      /\ pos[heir] = k + 1 /\ t.child["left"][heir] = Null
      /\ heir # s /\ heir # l /\ l # s /\ l # r /\ r # s
      /\ kid # s /\ kid # heir /\ kid # l
      /\ p # s /\ p # heir /\ above # heir
      /\ t.up[l] = s /\ t.up[r] = s
  BY SwapNodes DEF Around
<1>2. \/ above = s /\ r = heir /\ w = "right"
      \/ /\ above # s /\ above # p /\ r # heir /\ r # kid
         /\ w = "left" /\ t.child["left"][above] = heir
  BY SwapNodes DEF Around
<1>e. t.up[s] = p /\ t.up[heir] = above /\ t.child["left"][s] = l /\ t.child["right"][s] = r
      /\ t.child["right"][heir] = kid
  BY DEF Around
<1>l. /\ \A x \in Session, e \in Side : t.child[e][x] # Null => t.up[t.child[e][x]] = x
      /\ t.root # Null => t.up[t.root] = Null
      /\ \A x \in Session : t.up[x] # Null => \E e \in Side : t.child[e][t.up[x]] = x
  BY ShapeFacts DEF Linking
<1>3. /\ t \in TreeType /\ Null \notin Session /\ "left" \in Side /\ "right" \in Side
      /\ Other("left") = "right" /\ (\A e \in Side : e = "left" \/ e = "right")
  BY ShapeFacts DEF Side, Other
<1>a. Spliced(t, v, heir, kid, above)
  BY <1>1, <1>3, <1>e, SpliceIs DEF SpliceTree
<1>4. /\ v \in TreeType
      /\ v.root = IF above = Null THEN kid ELSE t.root
      /\ \A x \in Session, e \in Side :
              v.child[e][x] = IF x = heir THEN Null
                              ELSE IF x = above /\ e = w THEN kid
                              ELSE t.child[e][x]
      /\ \A x \in Session :
              v.up[x] = IF x = heir THEN Null ELSE IF x = kid THEN above ELSE t.up[x]
  BY <1>a DEF Spliced
<1> HIDE DEF v, u
<1>b. Forgotten(t3, u, s)
  BY <1>1, ForgetIs DEF Swapped, u
<1>7. /\ u \in TreeType /\ u.root = t3.root /\ u.red = t3.red \ {s}
      /\ \A x \in Session, e \in Side : u.child[e][x] = IF x = s THEN Null ELSE t3.child[e][x]
      /\ \A x \in Session : u.up[x] = IF x = s THEN Null ELSE t3.up[x]
  BY <1>b DEF Forgotten
<1>10. u.root = Ren(s, heir, v.root)
  <2>1. v.root = t.root /\ u.root = IF p = Null THEN heir ELSE t.root
    BY <1>1, <1>3, <1>4, <1>7 DEF Swapped
  <2>2. p = Null <=> s = t.root
    <3>1. p = Null => s = t.root
      BY <1>e DEF Nodes
    <3> QED
      BY <1>1, <1>3, <1>e, <1>l, <3>1
  <2> QED
    BY <1>1, <2>1, <2>2 DEF Ren
<1>11. ASSUME NEW x \in Session, NEW e \in Side
       PROVE  u.child[e][x] = IF x = s THEN Null
                              ELSE Ren(s, heir, v.child[e][Ren(heir, s, x)])
  <2>1. CASE x = s
    BY <1>7, <2>1
  <2>2. CASE x = heir
    <3> DEFINE c3 == t3.child[e][heir]
               cv == v.child[e][s]
               ct == t.child[e][s]
    <3>1. u.child[e][x] = c3 /\ Ren(heir, s, x) = s
      BY <1>1, <1>7, <2>2 DEF Ren
    <3>2. c3 = IF e = "left" THEN l ELSE IF above = s THEN kid ELSE r
      BY <1>1 DEF Swapped
    <3>3. cv = IF s = above /\ e = w THEN kid ELSE ct
      BY <1>1, <1>4
    <3>4. (e = "left" /\ ct = l) \/ (e = "right" /\ ct = r)
      BY <1>3, <1>e
    <3> HIDE DEF c3, cv, ct, w
    <3>5. ASSUME e = "left" PROVE c3 = cv /\ cv # s
      <4>1. ct = l /\ c3 = l
        BY <3>2, <3>4, <3>5
      <4>2. e # w \/ s # above
        BY <1>2, <3>5
      <4> QED
        BY <1>1, <3>3, <4>1, <4>2
    <3>6. ASSUME e = "right" PROVE c3 = cv /\ cv # s
      <4>1. ct = r /\ c3 = IF above = s THEN kid ELSE r
        BY <3>2, <3>4, <3>6
      <4>2. s = above => e = w
        BY <1>2, <3>6
      <4> QED
        BY <1>1, <3>3, <4>1, <4>2
    <3>7. c3 = cv /\ cv # s
      BY <3>4, <3>5, <3>6
    <3>8. Ren(s, heir, cv) = cv
      BY <3>7 DEF Ren
    <3> QED
      BY <1>1, <2>2, <3>1, <3>7, <3>8 DEF cv
  <2>3. CASE x # s /\ x # heir
    <3> DEFINE c3 == t3.child[e][x]
               cv == v.child[e][x]
               ct == t.child[e][x]
    <3>1. u.child[e][x] = c3 /\ Ren(heir, s, x) = x
      BY <1>1, <1>7, <2>3 DEF Ren
    <3>2. c3 = IF x = p /\ e = ws THEN heir
               ELSE IF above # s /\ x = above /\ e = "left" THEN kid
               ELSE ct
      BY <2>3 DEF Swapped
    <3>3. cv = IF x = above /\ e = w THEN kid ELSE ct
      BY <1>1, <1>4, <2>3
    <3>4. ct = s <=> x = p /\ e = ws
      <4>1. CASE p = Null
        <5>1. ct # Null => t.up[ct] = x
          BY <1>l
        <5> QED
          BY <1>1, <1>3, <1>e, <4>1, <5>1
      <4>2. CASE p # Null
        <5>1. t.child[ws][p] = s /\ \A f \in Side : t.child[f][p] = s => f = ws
          BY <1>1, <1>e, <4>2, ParentFacts
        <5>2. ct # Null => t.up[ct] = x
          BY <1>l
        <5>3. ct = s => x = p
          BY <1>1, <1>3, <1>e, <5>2
        <5> QED
          BY <5>1, <5>3
      <4> QED
        BY <4>1, <4>2
    <3> HIDE DEF c3, cv, ct, w, ws
    <3>5. c3 = IF cv = s THEN heir ELSE cv
      BY <1>1, <1>2, <2>3, <3>2, <3>3, <3>4
    <3>6. Ren(s, heir, cv) = c3
      BY <3>5 DEF Ren
    <3> QED
      BY <2>3, <3>1, <3>6 DEF cv
  <2> QED
    BY <2>1, <2>2, <2>3
<1>12. ASSUME NEW x \in Session
       PROVE  u.up[x] = IF x = s THEN Null ELSE Ren(s, heir, v.up[Ren(heir, s, x)])
  <2>1. CASE x = s
    BY <1>7, <2>1
  <2>2. CASE x = heir
    <3>1. u.up[x] = p /\ Ren(heir, s, x) = s
      BY <1>1, <1>7, <2>2 DEF Ren, Swapped
    <3>2. v.up[s] = p
      BY <1>1, <1>4, <1>e
    <3>3. Ren(s, heir, p) = p
      BY <1>1 DEF Ren
    <3> QED
      BY <1>1, <2>2, <3>1, <3>2, <3>3
  <2>3. CASE x # s /\ x # heir
    <3> DEFINE u3 == t3.up[x]
               uv == v.up[x]
               ut == t.up[x]
    <3>1. u.up[x] = u3 /\ Ren(heir, s, x) = x
      BY <1>1, <1>7, <2>3 DEF Ren
    <3>2. u3 = IF x = l \/ (above # s /\ x = r) THEN heir
               ELSE IF above # s /\ x = kid THEN above
               ELSE ut
      BY <2>3 DEF Swapped
    <3>3. uv = IF x = kid THEN above ELSE ut
      BY <1>1, <1>4, <2>3
    <3>4. ut = s <=> x = l \/ x = r
      <4>1. ut # Null => t.child["left"][ut] = x \/ t.child["right"][ut] = x
        BY <1>3, <1>l
      <4> QED
        BY <1>1, <1>3, <1>e, <4>1
    <3>5. x = kid => ut = heir
      BY <1>1, <1>3, <1>e, <1>l
    <3> HIDE DEF u3, uv, ut, w, ws
    <3>6. u3 = IF uv = s THEN heir ELSE uv
      BY <1>1, <1>2, <2>3, <3>2, <3>3, <3>4, <3>5
    <3>7. Ren(s, heir, uv) = u3
      BY <3>6 DEF Ren
    <3> QED
      BY <2>3, <3>1, <3>7 DEF uv
  <2> QED
    BY <2>1, <2>2, <2>3
<1>13. Renamed(v, u, s, heir)
  BY <1>10, <1>11, <1>12 DEF Renamed
<1> QED
  BY <1>1, <1>b, <1>13 DEF v, u

(* So s is deleted from the order, and nothing else moves.                 *)
LEMMA SwapShape ==
  ASSUME NEW t, NEW q, NEW pos, NEW bnd, Shape(t, q, pos, bnd),
         NEW s \in Nodes(t), NEW heir \in Nodes(t), pos[heir] = pos[s] + 1,
         t.child["left"][heir] = Null,
         NEW v, v = SpliceTree(t, heir, t.child["right"][heir]),
         NEW u \in TreeType, u.red \subseteq Nodes(t) \ {s}, Renamed(v, u, s, heir)
  PROVE  /\ Nodes(v) = Nodes(t) \ {heir}
         /\ \E pv, bv : Shape(v, Deletion(q, pos[heir]), pv, bv)
         /\ Nodes(u) = Nodes(t) \ {s}
         /\ \E pos2, b : Shape(u, Deletion(q, pos[s]), pos2, b)
<1> DEFINE k == pos[s]
<1>1. /\ s \in Session /\ heir \in Session /\ s # heir /\ "left" \in Side /\ Other("left") = "right"
      /\ k \in Int
  <2>1. s \in Session /\ heir \in Session /\ k \in Int
    BY ShapeFacts DEF Nodes
  <2>2. s # heir
    BY <2>1
  <2> QED
    BY <2>1, <2>2 DEF Side, Other
<1>5. Nodes(v) = Nodes(t) \ {heir} /\ \E pv, bv : Shape(v, Deletion(q, pos[heir]), pv, bv)
  <2>1. OneKid(t, heir, "left", t.child["right"][heir])
    BY <1>1 DEF OneKid
  <2> QED
    BY <1>1, <2>1, SpliceShape
<1>6. PICK pv, bv : Shape(v, Deletion(q, k + 1), pv, bv)
  BY <1>1, <1>5
<1>8. s \in Nodes(v) /\ heir \notin Nodes(v)
  BY <1>1, <1>5
<1>9. u.red \subseteq (Nodes(v) \ {s}) \cup {heir}
  BY <1>5
<1>13. Nodes(u) = (Nodes(v) \ {s}) \cup {heir} /\ \E p2, b : Shape(u, [Deletion(q, k + 1) EXCEPT ![pv[s]] = heir], p2, b)
  BY <1>1, <1>6, <1>8, <1>9, SubstShape DEF Renamed
<1>14. [Deletion(q, k + 1) EXCEPT ![pv[s]] = heir] = Deletion(q, k)
  <2>1. Order(q, pos, Nodes(t)) /\ Order(Deletion(q, k + 1), pv, Nodes(v)) /\ Len(q) \in Nat
    BY <1>6, ShapeFacts
  <2>2. /\ k \in 1..Len(q) /\ k + 1 \in 1..Len(q) /\ q[k] = s /\ q[k + 1] = heir
    BY <1>1, <2>1 DEF Order
  <2>3. Deletion(q, k + 1) = [i \in 1..(Len(q) - 1) |-> IF i < k + 1 THEN q[i] ELSE q[i + 1]]
    BY DEF Deletion
  <2>4. pv[s] = k
    <3>1. k \in 1..(Len(q) - 1) /\ Deletion(q, k + 1)[k] = s
      BY <2>1, <2>2, <2>3
    <3>2. Len(Deletion(q, k + 1)) = Len(q) - 1
      BY <2>1, <2>2, DeletionLen DEF Order
    <3> QED
      BY <2>1, <3>1, <3>2 DEF Order
  <2>5. Deletion(q, k) = [i \in 1..(Len(q) - 1) |-> IF i < k THEN q[i] ELSE q[i + 1]]
    BY DEF Deletion
  <2> HIDE DEF k
  <2>6. \A i \in 1..(Len(q) - 1) :
          (IF i = k THEN heir ELSE IF i < k + 1 THEN q[i] ELSE q[i + 1])
            = IF i < k THEN q[i] ELSE q[i + 1]
    BY <2>1, <2>2
  <2>7. [Deletion(q, k + 1) EXCEPT ![k] = heir]
          = [i \in 1..(Len(q) - 1) |-> IF i = k THEN heir ELSE IF i < k + 1 THEN q[i] ELSE q[i + 1]]
    BY <2>3
  <2> QED
    BY <2>4, <2>5, <2>6, <2>7
<1>15. (Nodes(v) \ {s}) \cup {heir} = Nodes(t) \ {s}
  BY <1>1, <1>5
<1> QED
  BY <1>5, <1>13, <1>14, <1>15

(* A tree with other colours is a tree with the same links.                *)
LEMMA Coloured ==
  ASSUME NEW t \in TreeType, NEW R \in SUBSET Session
  PROVE  /\ [t EXCEPT !.red = R] \in TreeType
         /\ [t EXCEPT !.red = R].red = R
         /\ [t EXCEPT !.red = R].root = t.root
         /\ [t EXCEPT !.red = R].child = t.child
         /\ [t EXCEPT !.red = R].up = t.up
BY DEF TreeType

(* What Paint changes.                                                     *)
LEMMA PaintFields ==
  ASSUME NEW t \in TreeType, NEW A, NEW B, A \cap Session = A
  PROVE  /\ Paint(t, A, B) \in TreeType
         /\ Paint(t, A, B).red = (t.red \ B) \cup A
         /\ Paint(t, A, B).root = t.root
         /\ Paint(t, A, B).child = t.child
         /\ Paint(t, A, B).up = t.up
<1>1. (t.red \ B) \cup A \in SUBSET Session
  BY DEF TreeType
<1>2. Paint(t, A, B) = [t EXCEPT !.red = (t.red \ B) \cup A]
  BY DEF Paint
<1> QED
  BY <1>1, <1>2, Coloured

(* Painting nodes leaves the shape.                                        *)
LEMMA PaintShape ==
  ASSUME NEW t, NEW q, NEW pos, NEW bnd, Shape(t, q, pos, bnd), NEW A, NEW B,
         A \subseteq Nodes(t)
  PROVE  Nodes(Paint(t, A, B)) = Nodes(t) /\ Shape(Paint(t, A, B), q, pos, bnd)
<1> DEFINE u == Paint(t, A, B)
<1>1. /\ u \in TreeType /\ u.red = (t.red \ B) \cup A /\ u.root = t.root
      /\ u.child = t.child /\ u.up = t.up
  <2>1. t \in TreeType /\ A \cap Session = A
    BY ShapeFacts DEF Nodes
  <2> QED
    BY <2>1, PaintFields
<1> HIDE DEF u
<1>2. Nodes(u) = Nodes(t)
  BY <1>1 DEF Nodes
<1>3. Linking(u)
  BY <1>1, <1>2, ShapeFacts DEF Linking
<1>4. Bounded(u, pos, bnd, Len(q))
  BY <1>1, <1>2, ShapeFacts DEF Bounded
<1>5. Shape(u, q, pos, bnd)
  BY <1>2, <1>3, <1>4, ShapeFacts DEF Shape
<1> QED
  BY <1>2, <1>5 DEF u

(* The links of SwapOut before the colour and the node are settled.        *)
SwapLinks(t, s, heir) ==
  LET t1 == Replace(t, t.up[s], s, heir)
      t2 == IF t.up[heir] = s THEN t1
            ELSE PutDown(t1, heir, t.child["right"][heir], t.up[heir], t.child["right"][s])
  IN  PutIn(t2, heir, t.up[s], t.child["left"][s])

(* The links of SwapOut are written as SwapFields says.                    *)
LEMMA SwapLinksIs ==
  ASSUME NEW t, NEW q, NEW pos, NEW bnd, Shape(t, q, pos, bnd),
         NEW s \in Nodes(t), t.child["left"][s] # Null, t.child["right"][s] # Null,
         NEW heir, heir = Extreme(t, "left", t.child["right"][s])
  PROVE  /\ Swapped(t, SwapLinks(t, s, heir), s, t.child["left"][s], t.child["right"][s], heir,
                    t.child["right"][heir], t.up[heir], t.up[s])
         /\ SwapLinks(t, s, heir).red = t.red
<1> DEFINE l == t.child["left"][s]
           r == t.child["right"][s]
           kid == t.child["right"][heir]
           above == t.up[heir]
           p == t.up[s]
           t1 == Replace(t, p, s, heir)
           t2 == IF above = s THEN t1 ELSE PutDown(t1, heir, kid, above, r)
           t3 == PutIn(t2, heir, p, l)
<1>a. Around(t, s, l, r, heir, kid, above, p)
  BY DEF Around
<1>1. /\ s \in Session /\ l \in Session /\ r \in Session /\ heir \in Session
      /\ kid \in Session \cup {Null} /\ above \in Session /\ p \in Session \cup {Null}
      /\ heir # s /\ heir # l /\ l # s /\ l # r /\ r # s
      /\ kid # s /\ kid # heir /\ kid # l
      /\ p # s /\ p # heir /\ above # heir
  BY <1>a, SwapNodes
<1>2. \/ above = s /\ r = heir
      \/ above # s /\ above # p /\ r # heir /\ r # kid
  BY <1>a, SwapNodes
<1>3. t \in TreeType
  BY ShapeFacts
<1>4. SwapLinks(t, s, heir) = t3
  BY DEF SwapLinks
<1>5. /\ l = t.child["left"][s] /\ r = t.child["right"][s] /\ kid = t.child["right"][heir]
      /\ above = t.up[heir] /\ p = t.up[s]
      /\ t1 = Replace(t, p, s, heir)
      /\ t2 = IF above = s THEN t1 ELSE PutDown(t1, heir, kid, above, r)
      /\ t3 = PutIn(t2, heir, p, l)
  OBVIOUS
<1> HIDE DEF l, r, kid, above, p, t1, t2, t3
<1>6. Swapped(t, t3, s, l, r, heir, kid, above, p) /\ t3.red = t.red
  <2>1. SwapPlaces(t, s, l, r, heir, kid, above, p)
    BY <1>1, <1>2, <1>5 DEF SwapPlaces
  <2>2. SwapWrites(t, s, l, r, heir, kid, above, p, t1, t2, t3)
    BY <1>5 DEF SwapWrites
  <2> QED
    BY <1>3, <2>1, <2>2, SwapFields
<1> QED
  BY <1>4, <1>5, <1>6

(* One child or none: what SpliceOut leaves.                               *)
LEMMA SpliceOutIs ==
  ASSUME NEW q, NEW pos, NEW bnd, Shape(tree, q, pos, bnd),
         NEW s \in Nodes(tree), Null \in {tree.child[d][s] : d \in Side},
         NEW out, out = SpliceOut(s)
  PROVE  /\ \E m \in Side : tree.child[m][s] = Null /\ out.node = tree.child[Other(m)][s]
         /\ out.tree = SpliceTree(tree, s, out.node)
         /\ out.parent = tree.up[s]
         /\ out.black = ~IsRed(tree, s)
         /\ Nodes(out.tree) = Nodes(tree) \ {s}
         /\ \E pos2, b : Shape(out.tree, Deletion(q, pos[s]), pos2, b)
<1> DEFINE kid == IF tree.child["left"][s] = Null THEN tree.child["right"][s]
                  ELSE tree.child["left"][s]
<1>1. /\ out.node = kid /\ out.tree = SpliceTree(tree, s, kid) /\ out.parent = tree.up[s]
      /\ out.black = ~IsRed(tree, s)
  BY DEF SpliceOut, SpliceTree
<1>2. PICK m \in Side : tree.child[m][s] = Null /\ kid = tree.child[Other(m)][s]
  BY DEF Side, Other
<1>3. /\ Nodes(out.tree) = Nodes(tree) \ {s}
      /\ \E pos2, b : Shape(out.tree, Deletion(q, pos[s]), pos2, b)
  <2>1. OneKid(tree, s, m, kid)
    BY <1>2 DEF OneKid
  <2> QED
    BY <1>1, <2>1, SpliceShape
<1> QED
  BY <1>1, <1>2, <1>3

(* The heir has the colour of s.                                           *)
Tinted(u, v, s, heir) == v.red = IF IsRed(u, s) THEN u.red \cup {heir} ELSE u.red \ {heir}

(* TakeColour leaves the links.                                            *)
LEMMA SwappedColour ==
  ASSUME NEW t, NEW u, NEW s, NEW l, NEW r, NEW heir, NEW kid, NEW above, NEW p,
         Swapped(t, u, s, l, r, heir, kid, above, p), heir \in Session
  PROVE  Swapped(t, TakeColour(u, heir, s), s, l, r, heir, kid, above, p)
         /\ Tinted(u, TakeColour(u, heir, s), s, heir)
<1> DEFINE v == TakeColour(u, heir, s)
<1>1. u \in TreeType
  BY DEF Swapped
<1>2. /\ v \in TreeType /\ v.root = u.root /\ v.child = u.child /\ v.up = u.up
      /\ v.red = IF IsRed(u, s) THEN u.red \cup {heir} ELSE u.red \ {heir}
  <2>1. CASE IsRed(u, s)
    <3>1. v = Paint(u, {heir}, {})
      BY <2>1 DEF TakeColour
    <3>2. {heir} \cap Session = {heir}
      OBVIOUS
    <3> HIDE DEF v
    <3> QED
      BY <1>1, <2>1, <3>1, <3>2, PaintFields
  <2>2. CASE ~IsRed(u, s)
    <3>1. v = Paint(u, {}, {heir})
      BY <2>2 DEF TakeColour
    <3> HIDE DEF v
    <3> QED
      BY <1>1, <2>2, <3>1, PaintFields
  <2> QED
    BY <2>1, <2>2
<1> HIDE DEF v
<1>3. Swapped(t, v, s, l, r, heir, kid, above, p)
  BY <1>2 DEF Swapped
<1>4. Tinted(u, v, s, heir)
  BY <1>2 DEF Tinted
<1> QED
  BY <1>3, <1>4 DEF v

(* The writes of SwapOut, one by one.                                      *)
ManyDown(t, heir, kid, above, r) ==
  [t EXCEPT !.child["left"][above] = kid, !.child["right"][heir] = r, !.up[r] = heir]
(* The writes of PutIn in one EXCEPT, as SwapOut has them.                 *)
ManyIn(t, heir, p, l) ==
  [t EXCEPT !.up[heir] = p, !.child["left"][heir] = l, !.up[l] = heir]

(* The writes in one EXCEPT are the writes one by one.                     *)
LEMMA WritesDown ==
  ASSUME NEW t, NEW above, NEW kid, NEW heir, NEW r
  PROVE  SetParent(ManyDown(t, heir, kid, above, r), kid, above) = PutDown(t, heir, kid, above, r)
<1>1. ManyDown(t, heir, kid, above, r)
        = WithUp(WithChild(WithChild(t, "left", above, kid), "right", heir, r), r, heir)
  BY DEF WithUp, WithChild, ManyDown
<1> QED
  BY <1>1 DEF PutDown

(* The writes in one EXCEPT are the writes one by one.                     *)
LEMMA WritesIn ==
  ASSUME NEW t, NEW heir, NEW p, NEW l
  PROVE  ManyIn(t, heir, p, l) = PutIn(t, heir, p, l)
BY DEF WithUp, WithChild, ManyIn, PutIn

(* SwapOut with its heir as a parameter.                                   *)
SwapForm(s, heir) ==
  LET kid   == tree.child["right"][heir]
      above == tree.up[heir]
      t1 == Replace(tree, tree.up[s], s, heir)
      t2 == IF above = s THEN t1
            ELSE SetParent(ManyDown(t1, heir, kid, above, tree.child["right"][s]), kid, above)
      t3 == ManyIn(t2, heir, tree.up[s], tree.child["left"][s])
  IN  [tree   |-> Forget(TakeColour(t3, heir, s), s),
       node   |-> kid,
       parent |-> IF above = s THEN heir ELSE above,
       black  |-> ~IsRed(tree, heir)]

(* SwapOut is SwapForm of the successor.                                   *)
LEMMA SwapOutForm ==
  ASSUME NEW s
  PROVE  SwapOut(s) = SwapForm(s, Extreme(tree, "left", tree.child["right"][s]))
BY DEF SwapOut, SwapForm, ManyDown, ManyIn

(* Two children: what SwapOut leaves is the tree without the heir, with    *)
(* the heir in the place of s.                                             *)
LEMMA SwapOutIs ==
  ASSUME NEW q, NEW pos, NEW bnd, Shape(tree, q, pos, bnd),
         NEW s \in Nodes(tree), Null \notin {tree.child[d][s] : d \in Side},
         NEW out, out = SwapOut(s),
         NEW heir, heir = Extreme(tree, "left", tree.child["right"][s])
  PROVE  /\ heir \in Nodes(tree) /\ heir # s /\ tree.child["left"][heir] = Null
         /\ out.node = tree.child["right"][heir]
         /\ out.parent = Ren(s, heir, tree.up[heir])
         /\ out.black = ~IsRed(tree, heir)
         /\ out.tree \in TreeType
         /\ out.tree.red = (IF IsRed(tree, s) THEN tree.red \cup {heir} ELSE tree.red \ {heir}) \ {s}
         /\ Renamed(SpliceTree(tree, heir, out.node), out.tree, s, heir)
         /\ Nodes(SpliceTree(tree, heir, out.node)) = Nodes(tree) \ {heir}
         /\ \E pv, bv : Shape(SpliceTree(tree, heir, out.node), Deletion(q, pos[heir]), pv, bv)
         /\ Nodes(out.tree) = Nodes(tree) \ {s}
         /\ \E pos2, b : Shape(out.tree, Deletion(q, pos[s]), pos2, b)
<1> DEFINE l == tree.child["left"][s]
           r == tree.child["right"][s]
           kid == tree.child["right"][heir]
           above == tree.up[heir]
           p == tree.up[s]
           t3 == SwapLinks(tree, s, heir)
           t4 == TakeColour(t3, heir, s)
           u == Forget(t4, s)
           v == SpliceTree(tree, heir, kid)
<1>1. l # Null /\ r # Null
  BY DEF Side
<1>a. Around(tree, s, l, r, heir, kid, above, p)
  BY <1>1 DEF Around
<1>2. /\ out.tree = u /\ out.node = kid /\ out.parent = (IF above = s THEN heir ELSE above)
      /\ out.black = ~IsRed(tree, heir)
  <2> DEFINE t1 == Replace(tree, p, s, heir)
             t2a == IF above = s THEN t1
                    ELSE SetParent(ManyDown(t1, heir, kid, above, r), kid, above)
             t2b == IF above = s THEN t1 ELSE PutDown(t1, heir, kid, above, r)
             t3a == ManyIn(t2a, heir, p, l)
             t4a == TakeColour(t3a, heir, s)
  <2>1. SwapOut(s) = [tree |-> Forget(t4a, s), node |-> kid,
                      parent |-> IF above = s THEN heir ELSE above,
                      black |-> ~IsRed(tree, heir)]
    <3>1. SwapOut(s) = SwapForm(s, heir)
      BY SwapOutForm
    <3> QED
      BY <3>1 DEF SwapForm
  <2>2. t2a = t2b
    BY WritesDown
  <2>3. t3 = PutIn(t2b, heir, p, l)
    BY DEF SwapLinks
  <2> HIDE DEF t1, t2a, t2b, t3
  <2>4. t3a = t3
    BY <2>2, <2>3, WritesIn
  <2> HIDE DEF t3a
  <2>5. SwapOut(s) = [tree |-> u, node |-> kid,
                      parent |-> IF above = s THEN heir ELSE above,
                      black |-> ~IsRed(tree, heir)]
    BY <2>1, <2>4
  <2> HIDE DEF u, kid, above
  <2> QED
    BY <2>5
<1>3. Swapped(tree, t3, s, l, r, heir, kid, above, p) /\ t3.red = tree.red
  BY <1>1, SwapLinksIs
<1>4. heir \in Nodes(tree) /\ heir \in Session
  BY <1>a, SwapNodes
<1> HIDE DEF t3
<1>5. /\ Swapped(tree, t4, s, l, r, heir, kid, above, p)
      /\ t4.red = IF IsRed(t3, s) THEN t3.red \cup {heir} ELSE t3.red \ {heir}
  <2> HIDE DEF l, r, kid, above, p, t4
  <2>1. t4 = TakeColour(t3, heir, s)
    BY DEF t4
  <2>2. Swapped(tree, TakeColour(t3, heir, s), s, l, r, heir, kid, above, p)
    BY <1>3, <1>4, SwappedColour
  <2>3. Tinted(t3, TakeColour(t3, heir, s), s, heir)
    BY <1>3, <1>4, SwappedColour
  <2> QED
    BY <2>1, <2>2, <2>3 DEF Tinted
<1>6. t4.red = IF IsRed(tree, s) THEN tree.red \cup {heir} ELSE tree.red \ {heir}
  BY <1>3, <1>5 DEF IsRed
<1>7. t4.red \subseteq Nodes(tree)
  BY <1>4, <1>6, ShapeFacts DEF Linking
<1> HIDE DEF t4
<1>8. /\ pos[heir] = pos[s] + 1 /\ tree.child["left"][heir] = Null
      /\ Forgotten(t4, u, s)
      /\ Renamed(v, u, s, heir)
  BY <1>a, <1>5, <1>7, SwapRen
<1>9. u \in TreeType /\ u.red = t4.red \ {s} /\ u.red \subseteq Nodes(tree) \ {s}
  BY <1>7, <1>8 DEF Forgotten
<1>10. heir # s
  BY <1>a, SwapNodes
<1>11. /\ Nodes(v) = Nodes(tree) \ {heir}
       /\ \E pv, bv : Shape(v, Deletion(q, pos[heir]), pv, bv)
       /\ Nodes(u) = Nodes(tree) \ {s}
       /\ \E pos2, b : Shape(u, Deletion(q, pos[s]), pos2, b)
  BY <1>4, <1>8, <1>9, SwapShape
<1>12. out.parent = Ren(s, heir, above)
  BY <1>2 DEF Ren
<1> HIDE DEF u, v
<1> QED
  BY <1>2, <1>4, <1>6, <1>8, <1>9, <1>10, <1>11, <1>12 DEF v
----------------------------------------------------------------------------
(* Those due first in front.                                               *)
Sorted(q) == \A i, j \in 1..Len(q) : i < j => stamp[q[i]] <= stamp[q[j]]

(* Where a session due at d belongs: behind those due earlier.             *)
Gap(q, d, k) ==
  /\ k \in 1..Len(q)+1
  /\ \A i \in 1..k-1 : stamp[q[i]] < d
  /\ \A i \in k..Len(q) : d <= stamp[q[i]]

(* In a sorted queue every timestamp has its place.                        *)
LEMMA GapExists ==
  ASSUME NEW q \in Seq(Session), Sorted(q), NEW d \in Int,
         \A x \in Session : stamp[x] \in Int
  PROVE  \E k \in 1..Len(q)+1 : Gap(q, d, k)
<1> DEFINE N == Len(q)
           T == {i \in 1..N : d <= stamp[q[i]]}
<1>1. N \in Nat /\ \A i \in 1..N : q[i] \in Session /\ stamp[q[i]] \in Int
  OBVIOUS
<1>2. CASE T = {}
  <2>1. \A i \in 1..N : stamp[q[i]] < d
    BY <1>1, <1>2
  <2>2. N + 1 \in 1..N+1 /\ (N + 1) - 1 = N
    BY <1>1
  <2>3. Gap(q, d, N + 1)
    BY <1>1, <2>1, <2>2 DEF Gap
  <2> QED
    BY <2>2, <2>3
<1>3. CASE T # {}
  <2>1. \E k \in T : \A i \in T : ~(i < k)
    <3> DEFINE U == {k \in T : TRUE}
               mu == [i \in T |-> i]
    <3>1. SUFFICES ASSUME \A k \in T : \E i \in T : i < k
                   PROVE  FALSE
      OBVIOUS
    <3>2. \A x \in T : mu[x] \in Nat /\ \E y \in T : mu[y] < mu[x]
      BY <1>1, <3>1
    <3> HIDE DEF T, mu
    <3>3. T = {}
      BY <3>2, NoDescent
    <3> QED
      BY <1>3, <3>3
  <2>2. PICK k \in T : \A i \in T : ~(i < k)
    BY <2>1
  <2>3. k \in 1..N /\ d <= stamp[q[k]] /\ k \in 1..N+1
    BY <1>1
  <2>4. ASSUME NEW i \in 1..k-1 PROVE stamp[q[i]] < d
    <3>1. i \in 1..N /\ i < k
      BY <1>1, <2>3
    <3> QED
      BY <1>1, <2>2, <3>1
  <2>5. ASSUME NEW i \in k..N PROVE d <= stamp[q[i]]
    <3>1. i \in 1..N /\ (i = k \/ k < i)
      BY <1>1, <2>3
    <3>2. stamp[q[k]] <= stamp[q[i]]
      BY <1>1, <2>3, <3>1 DEF Sorted
    <3>3. stamp[q[i]] \in Int /\ stamp[q[k]] \in Int
      BY <1>1, <2>3, <3>1
    <3> QED
      BY <2>3, <3>2, <3>3
  <2> QED
    BY <2>3, <2>4, <2>5 DEF Gap
<1> QED
  BY <1>2, <1>3

(* The definition of the function that Slot applies.                       *)
IsBelow(d, f) ==
  f = [m \in Session |->
         LET side == Descends(d, m)
         IN  IF tree.child[side][m] = Null THEN <<m, side>>
             ELSE f[tree.child[side][m]]]

(* The gap k as seen from node n.                                          *)
Clamp(bnd, k, n) == IF k <= bnd["left"][n] THEN bnd["left"][n] + 1
                    ELSE IF k > bnd["right"][n] THEN bnd["right"][n] ELSE k

(* The free place where a descent to the gap k ends: the right side of the *)
(* node before it or the left side of the one behind it.                   *)
SlotAt(q, bnd, k, n) ==
  IF k < bnd["right"][n] /\ tree.child["left"][q[k]] = Null THEN <<q[k], "left">>
  ELSE <<q[k - 1], "right">>

(* The place of the gap, from a node to its child.                         *)
LEMMA ClampDown ==
  ASSUME NEW q, NEW pos, NEW bnd, Shape(tree, q, pos, bnd),
         NEW k \in Int, NEW n \in Nodes(tree)
  PROVE  /\ k <= pos[n] /\ tree.child["left"][n] = Null => Clamp(bnd, k, n) = pos[n]
         /\ k > pos[n] /\ tree.child["right"][n] = Null =>
              Clamp(bnd, k, n) = pos[n] + 1 /\ Clamp(bnd, k, n) = bnd["right"][n]
         /\ k <= pos[n] /\ tree.child["left"][n] # Null =>
              /\ Clamp(bnd, k, tree.child["left"][n]) = Clamp(bnd, k, n)
              /\ Clamp(bnd, k, n) <= pos[n]
         /\ k > pos[n] /\ tree.child["right"][n] # Null =>
              Clamp(bnd, k, tree.child["right"][n]) = Clamp(bnd, k, n)
<1> DEFINE a == bnd["left"][n]
           b == bnd["right"][n]
           l == tree.child["left"][n]
           r == tree.child["right"][n]
<1>1. /\ n \in Session /\ "left" \in Side /\ "right" \in Side
      /\ Other("left") = "right" /\ Other("right") = "left" /\ Way("left") = -1 /\ Way("right") = 1
  BY DEF Nodes, Side, Other, Way
<1>2. a \in Int /\ b \in Int /\ pos[n] \in Int
  BY <1>1, ShapeFacts
<1>3. a < pos[n] /\ pos[n] < b
  BY BoundFacts DEF Between
<1>4. l = Null => a = pos[n] - 1
  BY <1>1, <1>2, ShapeFacts DEF Bounded
<1>5. r = Null => b = pos[n] + 1
  BY <1>1, <1>2, ShapeFacts DEF Bounded
<1>6. l # Null => bnd["left"][l] = a /\ bnd["right"][l] = pos[n]
  BY <1>1, KidFacts
<1>7. r # Null => bnd["left"][r] = pos[n] /\ bnd["right"][r] = b
  BY <1>1, KidFacts
<1>8. Clamp(bnd, k, n) = IF k <= a THEN a + 1 ELSE IF k > b THEN b ELSE k
  BY DEF Clamp
<1>9. l # Null => Clamp(bnd, k, l) = IF k <= a THEN a + 1 ELSE IF k > pos[n] THEN pos[n] ELSE k
  BY <1>6 DEF Clamp
<1>10. r # Null => Clamp(bnd, k, r) = IF k <= pos[n] THEN pos[n] + 1 ELSE IF k > b THEN b ELSE k
  BY <1>7 DEF Clamp
<1> HIDE DEF a, b, l, r
<1>11. k <= pos[n] /\ l = Null => Clamp(bnd, k, n) = pos[n]
  BY <1>2, <1>3, <1>4, <1>8
<1>12. k > pos[n] /\ r = Null => Clamp(bnd, k, n) = pos[n] + 1 /\ Clamp(bnd, k, n) = b
  BY <1>2, <1>3, <1>5, <1>8
<1>13. k <= pos[n] /\ l # Null => Clamp(bnd, k, l) = Clamp(bnd, k, n) /\ Clamp(bnd, k, n) <= pos[n]
  BY <1>2, <1>3, <1>8, <1>9
<1>14. k > pos[n] /\ r # Null => Clamp(bnd, k, r) = Clamp(bnd, k, n)
  BY <1>2, <1>3, <1>8, <1>10
<1> QED
  BY <1>11, <1>12, <1>13, <1>14 DEF a, b, l, r

(* Which way the descent leaves n: by the place of the gap.                *)
LEMMA DescendsIs ==
  ASSUME NEW q, NEW pos, NEW bnd, Shape(tree, q, pos, bnd),
         NEW d \in Int, \A x \in Session : stamp[x] \in Int,
         NEW k \in 1..Len(q)+1, Gap(q, d, k), NEW n \in Nodes(tree)
  PROVE  Descends(d, n) = IF k <= pos[n] THEN "left" ELSE "right"
<1>1. pos[n] \in 1..Len(q) /\ q[pos[n]] = n /\ n \in Session /\ Len(q) \in Nat /\ stamp[n] \in Int
  BY BoundFacts, ShapeFacts
<1>2. CASE k <= pos[n]
  <2>1. pos[n] \in k..Len(q)
    BY <1>1, <1>2
  <2>2. d <= stamp[n]
    BY <1>1, <2>1 DEF Gap
  <2> QED
    BY <1>2, <2>2 DEF Descends
<1>3. CASE ~(k <= pos[n])
  <2>1. pos[n] \in 1..k-1
    BY <1>1, <1>3
  <2>2. stamp[n] < d
    BY <1>1, <2>1 DEF Gap
  <2>3. ~(d <= stamp[n])
    BY <1>1, <2>2
  <2> QED
    BY <1>3, <2>3 DEF Descends
<1> QED
  BY <1>2, <1>3

(* One step of the descent keeps the place it ends at.                     *)
LEMMA SlotStep ==
  ASSUME NEW q, NEW pos, NEW bnd, Shape(tree, q, pos, bnd),
         NEW d \in Int, \A x \in Session : stamp[x] \in Int,
         NEW k \in 1..Len(q)+1, Gap(q, d, k), NEW n \in Nodes(tree)
  PROVE  LET side == Descends(d, n)
             c == tree.child[side][n]
         IN  /\ c = Null => SlotAt(q, bnd, Clamp(bnd, k, n), n) = <<n, side>>
             /\ c # Null => SlotAt(q, bnd, Clamp(bnd, k, n), n) = SlotAt(q, bnd, Clamp(bnd, k, c), c)
<1> DEFINE side == Descends(d, n)
           c == tree.child[side][n]
           g == Clamp(bnd, k, n)
<1>1. /\ n \in Session /\ "left" \in Side /\ "right" \in Side
      /\ Other("left") = "right" /\ Other("right") = "left"
      /\ pos[n] \in 1..Len(q) /\ q[pos[n]] = n /\ Len(q) \in Nat
      /\ bnd["left"][n] \in Int /\ bnd["right"][n] \in Int
  BY BoundFacts, ShapeFacts DEF Side, Other
<1>2. bnd["left"][n] < pos[n] /\ pos[n] < bnd["right"][n]
  BY BoundFacts DEF Between
<1>a. k \in Int /\ pos[n] \in Int
  BY <1>1
<1>3. CASE k <= pos[n]
  <2>1. side = "left"
    BY <1>3, DescendsIs
  <2>2. CASE c = Null
    <3>1. tree.child["left"][n] = Null
      BY <2>1, <2>2
    <3>2. g = pos[n]
      BY <1>a, <1>3, <3>1, ClampDown
    <3>3. SlotAt(q, bnd, g, n) = <<n, "left">>
      BY <1>1, <1>2, <3>1, <3>2 DEF SlotAt
    <3> QED
      BY <2>1, <2>2, <3>3
  <2>3. CASE c # Null
    <3>1. tree.child["left"][n] # Null /\ c = tree.child["left"][n]
      BY <2>1, <2>3
    <3>2. Clamp(bnd, k, c) = g /\ g <= pos[n] /\ g \in Int
      <4>1. Clamp(bnd, k, c) = g /\ g <= pos[n]
        BY <1>a, <1>3, <3>1, ClampDown
      <4>2. g \in Int
        BY <1>1, <1>a DEF Clamp
      <4> QED
        BY <4>1, <4>2
    <3>3. bnd["right"][c] = pos[n]
      BY <1>1, <3>1, KidFacts
    <3> HIDE DEF g
    <3>4. SlotAt(q, bnd, g, n) = SlotAt(q, bnd, g, c)
      <4>1. CASE g = pos[n]
        <5>1. q[g] = n
          BY <1>1, <4>1
        <5>2. SlotAt(q, bnd, g, n) = <<q[g - 1], "right">>
          BY <3>1, <5>1 DEF SlotAt
        <5>3. ~(g < bnd["right"][c])
          BY <1>a, <3>3, <4>1
        <5>4. SlotAt(q, bnd, g, c) = <<q[g - 1], "right">>
          BY <5>3 DEF SlotAt
        <5> QED
          BY <5>2, <5>4
      <4>2. CASE g # pos[n]
        <5>1. g < bnd["right"][c] /\ g < bnd["right"][n]
          BY <1>1, <1>2, <1>a, <3>2, <3>3, <4>2
        <5> QED
          BY <5>1 DEF SlotAt
      <4> QED
        BY <4>1, <4>2
    <3> QED
      BY <2>3, <3>2, <3>4 DEF g
  <2> QED
    BY <2>2, <2>3
<1>4. CASE k > pos[n]
  <2>1. side = "right"
    <3>1. ~(k <= pos[n])
      BY <1>a, <1>4
    <3> QED
      BY <3>1, DescendsIs
  <2>2. CASE c = Null
    <3>1. tree.child["right"][n] = Null
      BY <2>1, <2>2
    <3>2. g = pos[n] + 1 /\ g = bnd["right"][n]
      BY <1>a, <1>4, <3>1, ClampDown
    <3>3. q[g - 1] = n /\ ~(g < bnd["right"][n])
      <4> HIDE DEF g
      <4>1. g - 1 = pos[n]
        BY <1>a, <3>2
      <4> QED
        BY <1>1, <1>a, <3>2, <4>1
    <3> HIDE DEF g
    <3>4. SlotAt(q, bnd, g, n) = <<n, "right">>
      BY <3>3 DEF SlotAt
    <3> QED
      BY <2>1, <2>2, <3>4 DEF g
  <2>3. CASE c # Null
    <3>1. tree.child["right"][n] # Null /\ c = tree.child["right"][n]
      BY <2>1, <2>3
    <3>2. Clamp(bnd, k, c) = g
      BY <1>a, <1>4, <3>1, ClampDown
    <3>3. bnd["right"][c] = bnd["right"][n]
      BY <1>1, <3>1, KidFacts
    <3> HIDE DEF g
    <3>4. SlotAt(q, bnd, g, n) = SlotAt(q, bnd, g, c)
      BY <3>3 DEF SlotAt
    <3> QED
      BY <2>3, <3>2, <3>4 DEF g
  <2> QED
    BY <2>2, <2>3
<1> QED
  BY <1>a, <1>3, <1>4

(* The descent of AddHttpSessionTimeoutTreeNode ends at the free place     *)
(* where the session belongs.                                              *)
LEMMA SlotIs ==
  ASSUME NEW q, NEW pos, NEW bnd, Shape(tree, q, pos, bnd), tree.root # Null,
         NEW d \in Int, \A x \in Session : stamp[x] \in Int,
         NEW k \in 1..Len(q)+1, Gap(q, d, k)
  PROVE  \E p \in Nodes(tree), e \in Side :
           /\ Slot(d, tree.root) = <<p, e>>
           /\ tree.child[e][p] = Null
           /\ k = IF e = "left" THEN pos[p] ELSE pos[p] + 1
<1> DEFINE g == [m \in Session |-> IF m \in Nodes(tree) THEN SlotAt(q, bnd, Clamp(bnd, k, m), m)
                                   ELSE <<m, Descends(d, m)>>]
           f == CHOOSE h : IsBelow(d, h)
           root == tree.root
           N == Len(q)
           down(m) == tree.child[Descends(d, m)][m]
<1>1. /\ Nodes(tree) \subseteq Session /\ root \in Nodes(tree) /\ N \in Nat
      /\ bnd["left"][root] = 0 /\ bnd["right"][root] = N + 1
      /\ Null \notin Session
  BY RootFacts, ShapeFacts DEF Nodes
<1>2. ASSUME NEW m \in Session PROVE Descends(d, m) \in Side
  BY DEF Descends, Side
<1>3. ASSUME NEW m \in Session, down(m) # Null
      PROVE  m \in Nodes(tree) /\ down(m) \in Nodes(tree) /\ down(m) \in Session
  <2>1. m \in Nodes(tree)
    BY <1>2, <1>3, ShapeFacts DEF Linking
  <2> QED
    BY <1>2, <1>3, <2>1, KidFacts
<1>4. IsBelow(d, g)
  <2>1. ASSUME NEW m \in Session
        PROVE  g[m] = IF down(m) = Null THEN <<m, Descends(d, m)>> ELSE g[down(m)]
    <3>1. CASE m \in Nodes(tree)
      <4>1. down(m) = Null => SlotAt(q, bnd, Clamp(bnd, k, m), m) = <<m, Descends(d, m)>>
        BY <3>1, SlotStep
      <4>2. down(m) # Null => SlotAt(q, bnd, Clamp(bnd, k, m), m) = SlotAt(q, bnd, Clamp(bnd, k, down(m)), down(m))
        BY <3>1, SlotStep
      <4>3. g[m] = SlotAt(q, bnd, Clamp(bnd, k, m), m)
        BY <3>1
      <4>4. down(m) # Null => g[down(m)] = SlotAt(q, bnd, Clamp(bnd, k, down(m)), down(m))
        BY <1>3
      <4> HIDE DEF g
      <4> QED
        BY <4>1, <4>2, <4>3, <4>4
    <3>2. CASE m \notin Nodes(tree)
      <4>1. down(m) = Null
        BY <1>3, <3>2
      <4> QED
        BY <3>2, <4>1
    <3> QED
      BY <3>1, <3>2
  <2> HIDE DEF g
  <2>2. g = [m \in Session |-> g[m]]
    BY DEF g
  <2>3. g = [m \in Session |-> IF down(m) = Null THEN <<m, Descends(d, m)>> ELSE g[down(m)]]
    BY <2>1, <2>2
  <2> QED
    BY <2>3 DEF IsBelow
<1>5. IsBelow(d, f)
  <2> HIDE DEF g
  <2> QED
    BY <1>4
<1>6. Slot(d, root) = f[root]
  BY DEF Slot, IsBelow
<1> HIDE DEF f
<1>7. \A m \in Session : f[m] = IF down(m) = Null THEN <<m, Descends(d, m)>> ELSE f[down(m)]
  BY <1>5 DEF IsBelow
<1> HIDE DEF down
<1>8. {m \in Nodes(tree) : f[m] # SlotAt(q, bnd, Clamp(bnd, k, m), m)} = {}
  <2> DEFINE S == {m \in Nodes(tree) : f[m] # SlotAt(q, bnd, Clamp(bnd, k, m), m)}
  <2>1. ASSUME NEW m \in S PROVE \E e \in Side : tree.child[e][m] \in S
    <3>1. m \in Session /\ m \in Nodes(tree) /\ f[m] # SlotAt(q, bnd, Clamp(bnd, k, m), m)
      BY <1>1
    <3>2. down(m) = Null => SlotAt(q, bnd, Clamp(bnd, k, m), m) = <<m, Descends(d, m)>>
      BY <3>1, SlotStep DEF down
    <3>3. down(m) # Null => SlotAt(q, bnd, Clamp(bnd, k, m), m) = SlotAt(q, bnd, Clamp(bnd, k, down(m)), down(m))
      BY <3>1, SlotStep DEF down
    <3>4. down(m) # Null
      BY <1>7, <3>1, <3>2
    <3>5. down(m) \in S
      BY <1>3, <1>7, <3>1, <3>3, <3>4
    <3> QED
      BY <1>2, <3>1, <3>5 DEF down
  <2>2. S \in SUBSET Nodes(tree)
    OBVIOUS
  <2> HIDE DEF S
  <2>3. S = {}
    BY <2>1, <2>2, WayDownEnds
  <2> QED
    BY <2>3 DEF S
<1> DEFINE free(m) == \E p \in Nodes(tree), e \in Side : f[m] = <<p, e>> /\ tree.child[e][p] = Null
<1>9. {m \in Nodes(tree) : ~free(m)} = {}
  <2> DEFINE S == {m \in Nodes(tree) : ~free(m)}
  <2>1. ASSUME NEW m \in S PROVE \E e \in Side : tree.child[e][m] \in S
    <3>1. m \in Session /\ m \in Nodes(tree) /\ ~free(m)
      BY <1>1
    <3>2. down(m) # Null
      <4>1. SUFFICES ASSUME down(m) = Null PROVE FALSE
        OBVIOUS
      <4>2. f[m] = <<m, Descends(d, m)>> /\ tree.child[Descends(d, m)][m] = Null
        BY <1>7, <3>1, <4>1 DEF down
      <4> QED
        BY <1>2, <3>1, <4>2
    <3>3. f[m] = f[down(m)]
      BY <1>7, <3>1, <3>2
    <3> HIDE DEF free
    <3>4. ~free(down(m))
      BY <3>1, <3>3 DEF free
    <3>5. down(m) \in S
      BY <1>3, <3>1, <3>2, <3>4
    <3> QED
      BY <1>2, <3>1, <3>5 DEF down
  <2>2. S \in SUBSET Nodes(tree)
    OBVIOUS
  <2> HIDE DEF S
  <2>3. S = {}
    BY <2>1, <2>2, WayDownEnds
  <2> QED
    BY <2>3 DEF S
<1>10. free(root)
  <2> HIDE DEF free
  <2> QED
    BY <1>1, <1>9
<1>11. PICK p \in Nodes(tree), e \in Side : f[root] = <<p, e>> /\ tree.child[e][p] = Null
  BY <1>10
<1>12. Clamp(bnd, k, root) = k
  BY <1>1 DEF Clamp
<1>13. f[root] = SlotAt(q, bnd, k, root)
  BY <1>1, <1>8, <1>12
<1>14. k = IF e = "left" THEN pos[p] ELSE pos[p] + 1
  <2>1. \A i \in 1..N : q[i] \in Nodes(tree) /\ pos[q[i]] = i
    BY ShapeFacts DEF Order
  <2>2. CASE k < N + 1 /\ tree.child["left"][q[k]] = Null
    <3>1. f[root] = <<q[k], "left">>
      BY <1>1, <1>13, <2>2 DEF SlotAt
    <3>2. k \in 1..N
      BY <1>1, <2>2
    <3>3. p = q[k] /\ e = "left"
      BY <1>11, <3>1
    <3> QED
      BY <2>1, <3>2, <3>3
  <2>3. CASE ~(k < N + 1 /\ tree.child["left"][q[k]] = Null)
    <3>1. f[root] = <<q[k - 1], "right">>
      BY <1>1, <1>13, <2>3 DEF SlotAt
    <3>2. p = q[k - 1] /\ e = "right"
      BY <1>11, <3>1
    <3>3. k # 1
      <4>1. SUFFICES ASSUME k = 1 PROVE FALSE
        OBVIOUS
      <4>2. N # 0
        BY EndOfIs
      <4>3. 1 \in 1..N /\ 1 < N + 1
        BY <1>1, <4>2
      <4>4. tree.child["left"][q[1]] # Null /\ q[1] \in Nodes(tree) /\ pos[q[1]] = 1
        BY <2>1, <2>3, <4>1, <4>3
      <4> DEFINE c == tree.child["left"][q[1]]
      <4>5. c \in Nodes(tree) /\ bnd["right"][c] = 1
        BY <4>4, KidFacts DEF Side, Other
      <4>6. Between(bnd, c, pos[c]) /\ pos[c] \in 1..N
        BY <4>5, BoundFacts
      <4> HIDE DEF c
      <4> QED
        BY <1>1, <4>5, <4>6 DEF Between
    <3>4. k - 1 \in 1..N
      BY <1>1, <3>3
    <3> QED
      BY <2>1, <3>2, <3>4
  <2> QED
    BY <2>2, <2>3
<1> QED
  BY <1>6, <1>11, <1>14

(* u is t with s linked as the child of p on side e.                       *)
LinkedBelow(t, u, s, p, e) ==
  /\ u \in TreeType /\ u.root = t.root /\ u.red = t.red \cup {s}
  /\ \A x \in Session, f \in Side :
       u.child[f][x] = IF x = p /\ f = e THEN s ELSE t.child[f][x]
  /\ \A x \in Session : u.up[x] = IF x = s THEN p ELSE t.up[x]

(* u is t with s linked as the root.                                       *)
LinkedFirst(t, u, s) ==
  /\ u \in TreeType /\ u.root = s /\ u.red = t.red \cup {s}
  /\ \A x \in Session, f \in Side : u.child[f][x] = IF x = s THEN Null ELSE t.child[f][x]
  /\ \A x \in Session : u.up[x] = IF x = s THEN Null ELSE t.up[x]

(* t with s red and without children: rb_link_node.                        *)
Leaf(t, s) ==
  [t EXCEPT !.child["left"][s] = Null, !.child["right"][s] = Null, !.red = @ \cup {s}]

(* What Leaf changes.                                                      *)
LEMMA LeafIs ==
  ASSUME NEW t \in TreeType, NEW s \in Session
  PROVE  /\ Leaf(t, s) \in TreeType /\ Leaf(t, s).root = t.root /\ Leaf(t, s).red = t.red \cup {s}
         /\ Leaf(t, s).up = t.up
         /\ \A x \in Session, f \in Side :
              Leaf(t, s).child[f][x] = IF x = s THEN Null ELSE t.child[f][x]
<1> DEFINE a == WithChild(t, "left", s, Null)
           b == WithChild(a, "right", s, Null)
           u == [b EXCEPT !.red = @ \cup {s}]
<1>0. "left" \in Side /\ "right" \in Side /\ \A e \in Side : e = "left" \/ e = "right"
  BY DEF Side
<1>1. Leaf(t, s) = u
  BY DEF Leaf, WithChild
<1>2. ChildSet(t, a, "left", s, Null)
  BY <1>0, SetChild
<1>a. a.up = t.up
  BY DEF WithChild, TreeType
<1>b. b.up = a.up
  <2>1. a \in TreeType
    BY <1>2 DEF ChildSet, SameShape
  <2> HIDE DEF a
  <2> QED
    BY <2>1 DEF WithChild, TreeType
<1> HIDE DEF a
<1>3. ChildSet(a, b, "right", s, Null)
  <2>1. a \in TreeType
    BY <1>2 DEF ChildSet, SameShape
  <2> QED
    BY <1>0, <2>1, SetChild
<1> HIDE DEF b
<1>4. b \in TreeType /\ b.root = t.root /\ b.red = t.red /\ b.up = t.up
  BY <1>2, <1>3, <1>a, <1>b DEF ChildSet, SameShape
<1>5. \A x \in Session, e \in Side : b.child[e][x] = IF x = s THEN Null ELSE t.child[e][x]
  BY <1>0, <1>2, <1>3 DEF ChildSet
<1>6. u \in TreeType /\ u.root = b.root /\ u.red = b.red \cup {s} /\ u.child = b.child /\ u.up = b.up
  BY <1>4 DEF TreeType
<1> HIDE DEF u
<1> QED
  BY <1>1, <1>4, <1>5, <1>6

(* Link adds a red leaf where the order of the timestamps wants it.        *)
LEMMA LinkIs ==
  ASSUME NEW q, NEW pos, NEW bnd, Shape(tree, q, pos, bnd), Sorted(q),
         NEW s \in Session, s \notin Nodes(tree),
         NEW d \in Int, \A x \in Session : stamp[x] \in Int,
         Link(s, d)
  PROVE  /\ \/ tree.root = Null /\ LinkedFirst(tree, tree', s)
            \/ \E p \in Nodes(tree), e \in Side : tree.child[e][p] = Null /\ LinkedBelow(tree, tree', s, p, e)
         /\ Nodes(tree') = Nodes(tree) \cup {s}
         /\ \E k \in 1..Len(q)+1 :
              Gap(q, d, k) /\ \E pos2, b : Shape(tree', Insertion(q, k, s), pos2, b)
<1> DEFINE leaf == Leaf(tree, s)
           u == tree'
<1>1. /\ tree \in TreeType /\ Null \notin Session /\ q \in Seq(Session)
      /\ \A x \in Session, f \in Side : tree.child[f][x] # Null => x \in Nodes(tree)
      /\ tree.up[s] = Null
  BY ShapeFacts DEF Order, Linking, Nodes
<1>2. PICK k \in 1..Len(q)+1 : Gap(q, d, k)
  BY <1>1, GapExists
<1>3. /\ leaf \in TreeType /\ leaf.root = tree.root /\ leaf.red = tree.red \cup {s}
      /\ leaf.up = tree.up
      /\ \A x \in Session, f \in Side :
              leaf.child[f][x] = IF x = s THEN Null ELSE tree.child[f][x]
  BY <1>1, LeafIs
<1>4. CASE tree.root = Null
  <2>1. u = [leaf EXCEPT !.root = s, !.up[s] = Null]
    BY <1>4 DEF Link, Leaf
  <2> DEFINE a == [leaf EXCEPT !.root = s]
  <2> HIDE DEF leaf
  <2>2. a \in TreeType /\ a.root = s /\ a.red = leaf.red /\ a.up = leaf.up /\ a.child = leaf.child
    BY <1>3 DEF TreeType
  <2>3. u = WithUp(a, s, Null)
    BY <2>1 DEF WithUp
  <2> HIDE DEF a, u
  <2>4. UpSet(a, u, s, Null)
    BY <2>2, <2>3, SetUp
  <2>5. LinkedFirst(tree, u, s)
    BY <1>3, <2>2, <2>4 DEF LinkedFirst, UpSet, SameShape
  <2>6. /\ Len(q) = 0
        /\ Nodes(u) = {s} /\ Nodes(tree) = {}
        /\ \E pos2, b : Shape(u, Insertion(q, 1, s), pos2, b)
    BY <1>4, <2>5, LinkFirst DEF LinkedFirst
  <2>7. k = 1
    BY <1>2, <2>6
  <2> QED
    BY <1>2, <1>4, <2>5, <2>6, <2>7 DEF u
<1>5. CASE tree.root # Null
  <2>1. PICK p \in Nodes(tree), e \in Side :
           /\ Slot(d, tree.root) = <<p, e>>
           /\ tree.child[e][p] = Null
           /\ k = IF e = "left" THEN pos[p] ELSE pos[p] + 1
    BY <1>2, <1>5, SlotIs
  <2>2. u = [leaf EXCEPT !.child[e][p] = s, !.up[s] = p]
    <3>1. u = LET slot == Slot(d, tree.root)
              IN [leaf EXCEPT !.child[slot[2]][slot[1]] = s, !.up[s] = slot[1]]
      BY <1>5 DEF Link, Leaf
    <3>2. <<p, e>>[1] = p /\ <<p, e>>[2] = e
      OBVIOUS
    <3> HIDE DEF u, leaf
    <3> QED
      BY <2>1, <3>1, <3>2
  <2> DEFINE a == WithChild(leaf, e, p, s)
  <2>3. u = WithUp(a, s, p)
    BY <2>2 DEF WithChild, WithUp
  <2>4. p \in Session /\ p # s
    BY DEF Nodes
  <2> HIDE DEF leaf
  <2>5. ChildSet(leaf, a, e, p, s)
    BY <1>3, <2>4, SetChild
  <2> HIDE DEF a, u
  <2>6. UpSet(a, u, s, p)
    <3>1. a \in TreeType
      BY <2>5 DEF ChildSet, SameShape
    <3> QED
      BY <2>3, <2>4, <3>1, SetUp
  <2>7. LinkedBelow(tree, u, s, p, e)
    <3>1. u \in TreeType /\ u.root = tree.root /\ u.red = tree.red \cup {s}
      BY <1>3, <2>5, <2>6 DEF ChildSet, UpSet, SameShape
    <3>2. \A x \in Session : u.up[x] = IF x = s THEN p ELSE tree.up[x]
      BY <1>3, <2>5, <2>6 DEF ChildSet, UpSet
    <3>3. \A f \in Side : tree.child[f][s] = Null
      BY <1>1
    <3>4. \A x \in Session, f \in Side :
            u.child[f][x] = IF x = p /\ f = e THEN s ELSE tree.child[f][x]
      BY <1>3, <2>4, <2>5, <2>6, <3>3 DEF ChildSet, UpSet
    <3> QED
      BY <3>1, <3>2, <3>4 DEF LinkedBelow
  <2>8. /\ Nodes(u) = Nodes(tree) \cup {s}
        /\ \E pos2, b : Shape(u, Insertion(q, k, s), pos2, b)
    BY <2>1, <2>7, LinkBelow DEF LinkedBelow
  <2> QED
    BY <1>2, <2>1, <2>7, <2>8 DEF u
<1> QED
  BY <1>4, <1>5
=============================================================================
