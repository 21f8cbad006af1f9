------------------------- MODULE TimeoutTreeProofs -------------------------
(***************************************************************************)
(* The timeout tree is a red-black tree, sorted, doubly linked, and it     *)
(* implements the queue of TimeoutQueue.  For every set of sessions and of *)
(* timestamps.                                                             *)
(*                                                                         *)
(* The order of the nodes is that of TimeoutTreeOrder.  The colours are    *)
(* described by the number of black nodes below every node (Balanced),     *)
(* with the one exception that the running rebalancing loop is about to    *)
(* mend: two red nodes in a row while inserting, one black node too few    *)
(* below `node' while erasing.                                             *)
(***************************************************************************)
EXTENDS TimeoutTreeOrder, FiniteSetTheorems

(* A black node counts, a red one does not.                                *)
Weight(R, n) == IF n \in R THEN 0 ELSE 1

(* A number of black nodes for every node.                                 *)
HeightMap(bh) == bh \in [Session \cup {Null} -> Nat] /\ bh[Null] = 0

(* bh[n] black nodes on every path from n down, n included; below p the    *)
(* paths through its child x are one short.                                *)
Balanced(t, bh, x, p) ==
  /\ HeightMap(bh)
  /\ \A n \in Nodes(t), e \in Side :
       n # p => bh[n] = bh[t.child[e][n]] + Weight(t.red, n)
  /\ p # Null =>
       /\ p \in Nodes(t)
       /\ \E d \in Side : t.child[d][p] = x /\ bh[t.child[Other(d)][p]] = bh[x] + 1
       /\ bh[p] = bh[x] + 1 + Weight(t.red, p)

(* Only x may be a red child of a red node, or have one, or be a red root. *)
RedsApart(t, x) ==
  /\ \A n \in t.red : t.up[n] \in t.red => n = x \/ t.up[n] = x
  /\ t.root \in t.red => t.root = x

(* IsRed without the question whether the node is there.                   *)
LEMMA RedIs ==
  ASSUME NEW t \in TreeType, NEW n
  PROVE  IsRed(t, n) <=> n \in t.red
BY TreeAssumption DEF TreeType, IsRed

(* What Rotate changes, as a predicate.                                    *)
Turned(t, u, n, d, top) ==
  /\ u \in TreeType /\ u.red = t.red
  /\ u.root = IF t.root = n THEN top ELSE t.root
  /\ u.child[d][n] = t.child[d][n] /\ u.child[Other(d)][n] = t.child[d][top]
  /\ u.child[d][top] = n /\ u.child[Other(d)][top] = t.child[Other(d)][top]
  /\ \A x \in Session, e \in Side :
       x # n /\ x # top =>
         t.child[e][x] # top /\ u.child[e][x] = IF t.child[e][x] = n THEN top ELSE t.child[e][x]
  /\ u.up[n] = top /\ u.up[top] = t.up[n]
  /\ \A x \in Session :
       x # n /\ x # top => u.up[x] = IF x = t.child[d][top] THEN n ELSE t.up[x]

(* The nodes around a rotation are different.                              *)
Apart(t, n, d, top) ==
  /\ n \in Session /\ top \in Session /\ top \in Nodes(t) /\ top # n /\ t.up[top] = n
  /\ t.up[n] # n /\ t.up[n] # top
  /\ \A e \in Side : /\ t.child[e][top] \in Session \cup {Null} /\ t.child[e][top] # n
                     /\ t.child[e][top] # top
                     /\ t.child[e][top] # Null => t.up[t.child[e][top]] = top
                                                 /\ t.child[e][top] \in Nodes(t)
  /\ t.child[d][n] \in Session \cup {Null} /\ t.child[d][n] # n /\ t.child[d][n] # top
  /\ t.child[d][n] # Null => t.up[t.child[d][n]] = n /\ t.child[d][n] \in Nodes(t)

(* A rotation has the facts the colours need.                              *)
LEMMA TurnIs ==
  ASSUME NEW t, NEW q, NEW pos, NEW bnd, Shape(t, q, pos, bnd),
         NEW n \in Nodes(t), NEW d \in Side, NEW top, top = t.child[Other(d)][n], top # Null
  PROVE  Turned(t, Rotate(t, n, d), n, d, top) /\ Apart(t, n, d, top)
<1> DEFINE u == Rotate(t, n, d)
           o == Other(d)
           inner == t.child[d][top]
           above == t.up[n]
<1>1. /\ n \in Session /\ top \in Session /\ top \in Nodes(t)
      /\ inner \in Session \cup {Null} /\ above \in Session \cup {Null}
      /\ inner # n /\ inner # top /\ top # n /\ above # n /\ above # top
      /\ above # inner \/ above = Null
  BY RotateNodes
<1>2. t \in TreeType /\ Null \notin Session /\ o \in Side /\ o # d
      /\ (\A e \in Side : e = d \/ e = o) /\ Other(o) = d
  BY ShapeFacts, Sides
<1>3. u = Rotate(t, n, d) /\ inner = t.child[d][top] /\ above = t.up[n]
  OBVIOUS
<1> HIDE DEF u
<1>4. /\ u \in TreeType
      /\ u.red = t.red
      /\ u.root = IF above = Null THEN top ELSE t.root
      /\ \A x \in Session, e \in Side :
              u.child[e][x] = IF x = n THEN IF e = d THEN t.child[e][n] ELSE inner
                              ELSE IF x = top THEN IF e = d THEN n ELSE t.child[e][top]
                              ELSE IF x = above /\ e = SideOf(t, above, n) THEN top
                              ELSE t.child[e][x]
      /\ \A x \in Session :
              u.up[x] = IF x = n THEN top ELSE IF x = top THEN above
                        ELSE IF x = inner THEN n ELSE t.up[x]
  <2> HIDE DEF inner, above
  <2> QED
    BY <1>1, <1>2, <1>3, RotateFields
<1>5. above = Null <=> t.root = n
  <2>1. above = Null => t.root = n
    BY BoundFacts
  <2>2. t.root # Null => t.up[t.root] = Null
    BY ShapeFacts DEF Linking
  <2> QED
    BY <1>1, <1>2, <2>1, <2>2
<1>6. t.up[top] = n
  BY <1>1, <1>2, ShapeFacts DEF Linking
<1>7. ASSUME NEW x \in Session, NEW e \in Side, x # n, x # top
      PROVE  t.child[e][x] # top /\ u.child[e][x] = IF t.child[e][x] = n THEN top ELSE t.child[e][x]
  <2>1. t.child[e][x] # top
    BY <1>1, <1>2, <1>6, <1>7, ShapeFacts DEF Linking
  <2>2. t.child[e][x] = n => x = above /\ e = SideOf(t, above, n)
    <3>1. t.child[e][x] = n => x = above
      BY <1>1, <1>2, ShapeFacts DEF Linking
    <3> QED
      BY <1>1, <1>2, <3>1, ParentFacts
  <2>3. x = above /\ e = SideOf(t, above, n) => t.child[e][x] = n
    BY <1>1, <1>2, ParentFacts
  <2>4. u.child[e][x] = IF x = above /\ e = SideOf(t, above, n) THEN top ELSE t.child[e][x]
    BY <1>4, <1>7
  <2> QED
    BY <2>1, <2>2, <2>3, <2>4
<1>8. Turned(t, u, n, d, top)
  <2>1. u.root = IF t.root = n THEN top ELSE t.root
    BY <1>4, <1>5
  <2>2. /\ u.child[d][n] = t.child[d][n] /\ u.child[o][n] = inner
        /\ u.child[d][top] = n /\ u.child[o][top] = t.child[o][top]
    BY <1>1, <1>2, <1>4
  <2>3. /\ u.up[n] = top /\ u.up[top] = t.up[n]
        /\ \A x \in Session :
             x # n /\ x # top => u.up[x] = IF x = t.child[d][top] THEN n ELSE t.up[x]
    BY <1>1, <1>4
  <2> QED
    BY <1>4, <1>7, <2>1, <2>2, <2>3 DEF Turned
<1>9. Apart(t, n, d, top)
  <2>1. ASSUME NEW e \in Side
        PROVE  /\ t.child[e][top] \in Session \cup {Null} /\ t.child[e][top] # n
               /\ t.child[e][top] # top
               /\ t.child[e][top] # Null => t.up[t.child[e][top]] = top
                                                 /\ t.child[e][top] \in Nodes(t)
    <3>1. t.child[e][top] \in Session \cup {Null}
      BY <1>1, ShapeFacts
    <3>2. t.child[e][top] # Null => t.up[t.child[e][top]] = top /\ t.child[e][top] # top
                                       /\ t.child[e][top] \in Nodes(t)
      BY <1>1, KidFacts
    <3> QED
      BY <1>1, <1>2, <3>1, <3>2
  <2>2. t.child[d][n] \in Session \cup {Null} /\ t.child[d][n] # n /\ t.child[d][n] # top
    <3>1. t.child[d][n] \in Session \cup {Null}
      BY <1>1, ShapeFacts
    <3>2. t.child[d][n] # Null => t.child[d][n] # n /\ t.child[o][n] # t.child[d][n]
      BY <1>1, KidFacts
    <3> QED
      BY <1>1, <1>2, <3>1, <3>2
  <2>3. t.child[d][n] # Null => t.up[t.child[d][n]] = n /\ t.child[d][n] \in Nodes(t)
    BY <1>1, KidFacts
  <2> QED
    BY <1>1, <1>6, <2>1, <2>2, <2>3 DEF Apart
<1> QED
  BY <1>8, <1>9 DEF u

(* bh with the values of n and top exchanged.                              *)
Exchanged(bh, sw, n, top) ==
  /\ sw \in [Session \cup {Null} -> Nat]
  /\ \A x \in Session \cup {Null} :
       sw[x] = IF x = n THEN bh[top] ELSE IF x = top THEN bh[n] ELSE bh[x]

(* The heights of n and top change places in a rotation.                   *)
Exchange(bh, n, top) ==
  [x \in Session \cup {Null} |-> IF x = n THEN bh[top] ELSE IF x = top THEN bh[n] ELSE bh[x]]

(* Exchange is Exchanged.                                                  *)
LEMMA ExchangeIs ==
  ASSUME NEW bh, HeightMap(bh), NEW n \in Session, NEW top \in Session
  PROVE  /\ Exchanged(bh, Exchange(bh, n, top), n, top)
         /\ HeightMap(Exchange(bh, n, top))
BY TreeAssumption DEF HeightMap, Exchanged, Exchange

(* The heights around the two nodes after a rotation.                      *)
HeightsTurned(t, u, n, d, top, bh, sw) ==
  /\ sw[n] = bh[top] /\ sw[top] = bh[n]
  /\ sw[u.child[d][n]] = bh[t.child[d][n]]
  /\ sw[u.child[Other(d)][n]] = bh[t.child[d][top]]
  /\ sw[u.child[d][top]] = bh[top]
  /\ sw[u.child[Other(d)][top]] = bh[t.child[Other(d)][top]]
  /\ \A x \in Session, e \in Side :
       x # n /\ x # top => sw[x] = bh[x] /\ sw[u.child[e][x]] = bh[t.child[e][x]]

(* Exchanged heights are the heights of the rotated tree.                  *)
LEMMA TurnHeights ==
  ASSUME NEW t \in TreeType, NEW u, NEW n, NEW d \in Side, NEW top, Turned(t, u, n, d, top),
         Apart(t, n, d, top), NEW bh, HeightMap(bh), NEW sw, Exchanged(bh, sw, n, top)
  PROVE  HeightsTurned(t, u, n, d, top, bh, sw)
<1>1. /\ n \in Session /\ top \in Session /\ top # n /\ d \in Side /\ Other(d) \in Side
      /\ \A x \in Session, e \in Side : t.child[e][x] \in Session \cup {Null}
      /\ Null \notin Session
      /\ \A x \in Session \cup {Null} :
           sw[x] = IF x = n THEN bh[top] ELSE IF x = top THEN bh[n] ELSE bh[x]
  BY Sides, TreeAssumption DEF Apart, TreeType, Exchanged
<1>2. sw[n] = bh[top] /\ sw[top] = bh[n]
  BY <1>1
<1>3. sw[u.child[d][n]] = bh[t.child[d][n]]
  <2>1. u.child[d][n] = t.child[d][n] /\ t.child[d][n] # n /\ t.child[d][n] # top
    BY DEF Turned, Apart
  <2> QED
    BY <1>1, <2>1
<1>4. sw[u.child[Other(d)][n]] = bh[t.child[d][top]]
  <2>1. u.child[Other(d)][n] = t.child[d][top] /\ t.child[d][top] # n /\ t.child[d][top] # top
    BY DEF Turned, Apart
  <2> QED
    BY <1>1, <2>1
<1>5. sw[u.child[d][top]] = bh[top]
  BY <1>2 DEF Turned
<1>6. sw[u.child[Other(d)][top]] = bh[t.child[Other(d)][top]]
  <2>1. u.child[Other(d)][top] = t.child[Other(d)][top] /\ t.child[Other(d)][top] # n
          /\ t.child[Other(d)][top] # top
    BY <1>1 DEF Turned, Apart
  <2> QED
    BY <1>1, <2>1
<1>7. ASSUME NEW x \in Session, NEW e \in Side, x # n, x # top
      PROVE  sw[x] = bh[x] /\ sw[u.child[e][x]] = bh[t.child[e][x]]
  <2>1. t.child[e][x] # top /\ u.child[e][x] = IF t.child[e][x] = n THEN top ELSE t.child[e][x]
    BY <1>7 DEF Turned
  <2>2. t.child[e][x] \in Session \cup {Null}
    BY <1>1
  <2>3. sw[x] = bh[x]
    BY <1>1, <1>7
  <2>4. CASE t.child[e][x] = n
    <3>1. u.child[e][x] = top
      BY <2>1, <2>4
    <3> QED
      BY <1>2, <2>3, <2>4, <3>1
  <2>5. CASE t.child[e][x] # n
    <3>1. u.child[e][x] = t.child[e][x]
      BY <2>1, <2>5
    <3>2. sw[t.child[e][x]] = bh[t.child[e][x]]
      BY <1>1, <2>1, <2>2, <2>5
    <3> QED
      BY <2>3, <3>1, <3>2
  <2> QED
    BY <2>4, <2>5
<1> QED
  BY <1>2, <1>3, <1>4, <1>5, <1>6, <1>7 DEF HeightsTurned
----------------------------------------------------------------------------
(* t with another set of red nodes.                                        *)
Recoloured(t, u, R) ==
  /\ u \in TreeType /\ u.red = R /\ u.root = t.root /\ u.child = t.child /\ u.up = t.up

(* Heights that fit the new colours balance the recoloured tree.           *)
Fits(t, R, c) ==
  \A m \in Nodes(t), e \in Side : c[m] = c[t.child[e][m]] + Weight(R, m)

LEMMA HeightsFit ==
  ASSUME NEW t, NEW u, NEW R, Recoloured(t, u, R), NEW c, HeightMap(c), Fits(t, R, c)
  PROVE  Balanced(u, c, Null, Null)
<1>1. Nodes(u) = Nodes(t) /\ u.child = t.child /\ u.red = R
  BY DEF Recoloured, Nodes
<1> QED
  BY <1>1 DEF Balanced, Fits

(* What Paint changes, as a predicate.                                     *)
LEMMA PaintIs ==
  ASSUME NEW t \in TreeType, NEW A \in SUBSET Session, NEW B
  PROVE  Recoloured(t, Paint(t, A, B), (t.red \ B) \cup A)
<1>1. A \cap Session = A
  OBVIOUS
<1> QED
  BY <1>1, PaintFields DEF Recoloured

(* A node with a parent is one of its children.                            *)
LEMMA UpFacts ==
  ASSUME NEW t, NEW q, NEW pos, NEW bnd, Shape(t, q, pos, bnd)
  PROVE  /\ \A x \in Session : t.up[x] # x
         /\ \A x \in Session : t.up[x] # Null =>
              /\ t.up[x] \in Session /\ t.up[x] \in Nodes(t)
              /\ \E e \in Side : t.child[e][t.up[x]] = x
         /\ \A x \in Nodes(t), e \in Side : t.child[e][x] # Null => t.up[t.child[e][x]] = x
<1>1. ASSUME NEW x \in Session, t.up[x] # Null
      PROVE  /\ t.up[x] \in Session /\ t.up[x] \in Nodes(t)
             /\ \E e \in Side : t.child[e][t.up[x]] = x
  BY <1>1, ParentFacts
<1>2. ASSUME NEW x \in Session PROVE t.up[x] # x
  <2>1. x # Null
    BY TreeAssumption
  <2>2. t.up[x] # Null => \E e \in Side : t.child[e][t.up[x]] = x
    BY <1>1
  <2>3. t.up[x] = x => \E e \in Side : t.child[e][x] = x /\ x \in Nodes(t)
    BY <1>1, <2>1, <2>2
  <2> QED
    BY <2>1, <2>3, KidFacts
<1>3. \A x \in Nodes(t), e \in Side : t.child[e][x] # Null => t.up[t.child[e][x]] = x
  BY KidFacts
<1> QED
  BY <1>1, <1>2, <1>3

(* One height raised or lowered.                                           *)
LEMMA ChangeHeight ==
  ASSUME NEW t, NEW q, NEW pos, NEW bnd, Shape(t, q, pos, bnd),
         NEW bh, HeightMap(bh), NEW x \in Nodes(t), NEW v \in Nat,
         NEW c, c = [bh EXCEPT ![x] = v]
  PROVE  /\ HeightMap(c) /\ c[x] = v
         /\ \A m \in Session \cup {Null} : m # x => c[m] = bh[m]
         /\ \A m \in Nodes(t), e \in Side :
              c[t.child[e][m]] = IF t.child[e][m] = x THEN v ELSE bh[t.child[e][m]]
         /\ \A m \in Nodes(t), e \in Side : t.child[e][m] = x => m = t.up[x] /\ m # x
<1>1. /\ x \in Session /\ Null \notin Session /\ Nodes(t) \subseteq Session
      /\ \A m \in Session, e \in Side : t.child[e][m] \in Session \cup {Null}
  BY ShapeFacts DEF Nodes
<1>2. HeightMap(c) /\ c[x] = v /\ \A m \in Session \cup {Null} : m # x => c[m] = bh[m]
  BY <1>1 DEF HeightMap
<1>3. \A m \in Nodes(t), e \in Side : t.child[e][m] = x => m = t.up[x] /\ m # x
  BY <1>1, KidFacts
<1> QED
  BY <1>1, <1>2, <1>3

(* The invariant of rb_insert_color.                                       *)
InsertColours(t, n) ==
  /\ \E bh : Balanced(t, bh, Null, Null)
  /\ RedsApart(t, n)
  /\ n \in t.red /\ n \in Nodes(t)
  /\ \A m \in t.red : t.up[m] # n

(* A red-black tree: what every operation starts from.                     *)
Rested(t) == (\E bh : Balanced(t, bh, Null, Null)) /\ RedsApart(t, Null)

(* InsertDone.                                                             *)
LEMMA InsertDoneColours ==
  ASSUME NEW t, NEW q, NEW pos, NEW bnd, Shape(t, q, pos, bnd),
         NEW n, InsertColours(t, n), t.up[n] \notin t.red
  PROVE  Rested(Paint(t, {}, {t.root}))
<1> DEFINE u == Paint(t, {}, {t.root})
           r == t.root
<1>1. /\ t \in TreeType /\ Null \notin Session /\ n \in Session /\ n \in Nodes(t)
      /\ Nodes(t) \subseteq Session /\ t.red \subseteq Nodes(t) /\ r \in Nodes(t) /\ r \in Session
      /\ \A x \in Session, e \in Side : t.child[e][x] \in Session \cup {Null}
      /\ \A x \in Session : t.up[x] \in Session \cup {Null}
      /\ t.up[r] = Null
  BY ShapeFacts DEF InsertColours, Nodes, Linking
<1>2. Recoloured(t, u, t.red \ {r})
  <2>1. Recoloured(t, Paint(t, {}, {r}), (t.red \ {r}) \cup {})
    BY <1>1, PaintIs
  <2>2. (t.red \ {r}) \cup {} = t.red \ {r}
    OBVIOUS
  <2> QED
    BY <2>1, <2>2
<1> HIDE DEF u
<1>3. Nodes(u) = Nodes(t)
  BY <1>2 DEF Nodes, Recoloured
<1>4. PICK bh : Balanced(t, bh, Null, Null)
  BY DEF InsertColours
<1>5. \E c : Balanced(u, c, Null, Null)
  <2>1. CASE r \notin t.red
    <3>1. t.red \ {r} = t.red
      BY <2>1
    <3>2. Balanced(u, bh, Null, Null)
      BY <1>2, <1>3, <1>4, <3>1 DEF Balanced, Recoloured
    <3> QED
      BY <3>2
  <2>2. CASE r \in t.red
    <3> DEFINE c == [bh EXCEPT ![r] = bh[r] + 1]
    <3>1. HeightMap(bh) /\ bh[r] + 1 \in Nat /\ bh[r] \in Nat
      BY <1>1, <1>4 DEF Balanced, HeightMap
    <3>2. /\ HeightMap(c) /\ c[r] = bh[r] + 1
          /\ \A m \in Session \cup {Null} : m # r => c[m] = bh[m]
          /\ \A m \in Nodes(t), e \in Side :
              c[t.child[e][m]] = IF t.child[e][m] = r THEN bh[r] + 1 ELSE bh[t.child[e][m]]
          /\ \A m \in Nodes(t), e \in Side : t.child[e][m] = r => m = t.up[r] /\ m # r
      BY <1>1, <3>1, ChangeHeight
    <3> HIDE DEF c
    <3>3. ASSUME NEW m \in Nodes(t), NEW e \in Side
          PROVE  c[m] = c[t.child[e][m]] + Weight(t.red \ {r}, m)
      <4>1. c[t.child[e][m]] = bh[t.child[e][m]]
        BY <1>1, <3>2
      <4>2. bh[m] = bh[t.child[e][m]] + Weight(t.red, m)
        BY <1>1, <1>4 DEF Balanced
      <4>3. bh[t.child[e][m]] \in Nat
        BY <1>1, <3>1 DEF HeightMap
      <4>4. CASE m = r
        <5>1. Weight(t.red, m) = 0 /\ Weight(t.red \ {r}, m) = 1
          BY <2>2, <4>4 DEF Weight
        <5> QED
          BY <3>2, <4>1, <4>2, <4>3, <4>4, <5>1
      <4>5. CASE m # r
        <5>1. Weight(t.red, m) = Weight(t.red \ {r}, m)
          BY <4>5 DEF Weight
        <5>2. c[m] = bh[m]
          BY <1>1, <3>2, <4>5
        <5> QED
          BY <4>1, <4>2, <5>1, <5>2
      <4> QED
        BY <4>4, <4>5
    <3>4. Balanced(u, c, Null, Null)
      <4> DEFINE R == t.red \ {r}
      <4>1. Fits(t, R, c) /\ Recoloured(t, u, R) /\ HeightMap(c)
        BY <1>2, <3>2, <3>3 DEF Fits
      <4> HIDE DEF R
      <4> QED
        BY <4>1, HeightsFit
    <3> QED
      BY <3>4
  <2> QED
    BY <2>1, <2>2
<1>6. RedsApart(u, Null)
  <2>1. u.red = t.red \ {r} /\ u.root = r /\ u.up = t.up
    BY <1>2 DEF Recoloured
  <2>2. ASSUME NEW x \in u.red, u.up[x] \in u.red PROVE FALSE
    <3>1. x \in t.red /\ t.up[x] \in t.red
      BY <2>1, <2>2
    <3>2. x = n \/ t.up[x] = n
      BY <3>1 DEF InsertColours, RedsApart
    <3> QED
      BY <3>1, <3>2 DEF InsertColours
  <2> QED
    BY <2>1, <2>2 DEF RedsApart
<1>7. Rested(u)
  BY <1>5, <1>6 DEF Rested
<1> QED
  BY <1>7 DEF u

(* The red node n has the red parent p, on the side d of g.                *)
RedPair(t, n, p, g, d) ==
  /\ InsertColours(t, n)
  /\ p = t.up[n] /\ p \in t.red
  /\ g = t.up[p] /\ d = SideOf(t, g, p)

(* A red node with a red parent: the grandparent is there and is black.    *)
LEMMA InsertFacts ==
  ASSUME NEW t, NEW q, NEW pos, NEW bnd, Shape(t, q, pos, bnd),
         NEW n, NEW p, NEW g, NEW d, RedPair(t, n, p, g, d)
  PROVE  /\ n \in Session /\ n \in Nodes(t) /\ p \in Session /\ p \in Nodes(t) /\ g \in Session /\ g \in Nodes(t)
         /\ g \notin t.red /\ d \in Side /\ t.child[d][g] = p
         /\ t.child[Other(d)][g] # p /\ n # p /\ n # g /\ p # g
         /\ t.root \notin t.red /\ t.root # p /\ t.root # n
         /\ Nodes(t) \subseteq Session /\ t.red \subseteq Nodes(t) /\ t \in TreeType /\ Null \notin Session
         /\ \A x \in Session, e \in Side : t.child[e][x] \in Session \cup {Null}
<1>e. InsertColours(t, n) /\ t.up[n] = p /\ p \in t.red /\ t.up[p] = g /\ SideOf(t, g, p) = d
  BY DEF RedPair
<1>1. /\ t \in TreeType /\ Null \notin Session /\ n \in Session /\ n \in Nodes(t)
      /\ Nodes(t) \subseteq Session /\ t.red \subseteq Nodes(t)
      /\ \A x \in Session, e \in Side : t.child[e][x] \in Session \cup {Null}
      /\ p \in Session /\ p \in Nodes(t) /\ p # Null
      /\ t.root # Null => t.up[t.root] = Null
  BY <1>e, ShapeFacts DEF InsertColours, Nodes, Linking
<1>2. n # p /\ t.root # n
  <2>1. SideOf(t, p, n) \in Side /\ t.child[SideOf(t, p, n)][p] = n
    BY <1>e, <1>1, ParentFacts
  <2>2. n # p
    BY <1>1, <2>1, KidFacts
  <2> QED
    BY <1>e, <1>1, <2>2, ParentFacts
<1>3. t.root \notin t.red
  BY <1>e, <1>2 DEF InsertColours, RedsApart
<1>4. t.root # p
  BY <1>e, <1>3
<1>5. g # Null
  BY <1>e, <1>1, <1>4, BoundFacts
<1>6. /\ g \in Session /\ g \in Nodes(t) /\ d \in Side /\ t.child[d][g] = p
  BY <1>e, <1>1, <1>5, ParentFacts
<1>7. t.child[Other(d)][g] # p /\ p # g
  BY <1>1, <1>6, KidFacts
<1>8. g \notin t.red
  <2>1. SUFFICES ASSUME g \in t.red PROVE FALSE
    OBVIOUS
  <2>2. p = n \/ g = n
    BY <1>e, <2>1 DEF InsertColours, RedsApart
  <2>3. g = n
    BY <1>2, <2>2
  <2> QED
    BY <1>e, <2>3 DEF InsertColours
<1>9. n # g
  BY <1>e, <1>8 DEF InsertColours
<1> QED
  BY <1>1, <1>2, <1>3, <1>4, <1>6, <1>7, <1>8, <1>9

(* InsertRecolour: the pair of reds moves two levels up.                   *)
LEMMA InsertRecolourColours ==
  ASSUME NEW t, NEW q, NEW pos, NEW bnd, Shape(t, q, pos, bnd),
         NEW n, NEW p, NEW g, NEW d, RedPair(t, n, p, g, d),
         t.child[Other(d)][g] \in t.red
  PROVE  InsertColours(Paint(t, {g}, {t.child[Other(d)][g], p}), g)
<1> DEFINE o == Other(d)
           k == t.child[o][g]
           u == Paint(t, {g}, {k, p})
           R == (t.red \ {k, p}) \cup {g}
<1>e. InsertColours(t, n) /\ t.up[n] = p /\ p \in t.red /\ t.up[p] = g /\ SideOf(t, g, p) = d
  BY DEF RedPair
<1>k. k \in t.red /\ t.child[Other(d)][g] = k
  OBVIOUS
<1> HIDE DEF k
<1>1. /\ n \in Session /\ n \in Nodes(t) /\ p \in Session /\ p \in Nodes(t) /\ g \in Session /\ g \in Nodes(t)
      /\ g \notin t.red /\ d \in Side /\ t.child[d][g] = p
      /\ t.child[Other(d)][g] # p /\ n # p /\ n # g /\ p # g
      /\ t.root \notin t.red /\ t.root # p /\ t.root # n
      /\ Nodes(t) \subseteq Session /\ t.red \subseteq Nodes(t) /\ t \in TreeType /\ Null \notin Session
      /\ \A x \in Session, e \in Side : t.child[e][x] \in Session \cup {Null}
  BY InsertFacts
<1>2. o \in Side /\ \A e \in Side : e = d \/ e = o
  BY <1>1, Sides
<1>3. /\ k \in Session /\ k \in Nodes(t) /\ k # g /\ k # p /\ t.up[k] = g
  <2>1. k \in Session /\ k # Null
    BY <1>k, <1>e, <1>1
  <2> QED
    BY <1>k, <1>e, <1>1, <1>2, <2>1, KidFacts
<1>4. Recoloured(t, u, R)
  <2>1. {g} \in SUBSET Session
    BY <1>1
  <2> QED
    BY <1>1, <2>1, PaintIs
<1> HIDE DEF u
<1>5. Nodes(u) = Nodes(t)
  BY <1>4 DEF Nodes, Recoloured
<1>6. PICK bh : Balanced(t, bh, Null, Null)
  BY <1>e DEF InsertColours
<1> DEFINE c == [x \in Session \cup {Null} |-> IF x = p \/ x = k THEN bh[x] + 1 ELSE bh[x]]
<1>7. HeightMap(c) /\ \A x \in Session \cup {Null} : c[x] = (IF x = p \/ x = k THEN bh[x] + 1 ELSE bh[x]) /\ bh[x] \in Nat
  <2>1. bh \in [Session \cup {Null} -> Nat] /\ bh[Null] = 0
    BY <1>6 DEF Balanced, HeightMap
  <2>2. \A x \in Session \cup {Null} : (IF x = p \/ x = k THEN bh[x] + 1 ELSE bh[x]) \in Nat
    BY <2>1
  <2>3. c \in [Session \cup {Null} -> Nat]
    BY <2>2
  <2>4. c[Null] = 0
    BY <1>1, <1>3, <2>1
  <2> QED
    BY <2>1, <2>3, <2>4 DEF HeightMap
<1> HIDE DEF c, R
<1>8. ASSUME NEW m \in Nodes(t), NEW e \in Side
      PROVE  c[m] = c[t.child[e][m]] + Weight(R, m)
  <2>1. bh[m] = bh[t.child[e][m]] + Weight(t.red, m)
    BY <1>1, <1>6 DEF Balanced
  <2>2. /\ m \in Session /\ t.child[e][m] \in Session \cup {Null}
        /\ c[m] = (IF m = p \/ m = k THEN bh[m] + 1 ELSE bh[m]) /\ bh[m] \in Nat
    BY <1>1, <1>7
  <2>3. /\ c[t.child[e][m]] = (IF t.child[e][m] = p \/ t.child[e][m] = k THEN bh[t.child[e][m]] + 1 ELSE bh[t.child[e][m]])
        /\ bh[t.child[e][m]] \in Nat
    BY <1>7, <2>2
  <2>4. CASE m = g
    <3>1. t.child[e][m] = p \/ t.child[e][m] = k
      BY <1>k, <1>e, <1>1, <1>2, <2>4
    <3>2. Weight(t.red, m) = 1 /\ Weight(R, m) = 0
      BY <1>1, <2>4 DEF Weight, R
    <3>3. c[m] = bh[m] /\ c[t.child[e][m]] = bh[t.child[e][m]] + 1
      BY <1>1, <1>3, <2>2, <2>3, <2>4, <3>1
    <3> QED
      BY <2>1, <2>2, <2>3, <3>2, <3>3
  <2>5. CASE m # g
    <3>1. t.child[e][m] # p /\ t.child[e][m] # k
      BY <1>1, <1>3, <2>5, KidFacts
    <3>2. CASE m = p \/ m = k
      <4>1. Weight(t.red, m) = 0 /\ Weight(R, m) = 1
        BY <1>k, <1>e, <1>1, <1>3, <3>2 DEF Weight, R
      <4> QED
        BY <2>1, <2>2, <2>3, <3>1, <3>2, <4>1
    <3>3. CASE m # p /\ m # k
      <4>1. Weight(t.red, m) = Weight(R, m)
        BY <2>5, <3>3 DEF Weight, R
      <4> QED
        BY <2>1, <2>2, <2>3, <3>1, <3>3, <4>1
    <3> QED
      BY <3>2, <3>3
  <2> QED
    BY <2>4, <2>5
<1>9. Balanced(u, c, Null, Null)
  <2>1. Fits(t, R, c)
    BY <1>8 DEF Fits
  <2> HIDE DEF R, u, c
  <2> QED
    BY <1>4, <1>7, <2>1, HeightsFit
<1>10. /\ u.red = R /\ u.root = t.root /\ u.up = t.up
  BY <1>4 DEF Recoloured
<1>11. RedsApart(u, g)
  <2>1. ASSUME NEW x \in R, t.up[x] \in R, x # g, t.up[x] # g PROVE FALSE
    <3>1. x \in t.red /\ t.up[x] \in t.red /\ t.up[x] # p
      BY <1>1, <2>1 DEF R
    <3>2. x = n \/ t.up[x] = n
      BY <1>e, <3>1 DEF InsertColours, RedsApart
    <3>3. t.up[x] = n
      BY <1>e, <3>1, <3>2
    <3> QED
      BY <1>e, <3>1, <3>3 DEF InsertColours
  <2>2. t.root \in R => t.root = g
    BY <1>1 DEF R
  <2> QED
    BY <1>10, <2>1, <2>2 DEF RedsApart
<1>12. ASSUME NEW x \in R, t.up[x] = g PROVE FALSE
  <2>1. t.up[g] # g
    BY <1>1, UpFacts
  <2>2. x \in t.red /\ x # p /\ x # k /\ x \in Session
    BY <1>1, <1>12, <2>1 DEF R
  <2>3. \E e \in Side : t.child[e][g] = x
    <3>1. t.up[x] # Null
      BY <1>1, <1>12
    <3>2. \E e \in Side : t.child[e][t.up[x]] = x
      BY <2>2, <3>1, UpFacts
    <3> QED
      BY <1>12, <3>2
  <2> QED
    BY <1>k, <1>e, <1>2, <1>1, <2>2, <2>3
<1>13. g \in R
  BY DEF R
<1>14. InsertColours(u, g)
  BY <1>1, <1>5, <1>9, <1>10, <1>11, <1>12, <1>13 DEF InsertColours
<1> QED
  BY <1>14 DEF u, k

(* The grandparent g is above two red nodes in a row on the side d.        *)
TwoReds(t, g, d, top, x) ==
  /\ g \notin t.red
  /\ top = t.child[d][g] /\ top \in t.red
  /\ x = t.child[d][top] /\ x \in t.red
  /\ t.child[Other(d)][top] \notin t.red /\ t.child[Other(d)][g] \notin t.red
  /\ t.root \notin t.red
  /\ \A y \in t.red : t.up[y] \in t.red => y = x

(* The rotation that ends rb_insert_color's loop.                          *)
LEMMA OuterRotateColours ==
  ASSUME NEW t, NEW q, NEW pos, NEW bnd, Shape(t, q, pos, bnd),
         NEW bh, Balanced(t, bh, Null, Null),
         NEW g \in Nodes(t), NEW d \in Side, NEW top, NEW x, TwoReds(t, g, d, top, x)
  PROVE  InsertColours(Rotate(Paint(t, {g}, {top}), g, Other(d)), x)
<1> DEFINE o == Other(d)
           t2 == Paint(t, {g}, {top})
           u == Rotate(t2, g, o)
           R == (t.red \ {top}) \cup {g}
           inner == t.child[o][top]
           uncle == t.child[o][g]
<1>e. /\ g \notin t.red /\ t.child[d][g] = top /\ top \in t.red
      /\ t.child[d][top] = x /\ x \in t.red
      /\ t.child[o][top] \notin t.red /\ t.child[o][g] \notin t.red /\ t.root \notin t.red
  BY DEF TwoReds
<1>1. /\ g \in Session /\ Null \notin Session /\ t \in TreeType
      /\ Nodes(t) \subseteq Session /\ t.red \subseteq Nodes(t)
      /\ top \in Session /\ x \in Session /\ top # Null
      /\ \A y \in Session, e \in Side : t.child[e][y] \in Session \cup {Null}
      /\ HeightMap(bh)
  <2>1. /\ Null \notin Session /\ t \in TreeType /\ t.red \subseteq Nodes(t)
        /\ \A y \in Session, e \in Side : t.child[e][y] \in Session \cup {Null}
    BY ShapeFacts DEF Linking
  <2>2. Nodes(t) \subseteq Session /\ g \in Session
    BY DEF Nodes
  <2>3. HeightMap(bh)
    BY DEF Balanced
  <2> QED
    BY <1>e, <2>1, <2>2, <2>3
<1>2. o \in Side /\ Other(o) = d /\ o # d /\ \A e \in Side : e = d \/ e = o
  BY Sides
<1>3. Recoloured(t, t2, R)
  <2>1. {g} \in SUBSET Session
    BY <1>1
  <2> QED
    BY <1>1, <2>1, PaintIs
<1>4. Nodes(t2) = Nodes(t) /\ Shape(t2, q, pos, bnd)
  <2>1. {g} \subseteq Nodes(t)
    OBVIOUS
  <2> QED
    BY <2>1, PaintShape
<1> HIDE DEF t2
<1>5. t2 \in TreeType /\ t2.red = R /\ t2.root = t.root /\ t2.child = t.child /\ t2.up = t.up
  BY <1>3 DEF Recoloured
<1>6. g \in Nodes(t2) /\ top = t2.child[Other(o)][g]
  BY <1>e, <1>2, <1>4, <1>5
<1>7. Turned(t2, u, g, o, top) /\ Apart(t2, g, o, top)
  BY <1>1, <1>2, <1>4, <1>6, TurnIs
<1>8. Nodes(u) = Nodes(t)
  <2>1. Nodes(u) = Nodes(t2)
    BY <1>1, <1>2, <1>4, <1>6, RotateShape
  <2> QED
    BY <1>4, <2>1
<1> HIDE DEF u
<1> DEFINE sw == Exchange(bh, g, top)
<1>9. Exchanged(bh, sw, g, top) /\ HeightMap(sw)
  BY <1>1, ExchangeIs
<1> HIDE DEF sw
<1>a. HeightsTurned(t2, u, g, o, top, bh, sw)
  BY <1>1, <1>2, <1>5, <1>7, <1>9, TurnHeights
<1>10. /\ sw[g] = bh[top] /\ sw[top] = bh[g]
       /\ sw[u.child[o][g]] = bh[uncle]
       /\ sw[u.child[d][g]] = bh[inner]
       /\ sw[u.child[o][top]] = bh[top]
       /\ sw[u.child[d][top]] = bh[x]
       /\ \A y \in Session, e \in Side :
              y # g /\ y # top => sw[y] = bh[y] /\ sw[u.child[e][y]] = bh[t.child[e][y]]
  BY <1>e, <1>2, <1>5, <1>a DEF HeightsTurned
<1>11. /\ top \in Nodes(t) /\ x \in Nodes(t) /\ top # g /\ t.up[top] = g /\ t.up[x] = top
       /\ x # g /\ x # top
  <2>1. top \in Nodes(t) /\ t.up[top] = g /\ top # g
    BY <1>e, <1>1, KidFacts
  <2>2. t.up[x] = top /\ x # top
    BY <1>e, <1>1, <2>1, KidFacts
  <2> QED
    BY <1>e, <1>1, <2>1, <2>2
<1>12. /\ bh[g] = bh[top] + 1 /\ bh[g] = bh[uncle] + 1
       /\ bh[top] = bh[inner] /\ bh[top] = bh[x]
       /\ bh[g] \in Nat /\ bh[top] \in Nat /\ bh[uncle] \in Nat
  <2>1. Weight(t.red, g) = 1 /\ Weight(t.red, top) = 0
    BY <1>e DEF Weight
  <2>2. /\ bh[g] = bh[top] + 1 /\ bh[g] = bh[uncle] + 1
    BY <1>e, <1>1, <1>2, <2>1 DEF Balanced
  <2>3. bh[top] = bh[inner] + 0 /\ bh[top] = bh[x] + 0
    BY <1>e, <1>1, <1>2, <1>11, <2>1 DEF Balanced
  <2>4. \A y \in Session \cup {Null} : bh[y] \in Nat
    BY <1>1 DEF HeightMap
  <2>5. uncle \in Session \cup {Null} /\ inner \in Session \cup {Null}
    BY <1>1, <1>2
  <2>6. bh[g] \in Nat /\ bh[top] \in Nat /\ bh[uncle] \in Nat /\ bh[inner] \in Nat /\ bh[x] \in Nat
    BY <1>1, <2>4, <2>5
  <2> HIDE DEF uncle, inner
  <2> QED
    BY <2>2, <2>3, <2>6
<1> HIDE DEF R
<1>13. ASSUME NEW m \in Nodes(t), NEW e \in Side
       PROVE  sw[m] = sw[u.child[e][m]] + Weight(R, m)
  <2>1. CASE m = g
    <3>1. Weight(R, m) = 0
      BY <2>1 DEF R, Weight
    <3>2. e = o \/ e = d
      BY <1>2
    <3>3. sw[u.child[e][m]] = bh[top]
      <4>1. bh[uncle] = bh[top]
        BY <1>12
      <4> QED
        BY <1>10, <1>12, <2>1, <3>2, <4>1
    <3> QED
      BY <1>10, <1>12, <2>1, <3>1, <3>3
  <2>2. CASE m = top
    <3>1. Weight(R, m) = 1
      BY <1>11, <2>2 DEF R, Weight
    <3>2. e = o \/ e = d
      BY <1>2
    <3>3. sw[u.child[e][m]] = bh[top]
      BY <1>10, <1>12, <2>2, <3>2
    <3> QED
      BY <1>10, <1>12, <2>2, <3>1, <3>3
  <2>3. CASE m # g /\ m # top
    <3>1. sw[m] = bh[m] /\ sw[u.child[e][m]] = bh[t.child[e][m]]
      BY <1>1, <1>10, <2>3
    <3>2. Weight(R, m) = Weight(t.red, m)
      BY <2>3 DEF Weight, R
    <3>3. bh[m] = bh[t.child[e][m]] + Weight(t.red, m)
      BY <1>1 DEF Balanced
    <3> QED
      BY <3>1, <3>2, <3>3
  <2> QED
    BY <2>1, <2>2, <2>3
<1>14. u.red = R
  BY <1>5, <1>7 DEF Turned
<1>15. Balanced(u, sw, Null, Null)
  BY <1>8, <1>9, <1>13, <1>14 DEF Balanced
<1>16. /\ u.root = IF t.root = g THEN top ELSE t.root
       /\ u.up[g] = top /\ u.up[top] = t.up[g]
       /\ \A y \in Session : y # g /\ y # top => u.up[y] = IF y = inner THEN g ELSE t.up[y]
  BY <1>5, <1>7 DEF Turned
<1>17. t.up[g] # g /\ t.up[g] # top
  BY <1>5, <1>7 DEF Apart
<1>18. top \notin R /\ g \in R /\ R \subseteq t.red \cup {g} /\ x \in R /\ R \subseteq Session
  BY <1>e, <1>1, <1>11 DEF R
<1>19. ASSUME NEW y \in R, u.up[y] \in R PROVE FALSE
  <2>1. y # g
    BY <1>16, <1>18, <1>19
  <2>2. y # top /\ y \in t.red /\ y \in Session
    BY <1>18, <1>19, <2>1
  <2>3. y # inner
    BY <1>e, <2>2
  <2>4. u.up[y] = t.up[y]
    BY <1>16, <2>1, <2>2, <2>3
  <2>5. t.up[y] # g
    <3>1. SUFFICES ASSUME t.up[y] = g PROVE FALSE
      OBVIOUS
    <3>2. \E e \in Side : t.child[e][t.up[y]] = y
      <4>1. t.up[y] # Null
        BY <1>1, <3>1
      <4> QED
        BY <2>2, <4>1, UpFacts
    <3>3. y = top \/ y = uncle
      BY <1>e, <1>2, <3>1, <3>2
    <3> QED
      BY <1>e, <2>2, <3>3
  <2>6. t.up[y] \in t.red
    BY <1>18, <1>19, <2>4, <2>5
  <2>7. y = x
    BY <2>2, <2>6 DEF TwoReds
  <2> QED
    BY <1>11, <1>18, <1>19, <2>4, <2>7
<1>20. u.root \notin R
  BY <1>e, <1>16, <1>18
<1>21. RedsApart(u, x)
  BY <1>14, <1>19, <1>20 DEF RedsApart
<1>22. ASSUME NEW y \in R, u.up[y] = x PROVE FALSE
  BY <1>18, <1>19, <1>22
<1>23. InsertColours(u, x)
  BY <1>8, <1>11, <1>14, <1>15, <1>18, <1>21, <1>22 DEF InsertColours
<1> QED
  BY <1>23 DEF u, t2

(* The same nodes in the same order.                                       *)
SameOrder(t, u, q, pos) == Nodes(u) = Nodes(t) /\ \E b : Shape(u, q, pos, b)

(* Painting and rotating leave the order.                                  *)
LEMMA PaintTurnShape ==
  ASSUME NEW t, NEW q, NEW pos, NEW bnd, Shape(t, q, pos, bnd),
         NEW A, NEW B, A \subseteq Nodes(t),
         NEW n \in Nodes(t), NEW d \in Side, t.child[Other(d)][n] # Null
  PROVE  SameOrder(t, Rotate(Paint(t, A, B), n, d), q, pos)
<1> DEFINE v == Paint(t, A, B)
<1>1. Nodes(v) = Nodes(t) /\ Shape(v, q, pos, bnd)
  BY PaintShape
<1>2. v.child = t.child
  <2>1. t \in TreeType /\ A \cap Session = A
    BY ShapeFacts DEF Nodes
  <2> QED
    BY <2>1, PaintFields
<1> HIDE DEF v
<1>3. n \in Nodes(v) /\ v.child[Other(d)][n] # Null
  BY <1>1, <1>2
<1>4. Nodes(Rotate(v, n, d)) = Nodes(v) /\ \E b : Shape(Rotate(v, n, d), q, pos, b)
  <2>1. \E b \in [Side -> [Session -> Int]] : Shape(Rotate(v, n, d), q, pos, b)
    BY <1>1, <1>3, RotateShape
  <2>2. Nodes(Rotate(v, n, d)) = Nodes(v)
    BY <1>1, <1>3, RotateShape
  <2> QED
    BY <2>1, <2>2
<1> QED
  BY <1>1, <1>4 DEF SameOrder, v

(* The inner grandchild has been turned to the outside.                    *)
TurnedOut(t, u, q, pos, n, p, g, d) ==
  /\ SameOrder(t, u, q, pos)
  /\ \E bh : Balanced(u, bh, Null, Null)
  /\ u.red = t.red /\ u.child[d][g] = n /\ u.child[d][n] = p
  /\ u.child[Other(d)][n] \notin u.red
  /\ u.child[Other(d)][g] = t.child[Other(d)][g]
  /\ u.root \notin u.red
  /\ \A y \in u.red : u.up[y] \in u.red => y = p

(* The first rotation of InsertRotate.                                     *)
LEMMA InnerRotateColours ==
  ASSUME NEW t, NEW q, NEW pos, NEW bnd, Shape(t, q, pos, bnd),
         NEW n, NEW p, NEW g, NEW d, RedPair(t, n, p, g, d),
         t.child[Other(d)][g] \notin t.red, t.child[Other(d)][p] = n
  PROVE  TurnedOut(t, Rotate(t, p, d), q, pos, n, p, g, d)
<1> DEFINE o == Other(d)
           u == Rotate(t, p, d)
<1>e. InsertColours(t, n) /\ t.up[n] = p /\ p \in t.red /\ t.up[p] = g /\ SideOf(t, g, p) = d
  BY DEF RedPair
<1>1. /\ n \in Session /\ n \in Nodes(t) /\ p \in Session /\ p \in Nodes(t) /\ g \in Session /\ g \in Nodes(t)
      /\ g \notin t.red /\ d \in Side /\ t.child[d][g] = p
      /\ t.child[Other(d)][g] # p /\ n # p /\ n # g /\ p # g
      /\ t.root \notin t.red /\ t.root # p /\ t.root # n
      /\ Nodes(t) \subseteq Session /\ t.red \subseteq Nodes(t) /\ t \in TreeType /\ Null \notin Session
      /\ \A x \in Session, e \in Side : t.child[e][x] \in Session \cup {Null}
  BY InsertFacts
<1>2. o \in Side /\ Other(o) = d /\ o # d /\ \A e \in Side : e = d \/ e = o
  BY <1>1, Sides
<1>3. n # Null /\ n = t.child[o][p]
  BY <1>1
<1>4. Turned(t, u, p, d, n) /\ Apart(t, p, d, n)
  BY <1>1, <1>3, TurnIs
<1>5. SameOrder(t, u, q, pos)
  <2>1. Nodes(u) = Nodes(t)
    BY <1>1, <1>3, RotateShape
  <2>2. \E b \in [Side -> [Session -> Int]] : Shape(u, q, pos, b)
    BY <1>1, <1>3, RotateShape
  <2> QED
    BY <2>1, <2>2 DEF SameOrder
<1> HIDE DEF u
<1>6. PICK bh : Balanced(t, bh, Null, Null)
  BY <1>e DEF InsertColours
<1> DEFINE sw == Exchange(bh, p, n)
<1>7. Exchanged(bh, sw, p, n) /\ HeightMap(sw) /\ HeightMap(bh)
  BY <1>1, <1>6, ExchangeIs DEF Balanced
<1> HIDE DEF sw
<1>8. HeightsTurned(t, u, p, d, n, bh, sw)
  BY <1>1, <1>4, <1>7, TurnHeights
<1>9. n \in t.red /\ p \in t.red
  BY <1>e DEF InsertColours
<1>10. /\ \A e \in Side : bh[p] = bh[t.child[e][p]]
       /\ \A e \in Side : bh[n] = bh[t.child[e][n]]
       /\ bh[p] = bh[n] /\ bh[n] \in Nat
  <2>1. Weight(t.red, p) = 0 /\ Weight(t.red, n) = 0
    BY <1>9 DEF Weight
  <2>2. \A y \in Session \cup {Null} : bh[y] \in Nat
    BY <1>7 DEF HeightMap
  <2>3. ASSUME NEW e \in Side PROVE bh[p] = bh[t.child[e][p]] /\ bh[n] = bh[t.child[e][n]]
    <3>1. bh[p] = bh[t.child[e][p]] + 0 /\ bh[n] = bh[t.child[e][n]] + 0
      BY <1>1, <1>6, <2>1 DEF Balanced
    <3>2. bh[t.child[e][p]] \in Nat /\ bh[t.child[e][n]] \in Nat
      BY <1>1, <2>2
    <3> QED
      BY <3>1, <3>2
  <2>4. bh[p] = bh[n]
    BY <1>2, <1>3, <2>3
  <2> QED
    BY <1>1, <2>2, <2>3, <2>4
<1>11. u.red = t.red
  BY <1>4 DEF Turned
<1>12. ASSUME NEW m \in Nodes(t), NEW e \in Side
       PROVE  sw[m] = sw[u.child[e][m]] + Weight(u.red, m)
  <2>1. CASE m = p \/ m = n
    <3>1. Weight(u.red, m) = 0
      BY <1>9, <1>11, <2>1 DEF Weight
    <3>2. sw[u.child[e][m]] = bh[n] /\ sw[m] = bh[n]
      <4>1. e = d \/ e = o
        BY <1>2
      <4>2. /\ sw[p] = bh[n] /\ sw[n] = bh[p]
            /\ sw[u.child[d][p]] = bh[t.child[d][p]]
            /\ sw[u.child[o][p]] = bh[t.child[d][n]]
            /\ sw[u.child[d][n]] = bh[n]
            /\ sw[u.child[o][n]] = bh[t.child[o][n]]
        BY <1>8 DEF HeightsTurned
      <4>3. bh[t.child[d][p]] = bh[n] /\ bh[t.child[d][n]] = bh[n] /\ bh[t.child[o][n]] = bh[n]
        BY <1>1, <1>2, <1>10
      <4> QED
        BY <1>10, <2>1, <4>1, <4>2, <4>3
    <3> QED
      BY <1>10, <3>1, <3>2
  <2>2. CASE m # p /\ m # n
    <3>1. sw[m] = bh[m] /\ sw[u.child[e][m]] = bh[t.child[e][m]]
      BY <1>1, <1>8, <2>2 DEF HeightsTurned
    <3>2. bh[m] = bh[t.child[e][m]] + Weight(t.red, m)
      BY <1>1, <1>6 DEF Balanced
    <3> QED
      BY <1>11, <3>1, <3>2
  <2> QED
    BY <2>1, <2>2
<1>13. Balanced(u, sw, Null, Null)
  BY <1>5, <1>7, <1>12 DEF Balanced, SameOrder
<1>14. u.child[d][g] = n /\ u.child[o][g] = t.child[o][g]
  BY <1>1, <1>2, <1>4 DEF Turned
<1>15. u.child[d][n] = p /\ u.child[o][n] = t.child[o][n]
  BY <1>4 DEF Turned
<1>16. \A e \in Side : t.child[e][n] \notin t.red
  <2> SUFFICES ASSUME NEW e \in Side, t.child[e][n] \in t.red PROVE FALSE
    OBVIOUS
  <2>1. t.child[e][n] # Null
    BY <1>1
  <2>2. t.up[t.child[e][n]] = n
    BY <1>1, <2>1, KidFacts
  <2> QED
    BY <1>e, <2>2 DEF InsertColours
<1>17. u.root \notin u.red
  BY <1>1, <1>4, <1>11 DEF Turned
<1>18. ASSUME NEW y \in u.red, u.up[y] \in u.red, y # p PROVE FALSE
  <2>1. y \in t.red /\ y \in Session
    BY <1>1, <1>11
  <2>2. y # n
    BY <1>e, <1>1, <1>4, <1>11, <1>18 DEF Turned
  <2>3. y # t.child[d][n]
    BY <1>1, <1>16, <2>1
  <2>4. u.up[y] = t.up[y]
    BY <1>4, <1>18, <2>1, <2>2, <2>3 DEF Turned
  <2>5. y = n \/ t.up[y] = n
    BY <1>e, <1>11, <1>18, <2>1, <2>4 DEF InsertColours, RedsApart
  <2> QED
    BY <1>e, <2>1, <2>2, <2>5 DEF InsertColours
<1> QED
  BY <1>1, <1>2, <1>5, <1>11, <1>13, <1>14, <1>15, <1>16, <1>17, <1>18 DEF TurnedOut, u

(* InsertRotate, both cases.                                               *)
LEMMA InsertRotateColours ==
  ASSUME NEW t, NEW q, NEW pos, NEW bnd, Shape(t, q, pos, bnd),
         NEW n, NEW p, NEW g, NEW d, RedPair(t, n, p, g, d),
         t.child[Other(d)][g] \notin t.red
  PROVE  /\ t.child[Other(d)][p] = n =>
              LET u == Rotate(Paint(Rotate(t, p, d), {g}, {n}), g, Other(d))
              IN  SameOrder(t, u, q, pos) /\ InsertColours(u, p)
         /\ t.child[Other(d)][p] # n =>
              LET u == Rotate(Paint(t, {g}, {p}), g, Other(d))
              IN  SameOrder(t, u, q, pos) /\ InsertColours(u, n)
<1> DEFINE o == Other(d)
<1>e. InsertColours(t, n) /\ t.up[n] = p /\ p \in t.red /\ t.up[p] = g /\ SideOf(t, g, p) = d
  BY DEF RedPair
<1>1. /\ n \in Session /\ n \in Nodes(t) /\ p \in Session /\ p \in Nodes(t) /\ g \in Session /\ g \in Nodes(t)
      /\ g \notin t.red /\ d \in Side /\ t.child[d][g] = p
      /\ t.child[Other(d)][g] # p /\ n # p /\ n # g /\ p # g
      /\ t.root \notin t.red /\ t.root # p /\ t.root # n
      /\ Nodes(t) \subseteq Session /\ t.red \subseteq Nodes(t) /\ t \in TreeType /\ Null \notin Session
      /\ \A x \in Session, e \in Side : t.child[e][x] \in Session \cup {Null}
  BY InsertFacts
<1>2. o \in Side /\ Other(o) = d /\ o # d /\ \A e \in Side : e = d \/ e = o
  BY <1>1, Sides
<1>3. n \in t.red
  BY <1>e DEF InsertColours
<1>4. CASE t.child[o][p] = n
  <2> DEFINE v == Rotate(t, p, d)
  <2>1. /\ SameOrder(t, v, q, pos)
        /\ \E bh : Balanced(v, bh, Null, Null)
        /\ v.red = t.red /\ v.child[d][g] = n /\ v.child[d][n] = p
        /\ v.child[o][n] \notin v.red
        /\ v.child[o][g] = t.child[o][g]
        /\ v.root \notin v.red
        /\ \A y \in v.red : v.up[y] \in v.red => y = p
    BY <1>4, InnerRotateColours DEF TurnedOut
  <2> HIDE DEF v
  <2>2. PICK b : Shape(v, q, pos, b)
    BY <2>1 DEF SameOrder
  <2>3. PICK bh : Balanced(v, bh, Null, Null)
    BY <2>1
  <2>4. g \in Nodes(v) /\ Nodes(v) = Nodes(t) /\ {g} \subseteq Nodes(v)
    BY <1>1, <2>1 DEF SameOrder
  <2>a. TwoReds(v, g, d, n, p)
    BY <1>e, <1>1, <1>3, <2>1 DEF TwoReds
  <2>5. InsertColours(Rotate(Paint(v, {g}, {n}), g, o), p)
    BY <1>1, <2>2, <2>3, <2>4, <2>a, OuterRotateColours
  <2>6. v.child[Other(o)][g] # Null
    BY <1>1, <1>2, <2>1
  <2>7. SameOrder(v, Rotate(Paint(v, {g}, {n}), g, o), q, pos)
    BY <1>2, <2>2, <2>4, <2>6, PaintTurnShape
  <2>8. SameOrder(t, Rotate(Paint(v, {g}, {n}), g, o), q, pos)
    BY <2>4, <2>7 DEF SameOrder
  <2> QED
    BY <1>4, <2>5, <2>8 DEF v
<1>5. CASE t.child[o][p] # n
  <2>1. t.child[d][p] = n
    <3>1. p # Null
      BY <1>1
    <3>2. \E e \in Side : t.child[e][p] = n
      BY <1>e, <1>1, <3>1, UpFacts
    <3> QED
      BY <1>2, <1>5, <3>2
  <2>2. t.child[o][p] \notin t.red
    <3> SUFFICES ASSUME t.child[o][p] \in t.red PROVE FALSE
      OBVIOUS
    <3>1. t.child[o][p] # Null
      BY <1>1
    <3>2. t.up[t.child[o][p]] = p
      BY <1>1, <1>2, <3>1, KidFacts
    <3>3. t.child[o][p] = n \/ p = n
      BY <1>e, <3>2 DEF InsertColours, RedsApart
    <3> QED
      BY <1>1, <1>5, <3>3
  <2>3. \A y \in t.red : t.up[y] \in t.red => y = n
    BY <1>e DEF InsertColours, RedsApart
  <2>4. PICK bh : Balanced(t, bh, Null, Null)
    BY <1>e DEF InsertColours
  <2>a. TwoReds(t, g, d, p, n)
    BY <1>e, <1>1, <1>3, <2>1, <2>2, <2>3 DEF TwoReds
  <2>5. InsertColours(Rotate(Paint(t, {g}, {p}), g, o), n)
    BY <1>1, <2>4, <2>a, OuterRotateColours
  <2>6. {g} \subseteq Nodes(t) /\ t.child[Other(o)][g] # Null
    BY <1>1, <1>2
  <2>7. SameOrder(t, Rotate(Paint(t, {g}, {p}), g, o), q, pos)
    BY <1>1, <1>2, <2>6, PaintTurnShape
  <2> QED
    BY <1>5, <2>5, <2>7
<1> QED
  BY <1>4, <1>5

(* A new red leaf: rb_insert_color has one pair of reds to mend.           *)
LEMMA LinkColours ==
  ASSUME NEW t, NEW q, NEW pos, NEW bnd, Shape(t, q, pos, bnd), Rested(t),
         NEW s \in Session, s \notin Nodes(t), NEW u, Nodes(u) = Nodes(t) \cup {s},
         \/ t.root = Null /\ LinkedFirst(t, u, s)
         \/ \E p \in Nodes(t), e \in Side : t.child[e][p] = Null /\ LinkedBelow(t, u, s, p, e)
  PROVE  InsertColours(u, s)
<1>1. /\ t \in TreeType /\ Null \notin Session /\ Nodes(t) \subseteq Session /\ t.red \subseteq Nodes(t)
      /\ \A x \in Session, e \in Side : t.child[e][x] \in Session \cup {Null}
      /\ t.root = Null => Nodes(t) = {}
      /\ t.root # Null => t.root \in Nodes(t)
      /\ \A e \in Side : t.child[e][s] = Null
  <2>1. /\ t \in TreeType /\ Null \notin Session /\ Linking(t)
        /\ \A x \in Session, e \in Side : t.child[e][x] \in Session \cup {Null}
    BY ShapeFacts
  <2>2. Nodes(t) \subseteq Session
    BY DEF Nodes
  <2>3. t.red \subseteq Nodes(t) /\ (t.root = Null => Nodes(t) = {})
    BY <2>1 DEF Linking
  <2>4. t.root # Null => t.root \in Nodes(t)
    BY RootFacts
  <2>5. \A e \in Side : t.child[e][s] = Null
    BY <2>1 DEF Linking
  <2> QED
    BY <2>1, <2>2, <2>3, <2>4, <2>5
<1>2. PICK bh : Balanced(t, bh, Null, Null)
  BY DEF Rested
<1> DEFINE c == [bh EXCEPT ![s] = 0]
<1>3. HeightMap(bh) /\ HeightMap(c) /\ c[s] = 0 /\ c[Null] = 0
      /\ \A x \in Session \cup {Null} : x # s => c[x] = bh[x]
  BY <1>1, <1>2 DEF Balanced, HeightMap
<1> HIDE DEF c
<1>4. \A x \in t.red : t.up[x] \notin t.red
  <2> SUFFICES ASSUME NEW x \in t.red, t.up[x] \in t.red PROVE FALSE
    OBVIOUS
  <2>1. x = Null \/ t.up[x] = Null
    BY DEF Rested, RedsApart
  <2> QED
    BY <1>1, <2>1
<1>5. t.root \notin t.red
  BY <1>1 DEF Rested, RedsApart
<1>6. CASE t.root = Null /\ LinkedFirst(t, u, s)
  <2>1. Nodes(t) = {} /\ t.red = {} /\ u.red = {s} /\ u.root = s /\ Nodes(u) = {s}
    BY <1>1, <1>6 DEF LinkedFirst
  <2>2. ASSUME NEW m \in Nodes(u), NEW e \in Side
        PROVE  c[m] = c[u.child[e][m]] + Weight(u.red, m)
    <3>1. m = s /\ u.child[e][m] = Null /\ Weight(u.red, m) = 0
      BY <1>6, <2>1 DEF LinkedFirst, Weight
    <3> QED
      BY <1>3, <3>1
  <2>3. Balanced(u, c, Null, Null)
    BY <1>3, <2>2 DEF Balanced
  <2>4. u.up[s] = Null
    BY <1>6 DEF LinkedFirst
  <2>5. RedsApart(u, s)
    BY <2>1 DEF RedsApart
  <2> QED
    BY <1>1, <2>1, <2>3, <2>4, <2>5 DEF InsertColours
<1>7. ASSUME NEW p \in Nodes(t), NEW e \in Side, t.child[e][p] = Null, LinkedBelow(t, u, s, p, e)
      PROVE  InsertColours(u, s)
  <2>1. /\ u \in TreeType /\ u.root = t.root /\ u.red = t.red \cup {s}
        /\ \A x \in Session, f \in Side :
             u.child[f][x] = IF x = p /\ f = e THEN s ELSE t.child[f][x]
        /\ \A x \in Session : u.up[x] = IF x = s THEN p ELSE t.up[x]
    BY <1>7 DEF LinkedBelow
  <2>2. p # s /\ p \in Session
    BY <1>1
  <2>3. ASSUME NEW m \in Nodes(u), NEW f \in Side
        PROVE  c[m] = c[u.child[f][m]] + Weight(u.red, m)
    <3>1. CASE m = s
      <4>1. u.child[f][m] = Null
        BY <1>1, <2>1, <2>2, <3>1
      <4>2. Weight(u.red, m) = 0
        BY <2>1, <3>1 DEF Weight
      <4> QED
        BY <1>3, <3>1, <4>1, <4>2
    <3>2. CASE m # s
      <4>1. m \in Nodes(t) /\ m \in Session /\ c[m] = bh[m]
        BY <1>1, <1>3, <3>2
      <4>2. Weight(u.red, m) = Weight(t.red, m)
        BY <2>1, <3>2 DEF Weight
      <4>3. bh[m] = bh[t.child[f][m]] + Weight(t.red, m)
        BY <1>1, <1>2, <4>1 DEF Balanced
      <4>4. c[u.child[f][m]] = bh[t.child[f][m]]
        <5>1. CASE m = p /\ f = e
          BY <1>3, <1>7, <2>1, <4>1, <5>1 DEF HeightMap
        <5>2. CASE ~(m = p /\ f = e)
          <6>1. u.child[f][m] = t.child[f][m]
            BY <2>1, <4>1, <5>2
          <6>2. t.child[f][m] # s
            <7>1. t.child[f][m] # Null => t.child[f][m] \in Nodes(t)
              BY <4>1, KidFacts
            <7> QED
              BY <1>1, <7>1
          <6> QED
            BY <1>1, <1>3, <4>1, <6>1, <6>2
        <5> QED
          BY <5>1, <5>2
      <4> QED
        BY <4>1, <4>2, <4>3, <4>4
    <3> QED
      BY <3>1, <3>2
  <2>4. Balanced(u, c, Null, Null)
    BY <1>3, <2>3 DEF Balanced
  <2>5. ASSUME NEW x \in t.red PROVE x # s /\ u.up[x] = t.up[x] /\ t.up[x] # s
    <3>1. x \in Session /\ x # s
      BY <1>1
    <3>2. t.up[x] # Null => t.up[x] \in Nodes(t)
      BY <3>1, UpFacts
    <3> QED
      BY <1>1, <2>1, <3>1, <3>2
  <2>6. RedsApart(u, s)
    <3>1. ASSUME NEW x \in u.red, u.up[x] \in u.red, x # s PROVE FALSE
      <4>1. x \in t.red
        BY <2>1, <3>1
      <4>2. t.up[x] \in t.red
        BY <2>1, <2>5, <3>1, <4>1
      <4> QED
        BY <1>4, <4>1, <4>2
    <3>2. u.root \in u.red => u.root = s
      BY <1>5, <2>1
    <3> QED
      BY <3>1, <3>2 DEF RedsApart
  <2>7. \A x \in u.red : u.up[x] # s
    <3> TAKE x \in u.red
    <3>1. CASE x = s
      BY <2>1, <2>2, <3>1
    <3>2. CASE x # s
      BY <2>1, <2>5, <3>2
    <3> QED
      BY <3>1, <3>2
  <2>8. s \in u.red /\ s \in Nodes(u)
    BY <2>1
  <2> QED
    BY <2>4, <2>6, <2>7, <2>8 DEF InsertColours
<1> QED
  BY <1>6, <1>7
----------------------------------------------------------------------------
(* The invariant of __rb_erase_color: a black node is missing below n.     *)
EraseColours(t, n, p) ==
  /\ RedsApart(t, n)
  /\ \/ n = t.root /\ \E bh : Balanced(t, bh, Null, Null)
     \/ n # t.root /\ p # Null /\ \E bh : Balanced(t, bh, n, p)

(* EraseDone: the node is painted black.                                   *)
LEMMA EraseDoneColours ==
  ASSUME NEW t, NEW q, NEW pos, NEW bnd, Shape(t, q, pos, bnd),
         NEW n, NEW p, EraseColours(t, n, p), n \in t.red \/ n = t.root
  PROVE  Rested(Paint(t, {}, {n}))
<1> DEFINE u == Paint(t, {}, {n})
<1>1. /\ t \in TreeType /\ Null \notin Session
      /\ Nodes(t) \subseteq Session /\ t.red \subseteq Nodes(t)
      /\ \A x \in Session, e \in Side : t.child[e][x] \in Session \cup {Null}
      /\ \A x \in Session : t.up[x] \in Session \cup {Null}
      /\ t.root # Null => t.up[t.root] = Null
  BY ShapeFacts DEF Nodes, Linking
<1>2. Recoloured(t, u, t.red \ {n})
  <2>1. Recoloured(t, Paint(t, {}, {n}), (t.red \ {n}) \cup {})
    BY <1>1, PaintIs
  <2>2. (t.red \ {n}) \cup {} = t.red \ {n}
    OBVIOUS
  <2> QED
    BY <2>1, <2>2
<1> HIDE DEF u
<1>3. Nodes(u) = Nodes(t)
  BY <1>2 DEF Nodes, Recoloured
<1>4. PICK bh, x, y : /\ Balanced(t, bh, x, y)
                      /\ \/ n = t.root /\ y = Null
                         \/ n # t.root /\ x = n /\ y = p /\ p # Null
  BY DEF EraseColours
<1>5. \E c : Balanced(u, c, Null, Null)
  <2>1. CASE n \notin t.red
    <3>1. t.red \ {n} = t.red /\ y = Null
      BY <1>4, <2>1
    <3>2. Balanced(u, bh, Null, Null)
      BY <1>2, <1>3, <1>4, <3>1 DEF Balanced, Recoloured
    <3> QED
      BY <3>2
  <2>2. CASE n \in t.red
    <3> DEFINE c == [bh EXCEPT ![n] = bh[n] + 1]
    <3>1. HeightMap(bh) /\ bh[n] + 1 \in Nat /\ bh[n] \in Nat
      BY <1>1, <1>4, <2>2 DEF Balanced, HeightMap
    <3>2. /\ HeightMap(c) /\ c[n] = bh[n] + 1
          /\ \A m \in Session \cup {Null} : m # n => c[m] = bh[m]
          /\ \A m \in Nodes(t), e \in Side :
              c[t.child[e][m]] = IF t.child[e][m] = n THEN bh[n] + 1 ELSE bh[t.child[e][m]]
          /\ \A m \in Nodes(t), e \in Side : t.child[e][m] = n => m = t.up[n] /\ m # n
      BY <1>1, <2>2, <3>1, ChangeHeight
    <3> HIDE DEF c
    <3>3. ASSUME NEW m \in Nodes(t), NEW e \in Side
          PROVE  c[m] = c[t.child[e][m]] + Weight(t.red \ {n}, m)
      <4>1. \A a \in Session \cup {Null} : bh[a] \in Nat
        BY <3>1 DEF HeightMap
      <4>2. t.child[e][m] \in Session \cup {Null} /\ m \in Session /\ bh[t.child[e][m]] \in Nat
        BY <1>1, <4>1
      <4>3. CASE m = y
        <5>1. m = p /\ x = n /\ y # Null /\ n # t.root
          BY <1>1, <1>4, <4>2, <4>3
        <5>2. PICK d \in Side : t.child[d][m] = n /\ bh[t.child[Other(d)][m]] = bh[n] + 1
          BY <1>4, <4>3, <5>1 DEF Balanced
        <5>3. bh[m] = bh[n] + 1 + Weight(t.red, m)
          BY <1>4, <4>3, <5>1 DEF Balanced
        <5>4. m # n
          BY <3>2, <5>2
        <5>5. Weight(t.red \ {n}, m) = Weight(t.red, m)
          BY <5>4 DEF Weight
        <5>6. c[t.child[e][m]] = bh[n] + 1
          <6>1. e = d \/ e = Other(d)
            BY Sides
          <6>2. CASE t.child[e][m] = n
            BY <3>2, <6>2
          <6>3. CASE t.child[e][m] # n
            <7>1. e = Other(d)
              BY <5>2, <6>1, <6>3
            <7> QED
              BY <3>2, <4>2, <5>2, <6>3, <7>1
          <6> QED
            BY <6>2, <6>3
        <5>7. c[m] = bh[m]
          BY <3>2, <4>2, <5>4
        <5> QED
          BY <5>3, <5>5, <5>6, <5>7
      <4>4. CASE m # y
        <5>1. bh[m] = bh[t.child[e][m]] + Weight(t.red, m)
          BY <1>4, <4>4 DEF Balanced
        <5>2. t.child[e][m] # n
          <6> SUFFICES ASSUME t.child[e][m] = n PROVE FALSE
            OBVIOUS
          <6>1. m = t.up[n] /\ n # Null
            BY <1>1, <2>2, <3>2
          <6>2. n # t.root
            BY <1>1, <4>2, <6>1
          <6>3. y = p /\ x = n /\ y # Null
            BY <1>4, <6>2
          <6>4. \E d \in Side : t.child[d][y] = n /\ y \in Nodes(t)
            BY <1>4, <6>3 DEF Balanced
          <6>5. y = t.up[n]
            BY <3>2, <6>4
          <6> QED
            BY <4>4, <6>1, <6>5
        <5>3. c[t.child[e][m]] = bh[t.child[e][m]]
          BY <3>2, <5>2
        <5>4. CASE m = n
          <6>1. Weight(t.red, m) = 0 /\ Weight(t.red \ {n}, m) = 1
            BY <2>2, <5>4 DEF Weight
          <6> QED
            BY <3>2, <4>2, <5>1, <5>3, <5>4, <6>1
        <5>5. CASE m # n
          <6>1. Weight(t.red, m) = Weight(t.red \ {n}, m)
            BY <5>5 DEF Weight
          <6>2. c[m] = bh[m]
            BY <3>2, <4>2, <5>5
          <6> QED
            BY <5>1, <5>3, <6>1, <6>2
        <5> QED
          BY <5>4, <5>5
      <4> QED
        BY <4>3, <4>4
    <3>4. Balanced(u, c, Null, Null)
      <4> DEFINE R == t.red \ {n}
      <4>1. Fits(t, R, c) /\ Recoloured(t, u, R) /\ HeightMap(c)
        BY <1>2, <3>2, <3>3 DEF Fits
      <4> HIDE DEF R
      <4> QED
        BY <4>1, HeightsFit
    <3> QED
      BY <3>4
  <2> QED
    BY <2>1, <2>2
<1>6. RedsApart(u, Null)
  <2>1. u.red = t.red \ {n} /\ u.root = t.root /\ u.up = t.up
    BY <1>2 DEF Recoloured
  <2>2. ASSUME NEW a \in u.red, u.up[a] \in u.red PROVE FALSE
    BY <2>1, <2>2 DEF EraseColours, RedsApart
  <2>3. u.root \notin u.red
    BY <2>1 DEF EraseColours, RedsApart
  <2> QED
    BY <2>2, <2>3 DEF RedsApart
<1>7. Rested(u)
  BY <1>5, <1>6 DEF Rested
<1> QED
  BY <1>7 DEF u

(* A rotation after a painting: R is what is red then.                     *)
PaintTurned(t, u, n, d, top, R) ==
  /\ u.red = R
  /\ u.root = IF t.root = n THEN top ELSE t.root
  /\ u.child[d][n] = t.child[d][n] /\ u.child[Other(d)][n] = t.child[d][top]
  /\ u.child[d][top] = n /\ u.child[Other(d)][top] = t.child[Other(d)][top]
  /\ \A x \in Session, e \in Side :
       x # n /\ x # top =>
         t.child[e][x] # top /\ u.child[e][x] = IF t.child[e][x] = n THEN top ELSE t.child[e][x]
  /\ u.up[n] = top /\ u.up[top] = t.up[n]
  /\ \A x \in Session :
       x # n /\ x # top => u.up[x] = IF x = t.child[d][top] THEN n ELSE t.up[x]

(* Painting and rotating: the order, the links, the heights.               *)
LEMMA PaintTurn ==
  ASSUME NEW t, NEW q, NEW pos, NEW bnd, Shape(t, q, pos, bnd),
         NEW A, NEW B, A \subseteq Nodes(t),
         NEW n \in Nodes(t), NEW d \in Side, NEW top, top = t.child[Other(d)][n], top # Null
  PROVE  /\ SameOrder(t, Rotate(Paint(t, A, B), n, d), q, pos)
         /\ PaintTurned(t, Rotate(Paint(t, A, B), n, d), n, d, top, (t.red \ B) \cup A)
         /\ \A bh : HeightMap(bh) =>
              /\ HeightMap(Exchange(bh, n, top))
              /\ HeightsTurned(t, Rotate(Paint(t, A, B), n, d), n, d, top, bh, Exchange(bh, n, top))
<1> DEFINE v == Paint(t, A, B)
           u == Rotate(v, n, d)
           R == (t.red \ B) \cup A
<1>1. t \in TreeType /\ Nodes(t) \subseteq Session /\ A \in SUBSET Session /\ n \in Session
      /\ top \in Session
  <2>1. t \in TreeType /\ Nodes(t) \subseteq Session
    BY ShapeFacts DEF Nodes
  <2>2. Other(d) \in Side
    BY Sides
  <2>3. top \in Session
    BY <2>2, KidFacts
  <2> QED
    BY <2>1, <2>3
<1>2. SameOrder(t, u, q, pos)
  BY PaintTurnShape
<1>3. Recoloured(t, v, R)
  BY <1>1, PaintIs
<1>4. Nodes(v) = Nodes(t) /\ Shape(v, q, pos, bnd)
  BY PaintShape
<1> HIDE DEF v, R
<1>5. v \in TreeType /\ v.red = R /\ v.root = t.root /\ v.child = t.child /\ v.up = t.up
  BY <1>3 DEF Recoloured
<1>6. n \in Nodes(v) /\ top = v.child[Other(d)][n]
  BY <1>4, <1>5
<1>7. Turned(v, u, n, d, top) /\ Apart(v, n, d, top)
  BY <1>4, <1>6, TurnIs
<1> HIDE DEF u
<1>8. PaintTurned(t, u, n, d, top, R)
  BY <1>5, <1>7 DEF Turned, PaintTurned
<1>9. ASSUME NEW bh, HeightMap(bh)
      PROVE  /\ HeightMap(Exchange(bh, n, top))
             /\ HeightsTurned(t, u, n, d, top, bh, Exchange(bh, n, top))
  <2> DEFINE sw == Exchange(bh, n, top)
  <2>1. Exchanged(bh, sw, n, top) /\ HeightMap(sw)
    BY <1>1, <1>9, ExchangeIs
  <2> HIDE DEF sw
  <2>2. HeightsTurned(v, u, n, d, top, bh, sw)
    BY <1>5, <1>7, <1>9, <2>1, TurnHeights
  <2>3. HeightsTurned(t, u, n, d, top, bh, sw)
    BY <1>5, <2>2 DEF HeightsTurned
  <2> QED
    BY <2>1, <2>3 DEF sw
<1> QED
  BY <1>2, <1>8, <1>9 DEF u, v, R

(* Below p on side d, at n, a black node is missing.                       *)
Lacking(t, bh, n, p, d) ==
  /\ HeightMap(bh)
  /\ \A m \in Nodes(t), e \in Side :
       m # p => bh[m] = bh[t.child[e][m]] + Weight(t.red, m)
  /\ bh[t.child[Other(d)][p]] = bh[n] + 1
  /\ bh[p] = bh[n] + 1 + Weight(t.red, p)

(* A black node is missing below p on side d, and n is black.              *)
Short(t, n, p, d) ==
  /\ \A x \in t.red : t.up[x] \notin t.red
  /\ t.root \notin t.red /\ n \notin t.red
  /\ p \in Nodes(t) /\ d \in Side /\ t.child[d][p] = n
  /\ \E bh : Lacking(t, bh, n, p, d)

(* ErasePending: the loop of __rb_erase_color goes on.                     *)
LEMMA ShortIs ==
  ASSUME NEW t, NEW q, NEW pos, NEW bnd, Shape(t, q, pos, bnd),
         NEW n, NEW p, EraseColours(t, n, p), n \notin t.red, n # t.root
  PROVE  Short(t, n, p, SideOf(t, p, n))
<1>1. /\ \A x \in Session, e \in Side : t.child[e][x] \in Session \cup {Null}
      /\ t.red \subseteq Nodes(t) /\ Nodes(t) \subseteq Session
      /\ "left" \in Side /\ "right" \in Side
  BY ShapeFacts DEF Linking, Nodes, Side
<1>2. p # Null /\ \E bh : Balanced(t, bh, n, p)
  BY DEF EraseColours
<1>3. PICK bh : Balanced(t, bh, n, p)
  BY <1>2
<1>4. p \in Nodes(t) /\ p \in Session /\ HeightMap(bh)
  BY <1>1, <1>2, <1>3 DEF Balanced
<1>5. PICK d \in Side : t.child[d][p] = n /\ bh[t.child[Other(d)][p]] = bh[n] + 1
  BY <1>2, <1>3 DEF Balanced
<1>6. bh[n] \in Nat
  BY <1>1, <1>4, <1>5 DEF HeightMap
<1>7. t.child[Other(d)][p] # n
  BY <1>5, <1>6
<1>8. SideOf(t, p, n) = d
  <2>1. CASE d = "left"
    BY <1>5, <2>1 DEF SideOf
  <2>2. CASE d = "right"
    <3>1. Other(d) = "left"
      BY <2>2 DEF Other
    <3> QED
      BY <1>7, <2>2, <3>1 DEF SideOf
  <2> QED
    BY <2>1, <2>2 DEF Side
<1>9. Lacking(t, bh, n, p, d)
  BY <1>2, <1>3, <1>4, <1>5 DEF Balanced, Lacking
<1>10. \A x \in t.red : t.up[x] \notin t.red
  BY DEF EraseColours, RedsApart
<1>11. t.root \notin t.red
  BY DEF EraseColours, RedsApart
<1> QED
  BY <1>4, <1>5, <1>8, <1>9, <1>10, <1>11 DEF Short

(* What is short has a sibling: the loop never follows a null pointer.     *)
LEMMA SiblingFacts ==
  ASSUME NEW t, NEW q, NEW pos, NEW bnd, Shape(t, q, pos, bnd),
         NEW n, NEW p, NEW d, Short(t, n, p, d), NEW sib, sib = t.child[Other(d)][p]
  PROVE  /\ t \in TreeType /\ Null \notin Session
         /\ Nodes(t) \subseteq Session /\ t.red \subseteq Nodes(t)
         /\ \A x \in Session, e \in Side : t.child[e][x] \in Session \cup {Null}
         /\ d \in Side /\ Other(d) \in Side /\ Other(d) # d /\ Other(Other(d)) = d
         /\ \A e \in Side : e = d \/ e = Other(d)
         /\ p \in Nodes(t) /\ p \in Session
         /\ sib \in Nodes(t) /\ sib \in Session /\ sib # Null /\ sib # p /\ t.up[sib] = p
         /\ n \in Session \cup {Null} /\ n # p /\ n # sib /\ t.root # sib
         /\ t.child[d][p] = n /\ n \notin t.red /\ t.root \notin t.red
         /\ \A e \in Side : /\ t.child[e][sib] \in Session \cup {Null}
                            /\ t.child[e][sib] # sib /\ t.child[e][sib] # p
                            /\ t.child[e][sib] # n \/ n = Null
                            /\ t.child[e][sib] # Null => t.up[t.child[e][sib]] = sib
                                                         /\ t.child[e][sib] \in Nodes(t)
         /\ \A x \in t.red : t.up[x] = p => x = sib
<1>1. /\ t \in TreeType /\ Null \notin Session
      /\ Nodes(t) \subseteq Session /\ t.red \subseteq Nodes(t)
      /\ \A x \in Session, e \in Side : t.child[e][x] \in Session \cup {Null}
  BY ShapeFacts DEF Linking, Nodes
<1>2. /\ d \in Side /\ p \in Nodes(t) /\ p \in Session /\ t.child[d][p] = n
      /\ n \notin t.red /\ t.root \notin t.red /\ n \in Session \cup {Null}
  BY <1>1 DEF Short
<1>3. d \in Side /\ Other(d) \in Side /\ Other(d) # d /\ Other(Other(d)) = d
      /\ \A e \in Side : e = d \/ e = Other(d)
  BY <1>2, Sides
<1>4. sib # Null
  <2>1. PICK bh : Lacking(t, bh, n, p, d)
    BY DEF Short
  <2>2. bh[sib] = bh[n] + 1 /\ bh[Null] = 0 /\ bh[n] \in Nat
    BY <1>2, <2>1 DEF Lacking, HeightMap
  <2> QED
    BY <2>2
<1>5. sib \in Nodes(t) /\ sib \in Session /\ sib # p /\ t.up[sib] = p /\ t.root # sib
  BY <1>2, <1>3, <1>4, KidFacts
<1>6. n # p
  <2>1. n # Null => n # p
    BY <1>2, <1>3, KidFacts
  <2> QED
    BY <1>1, <1>2, <2>1
<1>7. n # sib
  <2>1. n # Null => n # sib
    BY <1>2, <1>3, KidFacts
  <2> QED
    BY <1>4, <2>1
<1>8. ASSUME NEW e \in Side
      PROVE  /\ t.child[e][sib] \in Session \cup {Null}
             /\ t.child[e][sib] # sib /\ t.child[e][sib] # p
             /\ t.child[e][sib] # n \/ n = Null
             /\ t.child[e][sib] # Null => t.up[t.child[e][sib]] = sib
                                          /\ t.child[e][sib] \in Nodes(t)
  <2> DEFINE c == t.child[e][sib]
  <2>1. c \in Session \cup {Null}
    BY <1>1, <1>5
  <2>2. c # Null => t.up[c] = sib /\ c # sib /\ c \in Nodes(t)
    BY <1>5, KidFacts
  <2>3. n # Null => t.up[n] = p
    BY <1>2, <1>3, KidFacts
  <2>4. c # p
    <3> SUFFICES ASSUME c = p PROVE FALSE
      OBVIOUS
    <3>1. c # Null
      BY <1>1, <1>2
    <3>2. Between(bnd, sib, pos[p])
      BY <1>5, <3>1, KidFacts
    <3>3. ~ Between(bnd, sib, pos[p])
      BY <1>1, <1>2, <1>4, <1>5, BoundFacts
    <3> QED
      BY <3>2, <3>3
  <2>5. c # n \/ n = Null
    BY <1>5, <2>2, <2>3
  <2> HIDE DEF c
  <2>6. /\ c \in Session \cup {Null} /\ c # sib /\ c # p /\ (c # n \/ n = Null)
        /\ (c # Null => t.up[c] = sib /\ c \in Nodes(t))
    BY <1>1, <1>5, <2>1, <2>2, <2>4, <2>5
  <2> QED
    BY <2>6 DEF c
<1>9. ASSUME NEW x \in t.red, t.up[x] = p PROVE x = sib
  <2>1. x \in Session /\ t.up[x] # Null
    BY <1>1, <1>2, <1>9
  <2>2. \E e \in Side : t.child[e][t.up[x]] = x
    BY <2>1, UpFacts
  <2>3. \E e \in Side : t.child[e][p] = x
    BY <1>9, <2>2
  <2> QED
    BY <1>2, <1>3, <2>3
<1> QED
  BY <1>1, <1>2, <1>3, <1>4, <1>5, <1>6, <1>7, <1>8, <1>9

(* BlackSibling: a red sibling is rotated above the parent, and painted    *)
(* black; the new sibling is black.                                        *)
LEMMA BlackSiblingColours ==
  ASSUME NEW t, NEW q, NEW pos, NEW bnd, Shape(t, q, pos, bnd),
         NEW n, NEW p, NEW d, Short(t, n, p, d),
         NEW sib, sib = t.child[Other(d)][p], sib \in t.red
  PROVE  /\ SameOrder(t, Rotate(Paint(t, {p}, {sib}), p, d), q, pos)
         /\ Short(Rotate(Paint(t, {p}, {sib}), p, d), n, p, d)
         /\ Rotate(Paint(t, {p}, {sib}), p, d).child[Other(d)][p]
              \notin Rotate(Paint(t, {p}, {sib}), p, d).red
<1> DEFINE o == Other(d)
           u == Rotate(Paint(t, {p}, {sib}), p, d)
           R == (t.red \ {sib}) \cup {p}
           inner == t.child[d][sib]
           outer == t.child[o][sib]
<1>1. /\ t \in TreeType /\ Null \notin Session
      /\ Nodes(t) \subseteq Session /\ t.red \subseteq Nodes(t)
      /\ \A x \in Session, e \in Side : t.child[e][x] \in Session \cup {Null}
      /\ d \in Side /\ o \in Side /\ o # d /\ Other(o) = d
      /\ \A e \in Side : e = d \/ e = o
      /\ p \in Nodes(t) /\ p \in Session
      /\ sib \in Nodes(t) /\ sib \in Session /\ sib # Null /\ sib # p /\ t.up[sib] = p
      /\ n \in Session \cup {Null} /\ n # p /\ n # sib /\ t.root # sib
      /\ t.child[d][p] = n /\ n \notin t.red /\ t.root \notin t.red
      /\ \A e \in Side : /\ t.child[e][sib] \in Session \cup {Null}
                         /\ t.child[e][sib] # sib /\ t.child[e][sib] # p
                         /\ t.child[e][sib] # n \/ n = Null
                         /\ t.child[e][sib] # Null => t.up[t.child[e][sib]] = sib
                                                      /\ t.child[e][sib] \in Nodes(t)
      /\ \A x \in t.red : t.up[x] = p => x = sib
  BY SiblingFacts
<1>2. \A x \in t.red : t.up[x] \notin t.red
  BY DEF Short
<1>3. p \notin t.red
  BY <1>1, <1>2
<1>4. inner \notin t.red
  <2>1. inner # Null => t.up[inner] = sib
    BY <1>1
  <2> QED
    BY <1>1, <1>2, <2>1
<1>5. PICK bh : Lacking(t, bh, n, p, d)
  BY DEF Short
<1>6. HeightMap(bh) /\ \A x \in Session \cup {Null} : bh[x] \in Nat
  BY <1>5 DEF Lacking, HeightMap
<1> DEFINE sw == Exchange(bh, p, sib)
<1>7. /\ SameOrder(t, u, q, pos)
      /\ PaintTurned(t, u, p, d, sib, R)
      /\ HeightMap(sw)
      /\ HeightsTurned(t, u, p, d, sib, bh, sw)
  <2>1. {p} \subseteq Nodes(t)
    BY <1>1
  <2> QED
    BY <1>1, <1>6, <2>1, PaintTurn
<1> HIDE DEF u, sw
<1>8. /\ bh[sib] = bh[n] + 1 /\ bh[p] = bh[n] + 2
      /\ bh[inner] = bh[n] + 1 /\ bh[outer] = bh[n] + 1
      /\ bh[n] \in Nat
  <2>1. /\ bh[n] \in Nat /\ bh[sib] \in Nat /\ bh[inner] \in Nat /\ bh[outer] \in Nat
        /\ bh[p] \in Nat
    BY <1>1, <1>6
  <2>2. Weight(t.red, sib) = 0 /\ Weight(t.red, p) = 1
    BY <1>3 DEF Weight
  <2>3. bh[sib] = bh[inner] + Weight(t.red, sib) /\ bh[sib] = bh[outer] + Weight(t.red, sib)
    BY <1>1, <1>5 DEF Lacking
  <2>4. bh[sib] = bh[n] + 1 /\ bh[p] = bh[n] + 1 + Weight(t.red, p)
    BY <1>5 DEF Lacking
  <2> HIDE DEF inner, outer
  <2> QED
    BY <2>1, <2>2, <2>3, <2>4
<1>9. Lacking(u, sw, n, p, d)
  <2>1. /\ sw[p] = bh[sib] /\ sw[sib] = bh[p]
        /\ sw[u.child[d][p]] = bh[n]
        /\ sw[u.child[o][p]] = bh[inner]
        /\ sw[u.child[d][sib]] = bh[sib]
        /\ sw[u.child[o][sib]] = bh[outer]
    BY <1>1, <1>7 DEF HeightsTurned
  <2>2. u.red = R /\ Nodes(u) = Nodes(t) /\ u.child[d][p] = n
    BY <1>1, <1>7 DEF PaintTurned, SameOrder
  <2>3. ASSUME NEW m \in Nodes(u), NEW e \in Side, m # p
        PROVE  sw[m] = sw[u.child[e][m]] + Weight(u.red, m)
    <3>1. CASE m = sib
      <4>1. Weight(u.red, m) = 1
        BY <1>1, <2>2, <3>1 DEF Weight
      <4>2. sw[u.child[e][m]] = bh[n] + 1
        <5>1. e = d \/ e = o
          BY <1>1
        <5> QED
          BY <1>8, <2>1, <3>1, <5>1
      <4>3. sw[m] = bh[n] + 2
        BY <1>8, <2>1, <3>1
      <4> QED
        BY <1>8, <4>1, <4>2, <4>3
    <3>2. CASE m # sib
      <4>1. Weight(u.red, m) = Weight(t.red, m)
        BY <2>2, <2>3, <3>2 DEF Weight
      <4>2. m \in Nodes(t) /\ m \in Session
        BY <1>1, <2>2
      <4>3. sw[m] = bh[m] /\ sw[u.child[e][m]] = bh[t.child[e][m]]
        BY <1>7, <2>3, <3>2, <4>2 DEF HeightsTurned
      <4>4. bh[m] = bh[t.child[e][m]] + Weight(t.red, m)
        BY <1>5, <2>3, <4>2 DEF Lacking
      <4> QED
        BY <4>1, <4>3, <4>4
    <3> QED
      BY <3>1, <3>2
  <2>4. sw[n] = bh[n]
    BY <2>1, <2>2
  <2>5. sw[u.child[o][p]] = sw[n] + 1
    BY <1>8, <2>1, <2>4
  <2>6. sw[p] = sw[n] + 1 + Weight(u.red, p)
    <3>1. Weight(u.red, p) = 0
      BY <2>2 DEF Weight
    <3>2. sw[p] = bh[n] + 1
      BY <1>8, <2>1
    <3> QED
      BY <1>8, <2>4, <3>1, <3>2
  <2> QED
    BY <1>7, <2>3, <2>5, <2>6 DEF Lacking
<1>10. /\ u.red = R /\ u.child[d][p] = n /\ u.child[o][p] = inner
       /\ p \in Nodes(u)
  BY <1>1, <1>7 DEF PaintTurned, SameOrder
<1>11. u.root \notin R
  <2>1. u.root = IF t.root = p THEN sib ELSE t.root
    BY <1>7 DEF PaintTurned
  <2> QED
    BY <1>1, <2>1
<1>12. ASSUME NEW x \in R, u.up[x] \in R PROVE FALSE
  <2>1. u.up[p] = sib /\ sib \notin R
    BY <1>1, <1>7 DEF PaintTurned
  <2>2. x # p
    BY <1>12, <2>1
  <2>3. x \in t.red /\ x # sib /\ x \in Session /\ x # inner
    BY <1>1, <1>4, <2>2
  <2>4. u.up[x] = t.up[x]
    BY <1>7, <2>2, <2>3 DEF PaintTurned
  <2>5. t.up[x] = p \/ t.up[x] \in t.red
    BY <1>12, <2>4
  <2> QED
    BY <1>1, <1>2, <2>3, <2>5
<1>13. n \notin R /\ inner \notin R
  BY <1>1, <1>4
<1>14. Short(u, n, p, d)
  BY <1>1, <1>9, <1>10, <1>11, <1>12, <1>13 DEF Short
<1>15. u.child[o][p] \notin u.red
  BY <1>10, <1>13
<1> QED
  BY <1>7, <1>14, <1>15 DEF u

(* EraseRecolour: the sibling turns red, what is missing is missing above. *)
LEMMA EraseRecolourColours ==
  ASSUME NEW t, NEW q, NEW pos, NEW bnd, Shape(t, q, pos, bnd),
         NEW n, NEW p, NEW d, Short(t, n, p, d),
         NEW sib, sib = t.child[Other(d)][p], sib \notin t.red,
         \A e \in Side : t.child[e][sib] \notin t.red
  PROVE  /\ SameOrder(t, Paint(t, {sib}, {}), q, pos)
         /\ EraseColours(Paint(t, {sib}, {}), p, t.up[p])
<1> DEFINE o == Other(d)
           u == Paint(t, {sib}, {})
           R == t.red \cup {sib}
<1>1. /\ t \in TreeType /\ Null \notin Session
      /\ Nodes(t) \subseteq Session /\ t.red \subseteq Nodes(t)
      /\ \A x \in Session, e \in Side : t.child[e][x] \in Session \cup {Null}
      /\ d \in Side /\ o \in Side /\ o # d /\ Other(o) = d
      /\ \A e \in Side : e = d \/ e = o
      /\ p \in Nodes(t) /\ p \in Session
      /\ sib \in Nodes(t) /\ sib \in Session /\ sib # Null /\ sib # p /\ t.up[sib] = p
      /\ n \in Session \cup {Null} /\ n # p /\ n # sib /\ t.root # sib
      /\ t.child[d][p] = n /\ n \notin t.red /\ t.root \notin t.red
      /\ \A e \in Side : /\ t.child[e][sib] \in Session \cup {Null}
                         /\ t.child[e][sib] # sib /\ t.child[e][sib] # p
                         /\ t.child[e][sib] # n \/ n = Null
                         /\ t.child[e][sib] # Null => t.up[t.child[e][sib]] = sib
                                                      /\ t.child[e][sib] \in Nodes(t)
      /\ \A x \in t.red : t.up[x] = p => x = sib
  BY SiblingFacts
<1>2. \A x \in t.red : t.up[x] \notin t.red
  BY DEF Short
<1>5. PICK bh : Lacking(t, bh, n, p, d)
  BY DEF Short
<1>6. HeightMap(bh) /\ \A x \in Session \cup {Null} : bh[x] \in Nat
  BY <1>5 DEF Lacking, HeightMap
<1>7. Nodes(u) = Nodes(t) /\ Shape(u, q, pos, bnd)
  <2>1. {sib} \subseteq Nodes(t)
    BY <1>1
  <2> QED
    BY <2>1, PaintShape
<1>8. Recoloured(t, u, R)
  <2>1. {sib} \in SUBSET Session
    BY <1>1
  <2>2. Recoloured(t, u, (t.red \ {}) \cup {sib})
    BY <1>1, <2>1, PaintIs
  <2>3. (t.red \ {}) \cup {sib} = R
    OBVIOUS
  <2> QED
    BY <2>2, <2>3
<1> HIDE DEF u
<1>9. u.red = R /\ u.root = t.root /\ u.child = t.child /\ u.up = t.up
  BY <1>8 DEF Recoloured
<1>10. /\ bh[sib] = bh[n] + 1 /\ bh[p] = bh[n] + 1 + Weight(t.red, p)
       /\ bh[n] \in Nat /\ bh[p] \in Nat
       /\ Weight(t.red, p) \in {0, 1} /\ Weight(t.red, sib) = 1
  BY <1>1, <1>5, <1>6 DEF Lacking, Weight
<1> DEFINE c == [x \in Session \cup {Null} |->
                   IF x = sib THEN bh[n] ELSE IF x = p THEN bh[n] + Weight(t.red, p) ELSE bh[x]]
<1>11. /\ HeightMap(c) /\ c[sib] = bh[n] /\ c[p] = bh[n] + Weight(t.red, p)
       /\ \A x \in Session \cup {Null} : x # sib /\ x # p => c[x] = bh[x]
       /\ \A x \in Session \cup {Null} : c[x] \in Nat
  <2>1. \A x \in Session \cup {Null} :
          (IF x = sib THEN bh[n] ELSE IF x = p THEN bh[n] + Weight(t.red, p) ELSE bh[x]) \in Nat
    BY <1>6, <1>10
  <2>2. c \in [Session \cup {Null} -> Nat]
    BY <2>1
  <2>3. c[Null] = 0
    BY <1>1, <1>6 DEF HeightMap
  <2> QED
    BY <1>1, <2>2, <2>3 DEF HeightMap
<1> HIDE DEF c, R
<1>12. c[n] = bh[n]
  BY <1>1, <1>11
<1>13. ASSUME NEW m \in Nodes(t), NEW e \in Side,
              t.child[e][m] # p
       PROVE  c[m] = c[t.child[e][m]] + Weight(R, m)
  <2>1. m \in Session /\ t.child[e][m] \in Session \cup {Null}
    BY <1>1
  <2>2. CASE m = p
    <3>1. t.child[e][m] = n \/ t.child[e][m] = sib
      BY <1>1, <2>2
    <3>2. Weight(R, m) = Weight(t.red, p)
      BY <1>1, <2>2 DEF Weight, R
    <3> QED
      BY <1>11, <1>12, <2>2, <3>1, <3>2
  <2>3. CASE m = sib
    <3>1. Weight(R, m) = 0
      BY <2>3 DEF Weight, R
    <3>2. bh[sib] = bh[t.child[e][sib]] + 1
      BY <1>1, <1>5, <1>10 DEF Lacking
    <3>3. c[t.child[e][sib]] = bh[t.child[e][sib]] /\ bh[t.child[e][sib]] \in Nat
      BY <1>1, <1>6, <1>11
    <3> QED
      BY <1>10, <1>11, <2>3, <3>1, <3>2, <3>3
  <2>4. CASE m # p /\ m # sib
    <3>1. Weight(R, m) = Weight(t.red, m)
      BY <2>4 DEF Weight, R
    <3>2. bh[m] = bh[t.child[e][m]] + Weight(t.red, m)
      BY <1>5, <2>4 DEF Lacking
    <3>3. t.child[e][m] # sib
      BY <1>1, <2>4, KidFacts
    <3> QED
      BY <1>11, <1>13, <2>1, <2>4, <3>1, <3>2, <3>3
  <2> QED
    BY <2>2, <2>3, <2>4
<1>14. RedsApart(u, p)
  <2>1. ASSUME NEW x \in R, t.up[x] \in R, x # p, t.up[x] # p PROVE FALSE
    <3>1. x # sib
      BY <1>1, <2>1
    <3>2. x \in t.red /\ x \in Session
      BY <1>1, <2>1, <3>1 DEF R
    <3>3. t.up[x] = sib
      BY <1>2, <2>1, <3>2 DEF R
    <3>4. \E e \in Side : t.child[e][t.up[x]] = x
      BY <1>1, <3>2, <3>3, UpFacts
    <3> QED
      BY <3>2, <3>3, <3>4
  <2>2. t.root \notin R
    BY <1>1 DEF R
  <2> QED
    BY <1>9, <2>1, <2>2 DEF RedsApart
<1>15. ASSUME p = t.root PROVE EraseColours(u, p, t.up[p])
  <2>1. \A m \in Nodes(t), e \in Side : t.child[e][m] # p
    <3> SUFFICES ASSUME NEW m \in Nodes(t), NEW e \in Side, t.child[e][m] = p PROVE FALSE
      OBVIOUS
    <3>1. t.child[e][m] # Null
      BY <1>1
    <3> QED
      BY <1>15, <3>1, KidFacts
  <2>2. Balanced(u, c, Null, Null)
    BY <1>7, <1>9, <1>11, <1>13, <2>1 DEF Balanced
  <2> QED
    BY <1>9, <1>14, <1>15, <2>2 DEF EraseColours
<1>16. ASSUME p # t.root PROVE EraseColours(u, p, t.up[p])
  <2> DEFINE a == t.up[p]
  <2>1. a # Null
    BY <1>1, <1>16, BoundFacts
  <2>2. /\ a \in Nodes(t) /\ a \in Session /\ a # p
        /\ \E e \in Side : t.child[e][a] = p
    <3>1. a \in Nodes(t) /\ a \in Session /\ a # p
      BY <1>1, <2>1, UpFacts
    <3>2. \E e \in Side : t.child[e][t.up[p]] = p
      BY <1>1, <2>1, UpFacts
    <3> QED
      BY <3>1, <3>2
  <2>3. PICK e \in Side : t.child[e][a] = p
    BY <2>2
  <2> DEFINE y == t.child[Other(e)][a]
  <2>4. /\ y \in Session \cup {Null} /\ y # p /\ a # sib
        /\ y # sib /\ Other(e) \in Side
    <3>1. Other(e) \in Side /\ Other(Other(e)) = e
      BY Sides
    <3>2. y \in Session \cup {Null}
      BY <1>1, <2>2, <3>1
    <3>3. y # p
      BY <1>1, <2>2, <2>3, KidFacts
    <3>4. a # sib
      BY <1>1, <2>3
    <3>5. y # Null => t.up[y] = a
      BY <2>2, <3>1, KidFacts
    <3>6. y # sib
      BY <1>1, <2>2, <3>5
    <3> QED
      BY <3>1, <3>2, <3>3, <3>4, <3>6
  <2>5. ASSUME NEW m \in Nodes(t), NEW f \in Side, m # a
        PROVE  t.child[f][m] # p
    <3> SUFFICES ASSUME t.child[f][m] = p PROVE FALSE
      OBVIOUS
    <3>1. t.child[f][m] # Null
      BY <1>1
    <3> QED
      BY <2>5, <3>1, KidFacts
  <2>6. /\ bh[a] = bh[p] + Weight(t.red, a) /\ bh[a] = bh[y] + Weight(t.red, a)
        /\ bh[y] \in Nat /\ Weight(t.red, a) \in {0, 1} /\ Weight(R, a) = Weight(t.red, a)
    <3>1. bh[a] = bh[p] + Weight(t.red, a)
      BY <1>5, <2>2, <2>3 DEF Lacking
    <3>2. bh[a] = bh[y] + Weight(t.red, a)
      BY <1>5, <2>2, <2>4 DEF Lacking
    <3>3. bh[y] \in Nat
      BY <1>6, <2>4
    <3>4. Weight(t.red, a) \in {0, 1} /\ Weight(R, a) = Weight(t.red, a)
      BY <2>4 DEF Weight, R
    <3> QED
      BY <3>1, <3>2, <3>3, <3>4
  <2>7. c[a] = bh[a] /\ c[y] = bh[y]
    BY <1>11, <2>2, <2>4
  <2>8. c[y] = c[p] + 1 /\ c[a] = c[p] + 1 + Weight(R, a)
    <3> HIDE DEF a, y
    <3>1. bh[y] = bh[p]
      BY <1>10, <2>6
    <3> QED
      BY <1>10, <1>11, <2>6, <2>7, <3>1
  <2>9. Balanced(u, c, p, a)
    <3>1. /\ a # Null => /\ a \in Nodes(t)
                        /\ \E f \in Side : t.child[f][a] = p /\ c[t.child[Other(f)][a]] = c[p] + 1
                        /\ c[a] = c[p] + 1 + Weight(R, a)
      BY <2>2, <2>3, <2>8
    <3>2. \A m \in Nodes(t), f \in Side : m # a => c[m] = c[t.child[f][m]] + Weight(R, m)
      BY <1>13, <2>5
    <3> HIDE DEF a
    <3> QED
      BY <1>7, <1>9, <1>11, <3>1, <3>2 DEF Balanced
  <2> QED
    BY <1>9, <1>14, <1>16, <2>1, <2>9 DEF EraseColours
<1>17. SameOrder(t, u, q, pos)
  BY <1>7 DEF SameOrder
<1> QED
  BY <1>15, <1>16, <1>17 DEF u

(* What a red nephew on the inside is turned into: a black sibling top,    *)
(* with a red child outside.                                               *)
NephewOutside(t, u, q, pos, n, p, d, top) ==
  /\ SameOrder(t, u, q, pos)
  /\ Short(u, n, p, d)
  /\ u.child[Other(d)][p] = top /\ top \notin u.red
  /\ u.child[Other(d)][top] \in u.red

(* EraseRotate, the red nephew on the inside: it is rotated above the      *)
(* sibling, and is the new sibling, with a red child outside.              *)
LEMMA NephewColours ==
  ASSUME NEW t, NEW q, NEW pos, NEW bnd, Shape(t, q, pos, bnd),
         NEW n, NEW p, NEW d, Short(t, n, p, d),
         NEW sib, sib = t.child[Other(d)][p], sib \notin t.red,
         NEW top, top = t.child[d][sib], top \in t.red,
         t.child[Other(d)][sib] \notin t.red
  PROVE  NephewOutside(t, Rotate(Paint(t, {sib}, {top}), sib, Other(d)), q, pos, n, p, d, top)
<1> DEFINE o == Other(d)
           u == Rotate(Paint(t, {sib}, {top}), sib, o)
           R == (t.red \ {top}) \cup {sib}
           inner == t.child[o][top]
           other == t.child[d][top]
           outer == t.child[o][sib]
<1>1. /\ t \in TreeType /\ Null \notin Session
      /\ Nodes(t) \subseteq Session /\ t.red \subseteq Nodes(t)
      /\ \A x \in Session, e \in Side : t.child[e][x] \in Session \cup {Null}
      /\ d \in Side /\ o \in Side /\ o # d /\ Other(o) = d
      /\ \A e \in Side : e = d \/ e = o
      /\ p \in Nodes(t) /\ p \in Session
      /\ sib \in Nodes(t) /\ sib \in Session /\ sib # Null /\ sib # p /\ t.up[sib] = p
      /\ n \in Session \cup {Null} /\ n # p /\ n # sib /\ t.root # sib
      /\ t.child[d][p] = n /\ n \notin t.red /\ t.root \notin t.red
      /\ \A e \in Side : /\ t.child[e][sib] \in Session \cup {Null}
                         /\ t.child[e][sib] # sib /\ t.child[e][sib] # p
                         /\ t.child[e][sib] # n \/ n = Null
                         /\ t.child[e][sib] # Null => t.up[t.child[e][sib]] = sib
                                                      /\ t.child[e][sib] \in Nodes(t)
      /\ \A x \in t.red : t.up[x] = p => x = sib
  BY SiblingFacts
<1>2. \A x \in t.red : t.up[x] \notin t.red
  BY DEF Short
<1>5. PICK bh : Lacking(t, bh, n, p, d)
  BY DEF Short
<1>6. HeightMap(bh) /\ \A x \in Session \cup {Null} : bh[x] \in Nat
  BY <1>5 DEF Lacking, HeightMap
<1> DEFINE sw == Exchange(bh, sib, top)
<1>7. /\ SameOrder(t, u, q, pos)
      /\ PaintTurned(t, u, sib, o, top, R)
      /\ HeightMap(sw)
      /\ HeightsTurned(t, u, sib, o, top, bh, sw)
  <2>1. {sib} \subseteq Nodes(t) /\ top # Null /\ top = t.child[Other(o)][sib]
    BY <1>1
  <2>2. /\ SameOrder(t, u, q, pos)
        /\ PaintTurned(t, u, sib, o, top, R)
    BY <1>1, <2>1, PaintTurn
  <2>3. HeightMap(sw) /\ HeightsTurned(t, u, sib, o, top, bh, sw)
    <3>1. \A b : HeightMap(b) =>
            /\ HeightMap(Exchange(b, sib, top))
            /\ HeightsTurned(t, u, sib, o, top, b, Exchange(b, sib, top))
      <4>1. o \in Side /\ sib \in Nodes(t)
        BY <1>1
      <4> QED
        BY <2>1, <4>1, PaintTurn
    <3> QED
      BY <1>6, <3>1
  <2> QED
    BY <2>2, <2>3
<1> HIDE DEF sw, u
<1>3. /\ top \in Nodes(t) /\ top \in Session /\ top # sib /\ top # p /\ t.up[top] = sib
      /\ inner \in Session \cup {Null} /\ inner \notin t.red
      /\ top # n /\ outer # top
  <2>1. top \in Nodes(t) /\ top \in Session /\ top # sib /\ top # p /\ t.up[top] = sib /\ top # Null
    BY <1>1
  <2>2. inner \in Session \cup {Null}
    BY <1>1, <2>1
  <2>3. inner \notin t.red
    <3> SUFFICES ASSUME inner \in t.red PROVE FALSE
      OBVIOUS
    <3>1. inner # Null
      BY <1>1
    <3>2. t.up[inner] = top
      <4>1. o \in Side /\ top \in Nodes(t)
        BY <1>1, <2>1
      <4> QED
        BY <3>1, <4>1, KidFacts
    <3> QED
      BY <1>2, <3>2
  <2> QED
    BY <1>1, <2>1, <2>2, <2>3
<1>8. /\ bh[sib] = bh[n] + 1 /\ bh[top] = bh[n]
      /\ bh[inner] = bh[n] /\ bh[other] = bh[n] /\ bh[outer] = bh[n]
      /\ bh[n] \in Nat
  <2>1. /\ bh[n] \in Nat /\ bh[sib] \in Nat /\ bh[inner] \in Nat /\ bh[outer] \in Nat
        /\ bh[top] \in Nat /\ bh[other] \in Nat
    BY <1>1, <1>3, <1>6
  <2>2. Weight(t.red, sib) = 1 /\ Weight(t.red, top) = 0
    BY DEF Weight
  <2>3. bh[sib] = bh[top] + Weight(t.red, sib) /\ bh[sib] = bh[outer] + Weight(t.red, sib)
    BY <1>1, <1>5 DEF Lacking
  <2>4. bh[top] = bh[inner] + Weight(t.red, top) /\ bh[top] = bh[other] + Weight(t.red, top)
    BY <1>1, <1>3, <1>5 DEF Lacking
  <2>5. bh[sib] = bh[n] + 1
    BY <1>5 DEF Lacking
  <2> HIDE DEF inner, outer, other
  <2> QED
    BY <2>1, <2>2, <2>3, <2>4, <2>5
<1>9. /\ u.red = R /\ Nodes(u) = Nodes(t) /\ u.child[d][p] = n /\ u.child[o][p] = top
      /\ u.child[o][top] = sib
  <2>1. u.red = R /\ Nodes(u) = Nodes(t) /\ u.child[o][top] = sib
    BY <1>7 DEF PaintTurned, SameOrder
  <2>2. p # sib /\ p # top
    BY <1>1, <1>3
  <2>3. u.child[d][p] = n /\ u.child[o][p] = top
    BY <1>1, <1>7, <2>2 DEF PaintTurned
  <2> QED
    BY <2>1, <2>3
<1>10. Lacking(u, sw, n, p, d)
  <2>1. /\ sw[sib] = bh[n] /\ sw[top] = bh[n] + 1
        /\ sw[u.child[o][sib]] = bh[n]
        /\ sw[u.child[d][sib]] = bh[n]
        /\ sw[u.child[o][top]] = bh[n]
        /\ sw[u.child[d][top]] = bh[n]
    <3>1. /\ sw[sib] = bh[top] /\ sw[top] = bh[sib]
          /\ sw[u.child[o][sib]] = bh[t.child[o][sib]]
          /\ sw[u.child[Other(o)][sib]] = bh[t.child[o][top]]
          /\ sw[u.child[o][top]] = bh[top]
          /\ sw[u.child[Other(o)][top]] = bh[t.child[Other(o)][top]]
      BY <1>7 DEF HeightsTurned
    <3>2. Other(o) = d
      BY <1>1
    <3> QED
      BY <1>8, <3>1, <3>2
  <2>3. ASSUME NEW m \in Nodes(u), NEW e \in Side, m # p
        PROVE  sw[m] = sw[u.child[e][m]] + Weight(u.red, m)
    <3>1. CASE m = sib
      <4>1. Weight(u.red, m) = 0
        BY <1>9, <3>1 DEF Weight
      <4>2. sw[u.child[e][m]] = bh[n]
        BY <1>1, <2>1, <3>1
      <4>3. sw[m] = bh[n]
        BY <2>1, <3>1
      <4> QED
        BY <1>8, <4>1, <4>2, <4>3
    <3>2. CASE m = top
      <4>1. Weight(u.red, m) = 1
        BY <1>3, <1>9, <3>2 DEF Weight
      <4>2. sw[u.child[e][m]] = bh[n]
        BY <1>1, <2>1, <3>2
      <4>3. sw[m] = bh[n] + 1
        BY <2>1, <3>2
      <4> QED
        BY <1>8, <4>1, <4>2, <4>3
    <3>3. CASE m # sib /\ m # top
      <4>1. Weight(u.red, m) = Weight(t.red, m)
        BY <1>9, <3>3 DEF Weight
      <4>2. m \in Nodes(t) /\ m \in Session
        BY <1>1, <1>9
      <4>3. sw[m] = bh[m] /\ sw[u.child[e][m]] = bh[t.child[e][m]]
        BY <1>7, <3>3, <4>2 DEF HeightsTurned
      <4>4. bh[m] = bh[t.child[e][m]] + Weight(t.red, m)
        BY <1>5, <2>3, <4>2 DEF Lacking
      <4> QED
        BY <4>1, <4>3, <4>4
    <3> QED
      BY <3>1, <3>2, <3>3
  <2>4. sw[n] = bh[n] /\ sw[p] = bh[p]
    <3>1. p # sib /\ p # top
      BY <1>1, <1>3
    <3>2. sw[p] = bh[p] /\ sw[u.child[d][p]] = bh[t.child[d][p]]
      BY <1>1, <1>7, <3>1 DEF HeightsTurned
    <3> QED
      BY <1>1, <1>9, <3>2
  <2>5. sw[u.child[o][p]] = sw[n] + 1
    BY <1>9, <2>1, <2>4
  <2>6. sw[p] = sw[n] + 1 + Weight(u.red, p)
    <3>1. Weight(u.red, p) = Weight(t.red, p)
      BY <1>1, <1>3, <1>9 DEF Weight
    <3>2. bh[p] = bh[n] + 1 + Weight(t.red, p)
      BY <1>5 DEF Lacking
    <3> QED
      BY <2>4, <3>1, <3>2
  <2> QED
    BY <1>7, <2>3, <2>5, <2>6 DEF Lacking
<1>11. u.root \notin R
  <2>1. u.root = t.root
    BY <1>1, <1>7 DEF PaintTurned
  <2> QED
    BY <1>1, <2>1
<1>12. ASSUME NEW x \in R, u.up[x] \in R PROVE FALSE
  <2>1. u.up[sib] = top /\ top \notin R
    BY <1>3, <1>7 DEF PaintTurned
  <2>2. x # sib
    BY <1>12, <2>1
  <2>3. x \in t.red /\ x # top /\ x \in Session /\ x # inner
    BY <1>1, <1>3, <2>2
  <2>4. u.up[x] = t.up[x]
    BY <1>7, <2>2, <2>3 DEF PaintTurned
  <2>5. t.up[x] = sib \/ t.up[x] \in t.red
    BY <1>12, <2>4
  <2>6. t.up[x] = sib
    BY <1>2, <2>3, <2>5
  <2>7. \E e \in Side : t.child[e][t.up[x]] = x
    <3>1. t.up[x] # Null
      BY <1>1, <2>6
    <3> QED
      BY <2>3, <3>1, UpFacts
  <2>8. x = t.child[d][sib] \/ x = t.child[o][sib]
    BY <1>1, <2>6, <2>7
  <2> QED
    BY <2>3, <2>8
<1>13. n \notin R /\ top \notin R /\ sib \in R
  BY <1>1, <1>3
<1>14. Short(u, n, p, d)
  BY <1>1, <1>9, <1>10, <1>11, <1>12, <1>13 DEF Short
<1> QED
  <2>1. NephewOutside(t, u, q, pos, n, p, d, top)
    BY <1>7, <1>9, <1>13, <1>14 DEF NephewOutside
  <2> QED
    BY <2>1 DEF u

(* EraseRotate, the red nephew on the outside: the sibling goes up and     *)
(* takes the colour of the parent, parent and nephew turn black, nothing   *)
(* is missing any more.                                                    *)
LEMMA LastRotateColours ==
  ASSUME NEW t, NEW q, NEW pos, NEW bnd, Shape(t, q, pos, bnd),
         NEW n, NEW p, NEW d, Short(t, n, p, d),
         NEW sib, sib = t.child[Other(d)][p], sib \notin t.red,
         NEW outer, outer = t.child[Other(d)][sib], outer \in t.red,
         NEW keep \in SUBSET {sib}, sib \in keep <=> p \in t.red
  PROVE  LET u == Rotate(Paint(t, keep, {sib, p, outer} \ keep), p, d)
         IN  SameOrder(t, u, q, pos) /\ \A x : EraseColours(u, u.root, x)
<1> DEFINE o == Other(d)
           u == Rotate(Paint(t, keep, {sib, p, outer} \ keep), p, d)
           R == (t.red \ ({sib, p, outer} \ keep)) \cup keep
           inner == t.child[d][sib]
<1>1. /\ t \in TreeType /\ Null \notin Session
      /\ Nodes(t) \subseteq Session /\ t.red \subseteq Nodes(t)
      /\ \A x \in Session, e \in Side : t.child[e][x] \in Session \cup {Null}
      /\ d \in Side /\ o \in Side /\ o # d /\ Other(o) = d
      /\ \A e \in Side : e = d \/ e = o
      /\ p \in Nodes(t) /\ p \in Session
      /\ sib \in Nodes(t) /\ sib \in Session /\ sib # Null /\ sib # p /\ t.up[sib] = p
      /\ n \in Session \cup {Null} /\ n # p /\ n # sib /\ t.root # sib
      /\ t.child[d][p] = n /\ n \notin t.red /\ t.root \notin t.red
      /\ \A e \in Side : /\ t.child[e][sib] \in Session \cup {Null}
                         /\ t.child[e][sib] # sib /\ t.child[e][sib] # p
                         /\ t.child[e][sib] # n \/ n = Null
                         /\ t.child[e][sib] # Null => t.up[t.child[e][sib]] = sib
                                                      /\ t.child[e][sib] \in Nodes(t)
      /\ \A x \in t.red : t.up[x] = p => x = sib
  BY SiblingFacts
<1>2. \A x \in t.red : t.up[x] \notin t.red
  BY DEF Short
<1>5. PICK bh : Lacking(t, bh, n, p, d)
  BY DEF Short
<1>6. HeightMap(bh) /\ \A x \in Session \cup {Null} : bh[x] \in Nat
  BY <1>5 DEF Lacking, HeightMap
<1> DEFINE sw == Exchange(bh, p, sib)
           c == [sw EXCEPT ![outer] = bh[n] + 1]
<1>7. /\ SameOrder(t, u, q, pos)
      /\ PaintTurned(t, u, p, d, sib, R)
      /\ HeightMap(sw)
      /\ HeightsTurned(t, u, p, d, sib, bh, sw)
  <2>1. keep \subseteq Nodes(t)
    BY <1>1
  <2>2. /\ SameOrder(t, u, q, pos)
        /\ PaintTurned(t, u, p, d, sib, R)
    BY <1>1, <2>1, PaintTurn
  <2>3. HeightMap(sw) /\ HeightsTurned(t, u, p, d, sib, bh, sw)
    BY <1>1, <1>6, <2>1, PaintTurn
  <2> QED
    BY <2>2, <2>3
<1>a. Exchanged(bh, sw, p, sib)
  BY <1>1, <1>6, ExchangeIs
<1> HIDE DEF sw, u
<1>3. /\ outer \in Nodes(t) /\ outer \in Session /\ outer # sib /\ outer # p /\ t.up[outer] = sib
      /\ inner \in Session \cup {Null} /\ inner # outer /\ inner # p /\ inner # sib /\ outer # n
      /\ outer # Null
  <2>1. /\ outer \in Nodes(t) /\ outer \in Session /\ outer # sib /\ outer # p /\ t.up[outer] = sib
        /\ outer # Null
    BY <1>1
  <2>2. inner # outer
    <3>1. t.child[o][sib] = outer /\ outer # Null
      BY <2>1
    <3>2. t.child[Other(o)][sib] # outer
      BY <1>1, <3>1, KidFacts
    <3> QED
      BY <1>1, <3>2
  <2> QED
    BY <1>1, <2>1, <2>2
<1>4. PICK b2 : Shape(u, q, pos, b2)
  BY <1>7 DEF SameOrder
<1>8. /\ bh[sib] = bh[n] + 1 /\ bh[p] = bh[n] + 1 + Weight(t.red, p)
      /\ bh[inner] = bh[n] /\ bh[outer] = bh[n]
      /\ bh[n] \in Nat /\ Weight(t.red, p) \in {0, 1}
  <2>1. /\ bh[n] \in Nat /\ bh[sib] \in Nat /\ bh[inner] \in Nat /\ bh[outer] \in Nat
    BY <1>1, <1>3, <1>6
  <2>2. Weight(t.red, sib) = 1 /\ Weight(t.red, p) \in {0, 1}
    BY DEF Weight
  <2>3. bh[sib] = bh[inner] + Weight(t.red, sib) /\ bh[sib] = bh[outer] + Weight(t.red, sib)
    BY <1>1, <1>5 DEF Lacking
  <2>5. bh[sib] = bh[n] + 1 /\ bh[p] = bh[n] + 1 + Weight(t.red, p)
    BY <1>5 DEF Lacking
  <2> HIDE DEF inner
  <2> QED
    BY <2>1, <2>2, <2>3, <2>5
<1>9. /\ u.red = R /\ Nodes(u) = Nodes(t)
      /\ u.child[d][p] = n /\ u.child[o][p] = inner
      /\ u.child[d][sib] = p /\ u.child[o][sib] = outer
  BY <1>1, <1>7 DEF PaintTurned, SameOrder
<1>10. /\ p \notin R /\ outer \notin R /\ (sib \in R <=> p \in t.red)
       /\ \A x : x # sib /\ x # p /\ x # outer => (x \in R <=> x \in t.red)
  BY <1>1, <1>3
<1> HIDE DEF R
<1>11. /\ HeightMap(c) /\ c[outer] = bh[n] + 1
       /\ \A x \in Session \cup {Null} : x # outer => c[x] = sw[x]
       /\ \A m \in Nodes(u), e \in Side :
            c[u.child[e][m]] = IF u.child[e][m] = outer THEN bh[n] + 1 ELSE sw[u.child[e][m]]
       /\ \A m \in Nodes(u), e \in Side : u.child[e][m] = outer => m = sib
  <2>1. u.up[outer] = sib
    BY <1>3, <1>7 DEF PaintTurned
  <2>2. bh[n] + 1 \in Nat /\ outer \in Nodes(u)
    BY <1>3, <1>8, <1>9
  <2>4. /\ HeightMap(c) /\ c[outer] = bh[n] + 1
        /\ \A x \in Session \cup {Null} : x # outer => c[x] = sw[x]
        /\ \A m \in Nodes(u), e \in Side :
              c[u.child[e][m]] = IF u.child[e][m] = outer THEN bh[n] + 1 ELSE sw[u.child[e][m]]
        /\ \A m \in Nodes(u), e \in Side : u.child[e][m] = outer => m = u.up[outer] /\ m # outer
    <3>1. HeightMap(sw)
      BY <1>7
    <3> QED
      BY <1>4, <2>2, <3>1, ChangeHeight
  <2> QED
    BY <2>1, <2>4
<1> HIDE DEF c
<1>12. /\ c[p] = bh[n] + 1 /\ c[sib] = bh[n] + 1 + Weight(t.red, p)
       /\ c[n] = bh[n] /\ c[inner] = bh[n]
  <2>1. /\ sw[p] = bh[sib] /\ sw[sib] = bh[p]
        /\ sw[u.child[d][p]] = bh[n]
        /\ sw[u.child[o][p]] = bh[inner]
    BY <1>1, <1>7 DEF HeightsTurned
  <2>2. sw[n] = bh[n] /\ sw[inner] = bh[n] /\ sw[p] = bh[n] + 1 /\ sw[sib] = bh[n] + 1 + Weight(t.red, p)
    BY <1>8, <1>9, <2>1
  <2>3. /\ n \in Session \cup {Null} /\ n # outer /\ inner \in Session \cup {Null} /\ inner # outer
        /\ p \in Session \cup {Null} /\ p # outer /\ sib \in Session \cup {Null} /\ sib # outer
    BY <1>1, <1>3
  <2> HIDE DEF inner
  <2> QED
    BY <1>11, <2>2, <2>3
<1>13. ASSUME NEW m \in Nodes(u), NEW e \in Side
       PROVE  c[m] = c[u.child[e][m]] + Weight(R, m)
  <2>1. m \in Nodes(t) /\ m \in Session /\ (e = d \/ e = o)
    BY <1>1, <1>9
  <2>2. CASE m = p
    <3>1. Weight(R, m) = 1
      BY <1>10, <2>2 DEF Weight
    <3>2. u.child[e][m] = n \/ u.child[e][m] = inner
      BY <1>9, <2>1, <2>2
    <3> QED
      BY <1>8, <1>12, <2>2, <3>1, <3>2
  <2>3. CASE m = sib
    <3>1. Weight(R, m) = Weight(t.red, p)
      BY <1>10, <2>3 DEF Weight
    <3>2. u.child[e][m] = p \/ u.child[e][m] = outer
      BY <1>9, <2>1, <2>3
    <3>3. c[u.child[e][m]] = bh[n] + 1
      BY <1>11, <1>12, <3>2
    <3> QED
      BY <1>12, <2>3, <3>1, <3>3
  <2>4. CASE m # p /\ m # sib
    <3>1. sw[m] = bh[m] /\ sw[u.child[e][m]] = bh[t.child[e][m]]
      BY <1>7, <2>1, <2>4 DEF HeightsTurned
    <3>2. bh[m] = bh[t.child[e][m]] + Weight(t.red, m)
      BY <1>5, <2>1, <2>4 DEF Lacking
    <3>3. c[u.child[e][m]] = bh[t.child[e][m]]
      <4>1. u.child[e][m] # outer
        BY <1>11, <2>4
      <4>2. c[u.child[e][m]] = sw[u.child[e][m]]
        BY <1>11, <4>1
      <4> QED
        BY <3>1, <4>2
    <3>4. CASE m = outer
      <4>1. Weight(R, m) = 1 /\ Weight(t.red, m) = 0
        BY <1>10, <3>4 DEF Weight
      <4>2. bh[t.child[e][m]] \in Nat
        BY <1>1, <1>6, <2>1
      <4>3. bh[t.child[e][m]] = bh[n] /\ c[m] = bh[n] + 1
        <5>1. bh[outer] = bh[n] /\ bh[n] \in Nat
          BY <1>8
        <5>2. c[m] = bh[n] + 1
          BY <1>11, <3>4
        <5>3. bh[m] = bh[t.child[e][m]]
          BY <3>2, <4>1, <4>2
        <5> QED
          BY <3>4, <5>1, <5>2, <5>3
      <4> QED
        BY <1>8, <3>3, <4>1, <4>3
    <3>5. CASE m # outer
      <4>1. Weight(R, m) = Weight(t.red, m)
        BY <1>10, <2>4, <3>5 DEF Weight
      <4>2. c[m] = bh[m]
        BY <1>11, <2>1, <3>1, <3>5
      <4> QED
        BY <3>2, <3>3, <4>1, <4>2
    <3> QED
      BY <3>4, <3>5
  <2> QED
    BY <2>2, <2>3, <2>4
<1>14. Balanced(u, c, Null, Null)
  <2>1. \A m \in Nodes(u), e \in Side : c[m] = c[u.child[e][m]] + Weight(u.red, m)
    BY <1>9, <1>13
  <2> QED
    BY <1>11, <2>1 DEF Balanced
<1>15. ASSUME NEW x \in R, u.up[x] \in R PROVE FALSE
  <2>1. x # p /\ x # outer
    BY <1>10, <1>15
  <2>2. CASE x = sib
    <3>1. u.up[x] = t.up[p]
      BY <1>7, <2>2 DEF PaintTurned
    <3>2. p \in t.red
      BY <1>10, <1>15, <2>2
    <3>3. t.up[p] \notin t.red
      BY <1>2, <3>2
    <3>4. t.up[p] = sib \/ t.up[p] = p \/ t.up[p] = outer
      BY <1>10, <1>15, <3>1, <3>3
    <3>5. t.up[p] = sib
      BY <1>10, <1>15, <3>1, <3>4
    <3>6. \E e \in Side : t.child[e][t.up[p]] = p
      BY <1>1, <3>5, UpFacts
    <3> QED
      BY <1>1, <3>5, <3>6
  <2>3. CASE x # sib
    <3>1. x \in t.red /\ x \in Session
      BY <1>1, <1>10, <1>15, <2>1, <2>3
    <3>2. x # inner
      <4> SUFFICES ASSUME x = inner PROVE FALSE
        OBVIOUS
      <4>1. u.up[x] = p
        BY <1>3, <1>7, <3>1 DEF PaintTurned
      <4> QED
        BY <1>10, <1>15, <4>1
    <3>3. u.up[x] = t.up[x]
      BY <1>7, <2>1, <2>3, <3>1, <3>2 DEF PaintTurned
    <3>4. t.up[x] \notin t.red
      BY <1>2, <3>1
    <3>5. t.up[x] = sib
      BY <1>10, <1>15, <3>3, <3>4
    <3>6. \E e \in Side : t.child[e][t.up[x]] = x
      BY <1>1, <3>1, <3>5, UpFacts
    <3>7. x = inner \/ x = outer
      BY <1>1, <3>5, <3>6
    <3> QED
      BY <2>1, <3>2, <3>7
  <2> QED
    BY <2>2, <2>3
<1>16. RedsApart(u, u.root)
  BY <1>9, <1>15 DEF RedsApart
<1>17. \A x : EraseColours(u, u.root, x)
  BY <1>14, <1>16 DEF EraseColours
<1> QED
  BY <1>7, <1>17 DEF u

(* rb_erase of a node with at most one child.                              *)
LEMMA SpliceColours ==
  ASSUME NEW t, NEW q, NEW pos, NEW bnd, Shape(t, q, pos, bnd), Rested(t),
         NEW s \in Nodes(t), NEW m \in Side, t.child[m][s] = Null,
         NEW kid, kid = t.child[Other(m)][s]
  PROVE  /\ s \in t.red => Rested(SpliceTree(t, s, kid))
         /\ s \notin t.red => EraseColours(SpliceTree(t, s, kid), kid, t.up[s])
         /\ SpliceTree(t, s, kid).red = t.red \ {s}
<1> DEFINE u == SpliceTree(t, s, kid)
           above == t.up[s]
           w == SideOf(t, above, s)
<1>1. /\ t \in TreeType /\ Null \notin Session
      /\ Nodes(t) \subseteq Session /\ t.red \subseteq Nodes(t)
      /\ \A x \in Session, e \in Side : t.child[e][x] \in Session \cup {Null}
      /\ s \in Session /\ above \in Session \cup {Null}
  BY ShapeFacts DEF Linking, Nodes
<1>2. Other(m) \in Side /\ \A e \in Side : e = m \/ e = Other(m)
  BY Sides
<1>3. kid \in Session \cup {Null} /\ kid # s /\ (kid # Null => t.up[kid] = s /\ kid # t.root)
  <2>1. kid \in Session \cup {Null}
    BY <1>1, <1>2
  <2>2. kid # Null => kid # s /\ t.up[kid] = s /\ kid # t.root
    BY <1>2, KidFacts
  <2> QED
    BY <1>1, <2>1, <2>2
<1>4. above # s
  BY <1>1, UpFacts
<1>5. Spliced(t, u, s, kid, above)
  BY <1>1, <1>3, <1>4, SpliceIs DEF SpliceTree
<1>6. u.red = t.red \ {s}
  BY <1>1, <1>3, <1>4, SpliceFields DEF SpliceTree
<1>7. Nodes(u) = Nodes(t) \ {s}
  BY SpliceShape DEF OneKid
<1>8. PICK bh : Balanced(t, bh, Null, Null)
  BY DEF Rested
<1>9. HeightMap(bh) /\ \A x \in Session \cup {Null} : bh[x] \in Nat
  BY <1>8 DEF Balanced, HeightMap
<1> HIDE DEF u
<1>10. /\ \A x \in t.red : t.up[x] \notin t.red
       /\ t.root \notin t.red /\ t.root # Null
  <2>1. t.root # Null
    BY ShapeFacts DEF Linking
  <2>2. t.root \notin t.red
    BY <2>1 DEF Rested, RedsApart
  <2>3. ASSUME NEW x \in t.red, t.up[x] \in t.red PROVE FALSE
    <3>1. x = Null \/ t.up[x] = Null
      BY <2>3 DEF Rested, RedsApart
    <3> QED
      BY <1>1, <2>3, <3>1
  <2> QED
    BY <2>1, <2>2, <2>3
<1>11. above # Null =>
         /\ above \in Nodes(t) /\ above \in Session /\ w \in Side /\ t.child[w][above] = s
         /\ t.child[Other(w)][above] # s
  <2> SUFFICES ASSUME above # Null PROVE /\ above \in Nodes(t) /\ above \in Session /\ w \in Side /\ t.child[w][above] = s
                                         /\ t.child[Other(w)][above] # s
    OBVIOUS
  <2>1. above \in Nodes(t) /\ above \in Session /\ w \in Side /\ t.child[w][above] = s
    BY <1>1, ParentFacts
  <2>2. s # Null
    BY <1>1
  <2> QED
    BY <2>1, <2>2, KidFacts
<1>12. bh[s] = bh[kid] + Weight(t.red, s) /\ bh[kid] \in Nat
  BY <1>1, <1>2, <1>3, <1>8, <1>9 DEF Balanced
<1>13. ASSUME NEW x \in Nodes(u), NEW e \in Side
       PROVE  /\ Weight(u.red, x) = Weight(t.red, x)
              /\ bh[x] = bh[t.child[e][x]] + Weight(t.red, x)
              /\ u.child[e][x] = IF x = above /\ e = w THEN kid ELSE t.child[e][x]
  <2>1. x \in Nodes(t) /\ x \in Session /\ x # s
    BY <1>1, <1>7
  <2>2. Weight(u.red, x) = Weight(t.red, x)
    BY <1>6, <2>1 DEF Weight
  <2>3. bh[x] = bh[t.child[e][x]] + Weight(t.red, x)
    BY <1>1, <1>8, <2>1 DEF Balanced
  <2>4. u.child[e][x] = IF x = above /\ e = w THEN kid ELSE t.child[e][x]
    BY <1>5, <2>1 DEF Spliced
  <2> QED
    BY <2>2, <2>3, <2>4
<1>14. ASSUME s \in t.red \/ above = Null PROVE Balanced(u, bh, Null, Null)
  <2>1. ASSUME NEW x \in Nodes(u), NEW e \in Side
        PROVE  bh[x] = bh[u.child[e][x]] + Weight(u.red, x)
    <3>1. CASE x = above /\ e = w
      <4>1. above # Null /\ t.child[e][x] = s
        BY <1>1, <1>7, <1>11, <3>1
      <4>2. Weight(t.red, s) = 0
        BY <1>14, <4>1 DEF Weight
      <4>3. bh[s] = bh[kid] /\ u.child[e][x] = kid
        BY <1>12, <1>13, <3>1, <4>2
      <4> QED
        BY <1>13, <4>1, <4>3
    <3>2. CASE ~(x = above /\ e = w)
      <4>1. u.child[e][x] = t.child[e][x]
        BY <1>13, <3>2
      <4> QED
        BY <1>13, <4>1
    <3> QED
      BY <3>1, <3>2
  <2> QED
    BY <1>9, <2>1 DEF Balanced
<1>15. ASSUME s \notin t.red, above # Null PROVE Balanced(u, bh, kid, above)
  <2>1. /\ above \in Nodes(t) /\ above \in Session /\ w \in Side /\ t.child[w][above] = s
        /\ t.child[Other(w)][above] # s /\ above \in Nodes(u) /\ Other(w) \in Side /\ Other(w) # w
    <3>1. w \in Side
      BY <1>11, <1>15
    <3>2. Other(w) \in Side /\ Other(w) # w
      BY <3>1, Sides
    <3> QED
      BY <1>4, <1>7, <1>11, <1>15, <3>2
  <2>2. Weight(t.red, s) = 1
    BY <1>15 DEF Weight
  <2>3. u.child[w][above] = kid
    BY <1>13, <2>1
  <2> DEFINE y == t.child[Other(w)][above]
  <2>4. u.child[Other(w)][above] = y /\ y \in Session \cup {Null}
    BY <1>1, <1>13, <2>1
  <2>5. bh[above] = bh[s] + Weight(t.red, above) /\ bh[above] = bh[y] + Weight(t.red, above)
        /\ Weight(u.red, above) = Weight(t.red, above) /\ Weight(t.red, above) \in {0, 1}
    <3>1. bh[above] = bh[t.child[w][above]] + Weight(t.red, above)
      BY <1>13, <2>1
    <3>2. bh[above] = bh[y] + Weight(t.red, above)
      BY <1>13, <2>1
    <3>3. Weight(u.red, above) = Weight(t.red, above)
      BY <1>13, <2>1
    <3>4. Weight(t.red, above) \in {0, 1}
      BY DEF Weight
    <3> QED
      BY <2>1, <3>1, <3>2, <3>3, <3>4
  <2>6. bh[y] = bh[kid] + 1 /\ bh[above] = bh[kid] + 1 + Weight(u.red, above)
    <3>1. bh[y] \in Nat
      BY <1>9, <2>4
    <3> HIDE DEF y, above
    <3> QED
      BY <1>12, <2>2, <2>5, <3>1
  <2>7. ASSUME NEW x \in Nodes(u), NEW e \in Side, x # above
        PROVE  bh[x] = bh[u.child[e][x]] + Weight(u.red, x)
    <3>1. u.child[e][x] = t.child[e][x]
      BY <1>13, <2>7
    <3> QED
      BY <1>13, <3>1
  <2>8. /\ \E d \in Side : u.child[d][above] = kid /\ bh[u.child[Other(d)][above]] = bh[kid] + 1
        /\ bh[above] = bh[kid] + 1 + Weight(u.red, above)
    BY <2>1, <2>3, <2>4, <2>6
  <2> HIDE DEF above
  <2> QED
    BY <1>9, <2>1, <2>7, <2>8 DEF Balanced
<1>16. ASSUME NEW x \in u.red, u.up[x] \in u.red PROVE x = kid /\ above \in t.red
  <2>1. x \in t.red /\ x # s /\ x \in Session /\ u.up[x] \in t.red
    BY <1>1, <1>6, <1>16
  <2>2. u.up[x] = IF x = kid THEN above ELSE t.up[x]
    BY <1>5, <2>1 DEF Spliced
  <2>3. t.up[x] \notin t.red
    BY <1>10, <2>1
  <2> QED
    BY <2>1, <2>2, <2>3
<1>17. u.root = IF above = Null THEN kid ELSE t.root
  BY <1>5 DEF Spliced
<1>18. ASSUME s \in t.red PROVE Rested(u)
  <2>1. above \notin t.red
    BY <1>10, <1>18
  <2>2. above # Null
    <3>1. above = Null => s = t.root
      BY BoundFacts
    <3> QED
      BY <1>10, <1>18, <3>1
  <2>3. u.root \notin u.red
    BY <1>6, <1>10, <1>17, <2>2
  <2>4. RedsApart(u, Null)
    BY <1>16, <2>1, <2>3 DEF RedsApart
  <2> QED
    BY <1>14, <1>18, <2>4 DEF Rested
<1>19. ASSUME s \notin t.red PROVE EraseColours(u, kid, above)
  <2>1. RedsApart(u, kid)
    <3>1. u.root \in u.red => u.root = kid
      BY <1>6, <1>10, <1>17
    <3> QED
      BY <1>16, <3>1 DEF RedsApart
  <2>2. CASE above = Null
    <3>1. kid = u.root /\ Balanced(u, bh, Null, Null)
      BY <1>14, <1>17, <2>2
    <3> QED
      BY <2>1, <3>1 DEF EraseColours
  <2>3. CASE above # Null
    <3>1. kid # u.root
      BY <1>3, <1>10, <1>17, <2>3
    <3>2. Balanced(u, bh, kid, above)
      BY <1>15, <1>19, <2>3
    <3> QED
      BY <2>1, <2>3, <3>1, <3>2 DEF EraseColours
  <2> QED
    BY <2>2, <2>3
<1> QED
  BY <1>6, <1>18, <1>19 DEF u
----------------------------------------------------------------------------
(* u is v with h in the place of s, and with the colour of s.              *)
RenamedRed(v, u, s, h) ==
  /\ Renamed(v, u, s, h)
  /\ s \in Nodes(v) /\ h \in Session /\ h \notin Nodes(v)
  /\ Nodes(u) = (Nodes(v) \ {s}) \cup {h}
  /\ u.red \subseteq Nodes(u)
  /\ \A y \in Nodes(v) : y \in v.red <=> Ren(s, h, y) \in u.red

(* Renaming a node there and back.                                         *)
LEMMA RenFacts ==
  ASSUME NEW v, NEW q, NEW pos, NEW bnd, Shape(v, q, pos, bnd),
         NEW u, NEW s, NEW h, RenamedRed(v, u, s, h)
  PROVE  /\ Nodes(v) \subseteq Session /\ v.red \subseteq Nodes(v) /\ Null \notin Session
         /\ s \in Session /\ h # s
         /\ \A x \in Nodes(u) : /\ x \in Session /\ x # s
                                /\ Ren(h, s, x) \in Nodes(v) /\ Ren(h, s, x) # h
                                /\ Ren(s, h, Ren(h, s, x)) = x
                                /\ u.up[x] = Ren(s, h, v.up[Ren(h, s, x)])
                                /\ \A e \in Side : u.child[e][x] = Ren(s, h, v.child[e][Ren(h, s, x)])
                                /\ Weight(u.red, x) = Weight(v.red, Ren(h, s, x))
         /\ \A y \in Nodes(v) \cup {Null} : Ren(h, s, Ren(s, h, y)) = y /\ y # h
         /\ \A y \in Nodes(v) : /\ v.up[y] \in Nodes(v) \cup {Null}
                                /\ \A e \in Side : v.child[e][y] \in Nodes(v) \cup {Null}
         /\ Ren(s, h, Null) = Null
         /\ u.root = Ren(s, h, v.root) /\ v.root \in Nodes(v) \cup {Null}
<1>1. /\ Nodes(v) \subseteq Session /\ v.red \subseteq Nodes(v) /\ Null \notin Session
      /\ \A y \in Session : v.up[y] \in Session \cup {Null}
  BY ShapeFacts DEF Linking, Nodes
<1>2. /\ s \in Nodes(v) /\ h \in Session /\ h \notin Nodes(v) /\ s \in Session /\ h # s
      /\ Nodes(u) = (Nodes(v) \ {s}) \cup {h} /\ h # Null /\ s # Null
  BY <1>1 DEF RenamedRed
<1>3. ASSUME NEW x \in Nodes(u)
      PROVE  /\ x \in Session /\ x # s
             /\ Ren(h, s, x) \in Nodes(v) /\ Ren(h, s, x) # h
             /\ Ren(s, h, Ren(h, s, x)) = x
             /\ u.up[x] = Ren(s, h, v.up[Ren(h, s, x)])
             /\ \A e \in Side : u.child[e][x] = Ren(s, h, v.child[e][Ren(h, s, x)])
             /\ Weight(u.red, x) = Weight(v.red, Ren(h, s, x))
  <2>1. x \in Session /\ x # s
    BY <1>1, <1>2
  <2>2. Ren(h, s, x) \in Nodes(v) /\ Ren(h, s, x) # h /\ Ren(s, h, Ren(h, s, x)) = x
    BY <1>2, <2>1 DEF Ren
  <2>3. /\ u.up[x] = Ren(s, h, v.up[Ren(h, s, x)])
        /\ \A e \in Side : u.child[e][x] = Ren(s, h, v.child[e][Ren(h, s, x)])
    BY <2>1 DEF RenamedRed, Renamed
  <2>4. Ren(h, s, x) \in v.red <=> x \in u.red
    BY <2>2 DEF RenamedRed
  <2>5. Weight(u.red, x) = Weight(v.red, Ren(h, s, x))
    BY <2>4 DEF Weight
  <2> QED
    BY <2>1, <2>2, <2>3, <2>5
<1>4. ASSUME NEW y \in Nodes(v) \cup {Null}
      PROVE  Ren(h, s, Ren(s, h, y)) = y /\ y # h
  BY <1>1, <1>2 DEF Ren
<1>5. ASSUME NEW y \in Nodes(v)
      PROVE  /\ v.up[y] \in Nodes(v) \cup {Null}
             /\ \A e \in Side : v.child[e][y] \in Nodes(v) \cup {Null}
  <2>1. v.up[y] \in Nodes(v) \cup {Null}
    BY <1>1, UpFacts
  <2>2. \A e \in Side : v.child[e][y] # Null => v.child[e][y] \in Nodes(v)
    BY KidFacts
  <2> QED
    BY <2>1, <2>2
<1>6. Ren(s, h, Null) = Null
  BY <1>2 DEF Ren
<1>7. u.root = Ren(s, h, v.root)
  BY DEF RenamedRed, Renamed
<1>8. v.root \in Nodes(v) \cup {Null}
  BY RootFacts
<1> QED
  BY <1>1, <1>2, <1>3, <1>4, <1>5, <1>6, <1>7, <1>8

(* Renaming a node keeps the heights.                                      *)
LEMMA RenBalanced ==
  ASSUME NEW v, NEW q, NEW pos, NEW bnd, Shape(v, q, pos, bnd),
         NEW u, NEW s, NEW h, RenamedRed(v, u, s, h),
         NEW bh, NEW n \in Nodes(v) \cup {Null}, NEW p \in Nodes(v) \cup {Null}, Balanced(v, bh, n, p)
  PROVE  \E c : Balanced(u, c, Ren(s, h, n), Ren(s, h, p))
<1> DEFINE c == [x \in Session \cup {Null} |-> bh[Ren(h, s, x)]]
<1>1. /\ Nodes(v) \subseteq Session /\ v.red \subseteq Nodes(v) /\ Null \notin Session
      /\ s \in Session /\ h # s
      /\ \A x \in Nodes(u) : /\ x \in Session /\ x # s
                             /\ Ren(h, s, x) \in Nodes(v) /\ Ren(h, s, x) # h
                             /\ Ren(s, h, Ren(h, s, x)) = x
                             /\ u.up[x] = Ren(s, h, v.up[Ren(h, s, x)])
                             /\ \A e \in Side : u.child[e][x] = Ren(s, h, v.child[e][Ren(h, s, x)])
                             /\ Weight(u.red, x) = Weight(v.red, Ren(h, s, x))
      /\ \A y \in Nodes(v) \cup {Null} : Ren(h, s, Ren(s, h, y)) = y /\ y # h
      /\ \A y \in Nodes(v) : /\ v.up[y] \in Nodes(v) \cup {Null}
                             /\ \A e \in Side : v.child[e][y] \in Nodes(v) \cup {Null}
      /\ Ren(s, h, Null) = Null
      /\ u.root = Ren(s, h, v.root) /\ v.root \in Nodes(v) \cup {Null}
  BY RenFacts
<1>2. h \in Session
  BY DEF RenamedRed
<1>3. HeightMap(c)
  <2>1. bh \in [Session \cup {Null} -> Nat] /\ bh[Null] = 0
    BY DEF Balanced, HeightMap
  <2>2. \A x \in Session \cup {Null} : Ren(h, s, x) \in Session \cup {Null}
    BY <1>1 DEF Ren
  <2>3. c \in [Session \cup {Null} -> Nat]
    BY <2>1, <2>2
  <2>4. Ren(h, s, Null) = Null
    BY <1>1, <1>2 DEF Ren
  <2>5. c[Null] = 0
    BY <2>1, <2>4
  <2> QED
    BY <2>3, <2>5 DEF HeightMap
<1>4. \A y \in Nodes(v) \cup {Null} : c[Ren(s, h, y)] = bh[y]
  <2> TAKE y \in Nodes(v) \cup {Null}
  <2>1. Ren(s, h, y) \in Session \cup {Null}
    BY <1>1, <1>2 DEF Ren
  <2>2. Ren(h, s, Ren(s, h, y)) = y
    BY <1>1
  <2> QED
    BY <2>1, <2>2
<1> HIDE DEF c
<1>5. ASSUME NEW x \in Nodes(u), NEW e \in Side, x # Ren(s, h, p)
      PROVE  c[x] = c[u.child[e][x]] + Weight(u.red, x)
  <2> DEFINE y == Ren(h, s, x)
  <2>1. y \in Nodes(v) /\ x = Ren(s, h, y) /\ u.child[e][x] = Ren(s, h, v.child[e][y])
        /\ Weight(u.red, x) = Weight(v.red, y) /\ v.child[e][y] \in Nodes(v) \cup {Null}
    BY <1>1
  <2> HIDE DEF y
  <2>2. y # p
    BY <1>5, <2>1
  <2>3. bh[y] = bh[v.child[e][y]] + Weight(v.red, y)
    BY <2>1, <2>2 DEF Balanced
  <2>4. c[x] = bh[y] /\ c[u.child[e][x]] = bh[v.child[e][y]]
    BY <1>4, <2>1
  <2> QED
    BY <2>1, <2>3, <2>4
<1>6. ASSUME Ren(s, h, p) # Null
      PROVE  LET x == Ren(s, h, p)
             IN /\ x \in Nodes(u)
                /\ \E d \in Side : u.child[d][x] = Ren(s, h, n)
                                   /\ c[u.child[Other(d)][x]] = c[Ren(s, h, n)] + 1
                /\ c[x] = c[Ren(s, h, n)] + 1 + Weight(u.red, x)
  <2> DEFINE x == Ren(s, h, p)
  <2>1. p # Null /\ p \in Nodes(v)
    BY <1>1, <1>6
  <2>2. x \in Nodes(u)
    BY <2>1 DEF Ren, RenamedRed
  <2>3. Ren(h, s, x) = p
    BY <1>1
  <2>4. /\ \A e \in Side : u.child[e][x] = Ren(s, h, v.child[e][p])
        /\ Weight(u.red, x) = Weight(v.red, p)
    BY <1>1, <2>2, <2>3
  <2>5. PICK d \in Side : v.child[d][p] = n /\ bh[v.child[Other(d)][p]] = bh[n] + 1
    BY <2>1 DEF Balanced
  <2>6. bh[p] = bh[n] + 1 + Weight(v.red, p)
    BY <2>1 DEF Balanced
  <2>7. Other(d) \in Side
    BY Sides
  <2>8. v.child[Other(d)][p] \in Nodes(v) \cup {Null}
    BY <1>1, <2>1, <2>7
  <2>9. c[x] = bh[p] /\ c[Ren(s, h, n)] = bh[n] /\ c[Ren(s, h, v.child[Other(d)][p])] = bh[v.child[Other(d)][p]]
    BY <1>4, <2>8
  <2>10. u.child[d][x] = Ren(s, h, n) /\ c[u.child[Other(d)][x]] = c[Ren(s, h, n)] + 1
    BY <2>4, <2>5, <2>7, <2>9
  <2>11. c[x] = c[Ren(s, h, n)] + 1 + Weight(u.red, x)
    BY <2>4, <2>6, <2>9
  <2> QED
    BY <2>2, <2>10, <2>11
<1>7. Balanced(u, c, Ren(s, h, n), Ren(s, h, p))
  BY <1>3, <1>5, <1>6 DEF Balanced
<1> QED
  BY <1>7

(* Renaming a node keeps the reds apart.                                   *)
LEMMA RenReds ==
  ASSUME NEW v, NEW q, NEW pos, NEW bnd, Shape(v, q, pos, bnd),
         NEW u, NEW s, NEW h, RenamedRed(v, u, s, h),
         NEW n \in Nodes(v) \cup {Null}, RedsApart(v, n)
  PROVE  RedsApart(u, Ren(s, h, n))
<1>1. /\ Nodes(v) \subseteq Session /\ v.red \subseteq Nodes(v) /\ Null \notin Session
      /\ s \in Session /\ h # s
      /\ \A x \in Nodes(u) : /\ x \in Session /\ x # s
                             /\ Ren(h, s, x) \in Nodes(v) /\ Ren(h, s, x) # h
                             /\ Ren(s, h, Ren(h, s, x)) = x
                             /\ u.up[x] = Ren(s, h, v.up[Ren(h, s, x)])
                             /\ \A e \in Side : u.child[e][x] = Ren(s, h, v.child[e][Ren(h, s, x)])
                             /\ Weight(u.red, x) = Weight(v.red, Ren(h, s, x))
      /\ \A y \in Nodes(v) \cup {Null} : Ren(h, s, Ren(s, h, y)) = y /\ y # h
      /\ \A y \in Nodes(v) : /\ v.up[y] \in Nodes(v) \cup {Null}
                             /\ \A e \in Side : v.child[e][y] \in Nodes(v) \cup {Null}
      /\ Ren(s, h, Null) = Null
      /\ u.root = Ren(s, h, v.root) /\ v.root \in Nodes(v) \cup {Null}
  BY RenFacts
<1>2. /\ u.red \subseteq Nodes(u) /\ Nodes(u) \subseteq Session
      /\ \A y \in Nodes(v) : y \in v.red <=> Ren(s, h, y) \in u.red
  BY <1>1 DEF RenamedRed
<1>3. \A y \in Nodes(v) \cup {Null} : Ren(s, h, y) \in u.red => y \in v.red
  BY <1>1, <1>2
<1>4. ASSUME NEW x \in u.red, u.up[x] \in u.red
      PROVE  x = Ren(s, h, n) \/ u.up[x] = Ren(s, h, n)
  <2> DEFINE y == Ren(h, s, x)
  <2>1. y \in Nodes(v) /\ x = Ren(s, h, y) /\ u.up[x] = Ren(s, h, v.up[y])
        /\ v.up[y] \in Nodes(v) \cup {Null}
    BY <1>1, <1>2
  <2> HIDE DEF y
  <2>2. y \in v.red /\ v.up[y] \in v.red
    BY <1>3, <1>4, <2>1
  <2>3. y = n \/ v.up[y] = n
    BY <2>2 DEF RedsApart
  <2> QED
    BY <2>1, <2>3
<1>5. u.root \in u.red => u.root = Ren(s, h, n)
  <2>1. u.root \in u.red => v.root \in v.red
    BY <1>1, <1>3
  <2>2. v.root \in v.red => v.root = n
    BY DEF RedsApart
  <2> QED
    BY <1>1, <2>1, <2>2
<1> QED
  BY <1>4, <1>5 DEF RedsApart

(* The successor of a node taken out has its place and its colour.         *)
LEMMA RenColours ==
  ASSUME NEW v, NEW q, NEW pos, NEW bnd, Shape(v, q, pos, bnd),
         NEW u, NEW s, NEW h, RenamedRed(v, u, s, h)
  PROVE  /\ Rested(v) => Rested(u)
         /\ \A n, p \in Nodes(v) \cup {Null} :
              EraseColours(v, n, p) => EraseColours(u, Ren(s, h, n), Ren(s, h, p))
<1>1. /\ Ren(s, h, Null) = Null /\ Null \notin Session /\ Nodes(v) \subseteq Session
      /\ \A y \in Nodes(v) \cup {Null} : Ren(h, s, Ren(s, h, y)) = y
      /\ u.root = Ren(s, h, v.root) /\ v.root \in Nodes(v) \cup {Null}
  BY RenFacts
<1>2. ASSUME Rested(v) PROVE Rested(u)
  <2>1. PICK bh : Balanced(v, bh, Null, Null)
    BY <1>2 DEF Rested
  <2>2. \E c : Balanced(u, c, Ren(s, h, Null), Ren(s, h, Null))
    BY <2>1, RenBalanced
  <2>3. RedsApart(u, Ren(s, h, Null))
    BY <1>2, RenReds DEF Rested
  <2> QED
    BY <1>1, <2>2, <2>3 DEF Rested
<1>3. ASSUME NEW n \in Nodes(v) \cup {Null}, NEW p \in Nodes(v) \cup {Null}, EraseColours(v, n, p)
      PROVE  EraseColours(u, Ren(s, h, n), Ren(s, h, p))
  <2>1. RedsApart(u, Ren(s, h, n))
    BY <1>3, RenReds DEF EraseColours
  <2>2. CASE n = v.root /\ \E bh : Balanced(v, bh, Null, Null)
    <3>1. PICK bh : Balanced(v, bh, Null, Null)
      BY <2>2
    <3>2. \E c : Balanced(u, c, Ren(s, h, Null), Ren(s, h, Null))
      BY <3>1, RenBalanced
    <3> QED
      BY <1>1, <2>1, <2>2, <3>2 DEF EraseColours
  <2>3. CASE n # v.root /\ p # Null /\ \E bh : Balanced(v, bh, n, p)
    <3>1. PICK bh : Balanced(v, bh, n, p)
      BY <2>3
    <3>2. \E c : Balanced(u, c, Ren(s, h, n), Ren(s, h, p))
      BY <3>1, RenBalanced
    <3>3. Ren(s, h, n) # u.root
      BY <1>1, <2>3
    <3>4. Ren(s, h, p) # Null
      <4>1. Ren(h, s, Null) = Null
        BY <1>1
      <4> QED
        BY <1>1, <2>3, <4>1
    <3> QED
      BY <2>1, <3>2, <3>3, <3>4 DEF EraseColours
  <2> QED
    BY <1>3, <2>2, <2>3 DEF EraseColours
<1> QED
  BY <1>2, <1>3
----------------------------------------------------------------------------
(* Shape for some positions and intervals.                                 *)
Shaped(t, q) == \E pos, bnd : Shape(t, q, pos, bnd)

(* The colours that every value of pc promises.                            *)
Colours ==
  /\ pc \in {"idle", "add"} => Rested(tree)
  /\ pc = "insert" => InsertColours(tree, node)
  /\ pc = "erase" => EraseColours(tree, node, parent)
  /\ node \in Nodes(tree) \cup {Null}
  /\ parent \in Nodes(tree) \cup {Null}

(* The step leaves the nodes and their order.                              *)
Unmoved(q) == Nodes(tree') = Nodes(tree) /\ Shaped(tree', q)

(* SameOrder for an operator that is a step.                               *)
LEMMA SameOrderShaped ==
  ASSUME NEW t, NEW u, NEW q, NEW pos, SameOrder(t, u, q, pos)
  PROVE  Nodes(u) = Nodes(t) /\ Shaped(u, q)
BY DEF SameOrder, Shaped

(* Painting leaves the order.                                              *)
LEMMA PaintSameOrder ==
  ASSUME NEW t, NEW q, NEW pos, NEW bnd, Shape(t, q, pos, bnd), NEW A, NEW B,
         A \subseteq Nodes(t)
  PROVE  SameOrder(t, Paint(t, A, B), q, pos)
BY PaintShape DEF SameOrder

(* The colours after a step of the loop of rb_insert_color.                *)
LEMMA StillInsert ==
  ASSUME pc' = "insert", InsertColours(tree', node'), node' \in Nodes(tree'),
         parent' \in Nodes(tree') \cup {Null}
  PROVE  Colours'
BY DEF Colours

(* The end of the loop of rb_insert_color.                                 *)
LEMMA InsertDoneStep ==
  ASSUME NEW q, NEW pos, NEW bnd, Shape(tree, q, pos, bnd), Colours, InsertDone
  PROVE  Unmoved(q) /\ Colours'
<1>1. /\ pc = "insert" /\ ~IsRed(tree, tree.up[node])
      /\ tree' = Paint(tree, {}, {tree.root})
      /\ pc' = "idle" /\ node' = Null /\ parent' = parent
  BY DEF InsertDone
<1>2. InsertColours(tree, node) /\ tree \in TreeType
  BY <1>1, ShapeFacts DEF Colours
<1>3. tree.up[node] \notin tree.red
  BY <1>1, <1>2, RedIs
<1>4. Rested(tree')
  BY <1>1, <1>2, <1>3, InsertDoneColours
<1>5. Nodes(tree') = Nodes(tree) /\ Shaped(tree', q)
  BY <1>1, PaintSameOrder, SameOrderShaped
<1>6. Colours'
  BY <1>1, <1>4, <1>5 DEF Colours
<1> QED
  BY <1>5, <1>6 DEF Unmoved

(* A red uncle in the loop of rb_insert_color.                             *)
LEMMA InsertRecolourStep ==
  ASSUME NEW q, NEW pos, NEW bnd, Shape(tree, q, pos, bnd), Colours, InsertRecolour
  PROVE  Unmoved(q) /\ Colours'
<1> DEFINE p == tree.up[node]
           g == tree.up[p]
           k == tree.child[Other(SideOf(tree, g, p))][g]
<1>1. /\ pc = "insert" /\ IsRed(tree, p) /\ IsRed(tree, k)
      /\ tree' = Paint(tree, {g}, {k, p})
      /\ pc' = "insert" /\ node' = g /\ parent' = parent
  BY DEF InsertRecolour
<1>e. tree.up[node] = p /\ tree.up[p] = g /\ tree.child[Other(SideOf(tree, g, p))][g] = k
  OBVIOUS
<1> HIDE DEF p, g, k
<1>2. InsertColours(tree, node) /\ tree \in TreeType
  BY <1>1, ShapeFacts DEF Colours
<1>3. p \in tree.red /\ k \in tree.red
  BY <1>1, <1>2, RedIs
<1>a. RedPair(tree, node, p, g, SideOf(tree, g, p))
  BY <1>e, <1>2, <1>3 DEF RedPair
<1>4. g \in Nodes(tree)
  BY <1>a, InsertFacts
<1>5. InsertColours(tree', g)
  BY <1>e, <1>1, <1>3, <1>a, InsertRecolourColours
<1>6. Nodes(tree') = Nodes(tree) /\ Shaped(tree', q)
  <2>1. {g} \subseteq Nodes(tree)
    BY <1>4
  <2>2. SameOrder(tree, Paint(tree, {g}, {k, p}), q, pos)
    BY <2>1, PaintSameOrder
  <2> QED
    BY <1>1, <2>2, SameOrderShaped
<1>7. Colours'
  <2>1. parent' \in Nodes(tree') \cup {Null} /\ node' \in Nodes(tree')
    BY <1>1, <1>4, <1>6 DEF Colours
  <2>2. pc' = "insert" /\ InsertColours(tree', node')
    BY <1>1, <1>5
  <2> QED
    BY <2>1, <2>2, StillInsert
<1> QED
  BY <1>6, <1>7 DEF Unmoved

(* A black uncle in the loop of rb_insert_color.                           *)
LEMMA InsertRotateStep ==
  ASSUME NEW q, NEW pos, NEW bnd, Shape(tree, q, pos, bnd), Colours, InsertRotate
  PROVE  Unmoved(q) /\ Colours'
<1> DEFINE p == tree.up[node]
           g == tree.up[p]
           d == SideOf(tree, g, p)
           far == Rotate(Paint(tree, {g}, {p}), g, Other(d))
           near == Rotate(Paint(Rotate(tree, p, d), {g}, {node}), g, Other(d))
<1>1. /\ pc = "insert" /\ IsRed(tree, p) /\ ~IsRed(tree, tree.child[Other(d)][g])
      /\ tree.child[Other(d)][p] = node => tree' = near /\ node' = p
      /\ tree.child[Other(d)][p] # node => tree' = far /\ node' = node
      /\ pc' = "insert" /\ parent' = parent
  BY DEF InsertRotate
<1>e. tree.up[node] = p /\ tree.up[p] = g /\ SideOf(tree, g, p) = d
  OBVIOUS
<1> HIDE DEF p, g, d
<1>2. InsertColours(tree, node) /\ tree \in TreeType
  BY <1>1, ShapeFacts DEF Colours
<1>3. p \in tree.red /\ tree.child[Other(d)][g] \notin tree.red
  BY <1>1, <1>2, RedIs
<1>a. RedPair(tree, node, p, g, d)
  BY <1>e, <1>2, <1>3 DEF RedPair
<1>4. p \in Nodes(tree) /\ node \in Nodes(tree)
  BY <1>a, InsertFacts
<1>5. /\ tree.child[Other(d)][p] = node => SameOrder(tree, near, q, pos) /\ InsertColours(near, p)
      /\ tree.child[Other(d)][p] # node => SameOrder(tree, far, q, pos) /\ InsertColours(far, node)
  BY <1>3, <1>a, InsertRotateColours
<1> HIDE DEF far, near
<1>6. SameOrder(tree, tree', q, pos) /\ InsertColours(tree', node') /\ node' \in Nodes(tree)
  BY <1>1, <1>4, <1>5
<1>7. Nodes(tree') = Nodes(tree) /\ Shaped(tree', q)
  BY <1>6, SameOrderShaped
<1>8. Colours'
  <2>1. parent' \in Nodes(tree') \cup {Null} /\ node' \in Nodes(tree')
    BY <1>1, <1>6, <1>7 DEF Colours
  <2>2. pc' = "insert" /\ InsertColours(tree', node')
    BY <1>1, <1>6
  <2> QED
    BY <2>1, <2>2, StillInsert
<1> QED
  BY <1>7, <1>8 DEF Unmoved

(* The end of the loop of __rb_erase_color.                                *)
LEMMA EraseDoneStep ==
  ASSUME NEW q, NEW pos, NEW bnd, Shape(tree, q, pos, bnd), Colours, EraseDone
  PROVE  Unmoved(q) /\ Colours'
<1>1. /\ pc = "erase" /\ (IsRed(tree, node) \/ node = tree.root)
      /\ tree' = Paint(tree, {}, {node})
      /\ pc' = Resting(pending) /\ node' = Null /\ parent' = Null
  BY DEF EraseDone
<1>2. EraseColours(tree, node, parent) /\ tree \in TreeType
  BY <1>1, ShapeFacts DEF Colours
<1>3. node \in tree.red \/ node = tree.root
  BY <1>1, <1>2, RedIs
<1>4. Rested(tree')
  BY <1>1, <1>2, <1>3, EraseDoneColours
<1>5. Nodes(tree') = Nodes(tree) /\ Shaped(tree', q)
  BY <1>1, PaintSameOrder, SameOrderShaped
<1>6. pc' \in {"idle", "add"}
  BY <1>1 DEF Resting
<1>7. Colours'
  BY <1>1, <1>4, <1>5, <1>6 DEF Colours
<1> QED
  BY <1>5, <1>7 DEF Unmoved

(* Every turn of the loop starts with a black sibling.                     *)
LEMMA BlackSiblingIs ==
  ASSUME NEW q, NEW pos, NEW bnd, Shape(tree, q, pos, bnd), Colours, ErasePending,
         NEW d, d = SideOf(tree, parent, node)
  PROVE  /\ SameOrder(tree, BlackSibling, q, pos)
         /\ Short(BlackSibling, node, parent, d)
         /\ BlackSibling.child[Other(d)][parent] \notin BlackSibling.red
<1> DEFINE sib == tree.child[Other(d)][parent]
<1>1. /\ pc = "erase" /\ ~IsRed(tree, node) /\ node # tree.root
      /\ tree \in TreeType
  BY ShapeFacts DEF ErasePending
<1>2. EraseColours(tree, node, parent) /\ node \notin tree.red
  BY <1>1, RedIs DEF Colours
<1>3. Short(tree, node, parent, d)
  BY <1>1, <1>2, ShortIs
<1>4. IsRed(tree, sib) <=> sib \in tree.red
  BY <1>1, RedIs
<1>5. BlackSibling = IF IsRed(tree, sib) THEN Rotate(Paint(tree, {parent}, {sib}), parent, d) ELSE tree
  BY DEF BlackSibling
<1>6. CASE sib \in tree.red
  <2>1. BlackSibling = Rotate(Paint(tree, {parent}, {sib}), parent, d)
    BY <1>4, <1>5, <1>6
  <2>2. /\ SameOrder(tree, Rotate(Paint(tree, {parent}, {sib}), parent, d), q, pos)
        /\ Short(Rotate(Paint(tree, {parent}, {sib}), parent, d), node, parent, d)
        /\ Rotate(Paint(tree, {parent}, {sib}), parent, d).child[Other(d)][parent]
              \notin Rotate(Paint(tree, {parent}, {sib}), parent, d).red
    BY <1>3, <1>6, BlackSiblingColours
  <2> QED
    BY <2>1, <2>2
<1>7. CASE sib \notin tree.red
  <2>1. BlackSibling = tree
    BY <1>4, <1>5, <1>7
  <2>2. SameOrder(tree, tree, q, pos)
    BY DEF SameOrder
  <2> QED
    BY <1>3, <1>7, <2>1, <2>2
<1> QED
  BY <1>6, <1>7

(* Black nephews in the loop of __rb_erase_color.                          *)
LEMMA EraseRecolourStep ==
  ASSUME NEW q, NEW pos, NEW bnd, Shape(tree, q, pos, bnd), Colours, EraseRecolour
  PROVE  Unmoved(q) /\ Colours'
<1> DEFINE d == SideOf(tree, parent, node)
           t1 == BlackSibling
           sib == t1.child[Other(d)][parent]
<1>1. /\ ErasePending
      /\ \A e \in Side : ~IsRed(t1, t1.child[e][sib])
      /\ tree' = Paint(t1, {sib}, {})
      /\ node' = parent /\ parent' = t1.up[parent] /\ pc' = pc
  BY DEF EraseRecolour
<1>2. SameOrder(tree, t1, q, pos) /\ Short(t1, node, parent, d) /\ sib \notin t1.red
  BY <1>1, BlackSiblingIs
<1> HIDE DEF t1
<1>3. PICK b1 : Shape(t1, q, pos, b1)
  BY <1>2 DEF SameOrder
<1>4. t1 \in TreeType /\ parent \in Nodes(t1) /\ parent \in Session
  BY <1>2, <1>3, SiblingFacts
<1>5. \A e \in Side : t1.child[e][sib] \notin t1.red
  BY <1>1, <1>4, RedIs
<1>6. /\ SameOrder(t1, Paint(t1, {sib}, {}), q, pos)
      /\ EraseColours(Paint(t1, {sib}, {}), parent, t1.up[parent])
  BY <1>2, <1>3, <1>5, EraseRecolourColours
<1> HIDE DEF sib
<1>7. Nodes(tree') = Nodes(tree) /\ Nodes(t1) = Nodes(tree) /\ Shaped(tree', q)
  <2>1. Nodes(tree') = Nodes(t1) /\ Shaped(tree', q)
    BY <1>1, <1>6, SameOrderShaped
  <2> QED
    BY <1>2, <2>1 DEF SameOrder
<1>8. t1.up[parent] \in Nodes(t1) \cup {Null}
  BY <1>3, <1>4, UpFacts
<1>9. Colours'
  <2>1. pc' = "erase" /\ EraseColours(tree', node', parent')
    BY <1>1, <1>6 DEF ErasePending
  <2>2. node' \in Nodes(tree') \cup {Null} /\ parent' \in Nodes(tree') \cup {Null}
    BY <1>1, <1>4, <1>7, <1>8
  <2> QED
    BY <2>1, <2>2 DEF Colours
<1> QED
  BY <1>7, <1>9 DEF Unmoved

(* A red nephew in the loop of __rb_erase_color.                           *)
LEMMA EraseRotateStep ==
  ASSUME NEW q, NEW pos, NEW bnd, Shape(tree, q, pos, bnd), Colours, EraseRotate
  PROVE  Unmoved(q) /\ Colours'
<1> DEFINE d == SideOf(tree, parent, node)
           o == Other(d)
           t1 == BlackSibling
           sib == t1.child[o][parent]
           in == t1.child[d][sib]
           t2 == IF IsRed(t1, t1.child[o][sib]) THEN t1
                 ELSE Rotate(Paint(t1, {sib}, {in}), sib, o)
           top == t2.child[o][parent]
           keep == IF IsRed(t2, parent) THEN {top} ELSE {}
           outer == t2.child[o][top]
           u == Rotate(Paint(t2, keep, {top, parent, outer} \ keep), parent, d)
<1>1. /\ ErasePending
      /\ \E e \in Side : IsRed(t1, t1.child[e][sib])
      /\ tree' = u
      /\ node' = tree'.root /\ parent' = parent /\ pc' = pc
  BY DEF EraseRotate
<1>2. SameOrder(tree, t1, q, pos) /\ Short(t1, node, parent, d) /\ sib \notin t1.red
  BY <1>1, BlackSiblingIs
<1> HIDE DEF t1
<1>3. PICK b1 : Shape(t1, q, pos, b1)
  BY <1>2 DEF SameOrder
<1>4. t1 \in TreeType /\ d \in Side /\ o \in Side /\ \A e \in Side : e = d \/ e = o
  BY <1>2, <1>3, SiblingFacts
<1>5. \A x : IsRed(t1, x) <=> x \in t1.red
  BY <1>4, RedIs
<1> HIDE DEF d, t2
<1>6. /\ SameOrder(t1, t2, q, pos) /\ Short(t2, node, parent, d)
      /\ top \notin t2.red /\ outer \in t2.red
  <2>1. CASE t1.child[o][sib] \in t1.red
    <3>1. t2 = t1
      BY <1>5, <2>1 DEF t2
    <3>2. SameOrder(t1, t1, q, pos)
      BY <1>3 DEF SameOrder
    <3> QED
      BY <1>2, <2>1, <3>1, <3>2
  <2>2. CASE t1.child[o][sib] \notin t1.red
    <3>1. t2 = Rotate(Paint(t1, {sib}, {in}), sib, o)
      BY <1>5, <2>2 DEF t2
    <3>2. in \in t1.red
      BY <1>1, <1>4, <1>5, <2>2
    <3>3. NephewOutside(t1, t2, q, pos, node, parent, d, in)
      <4>1. NephewOutside(t1, Rotate(Paint(t1, {sib}, {in}), sib, o), q, pos, node, parent, d, in)
        BY <1>2, <1>3, <2>2, <3>2, NephewColours
      <4> QED
        BY <3>1, <4>1
    <3> QED
      BY <3>3 DEF NephewOutside
  <2> QED
    BY <2>1, <2>2
<1>7. PICK b2 : Shape(t2, q, pos, b2)
  BY <1>6 DEF SameOrder
<1>8. t2 \in TreeType /\ parent \in Nodes(t2)
  BY <1>6, <1>7, SiblingFacts
<1>9. keep \in SUBSET {top} /\ (top \in keep <=> parent \in t2.red)
  BY <1>8, RedIs
<1> HIDE DEF keep
<1>10. SameOrder(t2, u, q, pos) /\ \A x : EraseColours(u, u.root, x)
  BY <1>6, <1>7, <1>9, LastRotateColours
<1> HIDE DEF u
<1>11. Nodes(tree') = Nodes(t2) /\ Nodes(t2) = Nodes(tree) /\ Shaped(tree', q)
  <2>1. Nodes(tree') = Nodes(t2) /\ Shaped(tree', q)
    BY <1>1, <1>10, SameOrderShaped
  <2> QED
    BY <1>2, <1>6, <2>1 DEF SameOrder
<1>12. Colours'
  <2>1. pc' = "erase" /\ EraseColours(tree', node', parent')
    BY <1>1, <1>10 DEF ErasePending
  <2>2. parent' \in Nodes(tree') \cup {Null}
    BY <1>1, <1>8, <1>11
  <2>3. node' \in Nodes(tree') \cup {Null}
    <3>1. PICK p3, b3 : Shape(tree', q, p3, b3)
      BY <1>11 DEF Shaped
    <3>2. tree'.root # Null => tree'.root \in Nodes(tree')
      BY <3>1, RootFacts
    <3> QED
      BY <1>1, <3>2
  <2> QED
    BY <2>1, <2>2, <2>3 DEF Colours
<1> QED
  BY <1>11, <1>12 DEF Unmoved

(* The descent and rb_link_node: an insertion where the timestamp belongs, *)
(* and colours for rb_insert_color to mend.                                *)
LEMMA LinkStep ==
  ASSUME NEW q, NEW pos, NEW bnd, Shape(tree, q, pos, bnd), Sorted(q), Rested(tree),
         NEW s \in Session, s \notin Nodes(tree),
         NEW d \in Int, \A x \in Session : stamp[x] \in Int,
         parent \in Nodes(tree) \cup {Null},
         Link(s, d)
  PROVE  /\ Nodes(tree') = Nodes(tree) \cup {s}
         /\ \E k \in 1..Len(q)+1 : Gap(q, d, k) /\ Shaped(tree', Insertion(q, k, s))
         /\ Colours'
<1>1. /\ \/ tree.root = Null /\ LinkedFirst(tree, tree', s)
         \/ \E p \in Nodes(tree), e \in Side : tree.child[e][p] = Null /\ LinkedBelow(tree, tree', s, p, e)
      /\ Nodes(tree') = Nodes(tree) \cup {s}
      /\ \E k \in 1..Len(q)+1 :
           Gap(q, d, k) /\ \E pos2, b : Shape(tree', Insertion(q, k, s), pos2, b)
  BY LinkIs
<1>2. \E k \in 1..Len(q)+1 : Gap(q, d, k) /\ Shaped(tree', Insertion(q, k, s))
  BY <1>1 DEF Shaped
<1>3. InsertColours(tree', s)
  BY <1>1, LinkColours
<1>4. pc' = "insert" /\ node' = s /\ parent' = parent
  BY DEF Link
<1>5. Colours'
  BY <1>1, <1>3, <1>4 DEF Colours
<1> QED
  BY <1>1, <1>2, <1>5

(* What rb_erase leaves to its loop.                                       *)
Removal(out, s, q, k) ==
  /\ Nodes(out.tree) = Nodes(tree) \ {s}
  /\ Shaped(out.tree, Deletion(q, k))
  /\ out.black => EraseColours(out.tree, out.node, out.parent)
  /\ ~out.black => Rested(out.tree)
  /\ out.node \in Nodes(out.tree) \cup {Null}
  /\ out.parent \in Nodes(out.tree) \cup {Null}

(* rb_erase of a node with at most one child.                              *)
LEMMA SpliceOutStep ==
  ASSUME NEW q, NEW pos, NEW bnd, Shape(tree, q, pos, bnd), Rested(tree),
         NEW s \in Nodes(tree), Null \in {tree.child[d][s] : d \in Side}
  PROVE  Removal(SpliceOut(s), s, q, pos[s])
<1> DEFINE out == SpliceOut(s)
<1>1. /\ \E m \in Side : tree.child[m][s] = Null /\ out.node = tree.child[Other(m)][s]
      /\ out.tree = SpliceTree(tree, s, out.node)
      /\ out.parent = tree.up[s]
      /\ out.black = ~IsRed(tree, s)
      /\ Nodes(out.tree) = Nodes(tree) \ {s}
      /\ \E pos2, b : Shape(out.tree, Deletion(q, pos[s]), pos2, b)
  BY SpliceOutIs
<1> HIDE DEF out
<1>2. PICK m \in Side : tree.child[m][s] = Null /\ out.node = tree.child[Other(m)][s]
  BY <1>1
<1>3. tree \in TreeType /\ s \in Session /\ Null \notin Session /\ Other(m) \in Side
  BY ShapeFacts, Sides DEF Nodes
<1>4. out.black <=> s \notin tree.red
  BY <1>1, <1>3, RedIs
<1>5. /\ s \in tree.red => Rested(out.tree)
      /\ s \notin tree.red => EraseColours(out.tree, out.node, out.parent)
  <2>1. /\ s \in tree.red => Rested(SpliceTree(tree, s, out.node))
        /\ s \notin tree.red => EraseColours(SpliceTree(tree, s, out.node), out.node, tree.up[s])
    BY <1>2, SpliceColours
  <2> QED
    BY <1>1, <2>1
<1>6. out.node \in Nodes(out.tree) \cup {Null}
  <2>1. out.node # Null => out.node \in Nodes(tree) /\ out.node # s
    BY <1>2, <1>3, KidFacts
  <2> QED
    BY <1>1, <2>1
<1>7. out.parent \in Nodes(out.tree) \cup {Null}
  BY <1>1, <1>3, UpFacts
<1>8. Shaped(out.tree, Deletion(q, pos[s]))
  BY <1>1 DEF Shaped
<1>9. Removal(out, s, q, pos[s])
  BY <1>1, <1>4, <1>5, <1>6, <1>7, <1>8 DEF Removal
<1> QED
  BY <1>9 DEF out

(* rb_erase of a node with two children.                                   *)
LEMMA SwapOutStep ==
  ASSUME NEW q, NEW pos, NEW bnd, Shape(tree, q, pos, bnd), Rested(tree),
         NEW s \in Nodes(tree), Null \notin {tree.child[d][s] : d \in Side}
  PROVE  Removal(SwapOut(s), s, q, pos[s])
<1> DEFINE out == SwapOut(s)
           heir == Extreme(tree, "left", tree.child["right"][s])
           kid == tree.child["right"][heir]
           v == SpliceTree(tree, heir, kid)
<1>1. /\ heir \in Nodes(tree) /\ heir # s /\ tree.child["left"][heir] = Null
      /\ out.node = kid
      /\ out.parent = Ren(s, heir, tree.up[heir])
      /\ out.black = ~IsRed(tree, heir)
      /\ out.tree \in TreeType
      /\ out.tree.red = (IF IsRed(tree, s) THEN tree.red \cup {heir} ELSE tree.red \ {heir}) \ {s}
      /\ Renamed(SpliceTree(tree, heir, out.node), out.tree, s, heir)
      /\ Nodes(SpliceTree(tree, heir, out.node)) = Nodes(tree) \ {heir}
      /\ \E pv, bv : Shape(SpliceTree(tree, heir, out.node), Deletion(q, pos[heir]), pv, bv)
      /\ Nodes(out.tree) = Nodes(tree) \ {s}
      /\ \E pos2, b : Shape(out.tree, Deletion(q, pos[s]), pos2, b)
  BY SwapOutIs
<1>2. /\ kid \in Session \cup {Null} /\ kid # s /\ heir \in Session
  <2>1. tree.child["left"][s] # Null /\ tree.child["right"][s] # Null
    BY DEF Side
  <2>2. Around(tree, s, tree.child["left"][s], tree.child["right"][s], heir, kid, tree.up[heir], tree.up[s])
    BY <2>1 DEF Around
  <2> QED
    BY <2>2, SwapNodes
<1> HIDE DEF out, heir
<1>3. /\ tree \in TreeType /\ s \in Session /\ Null \notin Session /\ tree.red \subseteq Nodes(tree)
      /\ Nodes(tree) \subseteq Session
      /\ "left" \in Side /\ "right" \in Side /\ Other("left") = "right"
  BY ShapeFacts DEF Nodes, Side, Other, Linking
<1>4. /\ heir \in tree.red => Rested(v)
      /\ heir \notin tree.red => EraseColours(v, kid, tree.up[heir])
      /\ v.red = tree.red \ {heir}
  BY <1>1, <1>3, SpliceColours
<1>5. kid \in Nodes(tree) \cup {Null} /\ kid # heir /\ tree.up[heir] \in Nodes(tree) \cup {Null}
      /\ tree.up[heir] # heir
  <2>1. kid # Null => kid \in Nodes(tree) /\ kid # heir
    BY <1>1, <1>3, KidFacts
  <2>2. tree.up[heir] \in Nodes(tree) \cup {Null} /\ tree.up[heir] # heir
    BY <1>2, UpFacts
  <2> QED
    BY <1>2, <1>3, <2>1, <2>2
<1> HIDE DEF kid
<1>6. out.node = kid /\ Renamed(v, out.tree, s, heir) /\ Nodes(v) = Nodes(tree) \ {heir}
      /\ \E pv, bv : Shape(v, Deletion(q, pos[heir]), pv, bv)
  BY <1>1
<1> HIDE DEF v
<1>7. /\ IsRed(tree, s) <=> s \in tree.red
      /\ IsRed(tree, heir) <=> heir \in tree.red
  BY <1>3, RedIs
<1>8. RenamedRed(v, out.tree, s, heir)
  <2>1. Nodes(out.tree) = (Nodes(v) \ {s}) \cup {heir}
    BY <1>1, <1>6
  <2>2. out.tree.red \subseteq Nodes(out.tree)
    BY <1>1, <1>3
  <2>3. ASSUME NEW y \in Nodes(v) PROVE y \in v.red <=> Ren(s, heir, y) \in out.tree.red
    <3>1. y # heir /\ y \in Nodes(tree)
      BY <1>6
    <3>2. CASE y = s
      BY <1>1, <1>4, <1>7, <3>2 DEF Ren
    <3>3. CASE y # s
      BY <1>1, <1>4, <1>7, <3>1, <3>3 DEF Ren
    <3> QED
      BY <3>2, <3>3
  <2>4. s \in Nodes(v) /\ heir \notin Nodes(v)
    BY <1>1, <1>6
  <2> QED
    BY <1>2, <1>6, <2>1, <2>2, <2>3, <2>4 DEF RenamedRed
<1>9. /\ Rested(v) => Rested(out.tree)
      /\ \A n, p \in Nodes(v) \cup {Null} :
           EraseColours(v, n, p) => EraseColours(out.tree, Ren(s, heir, n), Ren(s, heir, p))
  BY <1>6, <1>8, RenColours
<1>10. kid \in Nodes(v) \cup {Null} /\ tree.up[heir] \in Nodes(v) \cup {Null} /\ Ren(s, heir, kid) = kid
  BY <1>2, <1>5, <1>6 DEF Ren
<1>11. /\ out.black => EraseColours(out.tree, out.node, out.parent)
       /\ ~out.black => Rested(out.tree)
  <2>1. out.black <=> heir \notin tree.red
    <3>1. out.black = ~IsRed(tree, heir)
      BY <1>1
    <3> QED
      BY <1>7, <3>1
  <2>2. heir \notin tree.red => EraseColours(out.tree, Ren(s, heir, kid), Ren(s, heir, tree.up[heir]))
    BY <1>4, <1>9, <1>10
  <2>3. Ren(s, heir, kid) = out.node /\ Ren(s, heir, tree.up[heir]) = out.parent
    BY <1>1, <1>6, <1>10
  <2>4. heir \notin tree.red => EraseColours(out.tree, out.node, out.parent)
    BY <2>2, <2>3
  <2>5. heir \in tree.red => Rested(out.tree)
    BY <1>4, <1>9
  <2> QED
    BY <2>1, <2>4, <2>5
<1>12. out.node \in Nodes(out.tree) \cup {Null}
  BY <1>1, <1>2, <1>5, <1>6
<1>13. out.parent \in Nodes(out.tree) \cup {Null}
  BY <1>1, <1>5 DEF Ren
<1>14. Shaped(out.tree, Deletion(q, pos[s]))
  BY <1>1 DEF Shaped
<1>15. Removal(out, s, q, pos[s])
  BY <1>1, <1>11, <1>12, <1>13, <1>14 DEF Removal
<1> QED
  BY <1>15 DEF out

(* rb_erase up to its loop: a deletion, and colours for __rb_erase_color   *)
(* to mend.                                                                *)
LEMMA UnlinkStep ==
  ASSUME NEW q, NEW pos, NEW bnd, Shape(tree, q, pos, bnd), Rested(tree),
         NEW s \in Nodes(tree), Unlink(s)
  PROVE  /\ Nodes(tree') = Nodes(tree) \ {s}
         /\ Shaped(tree', Deletion(q, pos[s]))
         /\ Colours'
<1> DEFINE out == IF Null \in {tree.child[d][s] : d \in Side} THEN SpliceOut(s) ELSE SwapOut(s)
<1>1. Removal(out, s, q, pos[s])
  BY SpliceOutStep, SwapOutStep
<1>2. /\ tree' = out.tree
      /\ pc' = IF out.black THEN "erase" ELSE Resting(pending')
      /\ node' = IF out.black THEN out.node ELSE Null
      /\ parent' = IF out.black THEN out.parent ELSE Null
  BY DEF Unlink
<1> HIDE DEF out
<1>3. Nodes(tree') = Nodes(tree) \ {s} /\ Shaped(tree', Deletion(q, pos[s]))
  BY <1>1, <1>2 DEF Removal
<1>4. Colours'
  <2>1. CASE out.black
    BY <1>1, <1>2, <2>1 DEF Removal, Colours
  <2>2. CASE ~out.black
    <3>1. pc' \in {"idle", "add"}
      BY <1>2, <2>2 DEF Resting
    <3>2. Rested(tree') /\ node' = Null /\ parent' = Null
      BY <1>1, <1>2, <2>2 DEF Removal
    <3> QED
      BY <3>1, <3>2 DEF Colours
  <2> QED
    BY <2>1, <2>2
<1> QED
  BY <1>3, <1>4

(* An insertion at its gap keeps the queue sorted.                         *)
LEMMA SortedInsertion ==
  ASSUME NEW q, NEW pos, NEW bnd, Shape(tree, q, pos, bnd), Sorted(q),
         NEW s \in Session, s \notin Nodes(tree), NEW d \in Int,
         \A x \in Session : stamp[x] \in Int,
         NEW k \in 1..Len(q)+1, Gap(q, d, k),
         NEW st, \A x \in Session : st[x] = IF x = s THEN d ELSE stamp[x]
  PROVE  LET r == Insertion(q, k, s)
         IN  \A i, j \in 1..Len(r) : i < j => st[r[i]] <= st[r[j]]
<1> DEFINE r == Insertion(q, k, s)
<1>1. /\ q \in Seq(Session) /\ Len(q) \in Nat /\ k \in Int
      /\ \A i \in 1..Len(q) : q[i] \in Session /\ q[i] # s
  BY ShapeFacts DEF Order
<1>2. Len(r) = Len(q) + 1
  <2>1. r \in [1..(Len(q) + 1) -> Session]
    <3>1. ASSUME NEW i \in 1..(Len(q) + 1)
          PROVE (CASE i < k -> q[i] [] i = k -> s [] i > k -> q[i - 1]) \in Session
      <4>1. CASE i < k
        BY <1>1, <4>1
      <4>2. CASE i = k
        BY <1>1, <4>2
      <4>3. CASE i > k
        <5>1. i - 1 \in 1..Len(q)
          BY <1>1, <4>3
        <5> QED
          BY <1>1, <4>3, <5>1
      <4> QED
        BY <1>1, <4>1, <4>2, <4>3
    <3> QED
      BY <3>1 DEF Insertion
  <2> QED
    BY <1>1, <2>1
<1>3. ASSUME NEW i \in 1..Len(q)+1
      PROVE  /\ i < k => r[i] = q[i] /\ i \in 1..Len(q)
             /\ i = k => r[i] = s
             /\ i > k => r[i] = q[i - 1] /\ i - 1 \in 1..Len(q)
  BY <1>1 DEF Insertion
<1> HIDE DEF r
<1>4. ASSUME NEW i \in 1..Len(r), NEW j \in 1..Len(r), i < j
      PROVE  st[r[i]] <= st[r[j]]
  <2>1. i \in 1..Len(q)+1 /\ j \in 1..Len(q)+1
    BY <1>2
  <2>2. \A a \in 1..Len(q) : st[q[a]] = stamp[q[a]] /\ stamp[q[a]] \in Int
    BY <1>1
  <2>3. st[s] = d
    OBVIOUS
  <2>4. /\ \A a, b \in 1..Len(q) : a < b => stamp[q[a]] <= stamp[q[b]]
        /\ \A a \in 1..k-1 : stamp[q[a]] < d
        /\ \A a \in k..Len(q) : d <= stamp[q[a]]
    BY DEF Sorted, Gap
  <2>5. CASE i < k /\ j < k
    BY <1>3, <1>4, <2>1, <2>2, <2>4, <2>5
  <2>6. CASE i < k /\ j = k
    <3>1. r[i] = q[i] /\ r[j] = s /\ i \in 1..Len(q) /\ i \in 1..k-1
      BY <1>1, <1>3, <2>1, <2>6
    <3> QED
      BY <2>2, <2>3, <2>4, <3>1
  <2>7. CASE i < k /\ j > k
    <3>1. r[i] = q[i] /\ r[j] = q[j - 1] /\ i \in 1..Len(q) /\ j - 1 \in 1..Len(q) /\ i < j - 1
      BY <1>1, <1>3, <2>1, <2>7
    <3> QED
      BY <2>2, <2>4, <3>1
  <2>8. CASE i = k
    <3>1. r[i] = s /\ r[j] = q[j - 1] /\ j - 1 \in 1..Len(q) /\ j - 1 \in k..Len(q)
      BY <1>1, <1>3, <1>4, <2>1, <2>8
    <3> QED
      BY <2>2, <2>3, <2>4, <3>1
  <2>9. CASE i > k
    <3>1. r[i] = q[i - 1] /\ r[j] = q[j - 1] /\ i - 1 \in 1..Len(q) /\ j - 1 \in 1..Len(q) /\ i - 1 < j - 1
      BY <1>1, <1>3, <1>4, <2>1, <2>9
    <3> QED
      BY <2>2, <2>4, <3>1
  <2>10. (i < k /\ j < k) \/ (i < k /\ j = k) \/ (i < k /\ j > k) \/ i = k \/ i > k
    BY <1>1, <2>1
  <2> QED
    BY <2>5, <2>6, <2>7, <2>8, <2>9, <2>10
<1> QED
  BY <1>4 DEF r

(* A deletion keeps the queue sorted.                                      *)
LEMMA SortedDeletion ==
  ASSUME NEW q \in Seq(Session), Sorted(q), NEW k \in 1..Len(q)
  PROVE  Sorted(Deletion(q, k))
<1> DEFINE r == Deletion(q, k)
<1>1. Len(q) \in Nat /\ k \in Int /\ Len(r) = Len(q) - 1
  BY DeletionLen
<1>2. ASSUME NEW i \in 1..Len(q)-1
      PROVE  \E a \in 1..Len(q) : r[i] = q[a] /\ a = IF i < k THEN i ELSE i + 1
  <2>1. CASE i < k
    BY <1>1, <2>1 DEF Deletion
  <2>2. CASE ~(i < k)
    <3>1. i + 1 \in 1..Len(q)
      BY <1>1
    <3> QED
      BY <2>2, <3>1 DEF Deletion
  <2> QED
    BY <2>1, <2>2
<1> HIDE DEF r
<1>3. ASSUME NEW i \in 1..Len(r), NEW j \in 1..Len(r), i < j
      PROVE  stamp[r[i]] <= stamp[r[j]]
  <2>1. i \in 1..Len(q)-1 /\ j \in 1..Len(q)-1
    BY <1>1
  <2>2. PICK a \in 1..Len(q) : r[i] = q[a] /\ a = IF i < k THEN i ELSE i + 1
    BY <1>2, <2>1
  <2>3. PICK b \in 1..Len(q) : r[j] = q[b] /\ b = IF j < k THEN j ELSE j + 1
    BY <1>2, <2>1
  <2>4. a < b
    BY <1>1, <1>3, <2>1, <2>2, <2>3
  <2> QED
    BY <2>2, <2>3, <2>4 DEF Sorted
<1>4. Sorted(r)
  BY <1>3 DEF Sorted
<1> QED
  BY <1>4 DEF r

(* A session is in the tree iff its node is linked.                        *)
LEMMA LinkedIs == Linked = Nodes(tree)
BY DEF Linked, Nodes
----------------------------------------------------------------------------
(* The update under way: its session is out of the tree.                   *)
Updating ==
  /\ stamp \in [Session -> Stamp]
  /\ pc \in {"idle", "insert", "erase", "add"}
  /\ pending \in {<<>>} \cup (Session \X Stamp)
  /\ pc \in {"idle", "insert"} => pending = <<>>
  /\ pc = "add" => pending # <<>>
  /\ pending # <<>> => pending[1] \notin Nodes(tree)

(* The tree lists its sessions as q, those due first in front.             *)
Ordered(q) == Shaped(tree, q) /\ Sorted(q)

(* The inductive invariant: where an update stands, the colours that the   *)
(* running loop promises, and a sorted search tree.                        *)
TreeInv ==
  /\ Updating
  /\ Colours
  /\ \E q : Ordered(q)

(* What a step does to the order.                                          *)
Inserts(q, q2) ==
  \E s \in Session, d \in Stamp, k \in 1..Len(q)+1 :
    /\ s \notin Nodes(tree) /\ Gap(q, d, k) /\ q2 = Insertion(q, k, s)
    /\ stamp' = [stamp EXCEPT ![s] = d]
Deletes(q, q2) ==
  \E s \in Session, k \in 1..Len(q) :
    q[k] = s /\ q2 = Deletion(q, k) /\ stamp' = stamp
Keeps(q, q2) == q2 = q /\ stamp' = stamp

(* What every step does: the invariant again, and one insertion, one       *)
(* deletion or nothing to the order.                                       *)
Turn(q) ==
  /\ Updating' /\ Colours'
  /\ \E q2 : Ordered(q2)' /\ (Inserts(q, q2) \/ Deletes(q, q2) \/ Keeps(q, q2))

(* Timestamps can be compared.                                             *)
LEMMA StampsInt == Updating => \A x \in Session : stamp[x] \in Int
BY TreeAssumption DEF Updating

(* The first half of an addition.                                          *)
LEMMA LinkTurn ==
  ASSUME Updating, Colours, NEW q, NEW pos, NEW bnd, Shape(tree, q, pos, bnd), Sorted(q),
         Rested(tree), NEW s \in Session, s \notin Nodes(tree), NEW d \in Stamp,
         Link(s, d), pending' = <<>>
  PROVE  Turn(q)
<1>1. d \in Int /\ \A x \in Session : stamp[x] \in Int
  BY StampsInt, TreeAssumption
<1>2. /\ Nodes(tree') = Nodes(tree) \cup {s}
      /\ \E k \in 1..Len(q)+1 : Gap(q, d, k) /\ Shaped(tree', Insertion(q, k, s))
      /\ Colours'
  <2>1. parent \in Nodes(tree) \cup {Null}
    BY DEF Colours
  <2> QED
    BY <1>1, <2>1, LinkStep
<1>3. stamp' = [stamp EXCEPT ![s] = d] /\ pc' = "insert"
  BY DEF Link
<1>4. PICK k \in 1..Len(q)+1 : Gap(q, d, k) /\ Shaped(tree', Insertion(q, k, s))
  BY <1>2
<1>5. \A x \in Session : stamp'[x] = IF x = s THEN d ELSE stamp[x]
  BY <1>3 DEF Updating
<1>6. Sorted(Insertion(q, k, s))'
  <2>1. LET r == Insertion(q, k, s)
        IN  \A i, j \in 1..Len(r) : i < j => stamp'[r[i]] <= stamp'[r[j]]
    BY <1>1, <1>4, <1>5, SortedInsertion
  <2> QED
    BY <2>1 DEF Sorted
<1>7. Inserts(q, Insertion(q, k, s))
  BY <1>3, <1>4 DEF Inserts
<1>8. Updating'
  <2>1. stamp' \in [Session -> Stamp]
    BY <1>3 DEF Updating
  <2> QED
    BY <1>3, <2>1 DEF Updating
<1>9. Ordered(Insertion(q, k, s))'
  BY <1>4, <1>6 DEF Ordered
<1> QED
  BY <1>2, <1>7, <1>8, <1>9 DEF Turn

(* The first half of a removal or an update.                               *)
LEMMA UnlinkTurn ==
  ASSUME Updating, Colours, NEW q, NEW pos, NEW bnd, Shape(tree, q, pos, bnd), Sorted(q),
         pc = "idle", NEW s \in Nodes(tree), Unlink(s),
         pending' = <<>> \/ \E d \in Stamp : pending' = <<s, d>>
  PROVE  Turn(q)
<1>1. Rested(tree)
  BY DEF Colours
<1>2. /\ Nodes(tree') = Nodes(tree) \ {s}
      /\ Shaped(tree', Deletion(q, pos[s]))
      /\ Colours'
  BY <1>1, UnlinkStep
<1>3. /\ q \in Seq(Session) /\ pos[s] \in 1..Len(q) /\ q[pos[s]] = s /\ s \in Session
  BY ShapeFacts DEF Order, Nodes
<1>4. stamp' = stamp /\ (pc' = "erase" \/ pc' = Resting(pending'))
  BY DEF Unlink
<1>5. Sorted(Deletion(q, pos[s]))'
  <2>1. Sorted(Deletion(q, pos[s]))
    BY <1>3, SortedDeletion
  <2> QED
    BY <1>4, <2>1 DEF Sorted
<1>6. Deletes(q, Deletion(q, pos[s]))
  BY <1>3, <1>4 DEF Deletes
<1>7. Updating'
  <2>1. stamp' \in [Session -> Stamp]
    BY <1>4 DEF Updating
  <2>2. CASE pending' = <<>>
    <3>1. pc' \in {"erase", "idle"}
      BY <1>4, <2>2 DEF Resting
    <3> QED
      BY <2>1, <2>2, <3>1 DEF Updating
  <2>3. ASSUME NEW d \in Stamp, pending' = <<s, d>> PROVE Updating'
    <3>1. pending' # <<>> /\ pending' \in Session \X Stamp /\ pending'[1] = s
      BY <1>3, <2>3
    <3>2. pc' \in {"erase", "add"}
      BY <1>4, <3>1 DEF Resting
    <3>3. pending'[1] \notin Nodes(tree')
      BY <1>2, <3>1
    <3> QED
      BY <2>1, <3>1, <3>2, <3>3 DEF Updating
  <2> QED
    BY <2>2, <2>3
<1>8. Ordered(Deletion(q, pos[s]))'
  BY <1>2, <1>5 DEF Ordered
<1> QED
  BY <1>2, <1>6, <1>7, <1>8 DEF Turn

(* A turn of a rebalancing loop.                                           *)
LEMMA LoopTurn ==
  ASSUME Updating, Colours, NEW q, NEW pos, NEW bnd, Shape(tree, q, pos, bnd), Sorted(q),
         \/ InsertDone \/ InsertRecolour \/ InsertRotate
         \/ EraseDone \/ EraseRecolour \/ EraseRotate
  PROVE  Turn(q)
<1>1. Unmoved(q) /\ Colours'
  BY InsertDoneStep, InsertRecolourStep, InsertRotateStep,
     EraseDoneStep, EraseRecolourStep, EraseRotateStep
<1>2. Nodes(tree') = Nodes(tree) /\ Shaped(tree', q)
  BY <1>1 DEF Unmoved
<1>3. stamp' = stamp /\ pending' = pending
  BY DEF InsertDone, InsertRecolour, InsertRotate, EraseDone, EraseRecolour, EraseRotate
<1>4. \/ pc = "insert" /\ pc' \in {"idle", "insert"}
      \/ pc = "erase" /\ pc' \in {"erase", Resting(pending)}
  BY DEF InsertDone, InsertRecolour, InsertRotate, EraseDone, EraseRecolour, EraseRotate,
         ErasePending
<1>5. Updating'
  <2>1. stamp' \in [Session -> Stamp] /\ pending' \in {<<>>} \cup (Session \X Stamp)
        /\ (pending' # <<>> => pending'[1] \notin Nodes(tree'))
    BY <1>2, <1>3 DEF Updating
  <2>2. /\ pc' \in {"idle", "insert", "erase", "add"}
        /\ pc' \in {"idle", "insert"} => pending' = <<>>
        /\ pc' = "add" => pending' # <<>>
    BY <1>3, <1>4 DEF Updating, Resting
  <2> QED
    BY <2>1, <2>2 DEF Updating
<1>6. Ordered(q)'
  <2>1. Sorted(q)'
    BY <1>3 DEF Sorted
  <2> QED
    BY <1>2, <2>1 DEF Ordered
<1>7. Keeps(q, q)
  BY <1>3 DEF Keeps
<1> QED
  BY <1>1, <1>5, <1>6, <1>7 DEF Turn

(* Every step, action by action.                                           *)
LEMMA TreeTurn ==
  ASSUME TreeInv, Next, NEW q, Ordered(q)
  PROVE  Turn(q)
<1>1. PICK pos, bnd : Shape(tree, q, pos, bnd)
  BY DEF Ordered, Shaped
<1>2. Updating /\ Colours /\ Sorted(q)
  BY DEF TreeInv, Ordered
<1>3. ASSUME NEW s \in Session, NEW d \in Stamp, AddHttpSessionTimeoutTreeNode(s, d)
      PROVE  Turn(q)
  <2>1. pc = "idle" /\ s \notin Nodes(tree) /\ Link(s, d) /\ pending' = pending
    BY <1>3, LinkedIs DEF AddHttpSessionTimeoutTreeNode
  <2>2. Rested(tree) /\ pending' = <<>>
    BY <1>2, <2>1 DEF Colours, Updating
  <2> QED
    BY <1>1, <1>2, <2>1, <2>2, LinkTurn
<1>4. CASE Relink
  <2>1. pc = "add" /\ Link(pending[1], pending[2]) /\ pending' = <<>>
    BY <1>4 DEF Relink
  <2>2. Rested(tree) /\ pending # <<>> /\ pending \in Session \X Stamp /\ pending[1] \notin Nodes(tree)
    BY <1>2, <2>1 DEF Colours, Updating
  <2>3. pending[1] \in Session /\ pending[2] \in Stamp
    BY <2>2
  <2> QED
    BY <1>1, <1>2, <2>1, <2>2, <2>3, LinkTurn
<1>5. ASSUME NEW s \in Session,
             \/ RemoveHttpSessionTimeoutTreeNode(s)
             \/ \E d \in Stamp : UpdateHttpSessionTimeoutTreeNode(s, d)
      PROVE  Turn(q)
  <2>1. /\ pc = "idle" /\ s \in Nodes(tree) /\ Unlink(s)
        /\ pending' = <<>> \/ \E d \in Stamp : pending' = <<s, d>>
    BY <1>5, LinkedIs DEF RemoveHttpSessionTimeoutTreeNode, UpdateHttpSessionTimeoutTreeNode
  <2> QED
    BY <1>1, <1>2, <2>1, UnlinkTurn
<1>6. CASE \/ InsertDone \/ InsertRecolour \/ InsertRotate
           \/ EraseDone \/ EraseRecolour \/ EraseRotate
  BY <1>1, <1>2, <1>6, LoopTurn
<1> QED
  BY <1>3, <1>4, <1>5, <1>6 DEF Next

(* The empty tree.                                                         *)
LEMMA TreeInit == Init => TreeInv /\ Shaped(tree, <<>>)
<1> SUFFICES ASSUME Init PROVE TreeInv /\ Shaped(tree, <<>>)
  OBVIOUS
<1>1. /\ tree = EmptyTree /\ stamp \in [Session -> Stamp]
      /\ pc = "idle" /\ node = Null /\ parent = Null /\ pending = <<>>
  BY DEF Init
<1>2. /\ tree.root = Null /\ tree.red = {} /\ tree \in TreeType
      /\ \A d \in Side, s \in Session : tree.child[d][s] = Null
      /\ \A s \in Session : tree.up[s] = Null
  <2>1. tree.child = [d \in Side |-> [s \in Session |-> Null]]
        /\ tree.up = [s \in Session |-> Null] /\ tree.red = {} /\ tree.root = Null
    BY <1>1 DEF EmptyTree
  <2> QED
    BY <1>1, <2>1 DEF EmptyTree, TreeType
<1>3. Nodes(tree) = {}
  BY <1>2, TreeAssumption DEF Nodes
<1>4. Linking(tree)
  BY <1>2, <1>3 DEF Linking
<1> DEFINE pos == [x \in Session |-> 0]
           bnd == [d \in Side |-> [x \in Session |-> 0]]
<1>5. Order(<<>>, pos, Nodes(tree))
  BY <1>3 DEF Order
<1>6. Bounded(tree, pos, bnd, Len(<<>>))
  BY <1>2, <1>3 DEF Bounded
<1>7. Shape(tree, <<>>, pos, bnd)
  BY <1>4, <1>5, <1>6 DEF Shape
<1> HIDE DEF pos, bnd
<1>8. Shaped(tree, <<>>)
  BY <1>7 DEF Shaped
<1>9. Sorted(<<>>)
  BY DEF Sorted
<1>10. Rested(tree)
  <2> DEFINE bh == [x \in Session \cup {Null} |-> 0]
  <2>1. HeightMap(bh)
    BY DEF HeightMap
  <2> HIDE DEF bh
  <2>2. Balanced(tree, bh, Null, Null)
    BY <1>3, <2>1 DEF Balanced
  <2>3. RedsApart(tree, Null)
    BY <1>2 DEF RedsApart
  <2> QED
    BY <2>2, <2>3 DEF Rested
<1>11. Colours
  BY <1>1, <1>10 DEF Colours
<1>12. Updating
  BY <1>1 DEF Updating
<1> QED
  BY <1>8, <1>9, <1>11, <1>12 DEF TreeInv, Ordered

(* No step breaks the invariant.                                           *)
LEMMA TreeNext == TreeInv /\ [Next]_vars => TreeInv'
<1> SUFFICES ASSUME TreeInv, [Next]_vars PROVE TreeInv'
  OBVIOUS
<1>1. PICK q : Ordered(q)
  BY DEF TreeInv
<1>2. CASE Next
  BY <1>1, <1>2, TreeTurn DEF Turn, TreeInv
<1>3. CASE UNCHANGED vars
  BY <1>3 DEF vars, TreeInv, Updating, Colours, Ordered, Shaped, Sorted
<1> QED
  BY <1>2, <1>3

(* In every reachable state, within a rebalancing loop too, the tree of    *)
(* rbtree.c is a search tree sorted by timestamp, and the colours are      *)
(* those the running loop promises.                                        *)
THEOREM TreeInvariant == Spec => []TreeInv
BY TreeInit, TreeNext, PTL DEF Spec
----------------------------------------------------------------------------
(* Types and double links.                                                 *)
LEMMA TypeFollows == TreeInv => TreeTypeOK
<1> SUFFICES ASSUME TreeInv PROVE TreeTypeOK
  OBVIOUS
<1>1. PICK q, pos, bnd : Shape(tree, q, pos, bnd)
  BY DEF TreeInv, Ordered, Shaped
<1>2. tree \in TreeType /\ Linking(tree) /\ Null \notin Session
  BY <1>1, ShapeFacts
<1>3. /\ tree.root \in Session \cup {Null}
      /\ tree.child \in [Side -> [Session -> Session \cup {Null}]]
      /\ tree.up \in [Session -> Session \cup {Null}]
  BY <1>2 DEF TreeType
<1>4. tree.red \subseteq Linked /\ (tree.root # Null => tree.up[tree.root] = Null)
  BY <1>2, LinkedIs DEF Linking
<1>5. /\ stamp \in [Session -> Stamp] /\ pc \in {"idle", "insert", "erase", "add"}
      /\ pending \in {<<>>} \cup (Session \X Stamp)
  BY DEF TreeInv, Updating
<1>6. {node, parent} \subseteq Linked \cup {Null}
  BY LinkedIs DEF TreeInv, Colours
<1>7. ASSUME NEW p \in Session, NEW c \in Session, tree.up[c] = p
      PROVE  \E d \in Side : tree.child[d][p] = c /\ tree.child[Other(d)][p] # c
  <2>1. tree.up[c] # Null /\ c # Null
    BY <1>2, <1>7
  <2>2. p \in Nodes(tree)
    BY <1>1, <1>7, <2>1, UpFacts
  <2>3. \E d \in Side : tree.child[d][tree.up[c]] = c
    BY <1>1, <2>1, UpFacts
  <2>4. PICK d \in Side : tree.child[d][p] = c
    BY <1>7, <2>3
  <2>5. tree.child[Other(d)][p] # c
    BY <1>1, <2>1, <2>2, <2>4, KidFacts
  <2> QED
    BY <2>4, <2>5
<1>8. ASSUME NEW p \in Session, NEW c \in Session, NEW d \in Side, tree.child[d][p] = c
      PROVE  tree.up[c] = p
  BY <1>2, <1>8 DEF Linking
<1> QED
  BY <1>3, <1>4, <1>5, <1>6, <1>7, <1>8 DEF TreeTypeOK

(* The first node is due first, so it answers for all.                     *)
LEMMA ExpiryFollows == TreeInv => ExpiryExact
<1> SUFFICES ASSUME TreeInv, NEW now \in Stamp
             PROVE  LET s == GetExpireHttpSessionTimeoutTreeNode(tree, now)
                    IN  IF s = Null THEN \A x \in Linked : stamp[x] > now
                        ELSE /\ s \in Linked /\ stamp[s] <= now
                             /\ \A x \in Linked : stamp[s] <= stamp[x]
  BY DEF ExpiryExact
<1>1. PICK q : Ordered(q)
  BY DEF TreeInv
<1>2. PICK pos, bnd : Shape(tree, q, pos, bnd)
  BY <1>1 DEF Ordered, Shaped
<1>3. /\ Null \notin Session /\ Len(q) \in Nat /\ Nodes(tree) \subseteq Session
      /\ \A i \in 1..Len(q) : q[i] \in Nodes(tree)
      /\ \A n \in Nodes(tree) : pos[n] \in 1..Len(q) /\ q[pos[n]] = n
  BY <1>2, ShapeFacts DEF Order, Nodes
<1>4. now \in Int /\ \A x \in Session : stamp[x] \in Int
  BY StampsInt, TreeAssumption DEF TreeInv
<1> DEFINE first == EndOf(tree, "left")
           s == GetExpireHttpSessionTimeoutTreeNode(tree, now)
<1>5. first = IF Len(q) = 0 THEN Null ELSE q[1]
  BY <1>2, EndOfIs
<1>6. s = IF first # Null /\ stamp[first] - now <= 0 THEN first ELSE Null
  BY DEF GetExpireHttpSessionTimeoutTreeNode
<1> HIDE DEF first, s
<1>7. CASE Len(q) = 0
  <2>1. s = Null
    BY <1>5, <1>6, <1>7
  <2>2. Nodes(tree) = {}
    BY <1>3, <1>7
  <2> QED
    BY <2>1, <2>2, LinkedIs DEF s
<1>8. CASE Len(q) # 0
  <2>1. first = q[1] /\ first \in Nodes(tree) /\ first # Null /\ stamp[first] \in Int
    BY <1>3, <1>4, <1>5, <1>8
  <2>2. \A x \in Nodes(tree) : stamp[first] <= stamp[x] /\ stamp[x] \in Int
    <3> TAKE x \in Nodes(tree)
    <3>1. pos[x] \in 1..Len(q) /\ q[pos[x]] = x /\ 1 \in 1..Len(q) /\ stamp[x] \in Int
      BY <1>3, <1>4, <1>8
    <3>2. 1 < pos[x] => stamp[q[1]] <= stamp[q[pos[x]]]
      BY <1>1, <3>1 DEF Ordered, Sorted
    <3>3. 1 = pos[x] => stamp[q[1]] <= stamp[x]
      BY <2>1, <3>1
    <3> QED
      BY <1>3, <2>1, <3>1, <3>2, <3>3
  <2>3. CASE stamp[first] - now <= 0
    <3>1. s = first /\ stamp[s] <= now /\ s # Null
      BY <1>4, <1>6, <2>1, <2>3
    <3>2. s \in Linked /\ \A x \in Linked : stamp[s] <= stamp[x]
      BY <2>1, <2>2, <3>1, LinkedIs
    <3> QED
      BY <3>1, <3>2 DEF s
  <2>4. CASE ~(stamp[first] - now <= 0)
    <3>1. s = Null
      BY <1>6, <2>4
    <3>2. \A x \in Linked : stamp[x] > now
      BY <1>4, <2>1, <2>2, <2>4, LinkedIs
    <3> QED
      BY <3>1, <3>2 DEF s
  <2> QED
    BY <2>3, <2>4
<1> QED
  BY <1>7, <1>8

(* There are as many nodes as places in the order.                         *)
LEMMA CountIs ==
  ASSUME NEW t, NEW q, NEW pos, NEW bnd, Shape(t, q, pos, bnd)
  PROVE  Cardinality(Nodes(t)) = Len(q)
<1>1. /\ q \in Seq(Session) /\ Len(q) \in Nat
      /\ \A i \in 1..Len(q) : q[i] \in Nodes(t) /\ pos[q[i]] = i
      /\ \A n \in Nodes(t) : pos[n] \in 1..Len(q) /\ q[pos[n]] = n
  BY ShapeFacts DEF Order
<1> DEFINE f == [i \in 1..Len(q) |-> q[i]]
<1>2. f \in Injection(1..Len(q), Nodes(t))
  <2>1. f \in [1..Len(q) -> Nodes(t)]
    BY <1>1
  <2>2. \A i, j \in 1..Len(q) : f[i] = f[j] => i = j
    BY <1>1
  <2> QED
    BY <2>1, <2>2 DEF Injection, IsInjective
<1>3. f \in Surjection(1..Len(q), Nodes(t))
  <2>1. f \in [1..Len(q) -> Nodes(t)]
    BY <1>1
  <2>2. \A n \in Nodes(t) : \E i \in 1..Len(q) : f[i] = n
    BY <1>1
  <2> QED
    BY <2>1, <2>2 DEF Surjection
<1>4. ExistsBijection(1..Len(q), Nodes(t))
  BY <1>2, <1>3 DEF ExistsBijection, Bijection
<1> QED
  BY <1>1, <1>4, FS_CountingElements

(* Both walks follow the order.                                            *)
LEMMA WalksFollow == TreeInv => WalksAgree
<1> SUFFICES ASSUME TreeInv PROVE WalksAgree
  OBVIOUS
<1>1. PICK q, pos, bnd : Shape(tree, q, pos, bnd)
  BY DEF TreeInv, Ordered, Shaped
<1>2. InOrder(tree) = q
  BY <1>1, InOrderIs
<1>3. Len(q) = Cardinality(Linked) /\ Len(q) \in Nat
  BY <1>1, CountIs, LinkedIs, ShapeFacts
<1>4. /\ EndOf(tree, "left") = IF Len(q) = 0 THEN Null ELSE q[1]
      /\ EndOf(tree, "right") = IF Len(q) = 0 THEN Null ELSE q[Len(q)]
  BY <1>1, EndOfIs
<1>5. ASSUME NEW i \in 1..Len(q)
      PROVE  /\ Step(tree, q[i], "right") = IF i = Len(q) THEN Null ELSE q[i + 1]
             /\ Step(tree, q[i], "left") = IF i = 1 THEN Null ELSE q[i - 1]
  <2>1. q[i] \in Nodes(tree) /\ pos[q[i]] = i
    BY <1>1, ShapeFacts DEF Order
  <2>2. \A d \in Side : Step(tree, q[i], d) = At(q, i + Way(d))
    BY <1>1, <2>1, StepIs
  <2>3. "left" \in Side /\ "right" \in Side /\ Way("right") = 1 /\ Way("left") = -1
    BY DEF Side, Way
  <2>4. Step(tree, q[i], "right") = At(q, i + 1) /\ Step(tree, q[i], "left") = At(q, i + -1)
    BY <2>2, <2>3
  <2>5. At(q, i + 1) = IF i = Len(q) THEN Null ELSE q[i + 1]
    BY <1>3 DEF At
  <2>6. At(q, i + -1) = IF i = 1 THEN Null ELSE q[i - 1]
    <3>1. i + -1 = i - 1
      OBVIOUS
    <3> QED
      BY <1>3, <3>1 DEF At
  <2> QED
    BY <2>4, <2>5, <2>6
<1> QED
  BY <1>2, <1>3, <1>4, <1>5 DEF WalksAgree

(* The heights at n from those of its children.                            *)
HeightsAbove(t, f, n) ==
  {h + (IF IsRed(t, n) THEN 0 ELSE 1) : h \in UNION {f[t.child[d][n]] : d \in Side}}

(* The definition of the function that BlackHeights applies.               *)
IsHeights(t, f) ==
  f = [n \in Session \cup {Null} |-> IF n = Null THEN {0} ELSE HeightsAbove(t, f, n)]

(* Children of one height make a node of one height.                       *)
LEMMA HeightsAboveOne ==
  ASSUME NEW t, NEW f, NEW n, NEW b \in Nat, NEW w,
         w = IF IsRed(t, n) THEN 0 ELSE 1,
         \A d \in Side : f[t.child[d][n]] = {b}
  PROVE  HeightsAbove(t, f, n) = {b + w}
<1> DEFINE I == {f[t.child[d][n]] : d \in Side}
<1>1. \A x : x \in UNION I <=> x = b
  <2> TAKE x
  <2>1. ASSUME x \in UNION I PROVE x = b
    <3>1. PICK y \in I : x \in y
      BY <2>1
    <3>2. PICK d \in Side : y = f[t.child[d][n]]
      BY <3>1
    <3> QED
      BY <3>1, <3>2
  <2>2. b \in f[t.child["left"][n]] /\ "left" \in Side
    BY DEF Side
  <2>3. f[t.child["left"][n]] \in I
    BY <2>2
  <2>4. b \in UNION I
    BY <2>2, <2>3
  <2> QED
    BY <2>1, <2>4
<1>2. UNION I = {b}
  <2> HIDE DEF I
  <2> QED
    BY <1>1
<1>3. HeightsAbove(t, f, n) = {h + w : h \in UNION I}
  BY DEF HeightsAbove
<1> HIDE DEF I
<1> QED
  BY <1>2, <1>3

(* All paths down the tree have the same number of black nodes.            *)
LEMMA HeightsAre ==
  ASSUME NEW t, NEW q, NEW pos, NEW bnd, Shape(t, q, pos, bnd),
         NEW bh, Balanced(t, bh, Null, Null)
  PROVE  BlackHeights(t) = {bh[t.root]}
<1> DEFINE g == [n \in Session \cup {Null} |-> IF n \in Nodes(t) \cup {Null} THEN {bh[n]} ELSE {1}]
           f == CHOOSE h : IsHeights(t, h)
<1>1. /\ t \in TreeType /\ Null \notin Session /\ Nodes(t) \subseteq Session /\ Linking(t)
      /\ t.red \subseteq Nodes(t)
      /\ \A x \in Session, e \in Side : t.child[e][x] \in Session \cup {Null}
      /\ "left" \in Side /\ "right" \in Side
  BY ShapeFacts DEF Nodes, Linking, Side
<1>2. \A n : IsRed(t, n) <=> n \in t.red
  BY <1>1, RedIs
<1>3. HeightMap(bh) /\ bh[Null] = 0 /\ \A x \in Session \cup {Null} : bh[x] \in Nat
  BY DEF Balanced, HeightMap
<1>4. ASSUME NEW n \in Nodes(t), NEW F, \A d \in Side : F[t.child[d][n]] = {bh[t.child[d][n]]}
      PROVE  HeightsAbove(t, F, n) = {bh[n]}
  <2> DEFINE w == IF IsRed(t, n) THEN 0 ELSE 1
             b == bh[t.child["left"][n]]
  <2>1. w = Weight(t.red, n)
    BY <1>2 DEF Weight
  <2>2. \A d \in Side : bh[n] = bh[t.child[d][n]] + w /\ bh[t.child[d][n]] \in Nat /\ w \in {0, 1}
    <3>1. ASSUME NEW d \in Side
          PROVE  bh[n] = bh[t.child[d][n]] + Weight(t.red, n) /\ bh[t.child[d][n]] \in Nat
      BY <1>1, <1>3 DEF Balanced
    <3> QED
      BY <2>1, <3>1
  <2>3. b \in Nat /\ bh[n] = b + w /\ \A d \in Side : bh[t.child[d][n]] = b
    <3>1. b \in Nat /\ bh[n] = b + w
      BY <1>1, <2>2
    <3>2. ASSUME NEW d \in Side PROVE bh[t.child[d][n]] = b
      <4>1. bh[n] = bh[t.child[d][n]] + w /\ bh[t.child[d][n]] \in Nat /\ w \in {0, 1}
        BY <2>2
      <4> HIDE DEF b, w
      <4> QED
        BY <3>1, <4>1
    <3> QED
      BY <3>1, <3>2
  <2>4. \A d \in Side : F[t.child[d][n]] = {b}
    BY <1>4, <2>3
  <2> HIDE DEF b
  <2>5. HeightsAbove(t, F, n) = {b + w}
    BY <2>3, <2>4, HeightsAboveOne
  <2> QED
    BY <2>3, <2>5
<1>5. IsHeights(t, g)
  <2>1. ASSUME NEW n \in Session \cup {Null}
        PROVE  g[n] = IF n = Null THEN {0} ELSE HeightsAbove(t, g, n)
    <3>1. CASE n = Null
      BY <1>3, <3>1
    <3>2. CASE n \in Nodes(t)
      <4>1. \A d \in Side : g[t.child[d][n]] = {bh[t.child[d][n]]}
        <5> TAKE d \in Side
        <5>1. t.child[d][n] \in Nodes(t) \cup {Null}
          BY <3>2, KidFacts
        <5>2. t.child[d][n] \in Session \cup {Null}
          BY <1>1, <5>1
        <5> QED
          BY <5>1, <5>2
      <4>2. g[n] = {bh[n]} /\ n # Null
        BY <1>1, <3>2
      <4> HIDE DEF g
      <4>3. HeightsAbove(t, g, n) = {bh[n]}
        BY <1>4, <3>2, <4>1
      <4> QED
        BY <4>2, <4>3
    <3>3. CASE n \notin Nodes(t) /\ n # Null
      <4>1. n \in Session /\ ~IsRed(t, n) /\ \A d \in Side : t.child[d][n] = Null
        BY <1>1, <1>2, <3>3 DEF Linking
      <4>2. g[Null] = {0} /\ g[n] = {1}
        BY <1>3, <3>3
      <4> HIDE DEF g
      <4>3. \A d \in Side : g[t.child[d][n]] = {0}
        BY <4>1, <4>2
      <4>4. HeightsAbove(t, g, n) = {0 + 1}
        BY <4>1, <4>3, HeightsAboveOne
      <4> QED
        BY <3>3, <4>2, <4>4
    <3> QED
      BY <3>1, <3>2, <3>3
  <2> DEFINE k == [n \in Session \cup {Null} |-> IF n = Null THEN {0} ELSE HeightsAbove(t, g, n)]
  <2>2. g = k
    BY <2>1
  <2> HIDE DEF g
  <2> QED
    BY <2>2 DEF IsHeights
<1>6. IsHeights(t, f)
  <2> HIDE DEF g
  <2> QED
    BY <1>5
<1>7. BlackHeights(t) = f[t.root]
  BY DEF BlackHeights, IsHeights, HeightsAbove
<1> HIDE DEF f, g
<1>8. f[Null] = {0} /\ \A n \in Session : f[n] = HeightsAbove(t, f, n)
  BY <1>1, <1>6 DEF IsHeights
<1> DEFINE S == {n \in Nodes(t) : f[n] # {bh[n]}}
<1>9. \A x \in S : \E e \in Side : t.child[e][x] \in S
  <2> SUFFICES ASSUME NEW x \in S, \A e \in Side : t.child[e][x] \notin S PROVE FALSE
    OBVIOUS
  <2>1. x \in Nodes(t) /\ x \in Session /\ f[x] # {bh[x]}
    BY <1>1
  <2>2. \A d \in Side : f[t.child[d][x]] = {bh[t.child[d][x]]}
    <3> TAKE d \in Side
    <3>1. t.child[d][x] \in Nodes(t) \cup {Null}
      BY <2>1, KidFacts
    <3> QED
      BY <1>3, <1>8, <3>1
  <2> QED
    BY <1>4, <1>8, <2>1, <2>2
<1>10. S = {}
  <2>1. S \in SUBSET Nodes(t)
    OBVIOUS
  <2> HIDE DEF S
  <2> QED
    BY <1>9, <2>1, WayDownEnds
<1>11. t.root \in Nodes(t) \cup {Null}
  BY RootFacts
<1>12. f[t.root] = {bh[t.root]}
  BY <1>3, <1>8, <1>10, <1>11
<1> QED
  BY <1>7, <1>12

(* At rest the colours are those of a red-black tree.                      *)
LEMMA RedBlackFollows == TreeInv => RedBlack
<1> SUFFICES ASSUME TreeInv, pc = "idle"
             PROVE  /\ ~IsRed(tree, tree.root)
                    /\ \A n \in tree.red : ~IsRed(tree, tree.up[n])
                    /\ Cardinality(BlackHeights(tree)) = 1
  BY DEF RedBlack
<1>1. PICK q, pos, bnd : Shape(tree, q, pos, bnd)
  BY DEF TreeInv, Ordered, Shaped
<1>2. Rested(tree) /\ tree \in TreeType /\ tree.red \subseteq Session /\ Null \notin Session
  BY <1>1, ShapeFacts DEF TreeInv, Colours, TreeType
<1>3. PICK bh : Balanced(tree, bh, Null, Null)
  BY <1>2 DEF Rested
<1>4. Cardinality(BlackHeights(tree)) = 1
  BY <1>1, <1>3, HeightsAre, FS_Singleton
<1>5. RedsApart(tree, Null)
  BY <1>2 DEF Rested
<1>6. tree.root \notin tree.red
  BY <1>2, <1>5 DEF RedsApart
<1>7. \A n \in tree.red : tree.up[n] \notin tree.red
  BY <1>2, <1>5 DEF RedsApart
<1> QED
  BY <1>2, <1>4, <1>6, <1>7, RedIs

(* The links of rbtree.c stay paired: the parent of a child is the node    *)
(* whose child it is, no node is the child of two, only linked nodes are   *)
(* red, and the loops look at linked nodes only.                           *)
THEOREM TreeCorrect == Spec => []TreeTypeOK
BY TreeInvariant, TypeFollows, PTL

(* GetExpireHttpSessionTimeoutTreeNode never overlooks a session that is   *)
(* due and returns none that is not: the first of those due longest, or    *)
(* none if nothing in the tree is due.                                     *)
THEOREM TreeExpiry == Spec => []ExpiryExact
BY TreeInvariant, ExpiryFollows, PTL

(* rb_next from rb_first and rb_prev from rb_last meet every node of the   *)
(* tree once, in opposite orders, whatever has been inserted and erased    *)
(* before.                                                                 *)
THEOREM TreeWalks == Spec => []WalksAgree
BY TreeInvariant, WalksFollow, PTL

(* Every rb_insert and every rb_erase leaves a red-black tree: a black     *)
(* root, no red child of a red node, and the same number of black nodes on *)
(* every path down.                                                        *)
THEOREM TreeRedBlack == Spec => []RedBlack
BY TreeInvariant, RedBlackFollows, PTL
----------------------------------------------------------------------------
(* What InOrder returns.                                                   *)
LEMMA OrderedIs == ASSUME NEW t, NEW q, Shaped(t, q) PROVE InOrder(t) = q
BY InOrderIs DEF Shaped

(* The empty tree is the empty queue.                                      *)
LEMMA QueueStarts == Init => Queue!QueueInit
<1> SUFFICES ASSUME Init PROVE Queue!QueueInit
  OBVIOUS
<1>1. InOrder(tree) = <<>>
  BY TreeInit, OrderedIs
<1>2. stamp \in [Session -> Stamp]
  BY DEF Init
<1> QED
  BY <1>1, <1>2 DEF Queue!QueueInit

(* A step of the tree is a step of the queue, or none.                     *)
LEMMA QueueSteps ==
  TreeInv /\ [Next]_vars => [Queue!QueueNext]_(Queue!queueVars)
<1> SUFFICES ASSUME TreeInv, [Next]_vars
             PROVE  Queue!QueueNext \/ (InOrder(tree)' = InOrder(tree) /\ stamp' = stamp)
  BY DEF Queue!queueVars
<1>1. CASE UNCHANGED vars
  <2>1. tree' = tree /\ stamp' = stamp
    BY <1>1 DEF vars
  <2>2. InOrder(tree)' = InOrder(tree)
    BY <2>1 DEF InOrder
  <2> QED
    BY <2>1, <2>2
<1>2. CASE Next
  <2>1. PICK q : Ordered(q)
    BY DEF TreeInv
  <2>2. Turn(q)
    BY <1>2, <2>1, TreeTurn
  <2>3. PICK q2 : Ordered(q2)' /\ (Inserts(q, q2) \/ Deletes(q, q2) \/ Keeps(q, q2))
    BY <2>2 DEF Turn
  <2>4. InOrder(tree) = q
    BY <2>1, OrderedIs DEF Ordered
  <2>5. Shaped(tree', q2)
    BY <2>3 DEF Ordered, Shaped, Shape, Linking, Order, Bounded, Nodes
  <2>6. InOrder(tree') = q2
    BY <2>5, OrderedIs
  <2>7. InOrder(tree)' = q2
    BY <2>6 DEF InOrder
  <2>8. Len(q) \in Nat /\ \A i \in 1..Len(q) : q[i] \in Nodes(tree)
    <3>1. PICK pos, bnd : Shape(tree, q, pos, bnd)
      BY <2>1 DEF Ordered, Shaped
    <3> QED
      BY <3>1, ShapeFacts DEF Order
  <2>9. DOMAIN q = 1..Len(q)
    <3>1. q \in Seq(Session)
      BY <2>1 DEF Ordered, Shaped, Shape, Order
    <3> QED
      BY <3>1
  <2>10. CASE Inserts(q, q2)
    <3>1. PICK s \in Session, d \in Stamp, k \in 1..Len(q)+1 :
            /\ s \notin Nodes(tree) /\ Gap(q, d, k) /\ q2 = Insertion(q, k, s)
            /\ stamp' = [stamp EXCEPT ![s] = d]
      BY <2>10 DEF Inserts
    <3>2. s \notin Queue!Queued
      BY <2>4, <2>8, <2>9, <3>1 DEF Queue!Queued
    <3>3. /\ \A i \in 1..(k - 1) : stamp[q[i]] < d
          /\ \A i \in k..Len(q) : d <= stamp[q[i]]
      BY <3>1 DEF Gap
    <3>4. q2 = Queue!InsertAt(k, s)
      BY <2>4, <3>1 DEF Insertion, Queue!InsertAt
    <3>5. Queue!Add(s, d)
      BY <2>4, <2>7, <3>1, <3>2, <3>3, <3>4 DEF Queue!Add
    <3> QED
      BY <3>5 DEF Queue!QueueNext
  <2>11. CASE Deletes(q, q2)
    <3>1. PICK s \in Session, k \in 1..Len(q) : q[k] = s /\ q2 = Deletion(q, k) /\ stamp' = stamp
      BY <2>11 DEF Deletes
    <3>2. q2 = Queue!DeleteAt(k)
      BY <2>4, <3>1 DEF Deletion, Queue!DeleteAt
    <3>3. Queue!Remove(s)
      BY <2>4, <2>7, <2>9, <3>1, <3>2 DEF Queue!Remove
    <3> QED
      BY <3>3 DEF Queue!QueueNext
  <2>12. CASE Keeps(q, q2)
    BY <2>4, <2>7, <2>12 DEF Keeps
  <2> QED
    BY <2>3, <2>10, <2>11, <2>12
<1> QED
  BY <1>1, <1>2

(* The red-black tree of HttpSessionTimeoutTree.c implements the queue of  *)
(* TimeoutQueue: linking a node inserts it behind all due earlier and in   *)
(* front of the others, taking one out deletes it, and nothing else        *)
(* changes the order that rb_first and rb_next show.                       *)
THEOREM TreeIsQueue == Spec => IsTimeoutQueue
<1>1. Init => Queue!QueueInit
  BY QueueStarts
<1>2. TreeInv /\ [Next]_vars => [Queue!QueueNext]_(Queue!queueVars)
  BY QueueSteps
<1> QED
  BY <1>1, <1>2, TreeInvariant, PTL DEF Spec, IsTimeoutQueue, Queue!QueueSpec

(* So the queue that the tree stands for is always made of sessions, with  *)
(* none queued twice and none in front of one due earlier.                 *)
LEMMA SortedFollows ==
  TreeInv => Queue!QueueTypeOK /\ Queue!NoDuplicates /\ Queue!Sorted
<1> SUFFICES ASSUME TreeInv
             PROVE  Queue!QueueTypeOK /\ Queue!NoDuplicates /\ Queue!Sorted
  OBVIOUS
<1>1. PICK q : Ordered(q)
  BY DEF TreeInv
<1>2. PICK pos, bnd : Shape(tree, q, pos, bnd)
  BY <1>1 DEF Ordered, Shaped
<1>3. InOrder(tree) = q
  BY <1>1, OrderedIs DEF Ordered
<1>4. /\ q \in Seq(Session) /\ DOMAIN q = 1..Len(q)
      /\ \A i \in 1..Len(q) : pos[q[i]] = i
  BY <1>2, ShapeFacts DEF Order
<1>5. Queue!QueueTypeOK
  BY <1>3, <1>4 DEF TreeInv, Updating, Queue!QueueTypeOK
<1>6. Queue!NoDuplicates
  <2>1. \A i, j \in DOMAIN q : q[i] = q[j] => i = j
    BY <1>4
  <2> QED
    BY <1>3, <2>1 DEF Queue!NoDuplicates
<1>7. Queue!Sorted
  <2>1. \A i, j \in DOMAIN q : i < j => stamp[q[i]] <= stamp[q[j]]
    BY <1>1, <1>4 DEF Ordered, Sorted
  <2> QED
    BY <1>3, <2>1 DEF Queue!Sorted
<1> QED
  BY <1>5, <1>6, <1>7

(* In every state of the tree its in-order walk is sorted by the time the  *)
(* sessions are due and meets no session twice (the descent of             *)
(* AddHttpSessionTimeoutTreeNode, lines 18-30).                            *)
THEOREM TreeStaysSorted ==
  Spec => [](Queue!QueueTypeOK /\ Queue!NoDuplicates /\ Queue!Sorted)
BY TreeInvariant, SortedFollows, PTL
=============================================================================
